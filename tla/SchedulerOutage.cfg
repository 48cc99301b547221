SPECIFICATION FairSpec
CONSTANTS
  NotANumber = NaN
  NoState = NoState
  s1 = s1
  s2 = s2
  c1 = c1
  c2 = c2
  SLOs <- OneSLO
  Callers = {}
  Observable = {"ALLOW"}
  Interval <- AllPositive
  HasAudit = FALSE
  StorageFaults = FALSE
  MaxTime = 0
PROPERTIES OutageLeadsToWarn
