SPECIFICATION FairSpec
CONSTANTS
  NotANumber = NaN
  NoState = NoState
  s1 = s1
  s2 = s2
  c1 = c1
  c2 = c2
  SLOs <- TwoSLOs
  Callers = {c1}
  Observable = {"ALLOW", "BLOCK"}
  Interval <- NonpositiveBesidePositive
  HasAudit = FALSE
  StorageFaults = FALSE
  MaxTime = 0
INVARIANTS LoopsDrained
PROPERTIES StopTerminates CacheConverges
