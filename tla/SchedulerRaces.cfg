SPECIFICATION Spec
CONSTANTS
  NotANumber = NaN
  NoState = NoState
  s1 = s1
  s2 = s2
  c1 = c1
  c2 = c2
  SLOs <- OneSLO
  Callers = {c1, c2}
  Observable = {"ALLOW"}
  Interval <- AllPositive
  HasAudit = TRUE
  StorageFaults = TRUE
  MaxTime = 1
INVARIANTS IndInv
PROPERTIES RegressesOnlyIfForced KeepsLedger
SYMMETRY CallerSymmetry
