SPECIFICATION FairAPISpec
CONSTANTS
  NotANumber = NaN
  NoState = NoState
  s1 = s1
  s2 = s2
  c1 = c1
  SLOs <- TwoSLOs
  Callers = {c1}
  Observable = {"ALLOW"}
  Interval <- UnparsableBesidePositive
  HasAudit = FALSE
  StorageFaults = FALSE
  MaxTime = 0
  Group <- TwoSLOs
INVARIANTS APIInv AnswersCoverArrival
PROPERTIES RequestsAnswered
