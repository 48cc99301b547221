SPECIFICATION FairServerSpec
CONSTANTS
  NotANumber = NaN
  NoState = NoState
  s1 = s1
  c1 = c1
  SLOs <- OneSLO
  Callers = {c1}
  Observable = {"ALLOW"}
  Interval <- AllPositive
  HasAudit = TRUE
  StorageFaults = FALSE
  MaxTime = 1
  Group <- OneSLO
INVARIANTS ServerInv LatestFollowsCache ServedIsRecorded LoopsEndBeforeClose CleanShutdownLosesNothing AnswersCoverArrival FreshUnlessContended
PROPERTIES ImplementsScheduler ShutdownCompletes
