\* One evaluation through either adapter, with a rival for the only permit.
CONSTANTS
  five = five  hour = hour  r1 = r1  r2 = r2  self = self
  NotANumber = NotANumber
  NoTime = NoTime
  None = None
  Unparsable = Unparsable
  Windows <- MCWindows
  Compliance = hour
  Rules <- MCRules
  Objective <- MCObjective
  StalenessLimit = 5
  Goroutines = {self, r1, r2}
  Self = self
  MaxConcurrency = 1
  RetryCount = 1
  Snapshots <- MCSnapshots
  FixtureMaps <- MCFixtureMaps
  Queries <- MCQueries
  MaxMoves = 1
SPECIFICATION FairSpec
INVARIANTS
  TypeOK
  PermitsConserved
  EachRateWasReal
  SteadyEvaluationIsExact
  EmptyOrOldIsFlagged
PROPERTIES
  EvaluationReturns
  QueriesReturn
