SPECIFICATION Spec
CONSTANTS
  NotANumber = NaN
  Windows = {w5m, w1h}
  Thresholds <- MCThresholds
  Rates <- MCRates
  MaxRules = 2
INVARIANTS LoopInv DecisionIsVerdict ReasonsExplainDecision
PROPERTY NeverDeescalates
CHECK_DEADLOCK FALSE
