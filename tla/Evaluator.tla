------------------------------ MODULE Evaluator ------------------------------
(***************************************************************************)
(* eval.Evaluator: one call of Evaluate for one SLO.  It collects the      *)
(* windows of the spec and, in the order a Go map gives them, queries the  *)
(* good and then the total events of each; one failed query fails the      *)
(* call.  From the measurements it computes the SLI, a burn rate per       *)
(* window, the error budget left and the two gating modifiers.             *)
(*                                                                         *)
(* The adapter answers from outside: GotGood, GotTotal and QueryFailed are *)
(* conjoined with its steps by Evaluation.  Events are counted in integers *)
(* (of any unit common to them, since only their ratios matter), and what  *)
(* is computed from them is an exact ratio: the rounding of float64 is     *)
(* left out.  A time is an age, counted back from the call's now.          *)
(***************************************************************************)
EXTENDS MetricsAdapter

CONSTANTS
  Windows,         \* the duration strings in use
  Compliance,      \* the spec's complianceWindow
  Rules,           \* the burn policy's rules, a sequence
  Objective,       \* the objective, a ratio
  StalenessLimit,  \* the staleness limit, or Unparsable
  Unparsable,      \* a count out of ParseDuration's range
  None             \* a window, or a result, not there yet

ASSUME EvaluatorAssumption ==
  /\ IsFiniteSet(Windows) /\ Compliance \in Windows
  /\ \A i \in DOMAIN Rules : {Rules[i].short, Rules[i].long} \subseteq Windows
  /\ Objective \in Ratios /\ Objective.num \in 0 .. Objective.den
  /\ StalenessLimit \in Int \cup {Unparsable} /\ Unparsable \notin Int

VARIABLES
  pc,             \* "idle", querying "good" or "total", "returned", "failed"
  asking,         \* the window under way
  todo,           \* the windows still to come
  goodMetrics,    \* what the good query of that window returned
  windowMetrics,  \* what was measured so far
  stale,          \* result.IsStale so far
  result          \* the EvaluationResult

evaluatorVars == <<pc, asking, todo, goodMetrics, windowMetrics, stale, result>>

\* collectWindows.
Collected ==
  {Compliance} \cup UNION {{Rules[i].short, Rules[i].long} : i \in DOMAIN Rules}

\* EvaluationResult.
Results ==
  [stale : BOOLEAN, insufficient : BOOLEAN, burnRates : [Collected -> Floats], budget : Floats]

ASSUME NoneAssumption == None \notin Results

----------------------------------------------------------------------------
(* The arithmetic of sli.go.  A NaN among the operands is passed on, and   *)
(* compares false.                                                         *)

Zero == Over(0, 1)

\* ComputeSLI's error rate: no traffic is no error, more good events than events
\* count as all of them, and beyond 1 (of a negative total, too) an SLI leaves none.
ErrorRate(good, total) ==
  IF total = 0 THEN Zero
  ELSE IF ~IsNumber(good) \/ ~IsNumber(total) THEN NotANumber
  ELSE IF good > total \/ total < 0 THEN Zero
  ELSE Over(total - good, total)

\* The error budget, 1 - objective, in units of 1 / Objective.den.
ErrorBudget == Objective.den - Objective.num

\* ComputeBurnRate: the error rate divided by the budget.
BurnRate(errorRate) ==
  IF ErrorBudget <= 0 THEN Zero
  ELSE IF ~IsNumber(errorRate) THEN NotANumber
  ELSE Over(errorRate.num * Objective.den, errorRate.den * ErrorBudget)

\* ComputeBudgetRemaining: what is consumed leaves between nothing and all of it.
BudgetRemaining(errorRate) ==
  IF ErrorBudget <= 0 THEN Zero
  ELSE IF ~IsNumber(errorRate) THEN NotANumber
  ELSE LET consumed == BurnRate(IF errorRate.num < 0 THEN Zero ELSE errorRate)
       IN  IF consumed.num > consumed.den THEN Zero
           ELSE IF consumed.num < 0 THEN Over(1, 1)
           ELSE Over(consumed.den - consumed.num, consumed.den)

\* "Prefer the newest timestamp among good/total".
NewerOf(x, y) ==
  IF x = NoTime THEN y ELSE IF y = NoTime THEN x ELSE IF x < y THEN x ELSE y

\* A window without any timestamp, and a limit that does not parse, are never
\* stale.
IsStale(age) == StalenessLimit # Unparsable /\ age # NoTime /\ age > StalenessLimit

\* Fault: only the compliance window is looked at for missing traffic.
LenientEvaluation(measured, isStale) ==
  LET errorRate(w) == ErrorRate(measured[w].good, measured[w].total)
  IN  [stale        |-> isStale,
       insufficient |-> measured[Compliance].total = 0,
       burnRates    |-> [w \in Collected |-> BurnRate(errorRate(w))],
       budget       |-> BudgetRemaining(errorRate(Compliance))]

\* What the call returns once every window is measured.
Evaluation(measured, isStale) ==
  LET errorRate(w) == ErrorRate(measured[w].good, measured[w].total)
  IN  [stale        |-> isStale,
       insufficient |-> \E w \in Collected : measured[w].total = 0,
       burnRates    |-> [w \in Collected |-> BurnRate(errorRate(w))],
       budget       |-> BudgetRemaining(errorRate(Compliance))]

----------------------------------------------------------------------------

NothingMeasured == [w \in Collected |-> None]

EvaluatorInit ==
  /\ pc = "idle"
  /\ asking = None /\ todo = {} /\ goodMetrics = None
  /\ windowMetrics = NothingMeasured /\ stale = FALSE
  /\ result = None

\* The call starts: the first window is whichever the map yields.
Evaluate ==
  /\ pc \in {"idle", "returned", "failed"}
  /\ pc' = "good"
  /\ asking' \in Collected /\ todo' = Collected \ {asking'}
  /\ result' = None
  /\ UNCHANGED <<goodMetrics, windowMetrics, stale>>

GotGood(measurement) ==
  /\ pc = "good"
  /\ pc' = "total"
  /\ goodMetrics' = measurement
  /\ UNCHANGED <<asking, todo, windowMetrics, stale, result>>

\* The call is over, and its locals are gone.
Ends(how) ==
  /\ pc' = how
  /\ asking' = None /\ todo' = {}
  /\ windowMetrics' = NothingMeasured /\ stale' = FALSE

\* Fault: the total of the good query is kept.
CombineGoodOnly(goodOnes, totalOnes) ==
  [goodOnes EXCEPT !.age = NewerOf(goodOnes.age, totalOnes.age)]

\* What is kept of a window's two measurements.
Combine(goodOnes, totalOnes) ==
  [good |-> goodOnes.good, total |-> totalOnes.total,
   age |-> NewerOf(goodOnes.age, totalOnes.age)]

\* Fault: the window stays to be queried.
GotTotalOnly(measurement) ==
  /\ pc = "total"
  /\ pc' = "good"
  /\ goodMetrics' = None
  /\ asking' \in todo \cup {asking} /\ todo' = todo
  /\ UNCHANGED <<windowMetrics, stale, result>>

\* The window is measured; the next one, or the result.
GotTotal(measurement) ==
  /\ pc = "total"
  /\ LET combined == Combine(goodMetrics, measurement)
         measured == [windowMetrics EXCEPT ![asking] = combined]
         isStale  == stale \/ IsStale(combined.age)
     IN  \/ /\ todo = {}
            /\ result' = Evaluation(measured, isStale)
            /\ Ends("returned")
         \/ /\ pc' = "good"
            /\ asking' \in todo /\ todo' = todo \ {asking'}
            /\ windowMetrics' = measured /\ stale' = isStale
            /\ UNCHANGED result
  /\ goodMetrics' = None

\* "return nil, fmt.Errorf(...)": whatever was measured is dropped.
QueryFailed ==
  /\ pc \in {"good", "total"}
  /\ goodMetrics' = None
  /\ Ends("failed")
  /\ UNCHANGED result

=============================================================================
