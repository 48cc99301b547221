----------------------------- MODULE Evaluation -----------------------------
(***************************************************************************)
(* An evaluation and the adapter it queries: goroutine Self evaluates an   *)
(* SLO, call after call, through one of the two adapters, while the other  *)
(* goroutines (loops of other SLOs, handlers) compete for the permits of   *)
(* the Prometheus adapter and the metrics move between the queries.        *)
(*                                                                         *)
(* What Prometheus holds is metrics: per window an answer to the good and  *)
(* to the total query.  A query that is answered gets the answer of that   *)
(* moment.                                                                 *)
(***************************************************************************)
EXTENDS PromAdapter, Evaluator

CONSTANTS
  Self,         \* the goroutine of the evaluation
  Snapshots,    \* what Prometheus may hold: good and total answers per window
  FixtureMaps,  \* fixtures the synthetic adapter may have
  Queries,      \* the good and the total query, as names of fixtures
  MaxMoves      \* bound: how often the metrics move within a call

ASSUME EvaluationAssumption ==
  /\ Self \in Goroutines
  /\ MaxMoves \in Nat
  /\ Snapshots \subseteq [Windows -> [good : Seq(Samples), total : Seq(Samples)]]
  /\ \A f \in FixtureMaps : \A name \in DOMAIN f : \A w \in DOMAIN f[name] :
       f[name][w] \in WindowMetrics

VARIABLES
  adapter,   \* "prometheus" or "synthetic": config.AdapterType
  fixtures,  \* synthetic.Adapter.fixtures
  metrics,   \* what Prometheus holds now
  past       \* history: what it held during the call, oldest first

envVars == <<adapter, fixtures, metrics, past>>
vars    == <<adapterVars, evaluatorVars, envVars>>

Asking == pc \in {"good", "total"}

----------------------------------------------------------------------------

Init ==
  /\ AdapterInit /\ EvaluatorInit
  /\ adapter \in {"prometheus", "synthetic"}
  /\ fixtures \in IF adapter = "synthetic" THEN FixtureMaps ELSE {NoFixtures}
  /\ metrics \in Snapshots
  /\ past = <<metrics>>

MetricsMove ==
  /\ adapter = "prometheus" /\ Asking
  /\ Len(past) <= MaxMoves
  /\ metrics' \in Snapshots \ {metrics}
  /\ past' = Append(past, metrics')
  /\ UNCHANGED <<adapterVars, evaluatorVars, adapter, fixtures>>

\* Since the last call the metrics may be anything.
EvaluationStarts ==
  /\ Evaluate
  /\ metrics' \in Snapshots
  /\ past' = <<metrics'>>
  /\ UNCHANGED <<adapterVars, adapter, fixtures>>

Got(measurement) == GotGood(measurement) \/ GotTotal(measurement)

\* Through the synthetic adapter a query is answered, or refused, on the spot.
AsksFixture ==
  /\ adapter = "synthetic" /\ Asking
  /\ IF FixtureFound(fixtures, Queries[pc], asking)
       THEN Got(FixtureMetrics(fixtures, Queries[pc], asking))
       ELSE QueryFailed
  /\ UNCHANGED <<adapterVars, envVars>>

AsksPrometheus ==
  /\ adapter = "prometheus" /\ Asking
  /\ QueryWindow(Self)
  /\ UNCHANGED <<evaluatorVars, envVars>>

QueryExpires == Expire(Self) /\ UNCHANGED <<evaluatorVars, envVars>>

QueryAnswered ==
  /\ Answered(Self)
  /\ Got(Measure(metrics[asking][pc]))
  /\ UNCHANGED envVars

\* A step that ends the query here ends it with an error.
QueryProceeds ==
  /\ Proceeds(Self)
  /\ IF phase'[Self] = "idle" THEN QueryFailed ELSE UNCHANGED evaluatorVars
  /\ UNCHANGED envVars

AttemptOfSelfFails ==
  /\ AttemptFails(Self)
  /\ IF phase'[Self] = "idle" THEN QueryFailed ELSE UNCHANGED evaluatorVars
  /\ UNCHANGED envVars

\* The queries of the others, whatever for.
Rival(g) ==
  /\ adapter = "prometheus"
  /\ QueryWindow(g) \/ Expire(g) \/ Proceeds(g) \/ AttemptFails(g) \/ Answered(g)
  /\ UNCHANGED <<evaluatorVars, envVars>>

Next ==
  \/ MetricsMove \/ EvaluationStarts
  \/ AsksFixture \/ AsksPrometheus
  \/ QueryExpires \/ QueryAnswered \/ QueryProceeds \/ AttemptOfSelfFails
  \/ \E g \in Goroutines \ {Self} : Rival(g)

\* A goroutine that does not wait for Prometheus goes on, and a deadline passes.
\* Nothing is assumed of Prometheus: it may leave every attempt hanging until the
\* deadline ends it, and of the rivals only that they finish what they start.
Fairness ==
  /\ WF_vars(\/ AsksFixture \/ AsksPrometheus \/ QueryExpires \/ QueryProceeds
             \/ (expired[Self] /\ AttemptOfSelfFails))
  /\ \A g \in Goroutines \ {Self} :
       WF_vars(Rival(g) /\ (Expire(g) \/ Proceeds(g) \/ (expired[g] /\ AttemptFails(g))))

Spec == Init /\ [][Next]_vars
FairSpec == Spec /\ Fairness

----------------------------------------------------------------------------

TypeOK ==
  /\ AdapterTypeOK
  /\ pc \in {"idle", "good", "total", "returned", "failed"}
  /\ Asking => asking \in Collected /\ windowMetrics[asking] = None
  /\ todo \subseteq Collected
  /\ pc = "total" => goodMetrics \in WindowMetrics
  /\ windowMetrics \in [Collected -> WindowMetrics \cup {None}]
  /\ stale \in BOOLEAN
  /\ (pc = "returned") = (result # None)
  /\ phase[Self] # "idle" => Asking /\ adapter = "prometheus"

\* Every burn rate a call returns was real: computed from the good events of one
\* instant of the call and the total events of the same or a later instant, for
\* its own window, whatever the order of the windows, the waits and the retries
\* (evaluator.go:57-92 with adapter.go:54-94).
EachRateWasReal ==
  pc = "returned" /\ adapter = "prometheus" =>
    /\ DOMAIN result.burnRates = Collected
    /\ \A w \in Collected : \E i, j \in DOMAIN past :
         /\ i <= j
         /\ result.burnRates[w] =
              BurnRate(ErrorRate(ScalarValue(past[i][w].good), ScalarValue(past[j][w].total)))

\* The bad events of a window reach the threshold's share of the events, said
\* without a division: (total - good) / total >= threshold * (1 - objective).
Burning(m, w, threshold) ==
  LET good  == ScalarValue(m[w].good)
      total == ScalarValue(m[w].total)
  IN  /\ IsNumber(good) /\ IsNumber(total) /\ total > 0
      /\ (total - good) * Objective.den * threshold.den >=
           threshold.num * (Objective.den - Objective.num) * total

RuleBurns(m, rule) == \A w \in {rule.short, rule.long} : Burning(m, w, rule.threshold)

TrafficMissing(m) == \E w \in Collected : ScalarValue(m[w].total) = 0

\* Of some window there is old data only.
DataStale(m) ==
  LET ages(w) == Ages(m[w].good) \cup Ages(m[w].total)
  IN  StalenessLimit # Unparsable /\
        \E w \in Collected : ages(w) # {} /\ \A age \in ages(w) : age > StalenessLimit

\* When the metrics do not move during a call, the rules that trigger on its
\* result, its modifiers and its budget are those of the metrics: neither the
\* arithmetic of sli.go and its clamps, nor the choice of one timestamp per window,
\* nor the order of the queries adds or loses anything.  A sum that is NaN burns
\* nothing here, as in engine.go:87; that this leads to ALLOW is refuted where it
\* is decided (PolicyEngine's NeverAllowUnknown).
SteadyEvaluationIsExact ==
  pc = "returned" /\ adapter = "prometheus" /\ Len(past) = 1 =>
    LET m == past[1]
        budget == result.budget
    IN  /\ \A i \in DOMAIN Rules :
             Triggered(Rules[i], result.burnRates) <=> RuleBurns(m, Rules[i])
        /\ result.insufficient <=> TrafficMissing(m)
        /\ result.stale <=> DataStale(m)
        /\ IsNumber(budget) => budget.num \in 0 .. budget.den
        /\ IsNumber(budget) /\ budget.num = 0 <=> Burning(m, Compliance, Over(1, 1))

\* In every window the call got a total whose series are there and do not add up to
\* nothing, and a timestamp, of good or total events, within the limit.
RestsOnTraffic ==
  \A w \in Collected : \E i, j \in DOMAIN past :
    /\ past[j][w].total # <<>> /\ ScalarValue(past[j][w].total) # 0
    /\ StalenessLimit # Unparsable =>
         \E age \in Ages(past[i][w].good) \cup Ages(past[j][w].total) :
           age <= StalenessLimit

\* No window without traffic, and none with old data only, gets past the two
\* modifiers, whichever windows the rules share, in whatever order they are queried
\* and while the metrics move (evaluator.go:69-97, 118-121).  It is less than data
\* fit to be allowed: one recent timestamp vouches for the whole window (so
\* evaluator.go:69-70 intends), so that a dead series beside a live one passes, and
\* so does a sum that is NaN.
EmptyOrOldIsFlagged ==
  pc = "returned" /\ adapter = "prometheus" /\ ~result.stale /\ ~result.insufficient =>
    RestsOnTraffic

\* An evaluation ends although Prometheus may never answer and other queries hold
\* the permits: a query waits, sleeps and tries within one deadline
\* (adapter.go:61-94).  Scheduler assumes as much of its Evaluate.
EvaluationReturns == Asking ~> pc \in {"returned", "failed"}

\* So does every query of the others: a permit is never kept for good.
QueriesReturn == \A g \in Goroutines : phase[g] # "idle" ~> phase[g] = "idle"

=============================================================================
