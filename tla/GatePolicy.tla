----------------------------- MODULE GatePolicy -----------------------------
(***************************************************************************)
(* The decisions of AegisSLO's gate and the meaning of one burn rate rule  *)
(* (internal/policy).  A float64 is a ratio of integers, compared exactly, *)
(* or NotANumber: the burn rate ComputeBurnRate returns when Prometheus    *)
(* answers NaN.  IEEE comparisons with NaN are false, so NotANumber        *)
(* reaches no threshold.                                                   *)
(***************************************************************************)
EXTENDS Integers

CONSTANT NotANumber

Ratios == [num : Int, den : Nat \ {0}]

ASSUME NaNAssumption == NotANumber \notin Int \cup Ratios

Floats == Ratios \cup {NotANumber}

IsNumber(x) == x # NotANumber

Over(num, den) == [num |-> num, den |-> den]

\* x >= y, without a division.
NoLess(x, y) == x.num * y.den >= y.num * x.den

Decisions == {"ALLOW", "WARN", "BLOCK"}

\* The order the engine aggregates by: "BLOCK > WARN > ALLOW".
Severity(d) == IF d = "BLOCK" THEN 2 ELSE IF d = "WARN" THEN 1 ELSE 0

\* Fault: a rate has to exceed the threshold.
MoreThan(rate, threshold) == IsNumber(rate) /\ ~NoLess(threshold, rate)

\* Go's float64 >=: false when the rate is NaN; thresholds are numbers.
AtLeast(rate, threshold) == IsNumber(rate) /\ NoLess(rate, threshold)

\* evaluateRule: a rule triggers when both of its windows were measured and
\* both burn at least at its threshold.
Triggered(rule, burnRates) ==
  /\ {rule.short, rule.long} \subseteq DOMAIN burnRates
  /\ AtLeast(burnRates[rule.short], rule.threshold)
  /\ AtLeast(burnRates[rule.long], rule.threshold)

\* What the PED's aggregation (PED.md:183-187) makes of the rules that burn: the
\* most severe of their actions, and at least WARN when a modifier applies.
VerdictOn(actions, modified) ==
  IF "BLOCK" \in actions THEN "BLOCK"
  ELSE IF modified \/ "WARN" \in actions THEN "WARN"
  ELSE "ALLOW"

=============================================================================
