---------------------------- MODULE PolicyEngine ----------------------------
(***************************************************************************)
(* policy.Engine.Evaluate: from the evaluation result of one SLO to a gate *)
(* decision.  The gating modifiers are applied first, then the loop visits *)
(* the rules of the burn policy in the order of the file, each one able to *)
(* raise the decision, and the positive reason is added last.              *)
(*                                                                         *)
(* rules and evalResult are the arguments of the call; result and next are *)
(* its local state (next is the index the range loop visits next).         *)
(***************************************************************************)
EXTENDS GatePolicy, Sequences

CONSTANTS
  Windows,      \* the duration strings a policy may name
  Thresholds,   \* burn rate thresholds
  Rates,        \* burn rates the evaluator may return, NotANumber among them
  MaxRules      \* bound: the longest burn policy (the schema's maxItems is 50)

ASSUME PolicyAssumption ==
  /\ Thresholds \subseteq Ratios
  /\ Rates \subseteq Floats
  /\ MaxRules \in Nat

VARIABLES rules, evalResult, phase, next, result

vars == <<rules, evalResult, phase, next, result>>

Rule == [short : Windows, long : Windows, threshold : Thresholds,
         action : Decisions]

\* eval.EvaluationResult, as far as the engine reads it.
EvaluationResult == [stale        : BOOLEAN,
                     insufficient : BOOLEAN,
                     burnRates    : UNION {[W -> Rates] : W \in SUBSET Windows}]

\* policy.GateResult.  Its Reasons are kept as two sets: the fixed reasons (the
\* two modifiers and the positive one) and the indices of the rules that gave
\* one; their order and wording are left out.
GateResult == [decision : Decisions, ruleResults : Seq(BOOLEAN),
               notes : SUBSET {"stale", "insufficient", "passed"},
               blamed : SUBSET Nat]

----------------------------------------------------------------------------

\* A call starts with an arbitrary evaluation of an arbitrary burn policy.  The
\* schema asks for at least one rule; the engine itself does not.
Init ==
  /\ rules \in UNION {[1 .. n -> Rule] : n \in 0 .. MaxRules}
  /\ evalResult \in EvaluationResult
  /\ phase = "modifiers"
  /\ next = 1
  /\ result = [decision |-> "ALLOW", ruleResults |-> <<>>, notes |-> {}, blamed |-> {}]

Modifiers == (IF evalResult.stale THEN {"stale"} ELSE {})
               \cup (IF evalResult.insufficient THEN {"insufficient"} ELSE {})

\* "Apply gating modifiers first": either one lifts the decision to WARN.
ApplyModifiers ==
  /\ phase = "modifiers"
  /\ result' = [result EXCEPT
                  !.decision = IF Modifiers = {} THEN @ ELSE "WARN",
                  !.notes    = @ \cup Modifiers]
  /\ phase' = "rules"
  /\ UNCHANGED <<rules, evalResult, next>>

\* Fault: the last rule that triggers wins.
AggregateLast(decision, action) == IF action = "ALLOW" THEN decision ELSE action

\* What a triggered rule does to the decision so far: BLOCK always wins, WARN
\* wins unless the decision is BLOCK, and an ALLOW rule changes nothing.
Aggregate(decision, action) ==
  IF action = "BLOCK" THEN "BLOCK"
  ELSE IF action = "WARN" /\ decision # "BLOCK" THEN "WARN"
  ELSE decision

EvaluateRule ==
  /\ phase = "rules"
  /\ next <= Len(rules)
  /\ LET triggered == Triggered(rules[next], evalResult.burnRates)
     IN  result' = [result EXCEPT
                      !.ruleResults = Append(@, triggered),
                      !.decision    = IF triggered
                                        THEN Aggregate(@, rules[next].action)
                                        ELSE @,
                      !.blamed      = IF triggered THEN @ \cup {next} ELSE @]
  /\ next' = next + 1
  /\ UNCHANGED <<rules, evalResult, phase>>

\* Fault: the last rule is not visited.
ReturnEarly ==
  /\ phase = "rules"
  /\ next >= Len(rules)
  /\ phase' = "done"
  /\ result' = IF result.decision = "ALLOW" /\ result.notes = {} /\ result.blamed = {}
                 THEN [result EXCEPT !.notes = {"passed"}] ELSE result
  /\ UNCHANGED <<rules, evalResult, next>>

\* Fault: the positive reason without looking at the reasons there are.
ReturnAlwaysPositive ==
  /\ phase = "rules"
  /\ next > Len(rules)
  /\ phase' = "done"
  /\ result' = IF result.decision = "ALLOW"
                 THEN [result EXCEPT !.notes = {"passed"}] ELSE result
  /\ UNCHANGED <<rules, evalResult, next>>

\* After the loop: an ALLOW nothing speaks against gets the positive reason.
Return ==
  /\ phase = "rules"
  /\ next > Len(rules)
  /\ phase' = "done"
  /\ result' = IF result.decision = "ALLOW" /\ result.notes = {} /\ result.blamed = {}
                 THEN [result EXCEPT !.notes = {"passed"}] ELSE result
  /\ UNCHANGED <<rules, evalResult, next>>

Next == ApplyModifiers \/ EvaluateRule \/ Return

Spec == Init /\ [][Next]_vars

----------------------------------------------------------------------------

TypeOK ==
  /\ rules \in Seq(Rule)
  /\ evalResult \in EvaluationResult
  /\ phase \in {"modifiers", "rules", "done"}
  /\ next \in Nat \ {0}
  /\ next <= Len(rules) + 1
  /\ result \in GateResult

Modified == evalResult.stale \/ evalResult.insufficient

\* The evaluation has a burn rate of the window, and it is a number.
Known(window) ==
  window \in DOMAIN evalResult.burnRates /\ IsNumber(evalResult.burnRates[window])

KnownRule(rule) == Known(rule.short) /\ Known(rule.long)

\* "if burn_short >= threshold AND burn_long >= threshold" (PED.md:173), of a rule
\* both of whose burn rates are known.
Burns(rule) ==
  /\ KnownRule(rule)
  /\ NoLess(evalResult.burnRates[rule.short], rule.threshold)
  /\ NoLess(evalResult.burnRates[rule.long], rule.threshold)

Verdict == VerdictOn({rules[i].action : i \in {j \in DOMAIN rules : Burns(rules[j])}},
                     Modified)

\* Where all burn rates are known the loop with its running decision returns the
\* documented aggregation (engine.go:19-62, PED.md:170-187), whatever the order of
\* the rules.  An unknown rate never weakens what the known ones call for; what it
\* should call for itself is left open here (see NeverAllowUnknown).
DecisionIsVerdict ==
  phase = "done" =>
    /\ Severity(result.decision) >= Severity(Verdict)
    /\ (\A i \in DOMAIN rules : KnownRule(rules[i])) => result.decision = Verdict


\* A call never takes severity back once a modifier or a rule has raised it.
NeverDeescalates ==
  [][Severity(result'.decision) >= Severity(result.decision)]_vars

\* The reasons returned account for the decision and for nothing else: exactly
\* the modifiers that apply and the rules that trigger, and the positive reason
\* exactly when there is no other.
ReasonsExplainDecision ==
  phase = "done" =>
    /\ result.blamed = {i \in DOMAIN rules : Triggered(rules[i], evalResult.burnRates)}
    /\ result.notes = IF Modifiers = {} /\ result.blamed = {} THEN {"passed"}
                       ELSE Modifiers
    /\ result.decision # "ALLOW" =>
         \/ Modifiers # {}
         \/ \E i \in result.blamed : rules[i].action = result.decision

----------------------------------------------------------------------------
(* The loop invariant: after the modifiers, what the call has so far is    *)
(* what the rules it has visited, and that triggered, call for.            *)

Blamable(n) == {i \in DOMAIN rules : i < n /\ Triggered(rules[i], evalResult.burnRates)}

VerdictOf(blamed) ==
  IF \E i \in blamed : rules[i].action = "BLOCK" THEN "BLOCK"
  ELSE IF Modified \/ \E i \in blamed : rules[i].action = "WARN" THEN "WARN"
  ELSE "ALLOW"

LoopInv ==
  /\ TypeOK
  /\ phase = "modifiers" =>
       /\ next = 1
       /\ result.decision = "ALLOW" /\ result.notes = {} /\ result.blamed = {}
  /\ phase # "modifiers" =>
       /\ result.blamed = Blamable(next)
       /\ result.decision = VerdictOf(result.blamed)
  /\ phase = "rules" => result.notes = Modifiers
  /\ phase = "done" =>
       /\ next = Len(rules) + 1
       /\ result.notes = IF Modifiers = {} /\ result.blamed = {} THEN {"passed"}
                         ELSE Modifiers

=============================================================================
