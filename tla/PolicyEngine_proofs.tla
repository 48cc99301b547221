------------------------ MODULE PolicyEngine_proofs ------------------------
(***************************************************************************)
(* What policy.Engine.Evaluate returns, for burn policies of every length  *)
(* over any windows, thresholds and burn rates.                            *)
(***************************************************************************)
EXTENDS PolicyEngine, TLAPS

\* A rule that burns triggers, and of a rule whose burn rates are known the
\* converse holds.
LEMMA BurnsAndTriggers ==
  ASSUME NEW rule
  PROVE  /\ Burns(rule) => Triggered(rule, evalResult.burnRates)
         /\ KnownRule(rule) /\ Triggered(rule, evalResult.burnRates) => Burns(rule)
BY DEF Burns, KnownRule, Known, Triggered, AtLeast

\* DecisionIsVerdict speaks of the rules that burn, the loop of those it has visited
\* and that triggered: after the last rule they differ by unknown rates at most.
LEMMA VerdictOfAll ==
  ASSUME TypeOK
  PROVE  LET all == VerdictOf(Blamable(Len(rules) + 1))
         IN  /\ Severity(all) >= Severity(Verdict)
             /\ (\A i \in DOMAIN rules : KnownRule(rules[i])) => all = Verdict
<1>. DEFINE burning   == {j \in DOMAIN rules : Burns(rules[j])}
            triggered == {j \in DOMAIN rules : Triggered(rules[j], evalResult.burnRates)}
<1>1. DOMAIN rules = 1 .. Len(rules)
  BY DEF TypeOK
<1>2. Blamable(Len(rules) + 1) = triggered
  BY <1>1 DEF Blamable, TypeOK
<1>3. burning \subseteq triggered
  BY BurnsAndTriggers
<1>4. (\A i \in DOMAIN rules : KnownRule(rules[i])) => burning = triggered
  BY BurnsAndTriggers
<1>5. Verdict = VerdictOf(burning)
  BY DEF Verdict, VerdictOn, VerdictOf
<1>. HIDE DEF burning, triggered
<1>6. Severity(VerdictOf(triggered)) >= Severity(VerdictOf(burning))
  BY <1>3 DEF Severity, VerdictOf
<1>. QED
  BY <1>2, <1>4, <1>5, <1>6

\* Visiting one more rule.
LEMMA BlamableNext ==
  ASSUME TypeOK, next <= Len(rules)
  PROVE  Blamable(next + 1) =
           IF Triggered(rules[next], evalResult.burnRates)
             THEN Blamable(next) \cup {next} ELSE Blamable(next)
<1>1. next \in DOMAIN rules /\ DOMAIN rules \subseteq Int
  BY DEF TypeOK
<1> QED
  BY <1>1 DEF Blamable

\* The running decision aggregates as the set of visited rules does.
LEMMA AggregateIsVerdict ==
  ASSUME NEW blamed, NEW n, rules[n].action \in Decisions
  PROVE  VerdictOf(blamed \cup {n}) = Aggregate(VerdictOf(blamed), rules[n].action)
BY DEF VerdictOf, Aggregate, Decisions

LEMMA LoopInvInit == Init => LoopInv
<1> SUFFICES ASSUME Init PROVE LoopInv
  OBVIOUS
<1>1. rules \in Seq(Rule)
  BY DEF Init
<1>2. result \in GateResult
  BY DEF Init, GateResult, Decisions
<1> QED
  BY <1>1, <1>2 DEF Init, LoopInv, TypeOK

LEMMA LoopInvStep == LoopInv /\ [Next]_vars => LoopInv'
<1> SUFFICES ASSUME LoopInv, [Next]_vars PROVE LoopInv'
  OBVIOUS
<1>0. TypeOK
  BY DEF LoopInv
<1>1. CASE ApplyModifiers
  <2>1. /\ UNCHANGED <<rules, evalResult, next>> /\ phase' = "rules" /\ next = 1
        /\ phase = "modifiers"
    BY <1>1 DEF ApplyModifiers, LoopInv
  <2>2. /\ result'.decision = IF Modifiers = {} THEN "ALLOW" ELSE "WARN"
        /\ result'.notes = Modifiers /\ result'.blamed = {}
        /\ result' \in GateResult
    <3>1. /\ result \in GateResult
          /\ result.decision = "ALLOW" /\ result.notes = {} /\ result.blamed = {}
      BY <1>0, <2>1 DEF LoopInv, TypeOK
    <3>2. result' = [result EXCEPT
                       !.decision = IF Modifiers = {} THEN @ ELSE "WARN",
                       !.notes    = @ \cup Modifiers]
      BY <1>1 DEF ApplyModifiers
    <3>3. Modifiers \subseteq {"stale", "insufficient", "passed"}
      BY DEF Modifiers
    <3> QED
      BY <3>1, <3>2, <3>3 DEF GateResult, Decisions
  <2>3. Blamable(next) = {}
    BY <1>0, <2>1 DEF Blamable, TypeOK
  <2>4. result'.decision = VerdictOf({})
    BY <2>2 DEF VerdictOf, Modifiers, Modified
  <2> QED
    BY <1>0, <2>1, <2>2, <2>3, <2>4
       DEF LoopInv, TypeOK, Blamable, VerdictOf, Modified, Modifiers
<1>2. CASE EvaluateRule
  <2> DEFINE triggered == Triggered(rules[next], evalResult.burnRates)
  <2>1. /\ UNCHANGED <<rules, evalResult, phase>> /\ next' = next + 1
        /\ phase = "rules" /\ next <= Len(rules)
    BY <1>2 DEF EvaluateRule
  <2>2. rules[next] \in Rule /\ rules[next].action \in Decisions
    <3>1. rules \in Seq(Rule) /\ next \in 1 .. Len(rules)
      BY <1>0, <2>1 DEF TypeOK
    <3>2. rules[next] \in Rule
      BY <3>1
    <3> QED
      BY <3>2 DEF Rule
  <2>3. /\ result'.decision = IF triggered
                                THEN Aggregate(result.decision, rules[next].action)
                                ELSE result.decision
        /\ result'.blamed = IF triggered THEN result.blamed \cup {next} ELSE result.blamed
        /\ result'.notes = result.notes
        /\ result'.ruleResults = Append(result.ruleResults, triggered)
    <3>1. result \in GateResult
      BY <1>0 DEF TypeOK
    <3>2. result' = [result EXCEPT
                       !.ruleResults = Append(@, triggered),
                       !.decision    = IF triggered
                                         THEN Aggregate(@, rules[next].action)
                                         ELSE @,
                       !.blamed      = IF triggered THEN @ \cup {next} ELSE @]
      BY <1>2 DEF EvaluateRule
    <3> HIDE DEF triggered
    <3> QED
      BY <3>1, <3>2 DEF GateResult
  <2>4. result' \in GateResult
    <3>1. triggered \in BOOLEAN
      BY DEF Triggered
    <3>2. Append(result.ruleResults, triggered) \in Seq(BOOLEAN)
      BY <1>0, <3>1 DEF TypeOK, GateResult
    <3>3. Aggregate(result.decision, rules[next].action) \in Decisions
      BY <1>0, <2>2 DEF TypeOK, GateResult, Aggregate, Decisions
    <3>4. next \in Nat
      BY <1>0 DEF TypeOK
    <3> QED
      BY <1>0, <1>2, <3>2, <3>3, <3>4 DEF EvaluateRule, TypeOK, GateResult
  <2>5. result'.blamed = Blamable(next + 1)
    BY <1>0, <2>1, <2>3, BlamableNext DEF LoopInv
  <2>6. result'.decision = VerdictOf(result'.blamed)
    <3>1. result.decision = VerdictOf(result.blamed)
      BY <2>1 DEF LoopInv
    <3>2. VerdictOf(result.blamed \cup {next}) =
            Aggregate(VerdictOf(result.blamed), rules[next].action)
      BY <2>2, AggregateIsVerdict
    <3> HIDE DEF triggered
    <3> QED
      BY <2>3, <3>1, <3>2
  <2>7. TypeOK'
    BY <1>0, <2>1, <2>4 DEF TypeOK
  <2> QED
    BY <2>1, <2>3, <2>5, <2>6, <2>7
       DEF LoopInv, Blamable, VerdictOf, Modified, Modifiers
<1>3. CASE Return
  <2>1. /\ UNCHANGED <<rules, evalResult, next>> /\ phase' = "done"
        /\ phase = "rules" /\ next = Len(rules) + 1
    BY <1>0, <1>3 DEF Return, TypeOK
  <2>2. Modifiers # {} => result.decision # "ALLOW"
    BY <2>1 DEF LoopInv, VerdictOf, Modified, Modifiers
  <2>3. result.blamed = {} /\ Modifiers = {} => result.decision = "ALLOW"
    BY <2>1 DEF LoopInv, VerdictOf, Modified, Modifiers
  <2>4. /\ result' \in GateResult /\ result'.decision = result.decision
        /\ result'.blamed = result.blamed
        /\ result'.notes = IF Modifiers = {} /\ result.blamed = {} THEN {"passed"}
                           ELSE Modifiers
    BY <1>0, <1>3, <2>1, <2>2, <2>3 DEF Return, LoopInv, TypeOK, GateResult
  <2> QED
    BY <1>0, <2>1, <2>4
       DEF LoopInv, TypeOK, Blamable, VerdictOf, Modified, Modifiers
<1>4. CASE UNCHANGED vars
  BY <1>4 DEF vars, LoopInv, TypeOK, Blamable, VerdictOf, Modified, Modifiers
<1> QED
  BY <1>1, <1>2, <1>3, <1>4 DEF Next

\* At every point of the call the result is the verdict of what has been visited.
THEOREM PolicyLoopInvariant == Spec => []LoopInv
BY LoopInvInit, LoopInvStep, PTL DEF Spec

\* Evaluate returns the decision of the documented aggregation for every burn
\* policy over known burn rates: BLOCK if a burning rule blocks, else WARN if a
\* modifier applies or a burning rule warns, else ALLOW (engine.go:19-62).  Unknown
\* rates make it no weaker than the known ones call for.
THEOREM EngineReturnsVerdict == Spec => []DecisionIsVerdict
<1>1. LoopInv => DecisionIsVerdict
  BY VerdictOfAll DEF LoopInv, DecisionIsVerdict
<1> QED
  BY <1>1, PolicyLoopInvariant, PTL

\* The reasons returned are exactly the modifiers that apply and the rules that
\* triggered, and they explain a decision other than ALLOW.
THEOREM EngineExplainsDecision == Spec => []ReasonsExplainDecision
<1>1. LoopInv => ReasonsExplainDecision
  <2> SUFFICES ASSUME LoopInv, phase = "done"
               PROVE  /\ result.blamed = {i \in DOMAIN rules :
                                            Triggered(rules[i], evalResult.burnRates)}
                      /\ result.notes = IF Modifiers = {} /\ result.blamed = {}
                                          THEN {"passed"} ELSE Modifiers
                      /\ result.decision # "ALLOW" =>
                           \/ Modifiers # {}
                           \/ \E i \in result.blamed : rules[i].action = result.decision
    BY DEF ReasonsExplainDecision
  <2>1. DOMAIN rules = 1 .. Len(rules) /\ Len(rules) \in Nat
    BY DEF LoopInv, TypeOK
  <2>2. result.blamed = {i \in DOMAIN rules : Triggered(rules[i], evalResult.burnRates)}
    BY <2>1 DEF LoopInv, Blamable
  <2>3. result.decision = VerdictOf(result.blamed)
    BY DEF LoopInv
  <2>4. result.decision # "ALLOW" =>
          \/ Modifiers # {}
          \/ \E i \in result.blamed : rules[i].action = result.decision
    BY <2>3 DEF VerdictOf, Modified, Modifiers
  <2> QED
    BY <2>2, <2>4 DEF LoopInv
<1> QED
  BY <1>1, PolicyLoopInvariant, PTL

\* No step of the call lowers the severity it has reached.
THEOREM EngineNeverDeescalates == Spec => NeverDeescalates
<1>1. LoopInv /\ [Next]_vars =>
        [Severity(result'.decision) >= Severity(result.decision)]_vars
  <2> SUFFICES ASSUME LoopInv, Next
               PROVE  Severity(result'.decision) >= Severity(result.decision)
    OBVIOUS
  <2>1. result.decision \in Decisions /\ result \in GateResult
    BY DEF LoopInv, TypeOK, GateResult
  <2>2. CASE ApplyModifiers
    BY <2>1, <2>2 DEF ApplyModifiers, LoopInv, Severity, GateResult
  <2>3. CASE EvaluateRule
    <3>1. result'.decision \in {result.decision, Aggregate(result.decision, rules[next].action)}
      BY <2>1, <2>3 DEF EvaluateRule, GateResult
    <3> QED
      BY <2>1, <3>1 DEF Aggregate, Severity, Decisions
  <2>4. CASE Return
    <3>1. result'.decision = result.decision
      BY <2>1, <2>4 DEF Return, GateResult
    <3> QED
      BY <3>1 DEF Severity
  <2> QED
    BY <2>2, <2>3, <2>4 DEF Next
<1> QED
  BY <1>1, PolicyLoopInvariant, PTL DEF Spec, NeverDeescalates

=============================================================================
