-------------------------- MODULE Scheduler_proofs --------------------------
(***************************************************************************)
(* What holds of the scheduler for every set of SLOs and callers, every    *)
(* interval, and with or without a database and write failures.            *)
(***************************************************************************)
EXTENDS Scheduler, TLAPS

----------------------------------------------------------------------------
(* Activations of evaluateOnce.                                            *)

\* A thread that is in a phase of evaluateOnce is inside an activation.
LEMMA PhaseMeansBusy ==
  ASSUME TypeOK, NEW t \in Threads,
         ev[t].phase \in {"evaluate", "set", "store", "latest"}
  PROVE  ev[t] \in Activation /\ Busy(t)
BY DEF TypeOK, Activation, Idle, Busy

LEMMA IdleIsNoActivation == Idle \notin Activation
BY DEF Idle, Activation

\* An activation that has its result makes a row.
LEMMA RowOfActivation ==
  ASSUME NEW a \in Activation, a.decision \in Decisions
  PROVE  RowOf(a) \in Row
BY DEF RowOf, Row, Activation

----------------------------------------------------------------------------
(* Type correctness.                                                       *)

LEMMA TypeOKInit == Init => TypeOK
<1> SUFFICES ASSUME Init PROVE TypeOK
  OBVIOUS
<1>1. StoreTypeOK
  BY DEF Init, StoreInit, StoreTypeOK
<1>2. clock \in Instants
  BY StoreAssumption DEF Init, Instants
<1>3. /\ ev \in [Threads -> Activation \cup {Idle}]
      /\ \A t \in Threads : ~Busy(t)
  BY DEF Init, NoActivations, Busy
<1>4. /\ metrics \in [SLOs -> Observable] /\ answers \in [SLOs -> BOOLEAN]
      /\ slos \subseteq SLOs /\ forced \subseteq SLOs
      /\ running \in BOOLEAN /\ cancelled \in BOOLEAN /\ stopping \in BOOLEAN
      /\ loop \in [SLOs -> {"off", "launched", "initial", "select"}]
      /\ ticked \in [SLOs -> BOOLEAN]
      /\ cache \in [SLOs -> Row \cup {NoState}]
  BY DEF Init, NoLoops, NoTicks, EmptyCache
<1> QED
  BY <1>1, <1>2, <1>3, <1>4 DEF TypeOK

\* A new activation is well formed.
LEMMA TypeOKBegin ==
  ASSUME TypeOK, NEW t \in Threads, NEW s \in SLOs, Begin(t, s)
  PROVE  /\ ev' \in [Threads -> Activation \cup {Idle}]
         /\ \A u \in Threads :
              (Busy(u) /\ ~InPhase(u, "evaluate"))' => ev'[u].decision \in Decisions
BY DEF TypeOK, Begin, Activation, Busy, InPhase, NoDecision, Idle

\* A returning activation leaves the others as they are.
LEMMA TypeOKReturns ==
  ASSUME TypeOK, NEW t \in Threads, Returns(t)
  PROVE  /\ ev' \in [Threads -> Activation \cup {Idle}]
         /\ \A u \in Threads :
              (Busy(u) /\ ~InPhase(u, "evaluate"))' => ev'[u].decision \in Decisions
BY DEF TypeOK, Returns, Busy, InPhase, Idle

LEMMA TypeOKEvaluateOnce ==
  ASSUME TypeOK, NEW t \in Threads, EvaluateOnce(t)
  PROVE  TypeOK'
<1>1. CASE Evaluate(t)
  <2>1. ev[t] \in Activation
    BY <1>1, PhaseMeansBusy DEF Evaluate, InPhase
  <2>2. metrics[ev[t].slo] \in Decisions
    BY <2>1, SchedulerAssumption DEF TypeOK, Activation
  <2>3. ev' = [ev EXCEPT ![t] = [ev[t] EXCEPT !.phase = "set",
                                 !.decision = metrics[ev[t].slo]]]
    BY <1>1 DEF Evaluate, TypeOK
  <2>4. [ev[t] EXCEPT !.phase = "set", !.decision = metrics[ev[t].slo]] \in Activation
    BY <2>1, <2>2 DEF Activation
  <2>5. ev' \in [Threads -> Activation \cup {Idle}]
    BY <2>3, <2>4 DEF TypeOK
  <2>6. \A u \in Threads :
          (Busy(u) /\ ~InPhase(u, "evaluate"))' => ev'[u].decision \in Decisions
    BY <2>1, <2>2, <2>3 DEF TypeOK, Busy, InPhase, Activation
  <2> QED
    BY <1>1, <2>5, <2>6
       DEF Evaluate, TypeOK, StoreTypeOK, envVars, ctlVars, loopVars, storeVars
<1>2. CASE EvaluateFails(t)
  BY <1>2, TypeOKReturns
     DEF EvaluateFails, TypeOK, StoreTypeOK, envVars, ctlVars, loopVars, storeVars
<1>3. ASSUME InPhase(t, "set") \/ InPhase(t, "store") \/ InPhase(t, "latest")
      PROVE  ev[t] \in Activation /\ RowOf(ev[t]) \in Row
  <2>1. ev[t] \in Activation /\ Busy(t)
    BY <1>3, PhaseMeansBusy DEF InPhase
  <2>2. ev[t].decision \in Decisions
    BY <1>3, <2>1 DEF TypeOK, InPhase
  <2> QED
    BY <2>1, <2>2, RowOfActivation
<1>4. ASSUME NEW phase \in {"store", "latest"},
             InPhase(t, "set") \/ InPhase(t, "store"),
             ev' = [ev EXCEPT ![t].phase = phase]
      PROVE  /\ ev' \in [Threads -> Activation \cup {Idle}]
             /\ \A u \in Threads :
                  (Busy(u) /\ ~InPhase(u, "evaluate"))' => ev'[u].decision \in Decisions
  <2>1. ev[t] \in Activation /\ Busy(t) /\ ev[t].decision \in Decisions
    BY <1>4, PhaseMeansBusy DEF InPhase, TypeOK
  <2>2. ev' = [ev EXCEPT ![t] = [ev[t] EXCEPT !.phase = phase]]
    BY <1>4 DEF TypeOK
  <2> QED
    BY <2>1, <2>2 DEF TypeOK, Activation, Busy, InPhase
<1>5. CASE SetCache(t)
  <2>1. cache' \in [SLOs -> Row \cup {NoState}]
    BY <1>3, <1>5 DEF SetCache, TypeOK
  <2>2. /\ ev' \in [Threads -> Activation \cup {Idle}]
        /\ \A u \in Threads :
             (Busy(u) /\ ~InPhase(u, "evaluate"))' => ev'[u].decision \in Decisions
    BY <1>4, <1>5, TypeOKReturns DEF SetCache
  <2> QED
    BY <1>5, <2>1, <2>2
       DEF SetCache, TypeOK, StoreTypeOK, envVars, ctlVars, loopVars, storeVars
<1>6. CASE RecordEvaluation(t)
  <2>1. evaluations' \subseteq Row
    BY <1>3, <1>6 DEF RecordEvaluation, StoreEvaluation, TypeOK, StoreTypeOK
  <2> QED
    BY <1>4, <1>6, <2>1
       DEF RecordEvaluation, StoreEvaluation, TypeOK, StoreTypeOK, envVars,
           ctlVars, loopVars
<1>7. CASE RecordLatest(t)
  <2>1. latest' \in [SLOs -> Row \cup {NoState}]
    BY <1>3, <1>7 DEF RecordLatest, UpdateLatestState, TypeOK, StoreTypeOK
  <2> QED
    BY <1>7, <2>1, TypeOKReturns
       DEF RecordLatest, UpdateLatestState, TypeOK, StoreTypeOK, envVars,
           ctlVars, loopVars
<1> QED
  BY <1>1, <1>2, <1>5, <1>6, <1>7 DEF EvaluateOnce

----------------------------------------------------------------------------
(* The shapes a step can have, for the invariants below: a step inside an  *)
(* activation, the beginning of one by a loop or by a caller, the load, the *)
(* end of the process, and the steps that touch neither activations nor     *)
(* what they publish.                                                       *)

LoopBegins(s) ==
  /\ Begin(s, s)
  /\ loop[s] \in {"launched", "select"}
  /\ loop' = [loop EXCEPT ![s] = IF loop[s] = "launched" THEN "initial" ELSE @]
  /\ UNCHANGED <<envVars, ctlVars, cache, forced, storeVars>>

\* What a step may do to the loops without beginning an activation.
LoopControl ==
  \/ UNCHANGED <<loop, running, stopping>>
  \/ Start \/ Stop \/ StopReturns
  \/ \E s \in SLOs :
       /\ \/ loop[s] = "initial" /\ loop' = [loop EXCEPT ![s] = "select"]
          \/ /\ loop[s] = "launched" \/ (loop[s] = "select" /\ ~Busy(s))
             /\ loop' = [loop EXCEPT ![s] = "off"]
       /\ UNCHANGED <<running, stopping>>

Quiet ==
  /\ LoopControl
  /\ UNCHANGED <<evalVars, slos, defs, evaluations, latest>>
  /\ clock <= clock'
  /\ dbOpen' => dbOpen

LEMMA LoopEntersShape ==
  ASSUME TypeOK, NEW s \in SLOs, LoopEnters(s)
  PROVE  LoopBegins(s) \/ Quiet
BY StoreAssumption
   DEF LoopEnters, LoopBegins, Quiet, LoopControl, TypeOK, Instants, envVars,
       ctlVars, evalVars, storeVars

LEMMA SelectTickShape ==
  ASSUME TypeOK, NEW s \in SLOs, SelectTick(s)
  PROVE  LoopBegins(s)
BY DEF SelectTick, LoopBegins, TypeOK, loopVars

LEMMA StepShapes ==
  ASSUME TypeOK, [Next]_vars
  PROVE  \/ \E t \in Threads : EvaluateOnce(t)
         \/ \E s \in SLOs : LoopBegins(s)
         \/ \E c \in Callers, s \in SLOs : EvaluateNow(c, s)
         \/ LoadSLOs \/ ProcessEnds \/ Quiet
<1>0. clock \in Int /\ MaxTime \in Int
  BY StoreAssumption DEF TypeOK, Instants
<1>1. CASE UNCHANGED vars
  BY <1>0, <1>1
     DEF Quiet, LoopControl, vars, envVars, ctlVars, loopVars, evalVars, storeVars
<1>2. CASE Environment
  BY <1>0, <1>2
     DEF Environment, Tick, MetricsChange, AdapterChange, Quiet, LoopControl,
         ctlVars, loopVars, storeVars
<1>3. ASSUME NEW s \in SLOs, Loop(s)
      PROVE  LoopBegins(s) \/ ProcessEnds \/ Quiet
  <2>1. CASE LoopEnters(s)
    BY <2>1, LoopEntersShape
  <2>2. CASE SelectTick(s)
    BY <2>2, SelectTickShape
  <2>3. CASE TickerPanics(s)
    BY <2>3 DEF TickerPanics
  <2>4. CASE TickerStarts(s) \/ TickerFires(s) \/ SelectDone(s)
    BY <1>0, <2>4
       DEF TickerStarts, TickerFires, SelectDone, Quiet, LoopControl, envVars,
           ctlVars, storeVars
  <2> QED
    BY <1>3, <2>1, <2>2, <2>3, <2>4 DEF Loop
<1>4. CASE Start \/ Stop \/ StopReturns \/ CloseStore
  BY <1>0, <1>4
     DEF Start, Stop, StopReturns, CloseStore, Close, Quiet, LoopControl, envVars,
         ctlVars, loopVars, storeVars
<1> QED
  BY <1>1, <1>2, <1>3, <1>4 DEF Next, Main, Crash

\* Inside an activation: the thread's own record moves on or ends, and only its
\* own SLO's entries change, to its own result.
LEMMA EvaluateOnceShape ==
  ASSUME TypeOK, NEW t \in Threads, EvaluateOnce(t)
  PROVE  /\ Busy(t) /\ ev[t] \in Activation
         /\ \A u \in Threads \ {t} : ev'[u] = ev[u]
         /\ \/ ev'[t] = Idle
            \/ /\ ev'[t] \in Activation
               /\ ev'[t].slo = ev[t].slo /\ ev'[t].now = ev[t].now
         /\ UNCHANGED <<clock, slos, running, cancelled, stopping, loop, ticked,
                        forced, defs, dbOpen>>
         /\ \/ cache' = cache
            \/ cache' = [cache EXCEPT ![ev[t].slo] = RowOf(ev[t])]
         /\ \/ latest' = latest
            \/ latest' = [latest EXCEPT ![ev[t].slo] = RowOf(ev[t])]
<1>1. Busy(t) /\ ev[t] \in Activation
  BY PhaseMeansBusy
     DEF EvaluateOnce, Evaluate, EvaluateFails, SetCache, RecordEvaluation,
         RecordLatest, InPhase
<1>2. UNCHANGED <<clock, slos, running, cancelled, stopping, loop, ticked, forced,
                  defs, dbOpen>>
  BY DEF EvaluateOnce, Evaluate, EvaluateFails, SetCache, RecordEvaluation,
         RecordLatest, StoreEvaluation, UpdateLatestState, envVars, ctlVars,
         loopVars, storeVars
<1>3. /\ \A u \in Threads \ {t} : ev'[u] = ev[u]
      /\ \/ ev'[t] = Idle
         \/ ev'[t].slo = ev[t].slo /\ ev'[t].now = ev[t].now
  BY <1>1
     DEF EvaluateOnce, Evaluate, EvaluateFails, SetCache, RecordEvaluation,
         RecordLatest, Returns, TypeOK, Activation
<1>4. ev'[t] \in Activation \cup {Idle}
  BY TypeOKEvaluateOnce DEF TypeOK
<1>5. /\ \/ cache' = cache
         \/ cache' = [cache EXCEPT ![ev[t].slo] = RowOf(ev[t])]
      /\ \/ latest' = latest
         \/ latest' = [latest EXCEPT ![ev[t].slo] = RowOf(ev[t])]
  <2>1. CASE Evaluate(t) \/ EvaluateFails(t)
    BY <2>1 DEF Evaluate, EvaluateFails, storeVars
  <2>2. CASE SetCache(t)
    BY <2>2 DEF SetCache, storeVars
  <2>3. CASE RecordEvaluation(t)
    BY <2>3 DEF RecordEvaluation, StoreEvaluation
  <2>4. CASE RecordLatest(t)
    BY <2>4 DEF RecordLatest, UpdateLatestState, RowOf
  <2> QED
    BY <2>1, <2>2, <2>3, <2>4 DEF EvaluateOnce
<1> QED
  BY <1>1, <1>2, <1>3, <1>4, <1>5

\* A new activation names its SLO and is stamped with the clock.
LEMMA BeginShape ==
  ASSUME TypeOK, NEW t \in Threads, NEW s \in SLOs, Begin(t, s)
  PROVE  /\ ~Busy(t)
         /\ \A u \in Threads \ {t} : ev'[u] = ev[u]
         /\ ev'[t] \in Activation /\ ev'[t] # Idle
         /\ ev'[t].slo = s /\ ev'[t].now = clock /\ ev'[t].phase = "evaluate"
BY DEF Begin, TypeOK, Activation, NoDecision, Idle

----------------------------------------------------------------------------

LEMMA TypeOKStep == TypeOK /\ [Next]_vars => TypeOK'
<1> SUFFICES ASSUME TypeOK, [Next]_vars PROVE TypeOK'
  OBVIOUS
<1>1. CASE UNCHANGED vars
  BY <1>1
     DEF TypeOK, StoreTypeOK, Busy, InPhase, vars, envVars, ctlVars, loopVars,
         evalVars, storeVars
<1>2. CASE Environment
  <2>1. clock' \in Instants
    BY <1>2, StoreAssumption
       DEF Environment, Tick, MetricsChange, AdapterChange, TypeOK, Instants
  <2>2. metrics' \in [SLOs -> Observable] /\ answers' \in [SLOs -> BOOLEAN]
    <3>1. /\ metrics \in [SLOs -> Observable]
          /\ answers \in [SLOs -> BOOLEAN]
      BY DEF TypeOK
    <3>2. CASE Tick
      BY <3>1, <3>2 DEF Tick
    <3>3. ASSUME NEW s \in SLOs, MetricsChange(s)
          PROVE  metrics' \in [SLOs -> Observable] /\ answers' = answers
      BY <3>1, <3>3 DEF MetricsChange
    <3>4. ASSUME NEW s \in SLOs, AdapterChange(s)
          PROVE  metrics' = metrics /\ answers' \in [SLOs -> BOOLEAN]
      <4>1. answers' = [answers EXCEPT ![s] = ~answers[s]] /\ metrics' = metrics
        BY <3>4 DEF AdapterChange
      <4>2. (~answers[s]) \in BOOLEAN
        OBVIOUS
      <4> QED
        BY <3>1, <4>1, <4>2
    <3> QED
      BY <1>2, <3>1, <3>2, <3>3, <3>4 DEF Environment
  <2>3. UNCHANGED <<ctlVars, loopVars, evalVars, storeVars>>
    BY <1>2 DEF Environment, Tick, MetricsChange, AdapterChange
  <2> QED
    BY <2>1, <2>2, <2>3
       DEF TypeOK, StoreTypeOK, Busy, InPhase, ctlVars, loopVars, evalVars, storeVars
<1>3. CASE \E t \in Threads : EvaluateOnce(t)
  BY <1>3, TypeOKEvaluateOnce
<1>4. ASSUME NEW s \in SLOs, Loop(s) PROVE TypeOK'
  <2>1. CASE LoopEnters(s)
    <3>1. loop' \in [SLOs -> {"off", "launched", "initial", "select"}]
      BY <2>1 DEF LoopEnters, TypeOK
    <3> QED
      BY <2>1, <3>1, TypeOKBegin
         DEF LoopEnters, TypeOK, StoreTypeOK, Busy, InPhase, Threads, envVars,
             ctlVars, storeVars
  <2>2. CASE SelectTick(s)
    BY <2>2, TypeOKBegin
       DEF SelectTick, TypeOK, StoreTypeOK, Threads, envVars, ctlVars, storeVars
  <2>3. CASE TickerStarts(s) \/ TickerFires(s) \/ SelectDone(s)
    BY <2>3
       DEF TickerStarts, TickerFires, SelectDone, TypeOK, StoreTypeOK, Busy,
           InPhase, envVars, ctlVars, evalVars, storeVars
  <2>4. CASE TickerPanics(s)
    BY <2>4
       DEF TickerPanics, ProcessEnds, TypeOK, StoreTypeOK, NoLoops, NoTicks,
           NoActivations, EmptyCache, Busy, envVars
  <2> QED
    BY <1>4, <2>1, <2>2, <2>3, <2>4 DEF Loop
<1>5. CASE LoadSLOs
  BY <1>5, StoreAssumption
     DEF LoadSLOs, StoreDefinitions, NewStore, TypeOK, StoreTypeOK, Busy, InPhase,
         envVars, loopVars, evalVars
<1>6. CASE Start \/ Stop \/ StopReturns \/ CloseStore
  BY <1>6
     DEF Start, Stop, StopReturns, CloseStore, Close, TypeOK, StoreTypeOK, Busy,
         InPhase, envVars, ctlVars, loopVars, evalVars, storeVars
<1>7. ASSUME NEW c \in Callers, NEW s \in SLOs, EvaluateNow(c, s) PROVE TypeOK'
  BY <1>7, TypeOKBegin
     DEF EvaluateNow, TypeOK, StoreTypeOK, Threads, envVars, ctlVars, loopVars,
         storeVars
<1>8. CASE Crash
  BY <1>8
     DEF Crash, ProcessEnds, TypeOK, StoreTypeOK, NoLoops, NoTicks,
         NoActivations, EmptyCache, Busy, envVars
<1> QED
  BY <1>1, <1>2, <1>3, <1>4, <1>5, <1>6, <1>7, <1>8 DEF Next, Main

\* Every variable of the scheduler and of its store keeps its type, in
\* particular an activation that reaches cache.Set carries a decision
\* (scheduler.go:162-204).
THEOREM SchedulerTypeCorrect == Spec => []TypeOK
BY TypeOKInit, TypeOKStep, PTL DEF Spec

----------------------------------------------------------------------------
(* The loops.                                                              *)

LEMMA LoopsStep ==
  ASSUME TypeOK, LoopsDrained, LoopsEvaluateTheirOwn, [Next]_vars
  PROVE  LoopsDrained' /\ LoopsEvaluateTheirOwn'
<1>1. ASSUME NEW t \in Threads, EvaluateOnce(t)
      PROVE  LoopsDrained' /\ LoopsEvaluateTheirOwn'
  <2>1. \A s \in SLOs : Busy(s)' => Busy(s) /\ ev'[s].slo = ev[s].slo
    BY <1>1, EvaluateOnceShape DEF Busy, Threads
  <2> QED
    BY <1>1, <2>1, EvaluateOnceShape DEF LoopsDrained, LoopsEvaluateTheirOwn
<1>2. ASSUME NEW s \in SLOs, LoopBegins(s)
      PROVE  LoopsDrained' /\ LoopsEvaluateTheirOwn'
  <2>1. UNCHANGED <<running, stopping>> /\ (running \/ stopping)
    BY <1>2 DEF LoopBegins, LoopsDrained, ctlVars
  <2>2. \A u \in SLOs \ {s} : ev'[u] = ev[u] /\ loop'[u] = loop[u]
    BY <1>2, BeginShape DEF LoopBegins, Threads, TypeOK
  <2>3. ev'[s].slo = s /\ loop'[s] \in {"initial", "select"}
    BY <1>2, BeginShape DEF LoopBegins, Threads, TypeOK
  <2> QED
    BY <2>1, <2>2, <2>3, TypeOKStep DEF LoopsDrained, LoopsEvaluateTheirOwn, Busy, TypeOK
<1>3. ASSUME NEW c \in Callers, NEW s \in SLOs, EvaluateNow(c, s)
      PROVE  LoopsDrained' /\ LoopsEvaluateTheirOwn'
  <2>1. \A u \in SLOs : ev'[u] = ev[u]
    BY <1>3, BeginShape, SchedulerAssumption DEF EvaluateNow, Threads
  <2> QED
    BY <1>3, <2>1
       DEF EvaluateNow, LoopsDrained, LoopsEvaluateTheirOwn, Busy, ctlVars, loopVars
<1>4. CASE LoadSLOs
  BY <1>4 DEF LoadSLOs, LoopsDrained, LoopsEvaluateTheirOwn, Busy, loopVars, evalVars
<1>5. CASE ProcessEnds
  BY <1>5
     DEF ProcessEnds, LoopsDrained, LoopsEvaluateTheirOwn, Busy, NoLoops,
         NoActivations, Threads
<1>6. CASE Quiet
  <2>1. ev' = ev
    BY <1>6 DEF Quiet, evalVars
  <2>2. CASE UNCHANGED <<loop, running, stopping>>
    BY <2>1, <2>2 DEF LoopsDrained, LoopsEvaluateTheirOwn, Busy
  <2>3. CASE Start
    BY <2>1, <2>3 DEF Start, LoopsDrained, LoopsEvaluateTheirOwn, Busy
  <2>4. CASE Stop
    BY <2>1, <2>4 DEF Stop, LoopsDrained, LoopsEvaluateTheirOwn, Busy, loopVars
  <2>5. CASE StopReturns
    BY <2>1, <2>5 DEF StopReturns, LoopsDrained, LoopsEvaluateTheirOwn, Busy, loopVars
  <2>6. ASSUME NEW s \in SLOs, UNCHANGED <<running, stopping>>,
               \/ loop[s] = "initial" /\ loop' = [loop EXCEPT ![s] = "select"]
               \/ /\ loop[s] = "launched" \/ (loop[s] = "select" /\ ~Busy(s))
                  /\ loop' = [loop EXCEPT ![s] = "off"]
        PROVE  LoopsDrained' /\ LoopsEvaluateTheirOwn'
    BY <2>1, <2>6 DEF LoopsDrained, LoopsEvaluateTheirOwn, Busy, TypeOK
  <2> QED
    BY <1>6, <2>2, <2>3, <2>4, <2>5, <2>6 DEF Quiet, LoopControl
<1> QED
  BY <1>1, <1>2, <1>3, <1>4, <1>5, <1>6, StepShapes

LEMMA OnlyLoadedStep ==
  ASSUME TypeOK, LoopsDrained, LoopsEvaluateTheirOwn, OnlyLoadedSLOs, [Next]_vars
  PROVE  OnlyLoadedSLOs'
<1>1. ASSUME NEW t \in Threads, EvaluateOnce(t) PROVE OnlyLoadedSLOs'
  <2>1. ev[t].slo \in slos
    BY <1>1, EvaluateOnceShape DEF OnlyLoadedSLOs
  <2>2. \A u \in Threads : Busy(u)' => Busy(u) /\ ev'[u].slo = ev[u].slo
    BY <1>1, EvaluateOnceShape DEF Busy
  <2> QED
    BY <1>1, <2>1, <2>2, EvaluateOnceShape DEF OnlyLoadedSLOs
<1>2. ASSUME NEW s \in SLOs, LoopBegins(s) PROVE OnlyLoadedSLOs'
  <2>1. s \in slos
    BY <1>2 DEF LoopBegins, OnlyLoadedSLOs
  <2>2. \A u \in SLOs : loop'[u] # "off" => loop[u] # "off"
    BY <1>2 DEF LoopBegins, TypeOK
  <2>3. \A u \in Threads : Busy(u)' => (Busy(u) /\ ev'[u] = ev[u]) \/ ev'[u].slo = s
    BY <1>2, BeginShape DEF LoopBegins, Busy, Threads
  <2> QED
    BY <1>2, <2>1, <2>2, <2>3 DEF LoopBegins, OnlyLoadedSLOs, EmptyCache, ctlVars
<1>3. ASSUME NEW c \in Callers, NEW s \in SLOs, EvaluateNow(c, s)
      PROVE  OnlyLoadedSLOs'
  <2>1. s \in slos
    BY <1>3 DEF EvaluateNow, CanEvaluateNow
  <2>2. \A u \in Threads : Busy(u)' => (Busy(u) /\ ev'[u] = ev[u]) \/ ev'[u].slo = s
    BY <1>3, BeginShape DEF EvaluateNow, Busy, Threads
  <2> QED
    BY <1>3, <2>1, <2>2
       DEF EvaluateNow, OnlyLoadedSLOs, EmptyCache, ctlVars, loopVars
<1>4. CASE LoadSLOs
  <2>1. \A t \in Threads : ~Busy(t)
    BY <1>4 DEF LoadSLOs, OnlyLoadedSLOs
  <2>2. \A s \in SLOs : loop[s] = "off"
    BY <1>4 DEF LoadSLOs, OnlyLoadedSLOs
  <2> QED
    BY <1>4, <2>1, <2>2
       DEF LoadSLOs, OnlyLoadedSLOs, Busy, loopVars, evalVars
<1>5. CASE ProcessEnds
  BY <1>5
     DEF ProcessEnds, OnlyLoadedSLOs, Busy, NoLoops, NoActivations, EmptyCache
<1>6. CASE Quiet
  <2>1. UNCHANGED <<ev, cache, slos>>
    BY <1>6 DEF Quiet, evalVars
  <2>2. /\ \A s \in SLOs : loop'[s] # "off" => loop[s] # "off" \/ s \in slos
        /\ running' \/ stopping' => running \/ stopping \/ slos # {}
    BY <1>6 DEF Quiet, LoopControl, Start, Stop, StopReturns, loopVars, TypeOK
  <2> QED
    BY <2>1, <2>2 DEF OnlyLoadedSLOs, Busy, EmptyCache
<1> QED
  BY <1>1, <1>2, <1>3, <1>4, <1>5, <1>6, StepShapes

----------------------------------------------------------------------------
(* Who may publish what.                                                   *)

LEMMA CallersForceStep ==
  ASSUME TypeOK, CallersForce, [Next]_vars
  PROVE  CallersForce'
<1>1. ASSUME NEW t \in Threads, EvaluateOnce(t) PROVE CallersForce'
  <2>1. \A u \in Threads : Busy(u)' => Busy(u) /\ ev'[u].slo = ev[u].slo
    BY <1>1, EvaluateOnceShape DEF Busy
  <2> QED
    BY <1>1, <2>1, EvaluateOnceShape DEF CallersForce, Threads
<1>2. ASSUME NEW s \in SLOs, LoopBegins(s) PROVE CallersForce'
  <2>1. \A c \in Callers : ev'[c] = ev[c]
    BY <1>2, BeginShape, SchedulerAssumption DEF LoopBegins, Threads
  <2> QED
    BY <1>2, <2>1 DEF LoopBegins, CallersForce, Busy
<1>3. ASSUME NEW c \in Callers, NEW s \in SLOs, EvaluateNow(c, s)
      PROVE  CallersForce'
  <2>1. \A u \in Callers : Busy(u)' => (Busy(u) /\ ev'[u] = ev[u]) \/ ev'[u].slo = s
    BY <1>3, BeginShape DEF EvaluateNow, Busy, Threads
  <2> QED
    BY <1>3, <2>1 DEF EvaluateNow, CallersForce
<1>4. CASE LoadSLOs \/ Quiet
  BY <1>4 DEF LoadSLOs, Quiet, CallersForce, Busy, evalVars
<1>5. CASE ProcessEnds
  BY <1>5 DEF ProcessEnds, CallersForce, Busy, NoActivations, Threads
<1> QED
  BY <1>1, <1>2, <1>3, <1>4, <1>5, StepShapes

LEMMA StampsStep ==
  ASSUME TypeOK, Stamps, [Next]_vars
  PROVE  Stamps'
<1>0. /\ clock \in Int /\ clock' \in Int
      /\ \A a \in Activation : a.now \in Int /\ a.slo \in SLOs
      /\ \A r \in Row : r.at \in Int
  BY TypeOKStep, StoreAssumption DEF TypeOK, Instants, Activation, Row
<1>1. ASSUME NEW t \in Threads, EvaluateOnce(t) PROVE Stamps'
  <2>1. /\ ev[t].now <= clock /\ ev[t].slo \in SLOs
        /\ RowOf(ev[t]).at = ev[t].now /\ RowOf(ev[t]).slo = ev[t].slo
    BY <1>1, EvaluateOnceShape DEF Stamps, RowOf, Activation
  <2>2. \A u \in Threads : Busy(u)' => Busy(u) /\ ev'[u].now = ev[u].now
    BY <1>1, EvaluateOnceShape DEF Busy
  <2>3. /\ \A s \in SLOs : cache'[s] = cache[s] \/ (s = ev[t].slo /\ cache'[s] = RowOf(ev[t]))
        /\ \A s \in SLOs : latest'[s] = latest[s] \/ (s = ev[t].slo /\ latest'[s] = RowOf(ev[t]))
    BY <1>1, EvaluateOnceShape DEF TypeOK, StoreTypeOK
  <2>4. clock' = clock
    BY <1>1, EvaluateOnceShape
  <2> QED
    BY <2>1, <2>2, <2>3, <2>4 DEF Stamps
<1>2. ASSUME NEW t \in Threads, NEW s \in SLOs, Begin(t, s),
             UNCHANGED <<clock, cache, latest>>
      PROVE  Stamps'
  <2>1. \A u \in Threads : Busy(u)' => (Busy(u) /\ ev'[u] = ev[u]) \/ ev'[u].now = clock
    BY <1>2, BeginShape DEF Busy
  <2> QED
    BY <1>0, <1>2, <2>1 DEF Stamps
<1>3. CASE LoadSLOs
  BY <1>3 DEF LoadSLOs, Stamps, Busy, envVars, evalVars
<1>4. CASE ProcessEnds
  BY <1>4 DEF ProcessEnds, Stamps, Busy, NoActivations, EmptyCache, envVars
<1>5. CASE Quiet
  <2>1. UNCHANGED <<ev, cache, latest>> /\ clock <= clock'
    BY <1>5 DEF Quiet, evalVars
  <2>2. /\ \A t \in Threads : Busy(t) => ev[t].now \in Int
        /\ \A s \in SLOs : cache[s] # NoState => cache[s].at \in Int
        /\ \A s \in SLOs : latest[s] # NoState => latest[s].at \in Int
    BY <1>0 DEF TypeOK, StoreTypeOK, Busy
  <2> QED
    BY <1>0, <2>1, <2>2 DEF Stamps, Busy
<1> QED
  BY <1>1, <1>2, <1>3, <1>4, <1>5, StepShapes
     DEF LoopBegins, EvaluateNow, Threads, envVars, storeVars

\* While no caller has forced s, only the loop of s works on s.
LEMMA OnlyItsLoop ==
  ASSUME TypeOK, LoopsEvaluateTheirOwn, CallersForce,
         NEW t \in Threads, Busy(t), ev[t].slo \notin forced
  PROVE  t = ev[t].slo
BY DEF LoopsEvaluateTheirOwn, CallersForce, Threads

LEMMA LoopIsNotOlderStep ==
  ASSUME TypeOK, LoopsEvaluateTheirOwn, CallersForce, Stamps, LoopIsNotOlder,
         [Next]_vars
  PROVE  LoopIsNotOlder'
<1>1. ASSUME NEW t \in Threads, EvaluateOnce(t) PROVE LoopIsNotOlder'
  <2> SUFFICES ASSUME NEW s \in SLOs \ forced, Busy(s)'
               PROVE  /\ cache'[s] # NoState => cache'[s].at <= ev'[s].now
                      /\ latest'[s] # NoState => latest'[s].at <= ev'[s].now
    BY <1>1, EvaluateOnceShape DEF LoopIsNotOlder
  <2>1. Busy(s) /\ ev'[s].now = ev[s].now
    BY <1>1, EvaluateOnceShape DEF Busy, Threads
  <2>2. ev[t].slo = s => t = s
    BY <1>1, OnlyItsLoop, EvaluateOnceShape
  <2>3. RowOf(ev[t]).at = ev[t].now /\ ev[t].now \in Int
    <3>1. ev[t] \in Activation
      BY <1>1, EvaluateOnceShape
    <3> QED
      BY <3>1, StoreAssumption DEF RowOf, Activation, Instants
  <2>4. /\ cache'[s] = cache[s] \/ (s = ev[t].slo /\ cache'[s] = RowOf(ev[t]))
        /\ latest'[s] = latest[s] \/ (s = ev[t].slo /\ latest'[s] = RowOf(ev[t]))
    BY <1>1, EvaluateOnceShape DEF TypeOK, StoreTypeOK
  <2> QED
    BY <2>1, <2>2, <2>3, <2>4 DEF LoopIsNotOlder
<1>2. ASSUME NEW s \in SLOs, LoopBegins(s) PROVE LoopIsNotOlder'
  <2>1. \A u \in SLOs : Busy(u)' =>
           (Busy(u) /\ ev'[u] = ev[u]) \/ (u = s /\ ev'[u].now = clock)
    BY <1>2, BeginShape DEF LoopBegins, Busy, Threads
  <2>2. UNCHANGED <<cache, latest, forced>>
    BY <1>2 DEF LoopBegins, storeVars
  <2> QED
    BY <2>1, <2>2 DEF LoopIsNotOlder, Stamps
<1>3. ASSUME NEW c \in Callers, NEW s \in SLOs, EvaluateNow(c, s)
      PROVE  LoopIsNotOlder'
  <2>1. \A u \in SLOs : ev'[u] = ev[u]
    BY <1>3, BeginShape, SchedulerAssumption DEF EvaluateNow, Threads
  <2> QED
    BY <1>3, <2>1 DEF EvaluateNow, LoopIsNotOlder, Busy, storeVars
<1>4. CASE LoadSLOs \/ Quiet
  BY <1>4 DEF LoadSLOs, Quiet, LoopIsNotOlder, Busy, evalVars
<1>5. CASE ProcessEnds
  BY <1>5 DEF ProcessEnds, LoopIsNotOlder, Busy, NoActivations, Threads
<1> QED
  BY <1>1, <1>2, <1>3, <1>4, <1>5, StepShapes

----------------------------------------------------------------------------
(* What is published is recorded.                                          *)

LEMMA DefinitionsStoredStep ==
  ASSUME TypeOK, DefinitionsStored, [Next]_vars
  PROVE  DefinitionsStored'
<1>1. ASSUME NEW t \in Threads, EvaluateOnce(t) PROVE DefinitionsStored'
  BY <1>1, EvaluateOnceShape DEF DefinitionsStored
<1>2. CASE LoadSLOs
  <2>1. PICK files \in (SUBSET SLOs) \ {{}} : slos' = files /\ StoreDefinitions(files)
    BY <1>2 DEF LoadSLOs
  <2> QED
    BY <1>2, <2>1 DEF LoadSLOs, StoreDefinitions, NewStore, DefinitionsStored
<1>3. ASSUME \/ \E s \in SLOs : LoopBegins(s)
             \/ \E c \in Callers, s \in SLOs : EvaluateNow(c, s)
             \/ ProcessEnds \/ Quiet
      PROVE  DefinitionsStored'
  BY <1>3
     DEF LoopBegins, EvaluateNow, ProcessEnds, Quiet, DefinitionsStored, ctlVars,
         storeVars
<1> QED
  BY <1>1, <1>2, <1>3, StepShapes

LEMMA ServedIsRecordedStep ==
  ASSUME TypeOK, OnlyLoadedSLOs, DefinitionsStored, Stamps, ServedIsRecorded,
         [Next]_vars
  PROVE  ServedIsRecorded'
<1> SUFFICES ASSUME ~StorageFaults, dbOpen', NEW s \in SLOs, cache'[s] # NoState
             PROVE  \/ cache'[s] \in evaluations'
                    \/ \E t \in Threads : InPhase(t, "store")' /\ RowOf(ev'[t]) = cache'[s]
  BY DEF ServedIsRecorded
<1>a. dbOpen /\ cache[s] # NoState =>
        \/ cache[s] \in evaluations
        \/ \E t \in Threads : InPhase(t, "store") /\ RowOf(ev[t]) = cache[s]
  BY DEF ServedIsRecorded
<1>1. ASSUME NEW t \in Threads, EvaluateOnce(t)
      PROVE  \/ cache'[s] \in evaluations'
             \/ \E u \in Threads : InPhase(u, "store")' /\ RowOf(ev'[u]) = cache'[s]
  <2>1. dbOpen /\ HasAudit /\ Writable(RowOf(ev[t]))
    BY <1>1, EvaluateOnceShape
       DEF DefinitionsStored, OnlyLoadedSLOs, Writable, RowOf
  <2>2. \A u \in Threads \ {t} : ev'[u] = ev[u]
    BY <1>1, EvaluateOnceShape
  <2>3. CASE Evaluate(t) \/ EvaluateFails(t)
    <3>1. UNCHANGED <<cache, evaluations>> /\ InPhase(t, "evaluate")
      BY <2>3 DEF Evaluate, EvaluateFails, storeVars
    <3> QED
      BY <1>a, <2>1, <2>2, <3>1 DEF InPhase
  <2>4. CASE SetCache(t)
    <3>1. InPhase(t, "set") /\ UNCHANGED evaluations
      BY <2>4 DEF SetCache, storeVars
    <3>2. cache' = [cache EXCEPT ![ev[t].slo] = RowOf(ev[t])]
      BY <2>4 DEF SetCache
    <3>3. InPhase(t, "store")' /\ RowOf(ev'[t]) = RowOf(ev[t])
      BY <1>1, <2>1, <2>4, EvaluateOnceShape
         DEF SetCache, InPhase, RowOf, TypeOK, Activation
    <3> QED
      BY <1>a, <2>1, <2>2, <3>1, <3>2, <3>3 DEF InPhase, TypeOK
  <2>5. CASE RecordEvaluation(t)
    <3>1. UNCHANGED cache /\ evaluations' = evaluations \cup {RowOf(ev[t])}
      BY <2>1, <2>5 DEF RecordEvaluation, StoreEvaluation, WriteFails
    <3> QED
      BY <1>a, <2>1, <2>2, <3>1 DEF InPhase
  <2>6. CASE RecordLatest(t)
    <3>1. UNCHANGED <<cache, evaluations>> /\ InPhase(t, "latest")
      BY <2>6 DEF RecordLatest, UpdateLatestState
    <3> QED
      BY <1>a, <2>1, <2>2, <3>1 DEF InPhase
  <2> QED
    BY <1>1, <2>3, <2>4, <2>5, <2>6 DEF EvaluateOnce
<1>2. ASSUME NEW t \in Threads, NEW n \in SLOs, Begin(t, n),
             UNCHANGED <<cache, dbOpen, evaluations>>
      PROVE  \/ cache'[s] \in evaluations'
             \/ \E u \in Threads : InPhase(u, "store")' /\ RowOf(ev'[u]) = cache'[s]
  <2>1. \A u \in Threads : InPhase(u, "store") => ev'[u] = ev[u]
    BY <1>2, BeginShape, PhaseMeansBusy DEF InPhase
  <2> QED
    BY <1>2, <1>a, <2>1 DEF InPhase
<1>3. CASE LoadSLOs
  BY <1>3 DEF LoadSLOs, OnlyLoadedSLOs, EmptyCache, evalVars
<1>4. CASE ProcessEnds
  BY <1>4 DEF ProcessEnds
<1>5. CASE Quiet
  BY <1>5, <1>a DEF Quiet, InPhase, evalVars
<1> QED
  BY <1>1, <1>2, <1>3, <1>4, <1>5, StepShapes
     DEF LoopBegins, EvaluateNow, Threads, storeVars

LEMMA LoopPublishesOnceStep ==
  ASSUME TypeOK, LoopsEvaluateTheirOwn, OnlyLoadedSLOs, CallersForce,
         DefinitionsStored, LoopPublishesOnce, [Next]_vars
  PROVE  LoopPublishesOnce'
<1>1. ASSUME NEW t \in Threads, EvaluateOnce(t) PROVE LoopPublishesOnce'
  <2> SUFFICES ASSUME NEW s \in SLOs \ forced
               PROVE  IF InPhase(s, "store")' \/ InPhase(s, "latest")'
                        THEN cache'[s] = RowOf(ev'[s])
                        ELSE ~StorageFaults /\ dbOpen /\ cache'[s] # NoState =>
                               latest'[s] = cache'[s]
    BY <1>1, EvaluateOnceShape DEF LoopPublishesOnce
  <2>0. IF InPhase(s, "store") \/ InPhase(s, "latest")
          THEN cache[s] = RowOf(ev[s])
          ELSE ~StorageFaults /\ dbOpen /\ cache[s] # NoState => latest[s] = cache[s]
    BY DEF LoopPublishesOnce
  <2>1. CASE t # s
    <3>1. ev[t].slo # s
      BY <1>1, <2>1, OnlyItsLoop, EvaluateOnceShape
    <3>2. ev'[s] = ev[s] /\ cache'[s] = cache[s] /\ latest'[s] = latest[s]
      BY <1>1, <2>1, <3>1, EvaluateOnceShape DEF Threads, TypeOK, StoreTypeOK
    <3> QED
      BY <2>0, <3>2 DEF InPhase
  <2>2. CASE t = s
    <3>1. /\ ev[s].slo = s /\ ev[s] \in Activation /\ s \in slos
          /\ Busy(s) /\ EvaluateOnce(s)
      BY <1>1, <2>2, EvaluateOnceShape DEF LoopsEvaluateTheirOwn, OnlyLoadedSLOs
    <3>2. CASE Evaluate(s)
      <4>1. UNCHANGED <<cache, latest>> /\ InPhase(s, "evaluate") /\ InPhase(s, "set")'
        BY <3>1, <3>2 DEF Evaluate, InPhase, TypeOK, Activation, Threads, storeVars
      <4> QED
        BY <2>0, <4>1 DEF InPhase
    <3>3. CASE EvaluateFails(s)
      <4>1. UNCHANGED <<cache, latest>> /\ InPhase(s, "evaluate") /\ InPhase(s, "idle")'
        BY <3>3 DEF EvaluateFails, Returns, InPhase, Idle, TypeOK, Threads, storeVars
      <4> QED
        BY <2>0, <4>1 DEF InPhase
    <3>4. CASE SetCache(s)
      <4>1. cache'[s] = RowOf(ev[s])
        BY <3>1, <3>4 DEF SetCache, TypeOK
      <4>2. CASE HasAudit
        BY <3>1, <3>4, <4>1, <4>2
           DEF SetCache, InPhase, RowOf, TypeOK, Activation, Threads
      <4>3. CASE ~HasAudit
        BY <3>4, <4>3 DEF SetCache, Returns, InPhase, Idle, TypeOK, Threads, DefinitionsStored
      <4> QED
        BY <4>2, <4>3
    <3>5. CASE RecordEvaluation(s)
      <4>1. cache' = cache /\ InPhase(s, "store") /\ InPhase(s, "latest")'
        BY <3>1, <3>5 DEF RecordEvaluation, InPhase, TypeOK, Activation, Threads
      <4>2. RowOf(ev'[s]) = RowOf(ev[s])
        BY <3>1, <3>5 DEF RecordEvaluation, RowOf, TypeOK, Activation, Threads
      <4> QED
        BY <2>0, <4>1, <4>2
    <3>6. CASE RecordLatest(s)
      <4>1. cache' = cache /\ InPhase(s, "latest") /\ InPhase(s, "idle")'
        BY <3>6 DEF RecordLatest, Returns, InPhase, Idle, TypeOK, Threads
      <4>2. ~StorageFaults /\ dbOpen => latest'[s] = RowOf(ev[s])
        BY <3>1, <3>6
           DEF RecordLatest, UpdateLatestState, Writable, WriteFails, RowOf,
               DefinitionsStored, TypeOK, StoreTypeOK
      <4> QED
        BY <2>0, <4>1, <4>2 DEF InPhase
    <3> QED
      BY <3>1, <3>2, <3>3, <3>4, <3>5, <3>6 DEF EvaluateOnce
  <2> QED
    BY <2>1, <2>2
<1>2. ASSUME NEW t \in Threads, NEW n \in SLOs, Begin(t, n),
             UNCHANGED <<cache, latest, dbOpen>>, forced \subseteq forced'
      PROVE  LoopPublishesOnce'
  <2>1. \A s \in SLOs :
          \/ ev'[s] = ev[s]
          \/ ev[s].phase = "idle" /\ ev'[s].phase = "evaluate"
    BY <1>2, BeginShape DEF Busy, Idle, Threads
  <2> QED
    BY <1>2, <2>1 DEF LoopPublishesOnce, InPhase
<1>3. CASE LoadSLOs
  BY <1>3 DEF LoadSLOs, OnlyLoadedSLOs, EmptyCache, LoopPublishesOnce, InPhase, evalVars
<1>4. CASE ProcessEnds
  BY <1>4
     DEF ProcessEnds, LoopPublishesOnce, InPhase, NoActivations, Idle, EmptyCache, Threads
<1>5. CASE Quiet
  BY <1>5 DEF Quiet, LoopPublishesOnce, InPhase, evalVars
<1> QED
  BY <1>1, <1>2, <1>3, <1>4, <1>5, StepShapes
     DEF LoopBegins, EvaluateNow, Threads, storeVars

----------------------------------------------------------------------------
(* The inductive invariant and what follows from it.                       *)

LEMMA IndInvInit == Init => IndInv
<1> SUFFICES ASSUME Init PROVE IndInv
  OBVIOUS
<1>1. TypeOK
  BY TypeOKInit
<1>2. \A t \in Threads : ~Busy(t) /\ ev[t].phase = "idle"
  BY DEF Init, NoActivations, Busy, Idle
<1>3. LoopsDrained /\ LoopsEvaluateTheirOwn /\ CallersForce /\ LoopIsNotOlder
  BY <1>2 DEF Init, NoLoops, LoopsDrained, LoopsEvaluateTheirOwn, CallersForce,
              LoopIsNotOlder, Threads
<1>4. OnlyLoadedSLOs /\ Stamps
  BY <1>2 DEF Init, NoLoops, EmptyCache, StoreInit, OnlyLoadedSLOs, Stamps
<1>5. DefinitionsStored /\ ServedIsRecorded /\ LoopPublishesOnce
  BY <1>2 DEF Init, EmptyCache, StoreInit, DefinitionsStored, ServedIsRecorded,
              LoopPublishesOnce, InPhase, Threads
<1> QED
  BY <1>1, <1>3, <1>4, <1>5 DEF IndInv

LEMMA IndInvStep == IndInv /\ [Next]_vars => IndInv'
BY TypeOKStep, LoopsStep, OnlyLoadedStep, CallersForceStep, StampsStep,
   LoopIsNotOlderStep, DefinitionsStoredStep, ServedIsRecordedStep,
   LoopPublishesOnceStep
   DEF IndInv

\* The inductive invariant holds in every state of the scheduler.
THEOREM SchedulerInvariant == Spec => []IndInv
BY IndInvInit, IndInvStep, PTL DEF Spec

\* When Stop has returned, no loop runs and none is inside evaluateOnce, so main
\* may close the database behind them (scheduler.go:117-131, main.go:118-126).
THEOREM StopDrainsLoops == Spec => []LoopsDrained
<1>1. IndInv => LoopsDrained
  BY DEF IndInv
<1> QED
  BY <1>1, SchedulerInvariant, PTL

\* While writes succeed and the database is open, what the gate can serve is in
\* the audit trail or its evaluation is about to record it: cache.Set comes
\* before StoreEvaluation, for the loops and for any number of callers.
THEOREM ServedDecisionsAreRecorded == Spec => []ServedIsRecorded
<1>1. IndInv => ServedIsRecorded
  BY DEF IndInv
<1> QED
  BY <1>1, SchedulerInvariant, PTL

\* For an SLO no caller has forced, cache and latest_state agree whenever its
\* loop is not inside an evaluation.
THEOREM LatestStateFollowsCache == Spec => []LatestFollowsCache
<1>1. IndInv => LatestFollowsCache
  BY DEF IndInv, LoopPublishesOnce, LatestFollowsCache, Writable, Busy, InPhase, Idle
<1> QED
  BY <1>1, SchedulerInvariant, PTL

\* The state of an SLO the gate reads, and the latest_state kept of it, only ever
\* go back in time if EvaluateNow has evaluated that SLO beside its loop.  The
\* comparison cache.Set does not make is made unnecessary by having one loop
\* per SLO, through Stop, Start and restarts of the process.
THEOREM RegressionNeedsForce == Spec => RegressesOnlyIfForced
<1>1. ASSUME IndInv, [Next]_vars
      PROVE  \A s \in SLOs :
               Older(cache'[s], cache[s]) \/ Older(latest'[s], latest[s]) => s \in forced
  <2>0. TypeOK /\ LoopsEvaluateTheirOwn /\ CallersForce /\ LoopIsNotOlder
    BY <1>1 DEF IndInv
  <2>1. TypeOK'
    BY <1>1, <2>0, TypeOKStep
  <2>2. \A x \in Row : x.at \in Int /\ ~(x.at < x.at)
    BY StoreAssumption DEF Row, Instants
  <2> SUFFICES ASSUME NEW s \in SLOs, s \notin forced
               PROVE  ~Older(cache'[s], cache[s]) /\ ~Older(latest'[s], latest[s])
    OBVIOUS
  <2>3. ASSUME NEW t \in Threads, EvaluateOnce(t)
        PROVE  ~Older(cache'[s], cache[s]) /\ ~Older(latest'[s], latest[s])
    <3>1. /\ cache'[s] = cache[s] \/ (s = ev[t].slo /\ cache'[s] = RowOf(ev[t]))
          /\ latest'[s] = latest[s] \/ (s = ev[t].slo /\ latest'[s] = RowOf(ev[t]))
      BY <2>0, <2>3, EvaluateOnceShape DEF TypeOK, StoreTypeOK
    <3>2. Busy(t) /\ ev[t] \in Activation
      BY <2>0, <2>3, EvaluateOnceShape
    <3>3. s = ev[t].slo => t = s
      BY <2>0, <3>2, OnlyItsLoop
    <3>4. RowOf(ev[t]).at = ev[t].now /\ ev[t].now \in Int
      BY <3>2, StoreAssumption DEF RowOf, Activation, Instants
    <3>5. s = ev[t].slo =>
            /\ cache[s] # NoState => cache[s].at <= RowOf(ev[t]).at
            /\ latest[s] # NoState => latest[s].at <= RowOf(ev[t]).at
      BY <2>0, <3>2, <3>3, <3>4 DEF LoopIsNotOlder
    <3>6. cache[s] \in Row \cup {NoState} /\ latest[s] \in Row \cup {NoState}
      BY <2>0 DEF TypeOK, StoreTypeOK
    <3> QED
      BY <2>2, <3>1, <3>4, <3>5, <3>6 DEF Older
  <2>4. CASE UNCHANGED <<cache, latest>>
    <3>1. cache[s] \in Row \cup {NoState} /\ latest[s] \in Row \cup {NoState}
      BY <2>0 DEF TypeOK, StoreTypeOK
    <3> QED
      BY <2>2, <2>4, <3>1 DEF Older
  <2>5. CASE ProcessEnds
    <3>1. cache'[s] = NoState /\ latest' = latest
      BY <2>5 DEF ProcessEnds, EmptyCache
    <3>2. latest[s] \in Row \cup {NoState}
      BY <2>0 DEF TypeOK, StoreTypeOK
    <3> QED
      BY <2>2, <3>1, <3>2 DEF Older
  <2> QED
    BY <1>1, <2>0, <2>3, <2>4, <2>5, StepShapes
       DEF LoopBegins, EvaluateNow, LoadSLOs, Quiet, evalVars, storeVars
<1>2. IndInv /\ [Next]_vars =>
        [\A s \in SLOs :
           Older(cache'[s], cache[s]) \/ Older(latest'[s], latest[s]) => s \in forced]_vars
  BY <1>1
<1> QED
  BY <1>2, SchedulerInvariant, PTL DEF Spec, RegressesOnlyIfForced

----------------------------------------------------------------------------
(* The scheduler implements GateLedger.                                    *)

LEMMA LedgerInit == Init => Ledger!Init
<1> SUFFICES ASSUME Init PROVE Ledger!Init
  OBVIOUS
<1>1. \A t \in Threads : ~InPhase(t, "store")
  BY DEF Init, NoActivations, InPhase, Idle
<1>2. Owed = {}
  BY <1>1 DEF Owed
<1> QED
  BY <1>2 DEF Init, StoreInit, EmptyCache, Ledger!Init

\* A step that leaves the debtors alone leaves the debts alone.
LEMMA SameDebts ==
  ASSUME \A t \in Threads : \/ ev'[t] = ev[t]
                            \/ ~InPhase(t, "store") /\ ~InPhase(t, "store")'
  PROVE  Owed' = Owed
BY DEF Owed, InPhase

LEMMA LedgerStep ==
  ASSUME IndInv, [Next]_vars
  PROVE  [Ledger!Next]_<<cache, Owed, evaluations>>
<1>0. TypeOK
  BY DEF IndInv
<1>1. ASSUME NEW t \in Threads, EvaluateOnce(t)
      PROVE  [Ledger!Next]_<<cache, Owed, evaluations>>
  <2> DEFINE row == RowOf(ev[t])
  <2>1. \A u \in Threads \ {t} : ev'[u] = ev[u]
    BY <1>0, <1>1, EvaluateOnceShape
  <2>2. ev[t] \in Activation
    BY <1>0, <1>1, EvaluateOnceShape
  <2>3. CASE Evaluate(t)
    <3>1. InPhase(t, "evaluate") /\ InPhase(t, "set")'
      BY <1>0, <2>2, <2>3 DEF Evaluate, InPhase, TypeOK, Activation
    <3>2. Owed' = Owed
      BY <2>1, <3>1, SameDebts DEF InPhase
    <3> QED
      BY <2>3, <3>2 DEF Evaluate, storeVars
  <2>4. CASE EvaluateFails(t)
    <3>1. InPhase(t, "evaluate") /\ InPhase(t, "idle")'
      BY <1>0, <2>4 DEF EvaluateFails, Returns, InPhase, Idle, TypeOK
    <3>2. Owed' = Owed
      BY <2>1, <3>1, SameDebts DEF InPhase
    <3> QED
      BY <2>4, <3>2 DEF EvaluateFails, storeVars
  <2>5. CASE SetCache(t)
    <3>1. /\ InPhase(t, "set") /\ row \in Row /\ row.slo = ev[t].slo
          /\ UNCHANGED evaluations
      BY <1>0, <2>2, <2>5, RowOfActivation
         DEF SetCache, TypeOK, Busy, InPhase, Idle, RowOf, storeVars
    <3>2. cache' = [cache EXCEPT ![row.slo] = row]
      BY <2>5, <3>1 DEF SetCache
    <3>3. CASE HasAudit
      <4>1. InPhase(t, "store")' /\ RowOf(ev'[t]) = row
        BY <1>0, <2>2, <2>5, <3>3 DEF SetCache, InPhase, RowOf, TypeOK, Activation
      <4>2. Owed' = Owed \cup {<<t, row>>}
        BY <2>1, <3>1, <4>1 DEF Owed, InPhase
      <4>3. Ledger!Publish(t, row)
        BY <3>1, <3>2, <3>3, <4>2 DEF Ledger!Publish
      <4> QED
        BY <3>1, <4>3 DEF Ledger!Next
    <3>4. CASE ~HasAudit
      <4>1. InPhase(t, "idle")'
        BY <1>0, <2>5, <3>4 DEF SetCache, Returns, InPhase, Idle, TypeOK
      <4>2. Owed' = Owed
        BY <2>1, <3>1, <4>1, SameDebts DEF InPhase
      <4>3. Ledger!Publish(t, row)
        BY <3>1, <3>2, <3>4, <4>2 DEF Ledger!Publish
      <4> QED
        BY <3>1, <4>3 DEF Ledger!Next
    <3> QED
      BY <3>3, <3>4
  <2>6. CASE RecordEvaluation(t)
    <3>1. InPhase(t, "store") /\ InPhase(t, "latest")' /\ cache' = cache
      BY <1>0, <2>2, <2>6 DEF RecordEvaluation, InPhase, TypeOK, Activation
    <3>2. evaluations' = evaluations \cup {row} \/ evaluations' = evaluations
      BY <2>6 DEF RecordEvaluation, StoreEvaluation
    <3>3. <<t, row>> \in Owed /\ Owed' = Owed \ {<<t, row>>}
      BY <2>1, <3>1 DEF Owed, InPhase
    <3>4. Ledger!Settle(<<t, row>>)
      BY <3>1, <3>2, <3>3 DEF Ledger!Settle
    <3> QED
      BY <3>3, <3>4 DEF Ledger!Next
  <2>7. CASE RecordLatest(t)
    <3>1. InPhase(t, "latest") /\ InPhase(t, "idle")' /\ UNCHANGED <<cache, evaluations>>
      BY <1>0, <2>7
         DEF RecordLatest, UpdateLatestState, Returns, InPhase, Idle, TypeOK
    <3>2. Owed' = Owed
      BY <2>1, <3>1, SameDebts DEF InPhase
    <3> QED
      BY <3>1, <3>2
  <2> QED
    BY <1>1, <2>3, <2>4, <2>5, <2>6, <2>7 DEF EvaluateOnce
<1>2. ASSUME NEW t \in Threads, NEW s \in SLOs, Begin(t, s),
             UNCHANGED <<cache, evaluations>>
      PROVE  [Ledger!Next]_<<cache, Owed, evaluations>>
  <2>1. \A u \in Threads : \/ ev'[u] = ev[u]
                           \/ ~InPhase(u, "store") /\ ~InPhase(u, "store")'
    BY <1>0, <1>2, BeginShape DEF Busy, InPhase, Idle
  <2> QED
    BY <1>2, <2>1, SameDebts
<1>3. CASE LoadSLOs \/ Quiet
  <2>1. UNCHANGED <<ev, cache, evaluations>>
    BY <1>3 DEF LoadSLOs, Quiet, evalVars
  <2> QED
    BY <2>1, SameDebts
<1>4. CASE ProcessEnds
  <2>1. \A t \in Threads : ~InPhase(t, "store")'
    BY <1>4 DEF ProcessEnds, NoActivations, InPhase, Idle
  <2>2. Owed' = {}
    BY <2>1 DEF Owed
  <2>3. Ledger!Restart
    BY <1>4, <2>2 DEF ProcessEnds, EmptyCache, Ledger!Restart
  <2> QED
    BY <2>3 DEF Ledger!Next
<1> QED
  BY <1>0, <1>1, <1>2, <1>3, <1>4, StepShapes
     DEF LoopBegins, EvaluateNow, Threads, storeVars

\* The scheduler refines the ledger: the audit trail only grows, it holds only
\* decisions that were in force first, and every decision in force is owed to it
\* by the thread that cached it until that thread has called StoreEvaluation.
THEOREM SchedulerKeepsLedger == Spec => KeepsLedger
<1>1. IndInv /\ [Next]_vars => [Ledger!Next]_<<cache, Owed, evaluations>>
  BY LedgerStep
<1>2. Spec => Ledger!Init /\ [][Ledger!Next]_<<cache, Owed, evaluations>>
  BY <1>1, LedgerInit, SchedulerInvariant, PTL DEF Spec
<1> QED
  BY <1>2 DEF KeepsLedger, Ledger!Spec, Ledger!vars

=============================================================================
