--------------------------- MODULE GateAPI_proofs ---------------------------
(***************************************************************************)
(* The handlers drive the scheduler within its specification, so that what *)
(* Scheduler_proofs establishes holds under them too; and what they answer *)
(* covers every SLO of the request's arrival and, if it is a forced one    *)
(* without rivals, rests on metrics of the request's time.                 *)
(***************************************************************************)
EXTENDS GateAPI, Scheduler_proofs, FiniteSetTheorems

----------------------------------------------------------------------------
(* Every step of the handlers is a step of the scheduler or none.          *)

LEMMA ArrivesFrame ==
  ASSUME NEW c \in Callers, Arrives(c)
  PROVE  UNCHANGED vars
BY DEF Arrives, GateRequest, StateRequest, ReadyRequest

LEMMA HandleStep ==
  ASSUME TypeOK, NEW c \in Callers, Handle(c)
  PROVE  [Next]_vars
<1>0. c \in Threads
  BY DEF Threads
<1>1. CASE ForceEvaluation(c)
  <2>1. CASE UNCHANGED vars
    BY <2>1
  <2>2. CASE \E s \in req[c].names : EvaluateNow(c, s)
    <3>1. PICK s \in req[c].names : EvaluateNow(c, s)
      BY <2>2
    <3>2. s \in SLOs
      BY <3>1 DEF EvaluateNow, CanEvaluateNow, TypeOK
    <3> QED
      BY <3>1, <3>2 DEF Next
  <2> QED
    BY <1>1, <2>1, <2>2 DEF ForceEvaluation
<1>2. CASE HandlerEvaluates(c)
  BY <1>0, <1>2 DEF HandlerEvaluates, Next
<1>3. CASE ForceReturns(c) \/ ReadCache(c) \/ CollectOne(c) \/ Respond(c)
  BY <1>3 DEF ForceReturns, ReadCache, CollectOne, Respond
<1> QED
  BY <1>1, <1>2, <1>3 DEF Handle

LEMMA APIStepIsSchedulerStep ==
  ASSUME TypeOK, [APINext]_apiVars
  PROVE  [Next]_vars
<1>1. CASE SchedulerStep
  BY <1>1 DEF SchedulerStep, Next, Threads
<1>2. CASE \E c \in Callers : Arrives(c)
  BY <1>2, ArrivesFrame
<1>3. CASE \E c \in Callers : Handle(c)
  BY <1>3, HandleStep
<1>4. CASE Crash \/ \E s \in SLOs : TickerPanics(s)
  BY <1>4 DEF Next, Loop
<1>5. CASE UNCHANGED apiVars
  BY <1>5 DEF apiVars
<1> QED
  BY <1>1, <1>2, <1>3, <1>4, <1>5 DEF APINext

\* Under the handlers the scheduler behaves as specified.
THEOREM APIImplementsScheduler == APISpec => Spec /\ []IndInv
<1>1. APIInit => Init /\ IndInv
  BY IndInvInit DEF APIInit
<1>2. IndInv /\ [APINext]_apiVars => [Next]_vars
  BY APIStepIsSchedulerStep DEF IndInv
<1>3. IndInv /\ [APINext]_apiVars => IndInv'
  BY <1>2, IndInvStep
<1> QED
  BY <1>1, <1>2, <1>3, PTL DEF APISpec, Spec

----------------------------------------------------------------------------
(* Type correctness of the requests.                                       *)

LEMMA CachedRowsType ==
  ASSUME TypeOK, NEW names, names \subseteq SLOs
  PROVE  CachedRows(names) \subseteq Row
BY DEF CachedRows, TypeOK

LEMMA ArrivalType ==
  ASSUME TypeOK,
         NEW kind \in {"gate", "state", "ready"},
         NEW phase \in {"force", "forcing", "read", "collect", "done"},
         NEW status \in {"pending", "ok", "badRequest", "notFound", "error", "unavailable"},
         NEW names, names \subseteq SLOs, NEW force \in BOOLEAN
  PROVE  Arrival(kind, phase, status, names, force) \in Request
<1>1. CachedRows(names) \subseteq Row
  BY CachedRowsType
<1>2. clock \in Instants
  BY DEF TypeOK
<1>3. (\E t \in Threads : Busy(t) /\ ev[t].slo \in names) \in BOOLEAN
  OBVIOUS
<1> QED
  BY <1>1, <1>2, <1>3 DEF Arrival, Request

\* A request in one of the handlers' phases is a request.
LEMMA PhaseIsRequest ==
  ASSUME APITypeOK, NEW c \in Callers,
         req[c].phase \in {"force", "forcing", "read", "collect", "done"}
  PROVE  req[c] \in Request
BY DEF APITypeOK, NoRequest

LEMMA AnswerType ==
  ASSUME APITypeOK, NEW c \in Callers, req[c] \in Request,
         NEW status \in {"pending", "ok", "badRequest", "notFound", "error", "unavailable"},
         NEW rows, rows \subseteq Row, Answer(c, status, rows)
  PROVE  APITypeOK'
BY DEF APITypeOK, Answer, Request

\* What an arrival and a handler's step do to the requests.
LEMMA ArrivesType ==
  ASSUME TypeOK, APITypeOK, NEW c \in Callers, Arrives(c)
  PROVE  APITypeOK'
<1>1. ASSUME NEW r \in Request, req' = [req EXCEPT ![c] = r]
      PROVE  APITypeOK'
  BY <1>1 DEF APITypeOK
<1>2. ASSUME NEW s \in SLOs, NEW force \in BOOLEAN, GateRequest(c, s, force)
      PROVE  APITypeOK'
  <2>1. PICK phase \in {"done", IF force THEN "force" ELSE "read"} :
          req' = [req EXCEPT ![c] =
                    Arrival("gate", phase,
                            IF phase = "done" THEN "badRequest" ELSE "pending",
                            IF phase = "done" THEN {} ELSE {s}, force)]
    BY <1>2 DEF GateRequest
  <2>2. Arrival("gate", phase, IF phase = "done" THEN "badRequest" ELSE "pending",
                IF phase = "done" THEN {} ELSE {s}, force) \in Request
    <3>1. phase \in {"force", "forcing", "read", "collect", "done"}
      OBVIOUS
    <3>2. (IF phase = "done" THEN "badRequest" ELSE "pending") \in
            {"pending", "ok", "badRequest", "notFound", "error", "unavailable"}
      OBVIOUS
    <3>3. (IF phase = "done" THEN {} ELSE {s}) \subseteq SLOs
      OBVIOUS
    <3> QED
      BY <3>1, <3>2, <3>3, ArrivalType
  <2> QED
    BY <1>1, <2>1, <2>2
<1>3. CASE StateRequest(c)
  <2>1. slos \cap Group \subseteq SLOs
    BY DEF TypeOK
  <2>2. Arrival("state", "done", "notFound", {}, FALSE) \in Request
    BY ArrivalType
  <2>3. Arrival("state", "collect", "pending", slos \cap Group, FALSE) \in Request
    BY <2>1, ArrivalType
  <2> QED
    BY <1>1, <1>3, <2>2, <2>3 DEF StateRequest
<1>4. CASE ReadyRequest(c)
  <2>1. /\ Arrival("ready", "done", "unavailable", {}, FALSE) \in Request
        /\ Arrival("ready", "done", "ok", {}, FALSE) \in Request
    BY ArrivalType
  <2> QED
    BY <1>1, <1>4, <2>1 DEF ReadyRequest
<1> QED
  BY <1>2, <1>3, <1>4 DEF Arrives

LEMMA HandleType ==
  ASSUME TypeOK, APITypeOK, CallersServe, NEW c \in Callers, Handle(c)
  PROVE  APITypeOK'
<1>1. ASSUME req[c] \in Request,
             \/ \E phase \in {"forcing", "read"} : req' = [req EXCEPT ![c].phase = phase]
             \/ req' = [req EXCEPT ![c].failed = TRUE]
             \/ req' = req
             \/ req' = [req EXCEPT ![c] = NoRequest]
      PROVE  APITypeOK'
  <2>1. ASSUME NEW phase \in {"forcing", "read"}, req' = [req EXCEPT ![c].phase = phase]
        PROVE  APITypeOK'
    BY <1>1, <2>1 DEF APITypeOK, Request
  <2>2. CASE req' = [req EXCEPT ![c].failed = TRUE]
    BY <1>1, <2>2 DEF APITypeOK, Request
  <2>3. CASE req' = req \/ req' = [req EXCEPT ![c] = NoRequest]
    BY <2>3 DEF APITypeOK
  <2> QED
    BY <1>1, <2>1, <2>2, <2>3
<1>2. CASE ForceEvaluation(c)
  <2>1. req[c] \in Request
    BY <1>2, PhaseIsRequest DEF ForceEvaluation, AtPhase
  <2> QED
    BY <1>1, <1>2, <2>1, AnswerType DEF ForceEvaluation
<1>3. CASE HandlerEvaluates(c)
  <2>1. CASE req' = req
    BY <2>1 DEF APITypeOK
  <2>2. CASE req' = [req EXCEPT ![c].failed = TRUE]
    <3>1. Busy(c)
      BY <1>3, EvaluateOnceShape DEF HandlerEvaluates, Threads
    <3>2. req[c] \in Request
      BY <3>1, PhaseIsRequest DEF CallersServe, AtPhase
    <3> QED
      BY <1>1, <2>2, <3>2
  <2> QED
    BY <1>3, <2>1, <2>2 DEF HandlerEvaluates
<1>4. CASE ForceReturns(c)
  BY <1>1, <1>4, PhaseIsRequest DEF ForceReturns, AtPhase
<1>5. CASE ReadCache(c)
  <2>1. req[c] \in Request
    BY <1>5, PhaseIsRequest DEF ReadCache, AtPhase
  <2>2. PICK s \in req[c].names :
          Answer(c, IF cache[s] = NoState THEN "notFound" ELSE "ok", CachedRows({s}))
    BY <1>5 DEF ReadCache
  <2>3. CachedRows({s}) \subseteq Row
    BY <2>1, CachedRowsType DEF Request
  <2> QED
    BY <2>1, <2>2, <2>3, AnswerType
<1>6. CASE CollectOne(c)
  <2>1. req[c] \in Request
    BY <1>6, PhaseIsRequest DEF CollectOne, AtPhase
  <2>2. PICK s \in req[c].names :
          IF req[c].names = {s}
            THEN Answer(c, "ok", req[c].rows \cup CachedRows({s}))
            ELSE req' = [req EXCEPT ![c].names = @ \ {s},
                                    ![c].rows = req[c].rows \cup CachedRows({s})]
    BY <1>6 DEF CollectOne
  <2>3. req[c].rows \cup CachedRows({s}) \subseteq Row
    BY <2>1, CachedRowsType DEF Request
  <2>4. CASE Answer(c, "ok", req[c].rows \cup CachedRows({s}))
    BY <2>1, <2>3, <2>4, AnswerType
  <2>5. CASE req' = [req EXCEPT ![c].names = @ \ {s},
                                ![c].rows = req[c].rows \cup CachedRows({s})]
    BY <2>1, <2>3, <2>5 DEF APITypeOK, Request
  <2> QED
    BY <2>2, <2>4, <2>5
<1>7. CASE Respond(c)
  BY <1>1, <1>7, PhaseIsRequest DEF Respond, AtPhase
<1> QED
  BY <1>2, <1>3, <1>4, <1>5, <1>6, <1>7 DEF Handle

----------------------------------------------------------------------------
(* Callers evaluate for a request only.                                    *)

\* The scheduler's own steps evaluate on the loops' threads.
LEMMA SchedulerStepLeavesCallers ==
  ASSUME TypeOK, SchedulerStep, NEW c \in Callers
  PROVE  ev'[c] = ev[c]
<1>0. c \in Threads /\ c \notin SLOs
  BY SchedulerAssumption DEF Threads
<1>1. ASSUME NEW s \in SLOs, EvaluateOnce(s)
      PROVE  ev'[c] = ev[c]
  BY <1>0, <1>1, EvaluateOnceShape DEF Threads
<1>2. ASSUME NEW s \in SLOs, Begin(s, s)
      PROVE  ev'[c] = ev[c]
  BY <1>0, <1>2, BeginShape DEF Threads
<1>3. ASSUME NEW s \in SLOs, Loop(s), ~TickerPanics(s)
      PROVE  ev'[c] = ev[c]
  BY <1>2, <1>3
     DEF Loop, LoopEnters, TickerStarts, TickerFires, SelectTick, SelectDone, evalVars
<1>4. CASE Environment \/ Main
  BY <1>4
     DEF Environment, Tick, MetricsChange, AdapterChange, Main, LoadSLOs, Start,
         Stop, StopReturns, CloseStore, evalVars
<1> QED
  BY <1>1, <1>3, <1>4 DEF SchedulerStep

LEMMA CallersServeStep ==
  ASSUME TypeOK, APIInv, [APINext]_apiVars
  PROVE  CallersServe'
<1>0. APITypeOK /\ CallersServe
  BY DEF APIInv
<1>1. CASE SchedulerStep /\ UNCHANGED req
  BY <1>0, <1>1, SchedulerStepLeavesCallers DEF CallersServe, Busy, AtPhase
<1>2. ASSUME NEW c \in Callers, Arrives(c)
      PROVE  CallersServe'
  <2>1. req[c] = NoRequest /\ \A b \in Callers \ {c} : req'[b] = req[b]
    BY <1>0, <1>2
       DEF Arrives, GateRequest, StateRequest, ReadyRequest, APITypeOK
  <2>2. ~Busy(c)
    BY <1>0, <2>1 DEF CallersServe, AtPhase, NoRequest
  <2>3. ev' = ev
    BY <1>2, ArrivesFrame DEF vars, evalVars
  <2> QED
    BY <1>0, <2>1, <2>2, <2>3 DEF CallersServe, Busy, AtPhase
<1>3. ASSUME NEW c \in Callers, Handle(c)
      PROVE  CallersServe'
  <2>0. c \in Threads /\ \A b \in Callers \ {c} : b \in Threads \ {c}
    BY DEF Threads
  <2>1. \A b \in Callers \ {c} : req'[b] = req[b]
    BY <1>0, <1>3
       DEF Handle, ForceEvaluation, HandlerEvaluates, ForceReturns, ReadCache,
           CollectOne, Respond, Answer, APITypeOK
  <2>2. ASSUME \A b \in Callers \ {c} : ev'[b] = ev[b],
               ev'[c] # Idle => req'[c].phase = "forcing"
        PROVE  CallersServe'
    BY <1>0, <2>1, <2>2 DEF CallersServe, Busy, AtPhase
  <2>3. CASE ForceEvaluation(c)
    <3>1. req[c].phase = "force" /\ ~Busy(c)
      BY <1>0, <2>3 DEF ForceEvaluation, AtPhase, CallersServe
    <3>2. CASE \E s \in req[c].names :
                 EvaluateNow(c, s) /\ req' = [req EXCEPT ![c].phase = "forcing"]
      <4>1. PICK s \in req[c].names :
              EvaluateNow(c, s) /\ req' = [req EXCEPT ![c].phase = "forcing"]
        BY <3>2
      <4>2. s \in SLOs /\ Begin(c, s)
        BY <4>1 DEF EvaluateNow, CanEvaluateNow, TypeOK
      <4>3. \A b \in Callers \ {c} : ev'[b] = ev[b]
        BY <2>0, <4>2, BeginShape
      <4>4. req'[c].phase = "forcing"
        <5>1. req[c] \in Request
          BY <1>0, <3>1, PhaseIsRequest
        <5> QED
          BY <1>0, <4>1, <5>1 DEF APITypeOK, Request
      <4> QED
        BY <2>2, <4>3, <4>4
    <3>3. CASE UNCHANGED vars
      BY <2>2, <3>1, <3>3 DEF vars, evalVars, Busy
    <3> QED
      BY <2>3, <3>2, <3>3 DEF ForceEvaluation
  <2>4. CASE HandlerEvaluates(c)
    <3>1. EvaluateOnce(c)
      BY <2>4 DEF HandlerEvaluates
    <3>2. Busy(c) /\ \A b \in Callers \ {c} : ev'[b] = ev[b]
      BY <2>0, <3>1, EvaluateOnceShape
    <3>3. req[c].phase = "forcing" /\ req[c] \in Request
      BY <1>0, <3>2, PhaseIsRequest DEF CallersServe, AtPhase
    <3>4. req'[c].phase = "forcing"
      BY <1>0, <2>4, <3>3 DEF HandlerEvaluates, APITypeOK, Request
    <3> QED
      BY <2>2, <3>2, <3>4
  <2>5. CASE ForceReturns(c) \/ ReadCache(c) \/ CollectOne(c) \/ Respond(c)
    <3>1. ~Busy(c) /\ ev' = ev
      BY <1>0, <2>5
         DEF ForceReturns, ReadCache, CollectOne, Respond, AtPhase, CallersServe,
             vars, evalVars
    <3> QED
      BY <2>2, <3>1 DEF Busy
  <2> QED
    BY <1>3, <2>3, <2>4, <2>5 DEF Handle
<1>4. CASE (Crash \/ \E s \in SLOs : TickerPanics(s)) /\ req' = NoRequests
  BY <1>4
     DEF Crash, TickerPanics, ProcessEnds, NoActivations, Threads, CallersServe, Busy
<1>5. CASE UNCHANGED apiVars
  BY <1>0, <1>5 DEF apiVars, vars, evalVars, CallersServe, Busy, AtPhase
<1> QED
  BY <1>1, <1>2, <1>3, <1>4, <1>5 DEF APINext

\* A goroutine without a request takes no step of a handler.
LEMMA NoRequestNoHandler ==
  ASSUME TypeOK, CallersServe, NEW c \in Callers, req[c] = NoRequest
  PROVE  ~Busy(c) /\ ~Handle(c)
<1>1. ~Busy(c)
  BY DEF CallersServe, AtPhase, NoRequest
<1>2. ~HandlerEvaluates(c)
  BY <1>1, EvaluateOnceShape DEF HandlerEvaluates, Threads
<1> QED
  BY <1>1, <1>2
     DEF Handle, ForceEvaluation, ForceReturns, ReadCache, CollectOne, Respond,
         AtPhase, NoRequest

----------------------------------------------------------------------------
(* What the handlers see of the rest: the cache, and who is filling it.    *)

\* A step that the process outlives: an evaluation goes on, or begins with the
\* time of the clock, or neither and the cache stays as it is.
Lives ==
  /\ forced \subseteq forced' /\ clock' \in clock .. MaxTime
  /\ \/ \E t \in Threads : EvaluateOnce(t)
     \/ \E t \in Threads, s \in SLOs : Begin(t, s) /\ UNCHANGED <<clock, cache>>
     \/ UNCHANGED <<ev, cache>>

LEMMA EvaluateOnceLives ==
  ASSUME TypeOK, NEW t \in Threads, EvaluateOnce(t)
  PROVE  Lives
<1>1. clock' = clock /\ forced' = forced
  BY EvaluateOnceShape
<1> QED
  BY <1>1, StoreAssumption DEF Lives, TypeOK, Instants

LEMMA SchedulerStepLives ==
  ASSUME TypeOK, SchedulerStep
  PROVE  Lives
<1>0. /\ clock \in Int /\ MaxTime \in Int /\ clock \in clock .. MaxTime
      /\ clock < MaxTime => clock + 1 \in clock .. MaxTime
  BY StoreAssumption DEF TypeOK, Instants
<1>1. CASE Environment
  BY <1>0, <1>1
     DEF Environment, Tick, MetricsChange, AdapterChange, evalVars, Lives
<1>2. CASE Main
  BY <1>0, <1>2
     DEF Main, LoadSLOs, Start, Stop, StopReturns, CloseStore, envVars, evalVars, Lives
<1>3. CASE \E s \in SLOs : EvaluateOnce(s)
  BY <1>3, EvaluateOnceLives DEF Threads
<1>4. ASSUME NEW s \in SLOs, Loop(s), ~TickerPanics(s)
      PROVE  Lives
  <2>0. s \in Threads
    BY DEF Threads
  <2>1. CASE LoopEnters(s) \/ SelectTick(s)
    BY <1>0, <2>0, <2>1 DEF LoopEnters, SelectTick, envVars, Lives
  <2>2. CASE TickerStarts(s) \/ TickerFires(s) \/ SelectDone(s)
    BY <1>0, <2>2
       DEF TickerStarts, TickerFires, SelectDone, envVars, evalVars, Lives
  <2> QED
    BY <1>4, <2>1, <2>2 DEF Loop
<1> QED
  BY <1>1, <1>2, <1>3, <1>4 DEF SchedulerStep

LEMMA UnchangedLives ==
  ASSUME TypeOK, UNCHANGED vars
  PROVE  Lives
BY StoreAssumption DEF vars, envVars, evalVars, Lives, TypeOK, Instants

LEMMA EvaluateNowLives ==
  ASSUME TypeOK, NEW c \in Callers, NEW s \in SLOs, EvaluateNow(c, s)
  PROVE  Lives
BY StoreAssumption
   DEF EvaluateNow, envVars, Lives, TypeOK, Instants, Threads

\* A row that is cached is a row.
LEMMA SetCacheCachesRow ==
  ASSUME TypeOK, NEW t \in Threads, SetCache(t)
  PROVE  RowOf(ev[t]) \in Row /\ RowOf(ev[t]) # NoState
<1>1. Busy(t) /\ ev[t] \in Activation
  BY PhaseMeansBusy DEF SetCache, InPhase
<1>2. ev[t].decision \in Decisions
  BY <1>1 DEF SetCache, InPhase, TypeOK
<1> QED
  BY <1>1, <1>2, StoreAssumption DEF RowOf, Row, Activation

\* What is cached of an SLO stays or is replaced: by something older only if
\* EvaluateNow has evaluated that SLO.
LEMMA CacheAdvances ==
  ASSUME IndInv, Lives, NEW s \in SLOs, cache[s] # NoState
  PROVE  /\ cache'[s] # NoState /\ cache'[s].slo = s
         /\ cache[s].at \in Int /\ cache'[s].at \in Int
         /\ cache'[s].at >= cache[s].at \/ s \in forced
<1>0. TypeOK /\ LoopsEvaluateTheirOwn /\ CallersForce /\ LoopIsNotOlder /\ Stamps
  BY DEF IndInv
<1>1. cache[s] \in Row /\ cache[s].at \in Int /\ cache[s].slo = s
  BY <1>0, StoreAssumption DEF TypeOK, Stamps, Row, Instants
<1>2. CASE cache' = cache
  BY <1>1, <1>2
<1>3. ASSUME NEW t \in Threads, EvaluateOnce(t), cache'[s] # cache[s]
      PROVE  /\ cache'[s] # NoState /\ cache'[s].slo = s /\ cache'[s].at \in Int
             /\ cache'[s].at >= cache[s].at \/ s \in forced
  <2>1. Busy(t) /\ ev[t] \in Activation
    BY <1>0, <1>3, EvaluateOnceShape
  <2>2. s = ev[t].slo /\ cache'[s] = RowOf(ev[t])
    BY <1>0, <1>3, EvaluateOnceShape DEF TypeOK
  <2>3. /\ RowOf(ev[t]).slo = s /\ RowOf(ev[t]).at = ev[t].now
        /\ ev[t].now \in Int
    BY <2>1, <2>2, StoreAssumption DEF RowOf, Activation, Instants
  <2>4. RowOf(ev[t]) # NoState
    BY <1>0, <1>3, SetCacheCachesRow
       DEF EvaluateOnce, Evaluate, EvaluateFails, RecordEvaluation, RecordLatest
  <2>5. s \notin forced => t = s /\ cache[s].at <= ev[t].now
    <3>1. SUFFICES ASSUME s \notin forced PROVE t = s /\ cache[s].at <= ev[t].now
      OBVIOUS
    <3>2. t = s
      BY <1>0, <2>1, <2>2, <3>1, OnlyItsLoop
    <3> QED
      BY <1>0, <2>1, <3>1, <3>2 DEF LoopIsNotOlder
  <2> QED
    BY <1>1, <2>2, <2>3, <2>4, <2>5
<1> QED
  BY <1>1, <1>2, <1>3 DEF Lives

LEMMA CacheCoversLasts ==
  ASSUME IndInv, Lives, NEW old \in Row, CacheCovers(old)
  PROVE  CacheCovers(old)'
<1>1. old.slo \in SLOs /\ old.at \in Int
  BY StoreAssumption DEF Row, Instants
<1>2. cache[old.slo] # NoState /\ Covers(cache[old.slo], old)
  BY DEF CacheCovers
<1>3. /\ cache'[old.slo] # NoState /\ cache'[old.slo].slo = old.slo
      /\ cache[old.slo].at \in Int /\ cache'[old.slo].at \in Int
      /\ cache'[old.slo].at >= cache[old.slo].at \/ old.slo \in forced
  BY <1>1, <1>2, CacheAdvances
<1> QED
  BY <1>1, <1>2, <1>3 DEF CacheCovers, Covers, Lives

\* No evaluation older than since is under way: none will be, and the cache stays
\* as recent.
LEMMA SinceLasts ==
  ASSUME TypeOK, Lives, NEW s \in SLOs, NEW since \in Int, since <= clock,
         EvaluationsSince(s, since)
  PROVE  /\ since <= clock' /\ EvaluationsSince(s, since)'
         /\ CacheSince(s, since) => CacheSince(s, since)'
<1>1. clock \in Int /\ since <= clock'
  BY StoreAssumption DEF Lives, TypeOK, Instants
<1>2. CASE UNCHANGED <<ev, cache>>
  BY <1>1, <1>2 DEF EvaluationsSince, CacheSince, Busy
<1>3. ASSUME NEW t \in Threads, NEW u \in SLOs, Begin(t, u), cache' = cache
      PROVE  /\ EvaluationsSince(s, since)'
             /\ CacheSince(s, since) => CacheSince(s, since)'
  <2>1. /\ \A v \in Threads \ {t} : ev'[v] = ev[v]
        /\ ev'[t].now = clock
    BY <1>3, BeginShape
  <2> QED
    BY <1>1, <1>3, <2>1 DEF EvaluationsSince, CacheSince, Busy
<1>4. ASSUME NEW t \in Threads, EvaluateOnce(t)
      PROVE  /\ EvaluationsSince(s, since)'
             /\ CacheSince(s, since) => CacheSince(s, since)'
  <2>1. /\ Busy(t) /\ ev[t] \in Activation
        /\ \A v \in Threads \ {t} : ev'[v] = ev[v]
        /\ ev'[t] = Idle \/ (ev'[t].slo = ev[t].slo /\ ev'[t].now = ev[t].now)
        /\ cache' = cache \/ cache' = [cache EXCEPT ![ev[t].slo] = RowOf(ev[t])]
    BY <1>4, EvaluateOnceShape
  <2>2. EvaluationsSince(s, since)'
    BY <2>1 DEF EvaluationsSince, Busy
  <2>3. cache'[s] = cache[s] \/ (ev[t].slo = s /\ SetCache(t) /\ cache'[s] = RowOf(ev[t]))
    <3>1. CASE cache' = cache
      BY <3>1
    <3>2. CASE SetCache(t)
      BY <2>1, <3>2 DEF SetCache, TypeOK, Activation
    <3> QED
      BY <1>4, <3>1, <3>2
         DEF EvaluateOnce, Evaluate, EvaluateFails, RecordEvaluation, RecordLatest
  <2>4. ev[t].slo = s /\ SetCache(t) /\ cache'[s] = RowOf(ev[t]) => CacheSince(s, since)'
    BY <2>1, SetCacheCachesRow DEF EvaluationsSince, CacheSince, RowOf
  <2> QED
    BY <2>2, <2>3, <2>4 DEF CacheSince
<1> QED
  BY <1>1, <1>2, <1>3, <1>4 DEF Lives

----------------------------------------------------------------------------
(* Answers cover what the cache held when their requests came.             *)

\* A step that keeps what is left to read, or reads it.
LEMMA ArrivalCoveredLasts ==
  ASSUME IndInv, Lives, NEW c \in Callers, req[c] \in Request, ArrivalCovered(req[c]),
         req'[c].had = req[c].had,
         req'[c].status \in {"pending", "ok"} =>
           /\ req[c].status \in {"pending", "ok"}
           /\ req[c].rows \subseteq req'[c].rows
           /\ \A s \in req[c].names \ req'[c].names : CachedRows({s}) \subseteq req'[c].rows
  PROVE  ArrivalCovered(req[c])'
<1>1. SUFFICES ASSUME NEW old \in req[c].had
               PROVE  /\ CacheCovers(old)'
                      /\ req'[c].status \in {"pending", "ok"} =>
                           \/ old.slo \in req'[c].names
                           \/ \E row \in req'[c].rows : Covers(row, old)'
  BY DEF ArrivalCovered
<1>2. old \in Row /\ CacheCovers(old)
  BY DEF Request, ArrivalCovered
<1>3. CacheCovers(old)'
  BY <1>2, CacheCoversLasts
<1>4. ASSUME NEW row, Covers(row, old)
      PROVE  Covers(row, old)'
  BY <1>4 DEF Covers, Lives
<1>5. cache[old.slo] \in CachedRows({old.slo})
  BY <1>2 DEF CacheCovers, CachedRows
<1>6. Covers(cache[old.slo], old)
  BY <1>2 DEF CacheCovers
<1>7. ASSUME req'[c].status \in {"pending", "ok"}, old.slo \notin req'[c].names
      PROVE  \E row \in req'[c].rows : Covers(row, old)'
  <2>1. CASE old.slo \in req[c].names
    <3>1. cache[old.slo] \in req'[c].rows
      BY <1>5, <1>7, <2>1
    <3>2. PICK row \in req'[c].rows : row = cache[old.slo]
      BY <3>1
    <3>3. Covers(row, old)'
      BY <1>4, <1>6, <3>2
    <3> QED
      BY <3>3
  <2>2. CASE \E row \in req[c].rows : Covers(row, old)
    BY <1>4, <1>7, <2>2
  <2> QED
    BY <1>7, <2>1, <2>2 DEF ArrivalCovered
<1> QED
  BY <1>3, <1>7

\* An arriving request names what it counts on.
LEMMA ArrivalIsCovered ==
  ASSUME TypeOK, Stamps, NEW names \in SUBSET SLOs, NEW old \in CachedRows(names)
  PROVE  old.slo \in names /\ CacheCovers(old)
<1>1. PICK s \in names : cache[s] # NoState /\ old = cache[s]
  BY DEF CachedRows
<1>2. old.slo = s /\ old.at \in Int
  BY <1>1, StoreAssumption DEF Stamps, TypeOK, Row, Instants
<1> QED
  BY <1>1, <1>2 DEF CacheCovers, Covers

\* What AnswersInv says of one caller.
Accounted(r) == ArrivalCovered(r) /\ GateReadsOnce(r) /\ AnswersComplete(r)

LEMMA AnswersArrives ==
  ASSUME IndInv, APITypeOK, NEW c \in Callers, Arrives(c)
  PROVE  Accounted(req[c])'
<1>0. TypeOK /\ Stamps /\ UNCHANGED <<cache, forced>>
  BY ArrivesFrame DEF IndInv, vars, evalVars
<1>1. ASSUME NEW names \in SUBSET SLOs,
             req'[c].had = CachedRows(names), req'[c].names = names, req'[c].rows = {}
      PROVE  ArrivalCovered(req[c])'
  <2>1. \A old \in CachedRows(names) : old.slo \in names /\ CacheCovers(old)
    BY <1>0, ArrivalIsCovered
  <2>2. \A old : CacheCovers(old)' <=> CacheCovers(old)
    BY <1>0 DEF CacheCovers, Covers
  <2> QED
    BY <1>1, <2>1, <2>2 DEF ArrivalCovered
<1>2. CASE \E s \in SLOs, force \in BOOLEAN : GateRequest(c, s, force)
  <2>1. PICK s \in SLOs, force \in BOOLEAN : GateRequest(c, s, force)
    BY <1>2
  <2>2. PICK phase \in {"done", IF force THEN "force" ELSE "read"} :
          req' = [req EXCEPT ![c] =
                    Arrival("gate", phase,
                            IF phase = "done" THEN "badRequest" ELSE "pending",
                            IF phase = "done" THEN {} ELSE {s}, force)]
    BY <2>1 DEF GateRequest
  <2>3. PICK names \in SUBSET SLOs : names = IF phase = "done" THEN {} ELSE {s}
    OBVIOUS
  <2>4. /\ req'[c].phase = phase /\ req'[c].names = names /\ req'[c].rows = {}
        /\ req'[c].status = IF phase = "done" THEN "badRequest" ELSE "pending"
        /\ req'[c].had = CachedRows(names)
    BY <2>2, <2>3 DEF Arrival, APITypeOK
  <2>5. ArrivalCovered(req[c])'
    BY <1>1, <2>4
  <2> QED
    BY <2>3, <2>4, <2>5 DEF Accounted, GateReadsOnce, AnswersComplete
<1>3. CASE StateRequest(c)
  <2>1. PICK names \in SUBSET SLOs : names = slos \cap Group
    BY <1>0 DEF TypeOK
  <2>2. req' = [req EXCEPT ![c] =
                  IF names = {} THEN Arrival("state", "done", "notFound", {}, FALSE)
                                ELSE Arrival("state", "collect", "pending", names, FALSE)]
    BY <1>3, <2>1 DEF StateRequest
  <2>3. /\ req'[c].names = names /\ req'[c].rows = {}
        /\ req'[c].had = CachedRows(names)
        /\ \/ names = {} /\ req'[c].phase = "done"
           \/ req'[c].phase = "collect" /\ req'[c].status = "pending"
    BY <2>2 DEF Arrival, APITypeOK
  <2>4. ArrivalCovered(req[c])'
    BY <1>1, <2>3
  <2> QED
    BY <2>3, <2>4 DEF Accounted, GateReadsOnce, AnswersComplete
<1>4. CASE ReadyRequest(c)
  <2>1. /\ req'[c].names = {} /\ req'[c].rows = {}
        /\ req'[c].had = CachedRows({}) /\ req'[c].phase = "done"
    BY <1>4 DEF ReadyRequest, Arrival, APITypeOK
  <2>2. ArrivalCovered(req[c])'
    BY <1>1, <2>1
  <2> QED
    BY <2>1, <2>2 DEF Accounted, GateReadsOnce, AnswersComplete
<1> QED
  BY <1>2, <1>3, <1>4 DEF Arrives

\* A handler's step, and whether it leaves a request.
LEMMA AnswersHandles ==
  ASSUME IndInv, APITypeOK, CallersServe, NEW c \in Callers, Handle(c),
         req[c] # NoRequest, Accounted(req[c])
  PROVE  req'[c] = NoRequest \/ Accounted(req[c])'
<1>0. TypeOK /\ req[c] \in Request /\ c \in Threads
  BY DEF IndInv, APITypeOK, Threads
<1>. USE DEF Accounted
<1>1. CASE ForceEvaluation(c)
  <2>1. PICK s \in req[c].names :
          \/ EvaluateNow(c, s) /\ req' = [req EXCEPT ![c].phase = "forcing"]
          \/ Answer(c, "error", {}) /\ UNCHANGED vars
    BY <1>1 DEF ForceEvaluation
  <2>2. s \in SLOs /\ req[c].phase = "force"
    BY <1>0, <1>1, <2>1 DEF ForceEvaluation, AtPhase, Request
  <2>3. Lives
    BY <1>0, <2>1, <2>2, EvaluateNowLives, UnchangedLives
  <2>4. /\ req'[c].had = req[c].had /\ req'[c].rows = {}
        /\ \/ /\ req'[c].phase = "forcing" /\ req'[c].status = req[c].status
              /\ req'[c].names = req[c].names
           \/ /\ req'[c].phase = "done" /\ req'[c].status = "error"
              /\ req'[c].names = {}
    BY <1>0, <2>1, <2>2 DEF Answer, APITypeOK, Request, GateReadsOnce
  <2>5. ArrivalCovered(req[c])'
    BY <1>0, <2>2, <2>3, <2>4, ArrivalCoveredLasts DEF GateReadsOnce
  <2> QED
    BY <2>2, <2>4, <2>5 DEF GateReadsOnce, AnswersComplete
<1>2. CASE HandlerEvaluates(c)
  <2>1. Lives /\ Busy(c)
    BY <1>0, <1>2, EvaluateOnceLives, EvaluateOnceShape DEF HandlerEvaluates
  <2>2. /\ req'[c].had = req[c].had /\ req'[c].rows = req[c].rows
        /\ req'[c].status = req[c].status /\ req'[c].names = req[c].names
        /\ req'[c].phase = req[c].phase
    BY <1>0, <1>2 DEF HandlerEvaluates, APITypeOK, Request
  <2>3. ArrivalCovered(req[c])'
    BY <1>0, <2>1, <2>2, ArrivalCoveredLasts
  <2> QED
    BY <2>2, <2>3 DEF GateReadsOnce, AnswersComplete
<1>3. CASE ForceReturns(c)
  <2>1. Lives
    BY <1>0, <1>3, UnchangedLives DEF ForceReturns
  <2>2. /\ req'[c].had = req[c].had /\ req'[c].rows = req[c].rows
        /\ req'[c].status = req[c].status /\ req'[c].names = req[c].names
        /\ req[c].phase = "forcing" /\ req'[c].phase = "read"
    BY <1>0, <1>3 DEF ForceReturns, AtPhase, APITypeOK, Request
  <2>3. ArrivalCovered(req[c])'
    BY <1>0, <2>1, <2>2, ArrivalCoveredLasts
  <2> QED
    BY <2>2, <2>3 DEF GateReadsOnce, AnswersComplete
<1>4. CASE ReadCache(c)
  <2>1. PICK s \in req[c].names :
          Answer(c, IF cache[s] = NoState THEN "notFound" ELSE "ok", CachedRows({s}))
    BY <1>4 DEF ReadCache
  <2>2. Lives /\ req[c].phase = "read"
    BY <1>0, <1>4, UnchangedLives DEF ReadCache, AtPhase
  <2>3. req[c].names = {s} /\ req[c].rows = {} /\ req[c].status = "pending"
    BY <2>1, <2>2 DEF GateReadsOnce
  <2>4. /\ req'[c].had = req[c].had /\ req'[c].rows = CachedRows({s})
        /\ req'[c].names = {} /\ req'[c].phase = "done"
    BY <1>0, <2>1 DEF Answer, APITypeOK, Request
  <2>5. ArrivalCovered(req[c])'
    BY <1>0, <2>2, <2>3, <2>4, ArrivalCoveredLasts
  <2> QED
    BY <2>4, <2>5 DEF GateReadsOnce, AnswersComplete
<1>5. CASE CollectOne(c)
  <2>1. PICK s \in req[c].names :
          IF req[c].names = {s}
            THEN Answer(c, "ok", req[c].rows \cup CachedRows({s}))
            ELSE req' = [req EXCEPT ![c].names = @ \ {s},
                                    ![c].rows = req[c].rows \cup CachedRows({s})]
    BY <1>5 DEF CollectOne
  <2>2. Lives /\ req[c].phase = "collect"
    BY <1>0, <1>5, UnchangedLives DEF CollectOne, AtPhase
  <2>3. /\ req'[c].had = req[c].had /\ req'[c].rows = req[c].rows \cup CachedRows({s})
        /\ req'[c].names = req[c].names \ {s}
        /\ \/ req'[c].phase = "done" /\ req'[c].names = {}
           \/ req'[c].phase = "collect" /\ req'[c].status = req[c].status
    <3>1. req \in [Callers -> Request \cup {NoRequest}] /\ req[c] \in Request
      BY <1>0, <2>2 DEF APITypeOK, NoRequest
    <3>2. CASE req[c].names = {s}
      BY <2>1, <3>1, <3>2 DEF Answer, Request
    <3>3. CASE req[c].names # {s}
      BY <2>1, <2>2, <3>1, <3>3 DEF Request
    <3> QED
      BY <3>2, <3>3
  <2>4. req[c].status = "pending"
    BY <2>2 DEF AnswersComplete
  <2>5. ArrivalCovered(req[c])'
    <3>1. req[c].names \ req'[c].names \subseteq {s}
      BY <2>3
    <3> QED
      BY <1>0, <2>2, <2>3, <2>4, <3>1, ArrivalCoveredLasts
  <2> QED
    BY <2>3, <2>4, <2>5 DEF GateReadsOnce, AnswersComplete
<1>6. CASE Respond(c)
  BY <1>6 DEF Respond, APITypeOK
<1> QED
  BY <1>1, <1>2, <1>3, <1>4, <1>5, <1>6 DEF Handle

\* The other goroutines, the loops and main.
LEMMA AnswersOthers ==
  ASSUME IndInv, APITypeOK, Lives, NEW c \in Callers, req[c] # NoRequest,
         Accounted(req[c]), req'[c] = req[c]
  PROVE  Accounted(req[c])'
<1>1. req[c] \in Request
  BY DEF APITypeOK
<1>2. ArrivalCovered(req[c])'
  BY <1>1, ArrivalCoveredLasts DEF Accounted
<1> QED
  BY <1>2 DEF Accounted, GateReadsOnce, AnswersComplete

----------------------------------------------------------------------------
(* Forced evaluations are fresh.                                           *)

\* What FreshInv says of one caller.
FreshFor(c) ==
  Expectant(c) =>
    /\ req[c].phase # "collect"
    /\ IF req[c].phase = "done"
         THEN \A row \in req[c].rows : row.at >= req[c].since
         ELSE req[c].since <= clock /\ \A s \in req[c].names : ForcedIsFresh(c, s)

LEMMA FreshArrives ==
  ASSUME IndInv, APITypeOK, CallersServe, NEW c \in Callers, Arrives(c)
  PROVE  FreshFor(c)'
<1>0. TypeOK /\ UNCHANGED <<ev, cache, clock>> /\ ~Busy(c)
  <2>1. req[c] = NoRequest
    BY DEF Arrives, GateRequest, StateRequest, ReadyRequest
  <2> QED
    BY <2>1, ArrivesFrame
       DEF IndInv, vars, envVars, evalVars, CallersServe, AtPhase, NoRequest
<1>1. clock \in Int
  BY <1>0, StoreAssumption DEF TypeOK, Instants
<1>2. CASE \E s \in SLOs, force \in BOOLEAN : GateRequest(c, s, force)
  <2>1. PICK s \in SLOs, force \in BOOLEAN : GateRequest(c, s, force)
    BY <1>2
  <2>2. PICK phase \in {"done", IF force THEN "force" ELSE "read"} :
          req' = [req EXCEPT ![c] =
                    Arrival("gate", phase,
                            IF phase = "done" THEN "badRequest" ELSE "pending",
                            IF phase = "done" THEN {} ELSE {s}, force)]
    BY <2>1 DEF GateRequest
  <2>3. /\ req'[c].phase = phase /\ req'[c].force = force
        /\ req'[c].since = clock /\ req'[c].rows = {}
    BY <2>2 DEF Arrival, APITypeOK
  <2> QED
    BY <1>0, <1>1, <2>3 DEF FreshFor, Expectant, AtPhase
<1>3. CASE StateRequest(c) \/ ReadyRequest(c)
  <2>1. req'[c].force = FALSE
    BY <1>3 DEF StateRequest, ReadyRequest, Arrival, APITypeOK
  <2> QED
    BY <2>1 DEF FreshFor, Expectant
<1> QED
  BY <1>2, <1>3 DEF Arrives

\* The other goroutines, the loops and main: an evaluation that starts now is
\* stamped with the clock, and one under way when the forced evaluation began has
\* made the request contended.
LEMMA FreshOthers ==
  ASSUME IndInv, APITypeOK, AnswersInv, Lives, NEW c \in Callers, req[c] # NoRequest,
         FreshFor(c), req'[c] = req[c], ev'[c] = ev[c]
  PROVE  FreshFor(c)'
<1>0. TypeOK /\ req[c] \in Request
  BY DEF IndInv, APITypeOK
<1>1. SUFFICES ASSUME Expectant(c) PROVE FreshFor(c)'
  BY DEF FreshFor, Expectant, AtPhase
<1>2. PICK since \in Int : since = req[c].since
  BY <1>0, StoreAssumption DEF Request, Instants
<1>3. req[c].phase # "collect" /\ ~AtPhase(c, "force")
  BY <1>1 DEF FreshFor, Expectant
<1>4. CASE req[c].phase = "done"
  BY <1>1, <1>3, <1>4 DEF FreshFor
<1>5. CASE req[c].phase # "done"
  <2>0. since <= clock /\ since <= clock'
    <3>1. since <= clock
      BY <1>1, <1>2, <1>5 DEF FreshFor
    <3> QED
      BY <1>0, <1>2, <3>1, StoreAssumption DEF Lives, TypeOK, Instants
  <2>1. ASSUME NEW s \in req[c].names
        PROVE  ForcedIsFresh(c, s)'
    <3>1. s \in SLOs /\ ForcedIsFresh(c, s)
      BY <1>0, <1>1, <1>5, <2>1 DEF Request, FreshFor
    <3>2. EvaluationsSince(s, since)
      BY <1>2, <3>1 DEF ForcedIsFresh
    <3>3. /\ EvaluationsSince(s, since)'
          /\ CacheSince(s, since) => CacheSince(s, since)'
      BY <1>0, <2>0, <3>1, <3>2, SinceLasts
    <3> QED
      BY <1>2, <3>1, <3>3
         DEF ForcedIsFresh, Busy, InPhase, EvaluationsSince, CacheSince
  <2> QED
    BY <1>2, <1>3, <1>5, <2>0, <2>1 DEF FreshFor
<1> QED
  BY <1>4, <1>5

\* The handler's own steps: when the evaluation it forces begins no other of that
\* SLO is under way, and it has been through cache.Set when the handler reads the
\* cache.
LEMMA FreshHandles ==
  ASSUME IndInv, APITypeOK, CallersServe, AnswersInv, NEW c \in Callers, Handle(c),
         req[c] # NoRequest, FreshFor(c)
  PROVE  FreshFor(c)'
<1>0. /\ TypeOK /\ req[c] \in Request /\ c \in Threads
      /\ GateReadsOnce(req[c]) /\ (Busy(c) => req[c].phase = "forcing")
  BY DEF IndInv, APITypeOK, Threads, AnswersInv, CallersServe, AtPhase
<1>1. SUFFICES ASSUME Expectant(c)' PROVE FreshFor(c)'
  BY DEF FreshFor
<1>2. CASE ForceEvaluation(c)
  <2>1. PICK s \in req[c].names :
          \/ /\ EvaluateNow(c, s)
             /\ req' = [req EXCEPT ![c].phase = "forcing", ![c].since = clock,
                                   ![c].contended = Evaluated(s)]
          \/ Answer(c, "error", {}) /\ UNCHANGED vars
    BY <1>2 DEF ForceEvaluation
  <2>2. s \in SLOs /\ req[c].phase = "force" /\ req[c].names = {s}
    BY <1>0, <1>2, <2>1 DEF ForceEvaluation, AtPhase, GateReadsOnce, Request
  <2>3. clock \in Int
    BY <1>0, StoreAssumption DEF TypeOK, Instants
  <2>4. CASE /\ EvaluateNow(c, s)
             /\ req' = [req EXCEPT ![c].phase = "forcing", ![c].since = clock,
                                   ![c].contended = Evaluated(s)]
    <3>1. /\ req'[c].phase = "forcing" /\ req'[c].names = {s}
          /\ req'[c].since = clock /\ req'[c].contended = Evaluated(s)
      BY <1>0, <2>2, <2>4 DEF APITypeOK, Request
    <3>2. Begin(c, s) /\ clock' = clock /\ Lives
      BY <1>0, <2>2, <2>4, EvaluateNowLives DEF EvaluateNow, envVars
    <3>3. ev'[c].slo = s /\ ev'[c].phase = "evaluate" /\ ev'[c] # Idle
      BY <1>0, <2>2, <3>2, BeginShape
    <3>4. EvaluationsSince(s, clock)
      BY <1>1, <3>1 DEF Expectant, Evaluated, EvaluationsSince
    <3>5. EvaluationsSince(s, clock)'
      <4>1. PICK since \in Int : since = clock
        BY <2>3
      <4>2. EvaluationsSince(s, since)'
        BY <1>0, <2>2, <2>3, <3>2, <3>4, <4>1, SinceLasts
      <4> QED
        BY <3>2, <4>1, <4>2 DEF EvaluationsSince, Busy
    <3>6. ForcedIsFresh(c, s)'
      BY <3>1, <3>2, <3>3, <3>5
         DEF ForcedIsFresh, EvaluationsSince, Busy, InPhase
    <3> QED
      BY <2>3, <3>1, <3>2, <3>6 DEF FreshFor
  <2>5. CASE Answer(c, "error", {}) /\ UNCHANGED vars
    <3>1. req'[c].phase = "done" /\ req'[c].rows = {}
      BY <1>0, <2>5 DEF Answer, APITypeOK, Request
    <3> QED
      BY <3>1 DEF FreshFor
  <2> QED
    BY <2>1, <2>4, <2>5
<1>3. SUFFICES ASSUME ~ForceEvaluation(c) PROVE FreshFor(c)'
  BY <1>2
<1>4. Expectant(c)
  <2>0. req[c].phase # "force"
    BY <1>0, <1>3, EvaluateOnceShape
       DEF Handle, HandlerEvaluates, ForceReturns, ReadCache, CollectOne, Respond, AtPhase
  <2>1. CASE Respond(c)
    BY <1>1, <2>1 DEF Respond, Expectant, APITypeOK
  <2>2. ASSUME req'[c].force = req[c].force, req'[c].contended = req[c].contended,
               req'[c].failed \in {req[c].failed, TRUE}
        PROVE  Expectant(c)
    BY <1>1, <2>0, <2>2 DEF Expectant, AtPhase
  <2>3. ASSUME NEW phase, req' = [req EXCEPT ![c].phase = phase]
        PROVE  Expectant(c)
    BY <1>0, <2>2, <2>3 DEF Request, APITypeOK
  <2>4. ASSUME NEW status, NEW rows, Answer(c, status, rows)
        PROVE  Expectant(c)
    BY <1>0, <2>2, <2>4 DEF Answer, Request, APITypeOK
  <2>5. CASE HandlerEvaluates(c)
    <3>1. CASE req' = [req EXCEPT ![c].failed = TRUE]
      BY <1>0, <2>2, <3>1 DEF Request, APITypeOK
    <3>2. CASE req' = req
      BY <2>2, <3>2
    <3> QED
      BY <2>5, <3>1, <3>2 DEF HandlerEvaluates
  <2>6. \/ ~CollectOne(c)
        \/ \E status, rows : Answer(c, status, rows)
        \/ \E names, rows : req' = [req EXCEPT ![c].names = names, ![c].rows = rows]
    BY DEF CollectOne
  <2>7. ASSUME NEW names, NEW rows,
               req' = [req EXCEPT ![c].names = names, ![c].rows = rows]
        PROVE  Expectant(c)
    BY <1>0, <2>2, <2>7 DEF Request, APITypeOK
  <2> QED
    BY <1>3, <2>1, <2>3, <2>4, <2>5, <2>6, <2>7
       DEF Handle, ForceReturns, ReadCache
<1>5. PICK since \in Int : since = req[c].since
  BY <1>0, StoreAssumption DEF Request, Instants
<1>6. req[c].phase # "collect" /\ (req[c].phase # "done" => since <= clock)
  BY <1>4, <1>5 DEF FreshFor
<1>7. CASE HandlerEvaluates(c)
  <2>1. EvaluateOnce(c) /\ Lives /\ Busy(c) /\ req[c].phase = "forcing"
    BY <1>0, <1>7, EvaluateOnceLives, EvaluateOnceShape DEF HandlerEvaluates
  <2>2. PICK s \in SLOs : req[c].names = {s}
    BY <1>0, <2>1 DEF GateReadsOnce
  <2>3. req' = req /\ ~(InPhase(c, "evaluate") /\ ev'[c] = Idle)
    BY <1>0, <1>1, <1>7 DEF HandlerEvaluates, Expectant, APITypeOK, Request
  <2>4. ForcedIsFresh(c, s) /\ ev[c].slo = s
    BY <1>4, <2>1, <2>2 DEF FreshFor, ForcedIsFresh
  <2>5. /\ EvaluationsSince(s, since)'
        /\ CacheSince(s, since) => CacheSince(s, since)'
    BY <1>0, <1>5, <1>6, <2>1, <2>4, SinceLasts DEF ForcedIsFresh
  <2>6. ev'[c] # Idle => ev'[c].slo = s
    BY <1>0, <2>1, <2>4, EvaluateOnceShape
  <2>7. ev'[c] = Idle \/ ev'[c].phase \in {"store", "latest"} => CacheSince(s, since)'
    <3>1. CASE Evaluate(c) \/ EvaluateFails(c)
      BY <1>0, <2>1, <2>3, <3>1, EvaluateOnceShape
         DEF Evaluate, EvaluateFails, Returns, TypeOK, Activation, InPhase
    <3>2. CASE SetCache(c)
      <4>1. ev[c].now >= since
        BY <1>5, <2>1, <2>4, <1>0 DEF ForcedIsFresh, EvaluationsSince
      <4>2. cache'[s] = RowOf(ev[c])
        BY <1>0, <2>2, <2>4, <3>2 DEF SetCache, TypeOK
      <4> QED
        BY <1>0, <3>2, <4>1, <4>2, SetCacheCachesRow DEF CacheSince, RowOf
    <3>3. CASE RecordEvaluation(c) \/ RecordLatest(c)
      <4>1. InPhase(c, "store") \/ InPhase(c, "latest")
        BY <3>3 DEF RecordEvaluation, RecordLatest
      <4>2. CacheSince(s, since)
        BY <1>5, <2>1, <2>4, <4>1 DEF ForcedIsFresh, AtPhase
      <4> QED
        BY <2>5, <4>2
    <3> QED
      BY <2>1, <3>1, <3>2, <3>3 DEF EvaluateOnce
  <2>8. ForcedIsFresh(c, s)'
    BY <1>5, <2>3, <2>5, <2>6, <2>7
       DEF ForcedIsFresh, EvaluationsSince, CacheSince, Busy, InPhase
  <2>9. since <= clock'
    BY <1>0, <1>5, <1>6, <2>1, StoreAssumption DEF Lives, TypeOK, Instants
  <2> QED
    BY <1>5, <2>1, <2>2, <2>3, <2>8, <2>9 DEF FreshFor
<1>8. CASE ForceReturns(c)
  <2>1. /\ req[c].phase = "forcing" /\ ~Busy(c)
        /\ req' = [req EXCEPT ![c].phase = "read"] /\ UNCHANGED vars
    BY <1>8 DEF ForceReturns, AtPhase
  <2>2. /\ req'[c].phase = "read" /\ req'[c].names = req[c].names
        /\ req'[c].since = req[c].since
    BY <1>0, <2>1 DEF APITypeOK, Request
  <2>3. ASSUME NEW s \in req[c].names
        PROVE  ForcedIsFresh(c, s)'
    <3>1. ForcedIsFresh(c, s)
      BY <1>4, <2>1 DEF FreshFor
    <3> QED
      BY <2>1, <2>2, <3>1
         DEF ForcedIsFresh, EvaluationsSince, CacheSince, Busy, AtPhase, vars, evalVars
  <2> QED
    BY <1>5, <1>6, <2>1, <2>2, <2>3 DEF FreshFor, vars, envVars
<1>9. CASE ReadCache(c)
  <2>1. PICK s \in req[c].names :
          Answer(c, IF cache[s] = NoState THEN "notFound" ELSE "ok", CachedRows({s}))
    BY <1>9 DEF ReadCache
  <2>2. req[c].phase = "read" /\ ~Busy(c) /\ UNCHANGED vars
    BY <1>0, <1>9 DEF ReadCache, AtPhase
  <2>3. CacheSince(s, since)
    <3>1. ForcedIsFresh(c, s)
      BY <1>4, <2>1, <2>2 DEF FreshFor
    <3> QED
      BY <1>5, <2>2, <3>1 DEF ForcedIsFresh, AtPhase
  <2>4. /\ req'[c].phase = "done" /\ req'[c].rows = CachedRows({s})
        /\ req'[c].since = since
    BY <1>0, <1>5, <2>1 DEF Answer, APITypeOK, Request
  <2>5. \A row \in CachedRows({s}) : row.at >= since
    BY <2>3 DEF CachedRows, CacheSince
  <2> QED
    BY <2>4, <2>5 DEF FreshFor
<1>10. CASE CollectOne(c) \/ Respond(c)
  <2>1. ~CollectOne(c)
    BY <1>6 DEF CollectOne, AtPhase
  <2>2. ~Respond(c)
    BY <1>1 DEF Respond, Expectant, APITypeOK
  <2> QED
    BY <1>10, <2>1, <2>2
<1> QED
  BY <1>3, <1>7, <1>8, <1>9, <1>10 DEF Handle

----------------------------------------------------------------------------

\* When the process dies its requests are gone.
LEMMA NoRequestsInv ==
  ASSUME req' = NoRequests
  PROVE  AnswersInv' /\ FreshInv'
BY DEF NoRequests, AnswersInv, FreshInv, Expectant

\* A handler changes its own request and its own activation only.
LEMMA OthersAlone ==
  ASSUME TypeOK, APITypeOK, NEW c \in Callers, Arrives(c) \/ Handle(c),
         NEW b \in Callers \ {c}
  PROVE  req'[b] = req[b] /\ ev'[b] = ev[b]
<1>0. c \in Threads /\ b \in Threads \ {c}
  BY DEF Threads
<1>1. req'[b] = req[b]
  <2>1. CASE Arrives(c)
    BY <2>1 DEF Arrives, GateRequest, StateRequest, ReadyRequest, APITypeOK
  <2>2. CASE Handle(c)
    BY <2>2
       DEF Handle, ForceEvaluation, HandlerEvaluates, ForceReturns, ReadCache,
           CollectOne, Respond, Answer, APITypeOK
  <2> QED
    BY <2>1, <2>2
<1>2. CASE UNCHANGED vars
  BY <1>1, <1>2 DEF vars, evalVars
<1>3. CASE HandlerEvaluates(c)
  BY <1>0, <1>1, <1>3, EvaluateOnceShape DEF HandlerEvaluates
<1>4. ASSUME NEW s, EvaluateNow(c, s)
      PROVE  ev'[b] = ev[b]
  BY <1>0, <1>4, BeginShape DEF EvaluateNow, CanEvaluateNow, TypeOK
<1> QED
  BY <1>1, <1>2, <1>3, <1>4, ArrivesFrame
     DEF Handle, ForceEvaluation, ForceReturns, ReadCache, CollectOne, Respond

LEMMA HandleLives ==
  ASSUME TypeOK, NEW c \in Callers, Arrives(c) \/ Handle(c)
  PROVE  Lives
<1>1. CASE UNCHANGED vars
  BY <1>1, UnchangedLives
<1>2. CASE HandlerEvaluates(c)
  BY <1>2, EvaluateOnceLives DEF HandlerEvaluates, Threads
<1>3. ASSUME NEW s, EvaluateNow(c, s)
      PROVE  Lives
  BY <1>3, EvaluateNowLives DEF EvaluateNow, CanEvaluateNow, TypeOK
<1> QED
  BY <1>1, <1>2, <1>3, ArrivesFrame
     DEF Handle, ForceEvaluation, ForceReturns, ReadCache, CollectOne, Respond

\* A request of which nothing is said yet has nothing to account for.
LEMMA AnswersStep ==
  ASSUME IndInv, APIInv, [APINext]_apiVars
  PROVE  AnswersInv' /\ FreshInv'
<1>0. TypeOK /\ APITypeOK /\ CallersServe /\ AnswersInv /\ FreshInv
  BY DEF IndInv, APIInv
<1>1. ASSUME Lives, NEW b \in Callers, req'[b] = req[b], ev'[b] = ev[b]
      PROVE  /\ req'[b] # NoRequest => Accounted(req[b])'
             /\ FreshFor(b)'
  <2>1. CASE req[b] = NoRequest
    BY <1>1, <2>1 DEF FreshFor, Expectant
  <2>2. CASE req[b] # NoRequest
    <3>1. Accounted(req[b]) /\ FreshFor(b)
      BY <1>0, <2>2 DEF AnswersInv, Accounted, FreshInv, FreshFor
    <3> QED
      BY <1>0, <1>1, <2>2, <3>1, AnswersOthers, FreshOthers
  <2> QED
    BY <2>1, <2>2
<1>2. ASSUME \A b \in Callers :
               (req'[b] # NoRequest => Accounted(req[b])') /\ FreshFor(b)'
      PROVE  AnswersInv' /\ FreshInv'
  <2>1. AnswersInv'
    BY <1>2 DEF AnswersInv, Accounted
  <2>2. FreshInv'
    BY <1>2 DEF FreshInv, FreshFor
  <2> QED
    BY <2>1, <2>2
<1>3. CASE (SchedulerStep /\ UNCHANGED req) \/ UNCHANGED apiVars
  <2>1. Lives /\ \A b \in Callers : req'[b] = req[b] /\ ev'[b] = ev[b]
    <3>1. CASE SchedulerStep /\ UNCHANGED req
      BY <1>0, <3>1, SchedulerStepLives, SchedulerStepLeavesCallers
    <3>2. CASE UNCHANGED apiVars
      BY <1>0, <3>2, UnchangedLives DEF apiVars, vars, evalVars
    <3> QED
      BY <1>3, <3>1, <3>2
  <2> QED
    BY <1>1, <1>2, <2>1
<1>4. ASSUME NEW c \in Callers, Arrives(c) \/ Handle(c)
      PROVE  AnswersInv' /\ FreshInv'
  <2>1. Lives
    BY <1>0, <1>4, HandleLives
  <2>2. \A b \in Callers \ {c} : req'[b] = req[b] /\ ev'[b] = ev[b]
    BY <1>0, <1>4, OthersAlone
  <2>3. (req'[c] # NoRequest => Accounted(req[c])') /\ FreshFor(c)'
    <3>1. CASE Arrives(c)
      BY <1>0, <3>1, AnswersArrives, FreshArrives
    <3>2. CASE Handle(c) /\ req[c] # NoRequest
      <4>1. Accounted(req[c]) /\ FreshFor(c)
        BY <1>0, <3>2 DEF AnswersInv, Accounted, FreshInv, FreshFor
      <4> QED
        BY <1>0, <3>2, <4>1, AnswersHandles, FreshHandles
    <3>3. CASE Handle(c) /\ req[c] = NoRequest
      BY <1>0, <3>3, NoRequestNoHandler
    <3> QED
      BY <1>4, <3>1, <3>2, <3>3
  <2> QED
    BY <1>1, <1>2, <2>1, <2>2, <2>3
<1> QED
  BY <1>3, <1>4, NoRequestsInv DEF APINext

LEMMA APIInvInit == APIInit => APIInv
<1> SUFFICES ASSUME APIInit PROVE APIInv
  OBVIOUS
<1>1. APITypeOK /\ CallersServe
  BY DEF APIInit, Init, NoRequests, NoActivations, Threads, APITypeOK, CallersServe, Busy
<1>2. AnswersInv /\ FreshInv
  BY DEF APIInit, NoRequests, AnswersInv, FreshInv, Expectant
<1> QED
  BY <1>1, <1>2 DEF APIInv

LEMMA APIInvStep ==
  ASSUME IndInv, APIInv, [APINext]_apiVars
  PROVE  APIInv'
<1>0. TypeOK /\ APITypeOK /\ CallersServe
  BY DEF IndInv, APIInv
<1>1. APITypeOK'
  <2>1. CASE UNCHANGED req
    BY <1>0, <2>1 DEF APITypeOK
  <2>2. CASE req' = NoRequests
    BY <2>2 DEF APITypeOK, NoRequests
  <2> QED
    BY <1>0, <2>1, <2>2, ArrivesType, HandleType DEF APINext, apiVars
<1> QED
  BY <1>0, <1>1, CallersServeStep, AnswersStep DEF APIInv

\* The requests are well formed, a caller evaluates only for a request that
\* forced it, and what AnswersInv and FreshInv say of the requests under way holds.
THEOREM RequestsAreTracked == APISpec => []APIInv
BY APIInvInit, APIInvStep, APIImplementsScheduler, PTL DEF APISpec

\* A gate or a state request answered with 200 has, of every SLO it names that
\* the cache held when it came and that EvaluateNow left alone, a decision at
\* least as recent: handleState's collection, one cache.Get at a time
\* (server.go:182-200), and the read after a forced evaluation miss no SLO and
\* take none back, for any number of loops and handlers.
THEOREM AnswersCoverTheirArrival == APISpec => []AnswersCoverArrival
<1>1. APIInv => AnswersCoverArrival
  <2> SUFFICES ASSUME APIInv, NEW c \in Callers, NEW kind \in {"gate", "state"},
                      Answered(c, kind, "ok"), NEW old \in req[c].had
               PROVE  \E row \in req[c].rows :
                        row.slo = old.slo /\ (row.at >= old.at \/ row.slo \in forced)
    BY DEF AnswersCoverArrival
  <2>1. req[c].phase = "done" /\ req[c].status = "ok" /\ req[c] # NoRequest
    BY DEF Answered, AtPhase, NoRequest
  <2>2. ArrivalCovered(req[c]) /\ req[c].names = {}
    BY <2>1 DEF APIInv, AnswersInv, AnswersComplete
  <2> QED
    BY <2>1, <2>2 DEF ArrivalCovered, Covers
<1> QED
  BY <1>1, RequestsAreTracked, PTL

\* A gate request with forceFresh is answered from its own evaluation or one begun
\* no earlier, if that evaluation succeeded and nobody was evaluating the SLO when
\* it began, for any number of loops and handlers
\* (server.go:235-249 after scheduler.go:161-204).
THEOREM ForcedAnswersAreFresh == APISpec => []FreshUnlessContended
<1>1. APIInv => FreshUnlessContended
  <2> SUFFICES ASSUME APIInv, NEW c \in Callers,
                      Answered(c, "gate", "ok"), req[c].force,
                      ~req[c].failed, ~req[c].contended, NEW row \in req[c].rows
               PROVE  row.at >= req[c].since
    BY DEF FreshUnlessContended
  <2>1. req[c].phase = "done" /\ Expectant(c)
    BY DEF Answered, AtPhase, NoRequest, Expectant
  <2> QED
    BY <2>1 DEF APIInv, FreshInv
<1> QED
  BY <1>1, RequestsAreTracked, PTL

----------------------------------------------------------------------------
(* Every request takes a bounded number of steps.                          *)

\* Steps an activation of evaluateOnce may still take.
ActivationStepsLeft(t) ==
  CASE ev[t].phase = "evaluate" -> 4
    [] ev[t].phase = "set"      -> 3
    [] ev[t].phase = "store"    -> 2
    [] ev[t].phase = "latest"   -> 1
    [] OTHER                    -> 0

\* Steps the request of c may still take, its forced evaluation included.
RequestStepsLeft(c) ==
  CASE req[c].phase = "force"   -> 8
    [] req[c].phase = "forcing" -> 3 + ActivationStepsLeft(c)
    [] req[c].phase = "read"    -> 2
    [] req[c].phase = "collect" -> Cardinality(req[c].names) + 1
    [] req[c].phase = "done"    -> 1
    [] OTHER                    -> 0

RequestUntouched(c) == req'[c] = req[c] /\ ev'[c] = ev[c]

\* A step that concerns a request brings it nearer to its end.
RequestCountsDown(c) ==
  req[c] # NoRequest =>
    RequestUntouched(c) \/ RequestStepsLeft(c)' < RequestStepsLeft(c)

NamesFinite == \A c \in Callers : req[c] # NoRequest => IsFiniteSet(req[c].names)

LEMMA ActivationStepsLeftType ==
  ASSUME NEW t
  PROVE  ActivationStepsLeft(t) \in 0 .. 4
BY DEF ActivationStepsLeft

LEMMA RequestStepsLeftType ==
  ASSUME NamesFinite, NEW c \in Callers
  PROVE  RequestStepsLeft(c) \in Nat
<1>1. CASE req[c] = NoRequest
  BY <1>1 DEF RequestStepsLeft, NoRequest
<1>2. CASE req[c] # NoRequest
  <2>1. Cardinality(req[c].names) \in Nat
    BY <1>2, FS_CardinalityType DEF NamesFinite
  <2> QED
    BY <2>1, ActivationStepsLeftType DEF RequestStepsLeft
<1> QED
  BY <1>1, <1>2

\* A step of evaluateOnce brings it nearer to its end.
LEMMA ActivationCountsDown ==
  ASSUME TypeOK, NEW t \in Threads, EvaluateOnce(t)
  PROVE  ActivationStepsLeft(t)' < ActivationStepsLeft(t)
<1>0. ev[t] \in Activation /\ ev \in [Threads -> Activation \cup {Idle}]
  BY EvaluateOnceShape DEF TypeOK
<1>1. CASE Evaluate(t)
  BY <1>0, <1>1 DEF Evaluate, InPhase, ActivationStepsLeft, Activation
<1>2. CASE EvaluateFails(t)
  BY <1>0, <1>2 DEF EvaluateFails, Returns, Idle, InPhase, ActivationStepsLeft
<1>3. CASE SetCache(t)
  BY <1>0, <1>3 DEF SetCache, Returns, Idle, InPhase, ActivationStepsLeft, Activation
<1>4. CASE RecordEvaluation(t)
  BY <1>0, <1>4 DEF RecordEvaluation, InPhase, ActivationStepsLeft, Activation
<1>5. CASE RecordLatest(t)
  BY <1>0, <1>5 DEF RecordLatest, Returns, Idle, InPhase, ActivationStepsLeft
<1> QED
  BY <1>1, <1>2, <1>3, <1>4, <1>5 DEF EvaluateOnce

\* What the steps of a handler do to its own request.
LEMMA HandleCountsDown ==
  ASSUME TypeOK, APIInv, NamesFinite, NEW c \in Callers, Handle(c)
  PROVE  RequestStepsLeft(c)' < RequestStepsLeft(c)
<1>0. /\ req \in [Callers -> Request \cup {NoRequest}] /\ c \in Threads
      /\ CallersServe /\ req[c] # NoRequest
  BY NoRequestNoHandler DEF APIInv, APITypeOK, Threads
<1>1. req[c] \in Request /\ IsFiniteSet(req[c].names)
  BY <1>0 DEF NamesFinite
<1>2. ASSUME NEW status, NEW rows, Answer(c, status, rows),
             req[c].phase \in {"force", "read", "collect"},
             AtPhase(c, "collect") => req[c].names # {}
      PROVE  RequestStepsLeft(c)' < RequestStepsLeft(c)
  <2>1. RequestStepsLeft(c)' = 1
    BY <1>0, <1>1, <1>2 DEF Answer, RequestStepsLeft, Request
  <2>2. Cardinality(req[c].names) \in Nat /\ (req[c].names # {} => Cardinality(req[c].names) # 0)
    BY <1>1, FS_CardinalityType, FS_EmptySet
  <2> QED
    BY <1>2, <2>1, <2>2 DEF RequestStepsLeft, AtPhase
<1>3. CASE ForceEvaluation(c)
  <2>1. PICK s \in req[c].names :
          \/ EvaluateNow(c, s) /\ req' = [req EXCEPT ![c].phase = "forcing"]
          \/ Answer(c, "error", {})
    BY <1>3 DEF ForceEvaluation
  <2>2. CASE EvaluateNow(c, s) /\ req' = [req EXCEPT ![c].phase = "forcing"]
    <3>1. req'[c].phase = "forcing"
      BY <1>0, <1>1, <2>2 DEF Request
    <3>2. ev'[c].phase = "evaluate"
      BY <1>0, <1>1, <2>2, BeginShape DEF EvaluateNow, Request
    <3> QED
      BY <1>3, <3>1, <3>2
         DEF ForceEvaluation, AtPhase, RequestStepsLeft, ActivationStepsLeft
  <2> QED
    BY <1>2, <1>3, <2>1, <2>2 DEF ForceEvaluation, AtPhase
<1>4. CASE HandlerEvaluates(c)
  <2>1. EvaluateOnce(c) /\ Busy(c)
    BY <1>0, <1>4, EvaluateOnceShape DEF HandlerEvaluates
  <2>2. req[c].phase = "forcing" /\ req'[c].phase = "forcing"
    BY <1>0, <1>1, <1>4, <2>1 DEF CallersServe, AtPhase, HandlerEvaluates, Request
  <2>3. ActivationStepsLeft(c)' < ActivationStepsLeft(c)
    BY <1>0, <2>1, ActivationCountsDown
  <2>4. ActivationStepsLeft(c)' \in Int /\ ActivationStepsLeft(c) \in Int
    <3>1. ActivationStepsLeft(c)' \in 0 .. 4
      BY DEF ActivationStepsLeft
    <3> QED
      BY <3>1, ActivationStepsLeftType
  <2> QED
    BY <2>2, <2>3, <2>4 DEF RequestStepsLeft
<1>5. CASE ForceReturns(c)
  <2>1. req[c].phase = "forcing" /\ req'[c].phase = "read"
    BY <1>0, <1>1, <1>5 DEF ForceReturns, AtPhase, Request
  <2> QED
    BY <2>1, ActivationStepsLeftType DEF RequestStepsLeft
<1>6. CASE ReadCache(c)
  BY <1>2, <1>6 DEF ReadCache, AtPhase
<1>7. CASE CollectOne(c)
  <2>1. PICK s \in req[c].names :
          IF req[c].names = {s}
            THEN Answer(c, "ok", req[c].rows \cup CachedRows({s}))
            ELSE req' = [req EXCEPT ![c].names = @ \ {s},
                                    ![c].rows = req[c].rows \cup CachedRows({s})]
    BY <1>7 DEF CollectOne
  <2>2. req[c].phase = "collect"
    BY <1>7 DEF CollectOne, AtPhase
  <2>3. CASE req[c].names = {s}
    BY <1>2, <2>1, <2>2, <2>3
  <2>4. CASE req[c].names # {s}
    <3>1. req'[c].phase = "collect" /\ req'[c].names = req[c].names \ {s}
      BY <1>0, <1>1, <2>1, <2>2, <2>4 DEF Request
    <3>2. /\ Cardinality(req[c].names \ {s}) = Cardinality(req[c].names) - 1
          /\ Cardinality(req[c].names) \in Nat
      BY <1>1, FS_RemoveElement, FS_CardinalityType
    <3> QED
      BY <2>2, <3>1, <3>2 DEF RequestStepsLeft
  <2> QED
    BY <2>3, <2>4
<1>8. CASE Respond(c)
  <2>1. req[c].phase = "done" /\ req'[c] = NoRequest
    BY <1>0, <1>8 DEF Respond, AtPhase
  <2> QED
    BY <2>1 DEF RequestStepsLeft, NoRequest
<1> QED
  BY <1>3, <1>4, <1>5, <1>6, <1>7, <1>8 DEF Handle

\* Another handler's steps are about its own request and its own evaluation.
LEMMA HandleLeavesOthers ==
  ASSUME TypeOK, APITypeOK, NEW d \in Callers, NEW c \in Callers \ {d},
         Handle(d) \/ Arrives(d)
  PROVE  RequestUntouched(c)
<1>0. c \in Threads /\ d \in Threads /\ req \in [Callers -> Request \cup {NoRequest}]
  BY DEF Threads, APITypeOK
<1>1. req'[c] = req[c]
  BY <1>0
     DEF Handle, ForceEvaluation, HandlerEvaluates, ForceReturns, ReadCache, CollectOne,
         Respond, Answer, Arrives, GateRequest, StateRequest, ReadyRequest
<1>2. CASE UNCHANGED vars
  BY <1>1, <1>2 DEF RequestUntouched, vars, evalVars
<1>3. CASE EvaluateOnce(d)
  BY <1>0, <1>1, <1>3, EvaluateOnceShape DEF RequestUntouched
<1>4. CASE \E s \in SLOs : EvaluateNow(d, s)
  BY <1>0, <1>1, <1>4, BeginShape DEF RequestUntouched, EvaluateNow
<1>5. UNCHANGED vars \/ EvaluateOnce(d) \/ \E s \in SLOs : EvaluateNow(d, s)
  <2>1. CASE ForceEvaluation(d)
    <3>1. req[d].names \subseteq SLOs
      BY <1>0, <2>1 DEF ForceEvaluation, AtPhase, NoRequest, Request
    <3> QED
      BY <2>1, <3>1 DEF ForceEvaluation
  <2> QED
    BY <2>1, ArrivesFrame
       DEF Handle, HandlerEvaluates, ForceReturns, ReadCache, CollectOne, Respond
<1> QED
  BY <1>2, <1>3, <1>4, <1>5

LEMMA RequestsCountDown ==
  ASSUME IndInv, APIInv, NamesFinite, [APINext]_apiVars, NEW c \in Callers
  PROVE  RequestCountsDown(c)
<1>0. TypeOK /\ APITypeOK /\ CallersServe
  BY DEF IndInv, APIInv
<1> SUFFICES ASSUME req[c] # NoRequest
             PROVE  RequestUntouched(c) \/ RequestStepsLeft(c)' < RequestStepsLeft(c)
  BY DEF RequestCountsDown
<1>1. CASE SchedulerStep /\ UNCHANGED req
  BY <1>0, <1>1, SchedulerStepLeavesCallers DEF RequestUntouched
<1>2. ASSUME NEW d \in Callers, Arrives(d)
      PROVE  RequestUntouched(c)
  <2>1. req[d] = NoRequest
    BY <1>2 DEF Arrives, GateRequest, StateRequest, ReadyRequest
  <2> QED
    BY <1>0, <1>2, <2>1, HandleLeavesOthers
<1>3. ASSUME NEW d \in Callers, Handle(d)
      PROVE  RequestUntouched(c) \/ RequestStepsLeft(c)' < RequestStepsLeft(c)
  BY <1>0, <1>3, HandleCountsDown, HandleLeavesOthers
<1>4. CASE req' = NoRequests
  <2>1. req'[c] = NoRequest
    BY <1>4 DEF NoRequests
  <2>2. RequestStepsLeft(c)' = 0
    BY <2>1 DEF RequestStepsLeft, NoRequest
  <2>3. Cardinality(req[c].names) \in Nat
    BY FS_CardinalityType DEF NamesFinite
  <2>4. req[c].phase \in {"force", "forcing", "read", "collect", "done"}
    BY <1>0 DEF APITypeOK, Request
  <2>5. RequestStepsLeft(c) >= 1
    BY <2>3, <2>4, ActivationStepsLeftType DEF RequestStepsLeft
  <2> QED
    BY <2>2, <2>5, RequestStepsLeftType
<1>5. CASE UNCHANGED apiVars
  BY <1>5 DEF apiVars, vars, evalVars, RequestUntouched
<1> QED
  BY <1>1, <1>2, <1>3, <1>4, <1>5 DEF APINext

LEMMA NamesFiniteStep ==
  ASSUME IndInv, APIInv, NamesFinite, [APINext]_apiVars
  PROVE  NamesFinite'
<1>0. req \in [Callers -> Request \cup {NoRequest}]
  BY DEF APIInv, APITypeOK
<1>1. ASSUME NEW d \in Callers, \A c \in Callers \ {d} : req'[c] = req[c],
             req'[d] # NoRequest => IsFiniteSet(req'[d].names)
      PROVE  NamesFinite'
  BY <1>1 DEF NamesFinite
<1>2. ASSUME NEW d \in Callers, Arrives(d) PROVE NamesFinite'
  <2>1. ASSUME NEW kind, NEW phase, NEW status, NEW names, NEW force, IsFiniteSet(names),
               req' = [req EXCEPT ![d] = Arrival(kind, phase, status, names, force)]
        PROVE  NamesFinite'
    BY <1>0, <1>1, <2>1 DEF Arrival
  <2>2. ASSUME NEW s \in SLOs, NEW force \in BOOLEAN, GateRequest(d, s, force)
        PROVE  NamesFinite'
    <3>1. PICK phase \in {"done", "read", "force"} :
            req' = [req EXCEPT ![d] =
                      Arrival("gate", phase,
                              IF phase = "done" THEN "badRequest" ELSE "pending",
                              IF phase = "done" THEN {} ELSE {s}, force)]
      BY <2>2 DEF GateRequest
    <3>2. IsFiniteSet(IF phase = "done" THEN {} ELSE {s})
      BY FS_EmptySet, FS_Singleton
    <3> QED
      BY <2>1, <3>1, <3>2
  <2>3. CASE StateRequest(d)
    <3>1. IsFiniteSet({}) /\ IsFiniteSet(slos \cap Group)
      BY GroupAssumption, FS_EmptySet, FS_Subset
    <3> QED
      BY <2>1, <2>3, <3>1 DEF StateRequest
  <2>4. CASE ReadyRequest(d)
    BY <2>1, <2>4, FS_EmptySet DEF ReadyRequest
  <2> QED
    BY <1>2, <2>2, <2>3, <2>4 DEF Arrives
<1>3. ASSUME NEW d \in Callers, Handle(d) PROVE NamesFinite'
  <2>1. req[d] \in Request
    BY <1>0, <1>3, NoRequestNoHandler DEF IndInv, APIInv
  <2>2. req' = req \/ req'[d] = NoRequest \/ req'[d].names \subseteq req[d].names
    <3>1. ASSUME NEW status, NEW rows, Answer(d, status, rows)
          PROVE  req'[d].names \subseteq req[d].names
      BY <1>0, <2>1, <3>1 DEF Answer, Request
    <3>2. CASE ForceEvaluation(d)
      BY <1>0, <2>1, <3>1, <3>2 DEF ForceEvaluation, Request
    <3>3. CASE HandlerEvaluates(d)
      BY <1>0, <2>1, <3>3 DEF HandlerEvaluates, Request
    <3>4. CASE ForceReturns(d)
      BY <1>0, <2>1, <3>4 DEF ForceReturns, Request
    <3>5. CASE ReadCache(d)
      BY <3>1, <3>5 DEF ReadCache
    <3>6. CASE CollectOne(d)
      BY <1>0, <2>1, <3>1, <3>6 DEF CollectOne, Request
    <3>7. CASE Respond(d)
      BY <1>0, <3>7 DEF Respond
    <3> QED
      BY <1>3, <3>2, <3>3, <3>4, <3>5, <3>6, <3>7 DEF Handle
  <2>3. \A c \in Callers \ {d} : req'[c] = req[c]
    BY <1>0, <1>3
       DEF Handle, ForceEvaluation, HandlerEvaluates, ForceReturns, ReadCache, CollectOne,
           Respond, Answer
  <2>4. IsFiniteSet(req[d].names)
    BY <2>1 DEF NamesFinite, NoRequest, Request
  <2> QED
    BY <1>1, <2>2, <2>3, <2>4, FS_Subset DEF NamesFinite
<1>4. CASE req' = NoRequests
  BY <1>4 DEF NamesFinite, NoRequests
<1>5. CASE UNCHANGED req
  BY <1>5 DEF NamesFinite
<1> QED
  BY <1>2, <1>3, <1>4, <1>5 DEF APINext, apiVars

\* Each request takes a bounded number of steps, eight with a forced evaluation
\* (server.go:235-288), one for each of its SLOs and one more for a state
\* (server.go:182-216), whatever the loops, main and the other handlers do: it waits
\* for nobody and is never sent back.  What remains of RequestsAnswered is that its
\* goroutine goes on.
THEOREM RequestsAreBounded ==
  APISpec => /\ [](\A c \in Callers : RequestStepsLeft(c) \in Nat)
             /\ [][\A c \in Callers : RequestCountsDown(c)]_apiVars
<1>1. IndInv /\ APIInv /\ NamesFinite /\ [APINext]_apiVars =>
        [\A c \in Callers : RequestCountsDown(c)]_apiVars
  BY RequestsCountDown
<1>2. NamesFinite => \A c \in Callers : RequestStepsLeft(c) \in Nat
  BY RequestStepsLeftType
<1>3. APIInit => NamesFinite
  BY DEF APIInit, NoRequests, NamesFinite
<1>4. IndInv /\ APIInv /\ NamesFinite /\ [APINext]_apiVars => NamesFinite'
  BY NamesFiniteStep
<1> QED
  BY <1>1, <1>2, <1>3, <1>4, RequestsAreTracked, APIImplementsScheduler, PTL DEF APISpec

=============================================================================
