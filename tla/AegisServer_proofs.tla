------------------------- MODULE AegisServer_proofs -------------------------
(***************************************************************************)
(* main drives the API and the scheduler within their specifications, and  *)
(* shuts them down in an order that loses nothing.                         *)
(***************************************************************************)
EXTENDS AegisServer, GateAPI_proofs

----------------------------------------------------------------------------
(* A step of the server is a step of the API.                              *)

\* What handlers and loops leave alone.
LEMMA EvaluationsLeaveControl ==
  ASSUME TypeOK, NEW t \in Threads, EvaluateOnce(t)
  PROVE  UNCHANGED <<ctlVars, dbOpen>>
BY EvaluateOnceShape DEF ctlVars

LEMMA LoopLeavesControl ==
  ASSUME NEW s \in SLOs, Loop(s), ~TickerPanics(s)
  PROVE  UNCHANGED <<ctlVars, dbOpen>>
BY DEF Loop, LoopEnters, TickerStarts, TickerFires, SelectTick, SelectDone, storeVars

LEMMA ArrivesLeavesControl ==
  ASSUME NEW c \in Callers, Arrives(c)
  PROVE  UNCHANGED <<ctlVars, dbOpen>>
BY ArrivesFrame DEF vars, storeVars

LEMMA HandleLeavesControl ==
  ASSUME TypeOK, NEW c \in Callers, Handle(c)
  PROVE  UNCHANGED <<ctlVars, dbOpen>>
<1>1. CASE HandlerEvaluates(c)
  BY <1>1, EvaluationsLeaveControl DEF HandlerEvaluates, Threads
<1>2. CASE ~HandlerEvaluates(c)
  BY <1>2
     DEF Handle, ForceEvaluation, EvaluateNow, ForceReturns, ReadCache, CollectOne,
         Respond, vars, storeVars
<1> QED
  BY <1>1, <1>2

LEMMA EnvironmentLeavesControl ==
  ASSUME Environment
  PROVE  UNCHANGED <<ctlVars, dbOpen>>
BY DEF Environment, Tick, MetricsChange, AdapterChange, storeVars

\* Steps of main that are steps of Scheduler's Main, and those that change
\* nothing the API knows of.
LEMMA MainStepIsAPIStep ==
  ASSUME MainControls, MainStep
  PROVE  [APINext]_apiVars
<1>1. CASE Boot \/ StartScheduler \/ StopCalled \/ StopDone
  BY <1>1 DEF Boot, StartScheduler, StopCalled, StopDone, APINext, SchedulerStep, Main
<1>2. CASE Signal \/ Drained \/ DrainTimesOut
  BY <1>2 DEF Signal, Drained, DrainTimesOut
<1>3. CASE CloseDatabase
  BY <1>3 DEF CloseDatabase, APINext, SchedulerStep, Main
<1>4. CASE Exit
  BY <1>4 DEF Exit, MainControls, APINext, Crash
<1> QED
  BY <1>1, <1>2, <1>3, <1>4 DEF MainStep

LEMMA ServerStepIsAPIStep ==
  ASSUME MainControls, [ServerNext]_serverVars
  PROVE  [APINext]_apiVars
<1>1. CASE Environment /\ UNCHANGED <<req, mainVars>>
  BY <1>1 DEF APINext, SchedulerStep
<1>2. CASE MainStep
  BY <1>2, MainStepIsAPIStep
<1>3. CASE Dies
  BY <1>3 DEF Dies, APINext
<1>4. CASE \E s \in SLOs : LoopSteps(s)
  BY <1>4 DEF LoopSteps, APINext, SchedulerStep
<1>5. CASE \E c \in Callers : Accepts(c) \/ Serves(c)
  BY <1>5 DEF Accepts, Serves, MainControls, APINext
<1>6. CASE UNCHANGED serverVars
  BY <1>6 DEF serverVars
<1> QED
  BY <1>1, <1>2, <1>3, <1>4, <1>5, <1>6 DEF ServerNext

----------------------------------------------------------------------------
(* What main relies on.                                                    *)

LEMMA MainControlsStep ==
  ASSUME TypeOK, ServerTypeOK, MainControls, [ServerNext]_serverVars
  PROVE  ServerTypeOK' /\ MainControls'
<1>1. ASSUME UNCHANGED <<ctlVars, dbOpen, mainVars>>
      PROVE  ServerTypeOK' /\ MainControls'
  BY <1>1 DEF ServerTypeOK, MainControls, ctlVars, mainVars
<1>2. CASE Environment /\ UNCHANGED <<req, mainVars>>
  BY <1>1, <1>2, EnvironmentLeavesControl
<1>3. ASSUME NEW s \in SLOs, LoopSteps(s)
      PROVE  ServerTypeOK' /\ MainControls'
  BY <1>1, <1>3, EvaluationsLeaveControl, LoopLeavesControl DEF LoopSteps, Threads
<1>4. ASSUME NEW c \in Callers, Accepts(c) \/ Serves(c)
      PROVE  ServerTypeOK' /\ MainControls'
  BY <1>1, <1>4, ArrivesLeavesControl, HandleLeavesControl DEF Accepts, Serves
<1>5. ASSUME ProcessEnds, main' = "down", cutShort' = FALSE
      PROVE  ServerTypeOK' /\ MainControls'
  BY <1>5 DEF ProcessEnds, ServerTypeOK, MainControls, MainStates
<1>6. CASE Exit \/ Dies
  BY <1>5, <1>6 DEF Exit, Dies, Crash, TickerPanics
<1>7. CASE Boot
  <2>1. main = "down" /\ main' = "loaded" /\ cutShort' = cutShort
    BY <1>7 DEF Boot, Goes
  <2>2. /\ slos' # {} /\ dbOpen' = HasAudit
        /\ UNCHANGED <<running, stopping>>
    <3>1. LoadSLOs
      BY <1>7 DEF Boot
    <3>2. dbOpen' = HasAudit /\ UNCHANGED <<running, stopping>>
      BY <3>1 DEF LoadSLOs, NewStore
    <3>3. PICK files \in (SUBSET SLOs) \ {{}} : slos' = files
      BY <3>1 DEF LoadSLOs
    <3>4. files # {}
      OBVIOUS
    <3> QED
      BY <3>2, <3>3, <3>4
  <2> QED
    BY <2>1, <2>2, StoreAssumption DEF ServerTypeOK, MainControls, MainStates
<1>8. CASE StartScheduler
  BY <1>8 DEF StartScheduler, Goes, Start, storeVars, ServerTypeOK, MainControls, MainStates
<1>9. CASE Signal \/ Drained \/ DrainTimesOut
  <2>1. /\ \/ main = "serving" /\ main' = "draining"
           \/ main = "draining" /\ main' = "drained"
        /\ cutShort' = cutShort \/ cutShort' = TRUE
    BY <1>9 DEF Signal, Drained, DrainTimesOut, Goes
  <2>2. UNCHANGED <<slos, running, stopping, dbOpen>>
    BY <1>9 DEF Signal, Drained, DrainTimesOut, apiVars, vars, ctlVars, storeVars
  <2> QED
    BY <2>1, <2>2 DEF ServerTypeOK, MainControls, MainStates
<1>10. CASE StopCalled
  BY <1>10 DEF StopCalled, Goes, Stop, storeVars, ServerTypeOK, MainControls, MainStates
<1>11. CASE StopDone
  BY <1>11 DEF StopDone, Goes, StopReturns, storeVars, ServerTypeOK, MainControls, MainStates
<1>12. CASE CloseDatabase
  BY <1>12, StoreAssumption
     DEF CloseDatabase, Goes, CloseStore, Close, apiVars, vars, ctlVars, storeVars,
         ServerTypeOK, MainControls, MainStates
<1>13. CASE UNCHANGED serverVars
  BY <1>1, <1>13 DEF serverVars, apiVars, vars, storeVars
<1> QED
  BY <1>2, <1>3, <1>4, <1>6, <1>7, <1>8, <1>9, <1>10, <1>11, <1>12, <1>13
     DEF ServerNext, MainStep

LEMMA DrainedMeansNoRequestStep ==
  ASSUME TypeOK, CallersServe, DrainedMeansNoRequest, [ServerNext]_serverVars
  PROVE  DrainedMeansNoRequest'
<1>1. CASE UNCHANGED <<req, mainVars>>
  BY <1>1 DEF mainVars, DrainedMeansNoRequest
<1>2. ASSUME NEW c \in Callers, Accepts(c) \/ Serves(c)
      PROVE  DrainedMeansNoRequest'
  <2>1. UNCHANGED mainVars
    BY <1>2 DEF Accepts, Serves
  <2>2. CASE Accepts(c)
    BY <2>1, <2>2 DEF Accepts, mainVars, DrainedMeansNoRequest
  <2>3. CASE Serves(c)
    BY <2>1, <2>3, NoRequestNoHandler DEF Serves, mainVars, DrainedMeansNoRequest
  <2> QED
    BY <1>2, <2>2, <2>3
<1>3. CASE MainStep
  BY <1>3
     DEF MainStep, Boot, StartScheduler, Signal, Drained, DrainTimesOut, StopCalled,
         StopDone, CloseDatabase, Exit, Goes, apiVars, DrainedMeansNoRequest
<1>4. CASE Dies
  BY <1>4 DEF Dies, DrainedMeansNoRequest
<1> QED
  BY <1>1, <1>2, <1>3, <1>4 DEF ServerNext, LoopSteps, serverVars, apiVars

\* main's knowledge, with what holds of the API and of the scheduler.
LEMMA ServerInvariants == ServerSpec => [](ServerInv /\ APIInv /\ IndInv)
<1>1. ServerInit => ServerInv /\ APIInv /\ IndInv
  <2> SUFFICES ASSUME ServerInit PROVE ServerInv /\ APIInv /\ IndInv
    OBVIOUS
  <2>1. IndInv
    BY IndInvInit DEF ServerInit, APIInit
  <2>2. APIInv
    BY APIInvInit DEF ServerInit
  <2>3. ServerInv
    BY DEF ServerInit, APIInit, Init, StoreInit, ServerInv, ServerTypeOK, MainControls,
           MainStates, DrainedMeansNoRequest
  <2> QED
    BY <2>1, <2>2, <2>3
<1>2. ServerInv /\ APIInv /\ IndInv /\ [ServerNext]_serverVars =>
        (ServerInv /\ APIInv /\ IndInv)'
  <2> SUFFICES ASSUME ServerInv, APIInv, IndInv, [ServerNext]_serverVars
               PROVE  (ServerInv /\ APIInv /\ IndInv)'
    OBVIOUS
  <2>1. TypeOK /\ MainControls /\ ServerTypeOK /\ DrainedMeansNoRequest /\ CallersServe
    BY DEF IndInv, ServerInv, APIInv
  <2>2. [APINext]_apiVars
    BY <2>1, ServerStepIsAPIStep
  <2>3. IndInv'
    BY <2>1, <2>2, APIStepIsSchedulerStep, IndInvStep
  <2>4. APIInv'
    BY <2>1, <2>2, APIInvStep
  <2>5. ServerInv'
    BY <2>1, MainControlsStep, DrainedMeansNoRequestStep DEF ServerInv
  <2> QED
    BY <2>3, <2>4, <2>5
<1> QED
  BY <1>1, <1>2, PTL DEF ServerSpec

\* main's place tells whether SLOs are loaded, the scheduler runs, the database is
\* open, and, after a complete drain, that no request is left.
THEOREM MainKnowsWhereItIs == ServerSpec => []ServerInv
BY ServerInvariants, PTL

\* Everything the server does, the API and the scheduler allow: what is proved of
\* APISpec and of Spec holds in the server.
THEOREM ServerImplementsAPI == ServerSpec => APISpec
<1>1. ServerInit => APIInit
  BY DEF ServerInit
<1>2. ServerInv /\ [ServerNext]_serverVars => [APINext]_apiVars
  BY ServerStepIsAPIStep DEF ServerInv
<1> QED
  BY <1>1, <1>2, MainKnowsWhereItIs, PTL DEF ServerSpec, APISpec

THEOREM ServerImplementsScheduler == ServerSpec => ImplementsScheduler
BY ServerImplementsAPI, APIImplementsScheduler, PTL DEF ImplementsScheduler

\* And what the handlers answer under it is complete, and fresh where forced without
\* rivals (server.go:182-200, 235-249): main starts and stops the scheduler only where
\* the API expects it.
THEOREM ServerAnswers == ServerSpec => [](AnswersCoverArrival /\ FreshUnlessContended)
BY ServerImplementsAPI, AnswersCoverTheirArrival, ForcedAnswersAreFresh, PTL

\* The database is closed behind the loops.
THEOREM DatabaseClosesLast == ServerSpec => []LoopsEndBeforeClose
<1>1. ServerInv /\ IndInv => LoopsEndBeforeClose
  BY DEF ServerInv, MainControls, IndInv, LoopsDrained, LoopsEndBeforeClose
<1> QED
  BY <1>1, ServerInvariants, PTL

----------------------------------------------------------------------------
(* A complete shutdown.                                                    *)

\* When the loops have ended and no request is left, nobody evaluates.
LEMMA NobodyEvaluates ==
  ASSUME ServerInv, APIInv, IndInv, main \in {"stopped", "closed"}, ~cutShort
  PROVE  \A t \in Threads : ~Busy(t)
<1>1. \A s \in SLOs : ~Busy(s)
  BY DEF ServerInv, MainControls, IndInv, LoopsDrained
<1>2. \A c \in Callers : ~Busy(c)
  BY NoRequestNoHandler DEF ServerInv, DrainedMeansNoRequest, APIInv, IndInv
<1> QED
  BY <1>1, <1>2 DEF Threads

LEMMA CleanShutdownStep ==
  ASSUME ServerInv, APIInv, IndInv, CleanShutdownLosesNothing, [ServerNext]_serverVars
  PROVE  CleanShutdownLosesNothing'
<1> SUFFICES ASSUME (main = "closed" /\ HasAudit /\ ~StorageFaults /\ ~cutShort)',
                    NEW s \in SLOs, cache'[s] # NoState
             PROVE  /\ cache'[s] \in evaluations'
                    /\ s \notin forced' => latest'[s] = cache'[s]
  BY DEF CleanShutdownLosesNothing
<1>0. TypeOK /\ MainControls /\ CallersServe /\ DrainedMeansNoRequest
  BY DEF IndInv, ServerInv, APIInv
<1>1. CASE CloseDatabase
  <2>1. main = "stopped" /\ ~cutShort /\ dbOpen
    BY <1>0, <1>1 DEF CloseDatabase, Goes, MainControls
  <2>2. UNCHANGED <<cache, evaluations, latest, forced>>
    BY <1>1
       DEF CloseDatabase, CloseStore, Close, apiVars, vars, evalVars, storeVars
  <2>3. \A t \in Threads : ~InPhase(t, "store") /\ ~InPhase(t, "latest")
    BY <2>1, NobodyEvaluates DEF Busy, InPhase, Idle
  <2>4. cache[s] \in evaluations
    BY <2>1, <2>2, <2>3 DEF IndInv, ServedIsRecorded
  <2>5. s \notin forced => latest[s] = cache[s]
    BY <2>1, <2>2, <2>3 DEF IndInv, LoopPublishesOnce, Threads
  <2> QED
    BY <2>2, <2>4, <2>5
<1>2. CASE UNCHANGED <<main, cutShort, cache, evaluations, latest, forced>>
  BY <1>2 DEF CleanShutdownLosesNothing
<1>3. CASE Environment /\ UNCHANGED <<req, mainVars>>
  BY <1>2, <1>3
     DEF Environment, Tick, MetricsChange, AdapterChange, mainVars, evalVars, storeVars
<1>4. ASSUME NEW u \in SLOs, LoopSteps(u)
      PROVE  FALSE
  <2>1. main = "closed" /\ ~cutShort
    BY <1>4 DEF LoopSteps, mainVars
  <2>2. ~Busy(u) /\ loop[u] = "off"
    BY <1>0, <2>1 DEF MainControls, IndInv, LoopsDrained
  <2>3. ~EvaluateOnce(u)
    BY <1>0, <2>2, EvaluateOnceShape DEF Threads
  <2> QED
    BY <1>4, <2>2, <2>3
       DEF LoopSteps, Loop, LoopEnters, TickerStarts, TickerFires, SelectTick, SelectDone
<1>5. ASSUME NEW c \in Callers, Accepts(c) \/ Serves(c)
      PROVE  FALSE
  <2>1. main = "closed" /\ ~cutShort
    BY <1>5 DEF Accepts, Serves, mainVars
  <2>2. req[c] = NoRequest
    BY <1>0, <2>1 DEF DrainedMeansNoRequest
  <2> QED
    BY <1>0, <1>5, <2>1, <2>2, NoRequestNoHandler DEF Accepts, Serves
<1>6. CASE MainStep /\ ~CloseDatabase
  BY <1>6
     DEF MainStep, Boot, StartScheduler, Signal, Drained, DrainTimesOut, StopCalled,
         StopDone, Exit, Goes
<1>7. CASE Dies
  BY <1>7 DEF Dies
<1>8. CASE UNCHANGED serverVars
  BY <1>2, <1>8 DEF serverVars, apiVars, vars, mainVars, evalVars, storeVars
<1> QED
  BY <1>1, <1>3, <1>4, <1>5, <1>6, <1>7, <1>8 DEF ServerNext

\* A shutdown whose drain did not time out leaves everything that was served in
\* the database.
THEOREM CompleteShutdown == ServerSpec => []CleanShutdownLosesNothing
<1>1. ServerInit => CleanShutdownLosesNothing
  BY DEF ServerInit, CleanShutdownLosesNothing
<1>2. ServerInv /\ APIInv /\ IndInv /\ CleanShutdownLosesNothing
        /\ [ServerNext]_serverVars => CleanShutdownLosesNothing'
  BY CleanShutdownStep
<1> QED
  BY <1>1, <1>2, ServerInvariants, PTL DEF ServerSpec

=============================================================================
