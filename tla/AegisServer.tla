---------------------------- MODULE AegisServer ----------------------------
(***************************************************************************)
(* cmd/aegis-server: one process from boot to exit, and the next one on    *)
(* the same database.                                                      *)
(*                                                                         *)
(*   down -> loaded -> serving -> draining -> drained -> stopping          *)
(*                         -> stopped -> closed -> down                    *)
(*                                                                         *)
(* main opens the database, loads the SLOs, starts the scheduler and the   *)
(* HTTP server; on SIGTERM it lets the handlers finish for at most         *)
(* GracefulShutdownTimeout, then stops the scheduler, then closes the      *)
(* database, each after the other has returned.  The process may die at    *)
(* any step.                                                               *)
(***************************************************************************)
EXTENDS GateAPI

VARIABLES
  main,      \* where main is
  cutShort   \* history: this process's Shutdown gave up waiting for handlers

mainVars == <<main, cutShort>>
serverVars == <<apiVars, mainVars>>

MainStates == {"down", "loaded", "serving", "draining", "drained", "stopping",
               "stopped", "closed"}

Goes(from, to) == main = from /\ main' = to /\ UNCHANGED cutShort

ServerInit == APIInit /\ main = "down" /\ cutShort = FALSE

\* A load that fails ends the process (log.Fatalf) as it found it.
Boot           == Goes("down", "loaded") /\ LoadSLOs /\ UNCHANGED req
StartScheduler == Goes("loaded", "serving") /\ Start /\ UNCHANGED req
Signal         == Goes("serving", "draining") /\ UNCHANGED apiVars

\* Fault: Close in place of Shutdown, the handlers run on.
DrainedAtOnce  == Goes("draining", "drained") /\ UNCHANGED apiVars

\* Fault: Shutdown with a context that never expires.
DrainNeverTimesOut ==
                  /\ Goes("draining", "drained")
                  /\ \A c \in Callers : req[c] = NoRequest
                  /\ UNCHANGED apiVars

\* http.Server.Shutdown returns when no request is being served, or with an
\* error, which is logged, when its context expires.
Drained        == /\ Goes("draining", "drained")
                  /\ \A c \in Callers : req[c] = NoRequest
                  /\ UNCHANGED apiVars
DrainTimesOut  == /\ main = "draining" /\ main' = "drained"
                  /\ \E c \in Callers : req[c] # NoRequest
                  /\ cutShort' = TRUE
                  /\ UNCHANGED apiVars

\* Fault: main gives up waiting for Stop.
StopGivenUp    == /\ Goes("stopping", "stopped")
                  /\ stopping /\ stopping' = FALSE
                  /\ UNCHANGED <<envVars, slos, running, cancelled, loopVars,
                                 evalVars, storeVars, req>>

\* Fault: the database is left open.
DatabaseLeft   == Goes("stopped", "closed") /\ UNCHANGED apiVars

StopCalled     == Goes("drained", "stopping") /\ Stop /\ UNCHANGED req
StopDone       == Goes("stopping", "stopped") /\ StopReturns /\ UNCHANGED req
CloseDatabase  == /\ Goes("stopped", "closed")
                  /\ \/ CloseStore /\ UNCHANGED req
                     \/ ~HasAudit /\ UNCHANGED apiVars

\* main returns, or the process is killed: handlers still running end with it.
Exit           == /\ main = "closed" /\ main' = "down" /\ cutShort' = FALSE
                  /\ ProcessEnds /\ req' = NoRequests
Dies           == /\ main # "down" /\ main' = "down" /\ cutShort' = FALSE
                  /\ Crash \/ \E s \in SLOs : TickerPanics(s)
                  /\ req' = NoRequests

MainStep ==
  \/ Boot \/ StartScheduler \/ Signal \/ Drained \/ DrainTimesOut
  \/ StopCalled \/ StopDone \/ CloseDatabase \/ Exit

\* The listener accepts from serving on and is closed first thing by Shutdown.
Accepts(c) == main = "serving" /\ Arrives(c) /\ UNCHANGED mainVars

Serves(c) == Handle(c) /\ UNCHANGED mainVars

LoopSteps(s) ==
  /\ EvaluateOnce(s) \/ (Loop(s) /\ ~TickerPanics(s))
  /\ UNCHANGED <<req, mainVars>>

ServerNext ==
  \/ Environment /\ UNCHANGED <<req, mainVars>>
  \/ MainStep \/ Dies
  \/ \E s \in SLOs : LoopSteps(s)
  \/ \E c \in Callers : Accepts(c) \/ Serves(c)

Lifted(A) == A /\ UNCHANGED <<req, mainVars>>

\* main advances once a shutdown has begun (its wait for the handlers is
\* bounded); the loops are scheduled as in Scheduler's Fairness.
ServerFairness ==
  /\ WF_serverVars(Drained \/ DrainTimesOut \/ StopCalled \/ StopDone \/ CloseDatabase \/ Exit)
  /\ \A s \in SLOs :
       /\ WF_serverVars(Lifted(EvaluateOnce(s)))
       /\ WF_serverVars(Lifted(LoopEnters(s) \/ TickerStarts(s)))
       /\ SF_serverVars(Lifted(SelectDone(s)))

ServerSpec == ServerInit /\ [][ServerNext]_serverVars
FairServerSpec == ServerSpec /\ ServerFairness

----------------------------------------------------------------------------

ServerTypeOK == main \in MainStates /\ cutShort \in BOOLEAN

\* What main relies on at each of its steps without asking: whether SLOs are
\* loaded, whether the scheduler runs or is being stopped, and whether the
\* database is open, follow from how far main has come.
MainControls ==
  /\ slos = {} <=> main = "down"
  /\ running <=> main \in {"serving", "draining", "drained"}
  /\ stopping <=> main = "stopping"
  /\ dbOpen <=> HasAudit /\ main \notin {"down", "closed"}

\* After a drain that did not time out no request is being served.
DrainedMeansNoRequest ==
  main \in {"drained", "stopping", "stopped", "closed"} /\ ~cutShort =>
    \A c \in Callers : req[c] = NoRequest

ServerInv == ServerTypeOK /\ MainControls /\ DrainedMeansNoRequest

\* The database is closed behind the loops: no periodic evaluation is still
\* writing, or could begin, when main closes it (main.go:117-126).
LoopsEndBeforeClose ==
  main \in {"stopped", "closed"} =>
    \A s \in SLOs : loop[s] = "off" /\ ~Busy(s)

\* When the drain did not time out, what the gate last served for every SLO is
\* in the database at the moment it is closed: in the audit trail and, unless
\* EvaluateNow interfered, as the latest state.
CleanShutdownLosesNothing ==
  main = "closed" /\ HasAudit /\ ~StorageFaults
    /\ ~cutShort =>
      \A s \in SLOs : cache[s] # NoState =>
        /\ cache[s] \in evaluations
        /\ s \notin forced => latest[s] = cache[s]

\* The server drives the scheduler only in ways Scheduler.Spec allows, so what
\* holds of every behaviour of the scheduler holds inside the server.
ImplementsScheduler == Spec

\* A shutdown that has begun ends, with handlers that never finish and tickers
\* that keep firing.
ShutdownCompletes == main = "draining" ~> main = "down"

=============================================================================
