------------------------------ MODULE Scheduler ------------------------------
(***************************************************************************)
(* scheduler.Scheduler: a goroutine per loaded SLO that evaluates it once, *)
(* then on every tick of its ticker; EvaluateNow, which runs the same      *)
(* evaluation on the goroutine of whoever calls it (the HTTP handlers);    *)
(* Start and Stop, called by main; and the StateCache they all write.      *)
(*                                                                         *)
(* evaluateOnce is five steps, and evaluations of the same SLO by its loop *)
(* and by callers interleave between them:                                 *)
(*                                                                         *)
(*     now := time.Now()         Begin             phase := "evaluate"     *)
(*     Evaluate + policy         Evaluate          phase := "set"          *)
(*                               EvaluateFails     (returns)               *)
(*     cache.Set                 SetCache          phase := "store"        *)
(*     audit.StoreEvaluation     RecordEvaluation  phase := "latest"       *)
(*     audit.UpdateLatestState   RecordLatest      (returns)               *)
(*                                                                         *)
(* A thread is named by what it works for: the loop of SLO s is the thread *)
(* s, a caller of EvaluateNow is a member of Callers.                      *)
(*                                                                         *)
(* The metrics are the environment's: metrics[s] is the decision the rules *)
(* of s give on what Prometheus holds now.  Evaluate queries the windows   *)
(* one after another and may mix two states of the metrics; the            *)
(* environment can always have passed through the state of the mix, so     *)
(* one sample stands for them all.                                         *)
(***************************************************************************)
EXTENDS AuditStore

CONSTANTS
  Callers,     \* goroutines that may call EvaluateNow
  Observable,  \* the decisions the metrics may call for (bound: a subset)
  Interval     \* per SLO: what its evaluationInterval string holds

\* "nonpositive" is "0s", or a count of hours, minutes or seconds whose
\* product wraps around to a negative number of nanoseconds: the schema's pattern
\* admits both and time.NewTicker panics on them.  "unparsable" is a count out of
\* the int64 range, which ParseDuration rejects.
IntervalKinds == {"positive", "nonpositive", "unparsable"}

ASSUME SchedulerAssumption ==
  /\ Callers \cap SLOs = {}
  /\ Observable \subseteq Decisions
  /\ Interval \in [SLOs -> IntervalKinds]

Threads == SLOs \cup Callers

VARIABLES
  clock,      \* time.Now()
  metrics,    \* per SLO: the decision the current metrics call for
  answers,    \* per SLO: the adapter answers its queries
  slos,       \* Scheduler.slos
  running,    \* Scheduler.running
  cancelled,  \* the loops' context is cancelled
  stopping,   \* Stop is in wg.Wait()
  loop,       \* per SLO: where evaluateLoop is
  ticked,     \* per SLO: the ticker's channel (of capacity one) holds a tick
  ev,         \* per thread: its activation of evaluateOnce
  cache,      \* StateCache.states
  forced      \* history: SLOs that EvaluateNow evaluated in this process

envVars  == <<clock, metrics, answers>>
ctlVars  == <<slos, running, cancelled, stopping>>
loopVars == <<loop, ticked>>
evalVars == <<ev, cache, forced>>
vars     == <<envVars, ctlVars, loopVars, evalVars, storeVars>>

NoDecision == "none"

\* Between its calls evaluateOnce holds no state.
Idle == [phase |-> "idle"]

Activation == [phase : {"evaluate", "set", "store", "latest"},
               slo : SLOs, now : Instants, decision : Decisions \cup {NoDecision}]

Busy(t)     == ev[t] # Idle
InPhase(t, phase) == ev[t].phase = phase

\* The EvaluationState, and the audit row, an activation ends up producing.
RowOf(a) == [slo |-> a.slo, at |-> a.now, decision |-> a.decision]

----------------------------------------------------------------------------

\* What a process starts with: NewScheduler, and no goroutine.
NoLoops       == [s \in SLOs |-> "off"]
NoTicks       == [s \in SLOs |-> FALSE]
NoActivations == [t \in Threads |-> Idle]
EmptyCache    == [s \in SLOs |-> NoState]

Init ==
  /\ clock = 0
  /\ metrics \in [SLOs -> Observable]
  /\ answers \in [SLOs -> BOOLEAN]
  /\ slos = {} /\ running = FALSE /\ cancelled = FALSE /\ stopping = FALSE
  /\ loop = NoLoops /\ ticked = NoTicks
  /\ ev = NoActivations /\ cache = EmptyCache /\ forced = {}
  /\ StoreInit

----------------------------------------------------------------------------
(* The environment: time passes, the metrics and the adapter change.       *)

Tick ==
  /\ clock < MaxTime
  /\ clock' = clock + 1
  /\ UNCHANGED <<metrics, answers, ctlVars, loopVars, evalVars, storeVars>>

MetricsChange(s) ==
  /\ \E d \in Observable \ {metrics[s]} : metrics' = [metrics EXCEPT ![s] = d]
  /\ UNCHANGED <<clock, answers, ctlVars, loopVars, evalVars, storeVars>>

\* A query that starts to fail, or recovers: an outage of Prometheus is one
\* such step for each SLO.
AdapterChange(s) ==
  /\ answers' = [answers EXCEPT ![s] = ~@]
  /\ UNCHANGED <<clock, metrics, ctlVars, loopVars, evalVars, storeVars>>

----------------------------------------------------------------------------
(* evaluateOnce, on thread t.                                              *)

\* Fault: stamped with the time of the sample Prometheus returns, which may lag.
BeginAtSampleTime(t, s) ==
  /\ ~Busy(t)
  /\ \E sampled \in 0 .. clock :
       ev' = [ev EXCEPT ![t] = [phase |-> "evaluate", slo |-> s, now |-> sampled,
                                decision |-> NoDecision]]

\* "now" is read before the queries and stamps everything that follows.
Begin(t, s) ==
  /\ ~Busy(t)
  /\ ev' = [ev EXCEPT ![t] = [phase |-> "evaluate", slo |-> s, now |-> clock,
                              decision |-> NoDecision]]

Returns(t) == ev' = [ev EXCEPT ![t] = Idle]

\* Fault: recorded before it is served, and again after.
EvaluateRecordsFirst(t) ==
  /\ InPhase(t, "evaluate")
  /\ answers[ev[t].slo]
  /\ ev' = [ev EXCEPT ![t].phase = "set", ![t].decision = metrics[ev[t].slo]]
  /\ StoreEvaluation(RowOf(ev'[t]))
  /\ UNCHANGED <<envVars, ctlVars, loopVars, cache, forced>>

Evaluate(t) ==
  /\ InPhase(t, "evaluate")
  /\ answers[ev[t].slo]
  /\ ev' = [ev EXCEPT ![t].phase = "set", ![t].decision = metrics[ev[t].slo]]
  /\ UNCHANGED <<envVars, ctlVars, loopVars, cache, forced, storeVars>>

\* Fault: an error ends the goroutine, as a return in place of the log would.
EvaluateFailsEndsLoop(t) ==
  /\ InPhase(t, "evaluate")
  /\ ~answers[ev[t].slo]
  /\ Returns(t)
  /\ loop' = [s \in SLOs |-> IF s = t THEN "off" ELSE loop[s]]
  /\ UNCHANGED <<envVars, ctlVars, ticked, cache, forced, storeVars>>

\* Fault: a failsafe WARN that is cached and never recorded.
EvaluateFailsCachesWarn(t) ==
  /\ InPhase(t, "evaluate")
  /\ ~answers[ev[t].slo]
  /\ Returns(t)
  /\ cache' = [cache EXCEPT ![ev[t].slo] =
                 [slo |-> ev[t].slo, at |-> ev[t].now, decision |-> "WARN"]]
  /\ UNCHANGED <<envVars, ctlVars, loopVars, forced, storeVars>>

\* Fault: a failure evicts what is cached.
EvaluateFailsEvicts(t) ==
  /\ InPhase(t, "evaluate")
  /\ ~answers[ev[t].slo]
  /\ Returns(t)
  /\ cache' = [cache EXCEPT ![ev[t].slo] = NoState]
  /\ UNCHANGED <<envVars, ctlVars, loopVars, forced, storeVars>>

\* Any query that fails or times out aborts the evaluation: the error is
\* logged, and the cache keeps what it has.
EvaluateFails(t) ==
  /\ InPhase(t, "evaluate")
  /\ ~answers[ev[t].slo]
  /\ Returns(t)
  /\ UNCHANGED <<envVars, ctlVars, loopVars, cache, forced, storeVars>>

\* Fault: only a decision that changed is audited.
SetCacheAuditsChanges(t) ==
  /\ InPhase(t, "set")
  /\ cache' = [cache EXCEPT ![ev[t].slo] = RowOf(ev[t])]
  /\ IF HasAudit /\ (\/ cache[ev[t].slo] = NoState
                     \/ cache[ev[t].slo].decision # ev[t].decision)
       THEN ev' = [ev EXCEPT ![t].phase = "store"] ELSE Returns(t)
  /\ UNCHANGED <<envVars, ctlVars, loopVars, forced, storeVars>>

\* cache.Set overwrites whatever is there.
SetCache(t) ==
  /\ InPhase(t, "set")
  /\ cache' = [cache EXCEPT ![ev[t].slo] = RowOf(ev[t])]
  /\ IF HasAudit THEN ev' = [ev EXCEPT ![t].phase = "store"] ELSE Returns(t)
  /\ UNCHANGED <<envVars, ctlVars, loopVars, forced, storeVars>>

\* Neither write's error stops the evaluation.
RecordEvaluation(t) ==
  /\ InPhase(t, "store")
  /\ StoreEvaluation(RowOf(ev[t]))
  /\ ev' = [ev EXCEPT ![t].phase = "latest"]
  /\ UNCHANGED <<envVars, ctlVars, loopVars, cache, forced>>

RecordLatest(t) ==
  /\ InPhase(t, "latest")
  /\ UpdateLatestState(RowOf(ev[t]))
  /\ Returns(t)
  /\ UNCHANGED <<envVars, ctlVars, loopVars, cache, forced>>

EvaluateOnce(t) ==
  \/ Evaluate(t) \/ EvaluateFails(t) \/ SetCache(t)
  \/ RecordEvaluation(t) \/ RecordLatest(t)

----------------------------------------------------------------------------
(* evaluateLoop, the goroutine of SLO s.                                   *)

\* An interval that does not parse ends the goroutine before any evaluation;
\* otherwise the initial evaluation begins, cancelled or not.
LoopEnters(s) ==
  /\ loop[s] = "launched"
  /\ \/ /\ Interval[s] = "unparsable"
        /\ loop' = [loop EXCEPT ![s] = "off"]
        /\ UNCHANGED ev
     \/ /\ Interval[s] # "unparsable"
        /\ loop' = [loop EXCEPT ![s] = "initial"]
        /\ Begin(s, s)
  /\ UNCHANGED <<envVars, ctlVars, ticked, cache, forced, storeVars>>

\* After the initial evaluation: time.NewTicker, and into the select.
TickerStarts(s) ==
  /\ loop[s] = "initial" /\ ~Busy(s)
  /\ Interval[s] # "nonpositive"
  /\ loop' = [loop EXCEPT ![s] = "select"]
  /\ UNCHANGED <<envVars, ctlVars, ticked, evalVars, storeVars>>

\* A tick that finds the channel full is dropped.
TickerFires(s) ==
  /\ loop[s] = "select" /\ ~ticked[s]
  /\ ticked' = [ticked EXCEPT ![s] = TRUE]
  /\ UNCHANGED <<envVars, ctlVars, loop, evalVars, storeVars>>

\* case <-ticker.C: taken even when the context is cancelled too, since a
\* select chooses among its ready cases at random.
SelectTick(s) ==
  /\ loop[s] = "select" /\ ticked[s]
  /\ Begin(s, s)
  /\ ticked' = [ticked EXCEPT ![s] = FALSE]
  /\ UNCHANGED <<envVars, ctlVars, loop, cache, forced, storeVars>>

\* Fault: the context is looked at only when no tick is waiting.
SelectDoneAfterTicks(s) ==
  /\ loop[s] = "select" /\ ~Busy(s)
  /\ cancelled /\ ~ticked[s]
  /\ loop' = [loop EXCEPT ![s] = "off"]
  /\ UNCHANGED <<envVars, ctlVars, ticked, evalVars, storeVars>>

\* case <-ctx.Done(): the deferred calls stop the ticker and release the
\* WaitGroup.
SelectDone(s) ==
  /\ loop[s] = "select" /\ ~Busy(s)
  /\ cancelled
  /\ loop' = [loop EXCEPT ![s] = "off"]
  /\ ticked' = [ticked EXCEPT ![s] = FALSE]
  /\ UNCHANGED <<envVars, ctlVars, evalVars, storeVars>>

----------------------------------------------------------------------------
(* LoadSLOs, Start, Stop: called by one goroutine, main.                   *)

\* main opens the store, then loads the directory: a directory with a load or
\* a validation error, or with no SLO, changes nothing.  No other goroutine
\* exists yet, so the writes of the definitions are one step with the load.
LoadSLOs ==
  /\ slos = {} /\ ~running /\ ~stopping
  /\ \E files \in (SUBSET SLOs) \ {{}} : slos' = files /\ StoreDefinitions(files)
  /\ NewStore
  /\ UNCHANGED <<envVars, running, cancelled, stopping, loopVars, evalVars,
                 evaluations, latest>>

Start ==
  /\ ~running /\ ~stopping
  /\ slos # {}
  /\ running' = TRUE /\ cancelled' = FALSE
  /\ loop' = [s \in SLOs |-> IF s \in slos THEN "launched" ELSE loop[s]]
  /\ UNCHANGED <<envVars, slos, stopping, ticked, evalVars, storeVars>>

\* Fault: Stop cancels and does not wait.
StopOnlyCancels ==
  /\ running
  /\ running' = FALSE /\ cancelled' = TRUE
  /\ UNCHANGED <<envVars, slos, stopping, loopVars, evalVars, storeVars>>

Stop ==
  /\ running
  /\ running' = FALSE /\ cancelled' = TRUE
  /\ stopping' = TRUE
  /\ UNCHANGED <<envVars, slos, loopVars, evalVars, storeVars>>

\* Fault: wg.Add(1) inside the goroutine, so that Wait may find nothing to wait for.
StopReturnsEarly ==
  /\ stopping
  /\ stopping' = FALSE
  /\ UNCHANGED <<envVars, slos, running, cancelled, loopVars, evalVars, storeVars>>

\* wg.Wait() returns once every loop has called wg.Done().
StopReturns ==
  /\ stopping
  /\ \A s \in SLOs : loop[s] = "off"
  /\ stopping' = FALSE
  /\ UNCHANGED <<envVars, slos, running, cancelled, loopVars, evalVars, storeVars>>

\* main closes the database after Stop.
CloseStore ==
  /\ ~running /\ ~stopping /\ cancelled
  /\ dbOpen
  /\ Close
  /\ UNCHANGED <<envVars, ctlVars, loopVars, evalVars>>

----------------------------------------------------------------------------

\* EvaluateNow looks the SLO up and parses its interval; failing that it
\* returns an error and changes nothing.  The WaitGroup does not count it.
CanEvaluateNow(s) == s \in slos /\ Interval[s] # "unparsable"

EvaluateNow(c, s) ==
  /\ CanEvaluateNow(s)
  /\ Begin(c, s)
  /\ forced' = forced \cup {s}
  /\ UNCHANGED <<envVars, ctlVars, loopVars, cache, storeVars>>

\* The process dies: its memory is gone, the database keeps its rows.
ProcessEnds ==
  /\ slos' = {} /\ running' = FALSE /\ cancelled' = FALSE /\ stopping' = FALSE
  /\ loop' = NoLoops /\ ticked' = NoTicks
  /\ ev' = NoActivations /\ cache' = EmptyCache /\ forced' = {}
  /\ dbOpen' = FALSE
  /\ UNCHANGED <<envVars, defs, evaluations, latest>>

\* time.NewTicker panics on it, and an unrecovered panic in a goroutine ends the
\* process.
TickerPanics(s) ==
  /\ loop[s] = "initial" /\ ~Busy(s)
  /\ Interval[s] = "nonpositive"
  /\ ProcessEnds

Crash == slos # {} /\ ProcessEnds

----------------------------------------------------------------------------

Environment == Tick \/ \E s \in SLOs : MetricsChange(s) \/ AdapterChange(s)

Loop(s) ==
  \/ LoopEnters(s) \/ TickerStarts(s) \/ TickerPanics(s)
  \/ TickerFires(s) \/ SelectTick(s) \/ SelectDone(s)

Main == LoadSLOs \/ Start \/ Stop \/ StopReturns \/ CloseStore

Next ==
  \/ Environment
  \/ \E t \in Threads : EvaluateOnce(t)
  \/ \E s \in SLOs : Loop(s)
  \/ Main
  \/ \E c \in Callers, s \in SLOs : EvaluateNow(c, s)
  \/ Crash

\* Every goroutine that can run does, queries return (each has a timeout) and
\* tickers fire.  A loop whose context is cancelled while ticks keep coming
\* leaves because select is random: strong fairness.  Nothing is assumed of
\* time, of the metrics, of the callers or of main's decisions.
Fairness ==
  /\ \A t \in Threads : WF_vars(EvaluateOnce(t))
  /\ \A s \in SLOs :
       /\ WF_vars(LoopEnters(s) \/ TickerStarts(s) \/ TickerPanics(s))
       /\ WF_vars(TickerFires(s))
       /\ WF_vars(SelectTick(s))
       /\ SF_vars(SelectDone(s))
  /\ WF_vars(StopReturns)

Spec == Init /\ [][Next]_vars
FairSpec == Spec /\ Fairness

----------------------------------------------------------------------------
(* Invariants.                                                             *)

TypeOK ==
  /\ StoreTypeOK
  /\ clock \in Instants
  /\ metrics \in [SLOs -> Observable]
  /\ answers \in [SLOs -> BOOLEAN]
  /\ slos \subseteq SLOs
  /\ running \in BOOLEAN /\ cancelled \in BOOLEAN /\ stopping \in BOOLEAN
  /\ loop \in [SLOs -> {"off", "launched", "initial", "select"}]
  /\ ticked \in [SLOs -> BOOLEAN]
  /\ ev \in [Threads -> Activation \cup {Idle}]
  /\ \A t \in Threads :
       Busy(t) /\ ~InPhase(t, "evaluate") => ev[t].decision \in Decisions
  /\ cache \in [SLOs -> Row \cup {NoState}]
  /\ forced \subseteq SLOs

\* Once Stop has returned, and until the next Start, no loop runs and no loop
\* is inside an evaluation: what main relies on when it closes the database
\* after Stop (main.go:117-126).
LoopsDrained ==
  ~running /\ ~stopping =>
    \A s \in SLOs : loop[s] = "off" /\ ~Busy(s)

\* While no write fails and no EvaluateNow interferes, an SLO whose evaluation
\* is over has the same state in the cache, where the gate reads it, and in
\* latest_state: evaluateOnce writes both from the same result.
LatestFollowsCache ==
  \A s \in SLOs \ forced :
    ~StorageFaults /\ Writable([slo |-> s]) /\ ~Busy(s) /\ cache[s] # NoState =>
      latest[s] = cache[s]

\* Every decision the gate can serve is in the audit trail, or the evaluation
\* that cached it is about to write it, as long as no write fails: a decision is
\* never served and then forgotten because of how threads interleave.
ServedIsRecorded ==
  ~StorageFaults /\ dbOpen =>
    \A s \in SLOs : cache[s] # NoState =>
      \/ cache[s] \in evaluations
      \/ \E t \in Threads : InPhase(t, "store") /\ RowOf(ev[t]) = cache[s]

----------------------------------------------------------------------------
(* What a step may never do.                                               *)

Older(new, old) == new # NoState /\ old # NoState /\ new.at < old.at

\* The gate's view of an SLO goes back in time (an older evaluation replaces a
\* newer one, in the cache or in latest_state) only if EvaluateNow has been used on
\* that SLO in this process: the loop alone, its periodic evaluations, failing
\* writes, a Stop and a Start and a restart on the old tables never take it back.
\* Set and UpdateLatestState compare no timestamps, so this rests on one loop per
\* SLO.  What a forced evaluation can be overtaken by is left to
\* FreshUnlessContended.
RegressesOnlyIfForced ==
  [][\A s \in SLOs :
       Older(cache'[s], cache[s]) \/ Older(latest'[s], latest[s]) => s \in forced]_vars

\* "Reject invalid specs without crashing system" (PED.md:128), where an
\* evaluation interval below 30s is invalid (PED.md:334).
InvalidSpecNeverCrashes == [][\A s \in SLOs : ~TickerPanics(s)]_vars

----------------------------------------------------------------------------
(* The scheduler, with its cache and its store, keeps the ledger's promises:
   the board is the cache, the trail is the evaluations table, and a thread
   owes the record of what it cached until it has called StoreEvaluation.  *)

Owed == {<<t, RowOf(ev[t])>> : t \in {u \in Threads : InPhase(u, "store")}}

Ledger == INSTANCE GateLedger
            WITH Writers <- Threads, Decided <- Row, Audited <- HasAudit,
                 board <- cache, owed <- Owed, trail <- evaluations

\* Interleavings, failed writes, a Stop and a crash between two steps included,
\* the scheduler behaves as GateLedger says.
KeepsLedger == Ledger!Spec

----------------------------------------------------------------------------
(* The inductive invariant behind LoopsDrained, RegressesOnlyIfForced,
   ServedIsRecorded and LatestFollowsCache.                                *)

\* A loop evaluates its own SLO, and only once it has been launched.
LoopsEvaluateTheirOwn ==
  \A s \in SLOs : Busy(s) => ev[s].slo = s /\ loop[s] \in {"initial", "select"}

\* Before LoadSLOs there is nothing to evaluate and nothing cached; afterwards
\* only loaded SLOs are evaluated.
OnlyLoadedSLOs ==
  /\ slos = {} => ~running /\ ~stopping /\ cache = EmptyCache
  /\ \A s \in SLOs : loop[s] # "off" => s \in slos
  /\ \A t \in Threads : Busy(t) => ev[t].slo \in slos

CallersForce == \A c \in Callers : Busy(c) => ev[c].slo \in forced

\* No stamp is ahead of the clock, and each state is filed under its own SLO.
Stamps ==
  /\ \A t \in Threads : Busy(t) => ev[t].now <= clock
  /\ \A s \in SLOs : cache[s] # NoState => cache[s].at <= clock /\ cache[s].slo = s
  /\ \A s \in SLOs : latest[s] # NoState => latest[s].at <= clock

\* What the loop of s is about to publish is not older than what it replaces.
LoopIsNotOlder ==
  \A s \in SLOs \ forced : Busy(s) =>
    /\ cache[s] # NoState => cache[s].at <= ev[s].now
    /\ latest[s] # NoState => latest[s].at <= ev[s].now

\* With a database and no failing write, every loaded SLO has its definition row.
DefinitionsStored ==
  /\ dbOpen => HasAudit
  /\ dbOpen /\ ~StorageFaults => slos \subseteq defs

\* Between cache.Set and UpdateLatestState the loop's result is what is cached;
\* outside, latest_state has it too.
LoopPublishesOnce ==
  \A s \in SLOs \ forced :
    IF InPhase(s, "store") \/ InPhase(s, "latest")
      THEN cache[s] = RowOf(ev[s])
      ELSE ~StorageFaults /\ dbOpen /\ cache[s] # NoState => latest[s] = cache[s]

IndInv ==
  /\ TypeOK
  /\ LoopsDrained /\ LoopsEvaluateTheirOwn /\ OnlyLoadedSLOs
  /\ CallersForce /\ Stamps /\ LoopIsNotOlder
  /\ DefinitionsStored /\ ServedIsRecorded /\ LoopPublishesOnce

----------------------------------------------------------------------------
(* Liveness, under FairSpec.                                               *)

\* Stop returns: no loop keeps wg.Wait() waiting forever, though ticks may keep
\* arriving after the cancellation.
StopTerminates == stopping ~> ~stopping

\* A running scheduler keeps the cache of every SLO with a valid interval in
\* line with its metrics: once they stay put and its queries succeed, the cached
\* decision is theirs for good, whatever the other SLOs' queries and the callers
\* of EvaluateNow do.
CacheConverges ==
  \A s \in {u \in SLOs : Interval[u] = "positive"}, d \in Observable :
    LET settled == running /\ s \in slos /\ answers[s] /\ metrics[s] = d
    IN  <>[]settled => <>[](cache[s] # NoState /\ cache[s].decision = d)

\* "All gate decisions return WARN (query failures)" while Prometheus is
\* unavailable (RUNBOOK.md:474, PED.md:348): once no query of an SLO of a running
\* scheduler succeeds any more, its cached decision ends up WARN.
OutageLeadsToWarn ==
  \A s \in SLOs :
    <>[](running /\ s \in slos /\ ~answers[s]) =>
      <>[](cache[s] = NoState \/ cache[s].decision = "WARN")

=============================================================================
