------------------------------ MODULE GateAPI ------------------------------
(***************************************************************************)
(* api.Server's handlers that read the decisions: POST /v1/gate/decision   *)
(* (with and without forceFresh), GET /v1/state/{service}/{env} and        *)
(* GET /readyz, each on the goroutine net/http gives its request.          *)
(*                                                                         *)
(* A goroutine is a member of the scheduler's Callers: with forceFresh it  *)
(* runs evaluateOnce itself, and the loops and the other handlers go on    *)
(* between its steps.  The handlers share nothing but the scheduler's      *)
(* SLOs and its cache.                                                     *)
(***************************************************************************)
EXTENDS Scheduler, FiniteSets

CONSTANT Group   \* the ids whose service and environment a state request names

ASSUME GroupAssumption == Group \subseteq SLOs /\ IsFiniteSet(Group)

VARIABLE req     \* per handler goroutine: its request

apiVars == <<vars, req>>

NoRequest == [phase |-> "none"]

\* The handler's locals, and four history fields that say what the request
\* met: what the cache held, when it came, for the SLOs it names; and of the
\* evaluation it forced, when it began, whether another goroutine was then
\* evaluating the SLO, and whether it failed.
Request ==
  [kind : {"gate", "state", "ready"},
   phase : {"force", "forcing", "read", "collect", "done"},
   status : {"pending", "ok", "badRequest", "notFound", "error", "unavailable"},
   names : SUBSET SLOs,           \* the SLOs still to read from the cache
   force : BOOLEAN,
   rows : SUBSET Row,             \* what was read
   had : SUBSET Row,
   since : Instants, contended : BOOLEAN, failed : BOOLEAN]

CachedRows(names) == {cache[s] : s \in {n \in names : cache[n] # NoState}}

Arrival(kind, phase, status, names, force) ==
  [kind |-> kind, phase |-> phase, status |-> status, names |-> names,
   force |-> force, rows |-> {}, had |-> CachedRows(names),
   since |-> clock, contended |-> FALSE, failed |-> FALSE]

Answer(c, status, rows) ==
  req' = [req EXCEPT ![c].phase = "done", ![c].status = status, ![c].rows = rows,
                     ![c].names = {}]

AtPhase(c, phase) == req[c].phase = phase

\* Some goroutine is evaluating s.
Evaluated(s) == \E t \in Threads : Busy(t) /\ ev[t].slo = s

APITypeOK == req \in [Callers -> Request \cup {NoRequest}]

\* A caller evaluates only on behalf of a request that forced it.
CallersServe == \A c \in Callers : Busy(c) => AtPhase(c, "forcing")

----------------------------------------------------------------------------
(* handleGateDecision.                                                     *)

\* A wrong method, a body that does not decode and an empty id are refused
\* before anything is read; any other id, known or not, goes on.
GateRequest(c, s, force) ==
  /\ req[c] = NoRequest
  /\ \E phase \in {"done", IF force THEN "force" ELSE "read"} :
       req' = [req EXCEPT ![c] =
                 Arrival("gate", phase,
                         IF phase = "done" THEN "badRequest" ELSE "pending",
                         IF phase = "done" THEN {} ELSE {s}, force)]
  /\ UNCHANGED vars

\* "Force fresh evaluation if requested": EvaluateNow's errors are answered
\* with a 500.
ForceEvaluation(c) ==
  /\ AtPhase(c, "force")
  /\ \E s \in req[c].names :
       \/ /\ EvaluateNow(c, s)
          /\ req' = [req EXCEPT ![c].phase = "forcing", ![c].since = clock,
                                ![c].contended = Evaluated(s)]
       \/ /\ ~CanEvaluateNow(s)
          /\ Answer(c, "error", {})
          /\ UNCHANGED vars

\* The steps of the forced evaluation are evaluateOnce's.
HandlerEvaluates(c) ==
  /\ EvaluateOnce(c)
  /\ req' = IF InPhase(c, "evaluate") /\ ev'[c] = Idle
              THEN [req EXCEPT ![c].failed = TRUE] ELSE req

\* Fault: EvaluateNow starts a goroutine and returns.
ForceReturnsEarly(c) ==
  /\ AtPhase(c, "forcing")
  /\ req' = [req EXCEPT ![c].phase = "read"]
  /\ UNCHANGED vars

\* evaluateOnce returns nothing, so EvaluateNow returns nil however it ended.
ForceReturns(c) ==
  /\ AtPhase(c, "forcing") /\ ~Busy(c)
  /\ req' = [req EXCEPT ![c].phase = "read"]
  /\ UNCHANGED vars

\* Fault: the second result of cache.Get is ignored.
ReadCacheUnchecked(c) ==
  /\ AtPhase(c, "read")
  /\ \E s \in req[c].names : Answer(c, "ok", {cache[s]})
  /\ UNCHANGED vars

\* Fault: a miss waits for the first evaluation.
ReadCacheWaits(c) ==
  /\ AtPhase(c, "read")
  /\ \E s \in req[c].names : cache[s] # NoState /\ Answer(c, "ok", CachedRows({s}))
  /\ UNCHANGED vars

\* Whatever cache.Get finds is the answer, of whatever age it is.
ReadCache(c) ==
  /\ AtPhase(c, "read")
  /\ \E s \in req[c].names :
       Answer(c, IF cache[s] = NoState THEN "notFound" ELSE "ok", CachedRows({s}))
  /\ UNCHANGED vars

----------------------------------------------------------------------------
(* handleState: one cache.Get per matching SLO, each under its own lock.   *)

StateRequest(c) ==
  /\ req[c] = NoRequest
  /\ LET matching == slos \cap Group
     IN  req' = [req EXCEPT ![c] =
                   IF matching = {}
                     THEN Arrival("state", "done", "notFound", {}, FALSE)
                     ELSE Arrival("state", "collect", "pending", matching, FALSE)]
  /\ UNCHANGED vars

\* Fault: the first SLO without a state ends the collection.
CollectStopsAtMiss(c) ==
  /\ AtPhase(c, "collect")
  /\ \E s \in req[c].names :
       LET rows == req[c].rows \cup CachedRows({s})
       IN  IF req[c].names = {s} \/ cache[s] = NoState
             THEN Answer(c, "ok", rows)
             ELSE req' = [req EXCEPT ![c].names = @ \ {s}, ![c].rows = rows]
  /\ UNCHANGED vars

CollectOne(c) ==
  /\ AtPhase(c, "collect")
  /\ \E s \in req[c].names :
       LET rows == req[c].rows \cup CachedRows({s})
       IN  IF req[c].names = {s}
             THEN Answer(c, "ok", rows)
             ELSE req' = [req EXCEPT ![c].names = @ \ {s}, ![c].rows = rows]
  /\ UNCHANGED vars

----------------------------------------------------------------------------

\* handleReady: ready means that SLOs are loaded; an empty cache is a reason in
\* the body and changes no status.
ReadyRequest(c) ==
  /\ req[c] = NoRequest
  /\ req' = [req EXCEPT ![c] =
               Arrival("ready", "done", IF slos = {} THEN "unavailable" ELSE "ok",
                       {}, FALSE)]
  /\ UNCHANGED vars

\* The handler returns; the goroutine serves the next request.
Respond(c) ==
  /\ AtPhase(c, "done")
  /\ req' = [req EXCEPT ![c] = NoRequest]
  /\ UNCHANGED vars

Arrives(c) ==
  \/ \E s \in SLOs, force \in BOOLEAN : GateRequest(c, s, force)
  \/ StateRequest(c)
  \/ ReadyRequest(c)

Handle(c) ==
  \/ ForceEvaluation(c) \/ HandlerEvaluates(c) \/ ForceReturns(c)
  \/ ReadCache(c) \/ CollectOne(c) \/ Respond(c)

\* When the process dies its requests die with it.
NoRequests == [c \in Callers |-> NoRequest]

APIInit == Init /\ req = NoRequests

\* The scheduler's own steps, which the handlers only see through the cache.
SchedulerStep ==
  \/ Environment \/ Main
  \/ \E s \in SLOs : EvaluateOnce(s)
  \/ \E s \in SLOs : Loop(s) /\ ~TickerPanics(s)

APINext ==
  \/ SchedulerStep /\ UNCHANGED req
  \/ \E c \in Callers : slos # {} /\ Arrives(c)
  \/ \E c \in Callers : Handle(c)
  \/ (Crash \/ \E s \in SLOs : TickerPanics(s)) /\ req' = NoRequests

\* A handler that can run does, and its queries return.  Nothing is assumed of
\* the loops, of main or of the clients.
APIFairness == \A c \in Callers : WF_apiVars(Handle(c))

APISpec == APIInit /\ [][APINext]_apiVars
FairAPISpec == APISpec /\ APIFairness

----------------------------------------------------------------------------

Answered(c, kind, status) ==
  AtPhase(c, "done") /\ req[c].kind = kind /\ req[c].status = status

\* What a request reads is at least as recent as what the cache held when the
\* request came, for each SLO it names and that EvaluateNow left alone: a
\* handler that reads the cache one SLO at a time, or after a forced evaluation,
\* misses no SLO and takes none back in time.
AnswersCoverArrival ==
  \A c \in Callers : \A kind \in {"gate", "state"} :
    Answered(c, kind, "ok") =>
      \A old \in req[c].had : \E row \in req[c].rows :
        row.slo = old.slo /\ (row.at >= old.at \/ row.slo \in forced)

\* "Force fresh evaluation if requested" (server.go:235): when the evaluation a
\* request forced succeeded, the answer is its result or that of an evaluation
\* begun no earlier, unless another goroutine was evaluating the SLO at the moment
\* the forced evaluation began: only such a one can still overwrite its result in
\* the cache with an older one.
FreshUnlessContended ==
  \A c \in Callers :
    Answered(c, "gate", "ok") /\ req[c].force =>
      \/ req[c].failed \/ req[c].contended
      \/ \A row \in req[c].rows : row.at >= req[c].since

----------------------------------------------------------------------------
(* The inductive invariant behind AnswersCoverArrival and                  *)
(* FreshUnlessContended, together with Scheduler's IndInv.                 *)

\* row will do as an answer for old: the same SLO, and not older, or of an SLO
\* that EvaluateNow evaluated.
Covers(row, old) == row.slo = old.slo /\ (row.at >= old.at \/ row.slo \in forced)

CacheCovers(old) == cache[old.slo] # NoState /\ Covers(cache[old.slo], old)

\* What the cache held at the arrival can still be read for the SLOs still to
\* read, and was read for the others.
ArrivalCovered(r) ==
  \A old \in r.had :
    /\ CacheCovers(old)
    /\ r.status \in {"pending", "ok"} =>
         old.slo \in r.names \/ \E row \in r.rows : Covers(row, old)

\* The gate reads the cache once, for the one SLO it names.
GateReadsOnce(r) ==
  r.phase \in {"force", "forcing", "read"} =>
    r.status = "pending" /\ r.rows = {} /\ \E s \in SLOs : r.names = {s}

\* An answer is given when nothing is left to read.
AnswersComplete(r) ==
  IF r.phase = "done" THEN r.names = {} ELSE r.status = "pending"

AnswersInv ==
  \A c \in Callers : req[c] # NoRequest =>
    ArrivalCovered(req[c]) /\ GateReadsOnce(req[c]) /\ AnswersComplete(req[c])

\* Every evaluation of s under way has started at instant since or later.
EvaluationsSince(s, since) ==
  \A t \in Threads : Busy(t) /\ ev[t].slo = s => ev[t].now >= since

CacheSince(s, since) == cache[s] # NoState /\ cache[s].at >= since

\* The evaluation of s that a request forced is on its way to the cache, or it
\* has been there, and no evaluation begun before it can replace its result.
ForcedIsFresh(c, s) ==
  /\ EvaluationsSince(s, req[c].since)
  /\ Busy(c) => ev[c].slo = s
  /\ (Busy(c) => InPhase(c, "store") \/ InPhase(c, "latest")) =>
       CacheSince(s, req[c].since)

\* A request FreshUnlessContended is about, from the start of its evaluation.
Expectant(c) ==
  /\ req[c] # NoRequest /\ ~AtPhase(c, "force")
  /\ req[c].force /\ ~req[c].failed /\ ~req[c].contended

FreshInv ==
  \A c \in Callers : Expectant(c) =>
    /\ req[c].phase # "collect"
    /\ IF req[c].phase = "done"
         THEN \A row \in req[c].rows : row.at >= req[c].since
         ELSE req[c].since <= clock /\ \A s \in req[c].names : ForcedIsFresh(c, s)

\* The first two say that requests are well formed and that a caller evaluates
\* only for one.
APIInv == APITypeOK /\ CallersServe /\ AnswersInv /\ FreshInv

----------------------------------------------------------------------------

(* Liveness, under FairAPISpec. *)

\* Every request is answered, whatever the adapter, the database and main do
\* meanwhile (or the process dies): a handler waits for nobody but its own
\* evaluation.
RequestsAnswered == \A c \in Callers : req[c] # NoRequest ~> req[c] = NoRequest

=============================================================================
