---------------------------- MODULE PromAdapter ----------------------------
(***************************************************************************)
(* prometheus.Adapter: what QueryWindow does, on the goroutines of all     *)
(* loops and handlers at once, with the permits they share, the deadline   *)
(* of each query and its retry.                                            *)
(*                                                                         *)
(* The permits are a semaphore.Weighted of golang.org/x/sync: cur of       *)
(* MaxConcurrency are taken, and waiters queue in order of arrival.  A     *)
(* released permit is handed to the first waiter, which finds its channel  *)
(* closed ("ready") when it runs again.  A query is                        *)
(*                                                                         *)
(*   "acquire"  before sem.Acquire        "ready"    handed a permit       *)
(*   "waiting"  queued in sem.Acquire     "attempt"  in executeQuery       *)
(*                                        "sleep"    before its retry      *)
(*                                                                         *)
(* and a goroutine without one is "idle".  The last three hold a permit.   *)
(***************************************************************************)
EXTENDS Integers, SequencesExt

CONSTANTS
  Goroutines,      \* goroutines that query
  MaxConcurrency,  \* permits (Config.MaxConcurrency, 10)
  RetryCount       \* Config.RetryCount (1)

ASSUME AdapterAssumption ==
  /\ IsFiniteSet(Goroutines)
  /\ MaxConcurrency \in Nat \ {0}
  /\ RetryCount \in Nat

VARIABLES
  phase,    \* per goroutine: where its QueryWindow is
  attempt,  \* per goroutine: the loop variable of the retries
  expired,  \* per goroutine: the deadline of its context has passed
  cur,      \* Weighted.cur
  waiters   \* Weighted.waiters

adapterVars == <<phase, attempt, expired, cur, waiters>>

Phases == {"idle", "acquire", "waiting", "ready", "attempt", "sleep"}

----------------------------------------------------------------------------

AdapterInit ==
  /\ phase = [g \in Goroutines |-> "idle"]
  /\ attempt = [g \in Goroutines |-> 0]
  /\ expired = [g \in Goroutines |-> FALSE]
  /\ cur = 0
  /\ waiters = <<>>

\* The query returns, with whatever the action says about the permits.
Returns(g) ==
  /\ phase' = [phase EXCEPT ![g] = "idle"]
  /\ attempt' = [attempt EXCEPT ![g] = 0]
  /\ expired' = [expired EXCEPT ![g] = FALSE]

\* The query returns and the deferred Release runs.  A permit somebody waits for
\* changes hands, and cur stays.
ReturnsPermit(g) ==
  /\ IF waiters = <<>>
       THEN /\ phase' = [phase EXCEPT ![g] = "idle"]
            /\ cur' = cur - 1
            /\ UNCHANGED waiters
       ELSE /\ phase' = [phase EXCEPT ![g] = "idle", ![Head(waiters)] = "ready"]
            /\ waiters' = Tail(waiters)
            /\ UNCHANGED cur
  /\ attempt' = [attempt EXCEPT ![g] = 0]
  /\ expired' = [expired EXCEPT ![g] = FALSE]

\* A call: its deadline starts to run before it asks for a permit.
QueryWindow(g) ==
  /\ phase[g] = "idle"
  /\ phase' = [phase EXCEPT ![g] = "acquire"]
  /\ UNCHANGED <<attempt, expired, cur, waiters>>

\* Fault: the request is made without the context.
ExpireInQueue(g) ==
  /\ phase[g] \in {"acquire", "waiting", "ready"}
  /\ ~expired[g]
  /\ expired' = [expired EXCEPT ![g] = TRUE]
  /\ UNCHANGED <<phase, attempt, cur, waiters>>

\* context.WithTimeout: the one deadline of a query, for its wait and for all
\* its attempts.
Expire(g) ==
  /\ phase[g] # "idle"
  /\ ~expired[g]
  /\ expired' = [expired EXCEPT ![g] = TRUE]
  /\ UNCHANGED <<phase, attempt, cur, waiters>>

AcquireFails(g) ==
  /\ phase[g] = "acquire" /\ expired[g]
  /\ Returns(g)
  /\ UNCHANGED <<cur, waiters>>

\* A free permit is taken at once, unless others wait for one.
Acquire(g) ==
  /\ phase[g] = "acquire" /\ ~expired[g]
  /\ IF cur < MaxConcurrency /\ waiters = <<>>
       THEN /\ phase' = [phase EXCEPT ![g] = "attempt"]
            /\ cur' = cur + 1
            /\ UNCHANGED waiters
       ELSE /\ phase' = [phase EXCEPT ![g] = "waiting"]
            /\ waiters' = Append(waiters, g)
            /\ UNCHANGED cur
  /\ UNCHANGED <<attempt, expired>>

\* Fault: the expired waiter stays in the queue.
GiveUpInQueue(g) ==
  /\ phase[g] = "waiting" /\ expired[g]
  /\ Returns(g)
  /\ UNCHANGED <<cur, waiters>>

\* A queued query whose deadline passes leaves the queue.
GiveUp(g) ==
  /\ phase[g] = "waiting" /\ expired[g]
  /\ \E k \in DOMAIN waiters : waiters[k] = g /\ waiters' = RemoveAt(waiters, k)
  /\ Returns(g)
  /\ UNCHANGED cur

\* A waiter that was handed a permit; too late, and it passes the permit on.
Woken(g) ==
  /\ phase[g] = "ready"
  /\ IF expired[g] THEN ReturnsPermit(g)
     ELSE /\ phase' = [phase EXCEPT ![g] = "attempt"]
          /\ UNCHANGED <<attempt, expired, cur, waiters>>

\* Fault: one attempt too many.
AttemptFailsOften(g) ==
  /\ phase[g] = "attempt"
  /\ IF attempt[g] <= RetryCount
       THEN /\ phase' = [phase EXCEPT ![g] = "sleep"]
            /\ UNCHANGED <<attempt, expired, cur, waiters>>
       ELSE ReturnsPermit(g)

\* An attempt ends in an error: no connection, a status other than 200, a body
\* that does not parse, "status" other than "success", or the deadline.  Before
\* the next one the goroutine sleeps, deadline or not, and keeps its permit.
AttemptFails(g) ==
  /\ phase[g] = "attempt"
  /\ IF attempt[g] < RetryCount
       THEN /\ phase' = [phase EXCEPT ![g] = "sleep"]
            /\ UNCHANGED <<attempt, expired, cur, waiters>>
       ELSE ReturnsPermit(g)

Retry(g) ==
  /\ phase[g] = "sleep"
  /\ phase' = [phase EXCEPT ![g] = "attempt"]
  /\ attempt' = [attempt EXCEPT ![g] = @ + 1]
  /\ UNCHANGED <<expired, cur, waiters>>

\* Prometheus answers in time.
Answered(g) ==
  /\ phase[g] = "attempt" /\ ~expired[g]
  /\ ReturnsPermit(g)

\* What g does without Prometheus answering, but for an attempt cut short.
Proceeds(g) ==
  \/ AcquireFails(g) \/ Acquire(g) \/ GiveUp(g) \/ Woken(g) \/ Retry(g)

AdapterNext ==
  \E g \in Goroutines :
    QueryWindow(g) \/ Expire(g) \/ Proceeds(g) \/ AttemptFails(g) \/ Answered(g)

AdapterSpec == AdapterInit /\ [][AdapterNext]_adapterVars

----------------------------------------------------------------------------

Holders == {g \in Goroutines : phase[g] \in {"ready", "attempt", "sleep"}}

AdapterTypeOK ==
  /\ phase \in [Goroutines -> Phases]
  /\ attempt \in [Goroutines -> 0 .. RetryCount]
  /\ expired \in [Goroutines -> BOOLEAN]
  /\ \A g \in Goroutines : phase[g] = "sleep" => attempt[g] < RetryCount
  /\ cur \in 0 .. MaxConcurrency
  /\ waiters \in Seq(Goroutines)

\* No permit is lost or made up, whatever ends a query and wherever its deadline
\* falls: cur counts the queries that hold one, the queue is who is waiting, each
\* once, and nobody waits while a permit is free (adapter.go:63-68, "to limit
\* concurrency").
PermitsConserved ==
  /\ cur = Cardinality(Holders) /\ cur <= MaxConcurrency
  /\ {g \in Goroutines : phase[g] = "waiting"} = {waiters[i] : i \in DOMAIN waiters}
  /\ \A i, j \in DOMAIN waiters : waiters[i] = waiters[j] => i = j
  /\ waiters # <<>> => cur = MaxConcurrency

=============================================================================
