# AegisSLO in TLA+

AegisSLO watches service level objectives. It evaluates each SLO periodically
against Prometheus, turns burn rates into a gate decision (ALLOW, WARN or BLOCK),
keeps the last decision of every SLO in memory, writes each evaluation to SQLite,
and answers deployment pipelines over HTTP. This directory models it in TLA+,
model-checks the models with TLC and proves theorems about them with TLAPS.

## 1. The system

| component | source | state | operations |
|---|---|---|---|
| policy engine | `internal/policy` | none between calls; in a call the running decision and reasons | `Evaluate` |
| evaluator | `internal/eval` | none between calls | `Evaluate`: two queries per window, SLI, burn rates, staleness, insufficient data |
| Prometheus adapter | `internal/adapter/prometheus` | a semaphore of ten permits | `QueryWindow`: acquire, query, retry once |
| synthetic adapter | `internal/adapter/synthetic` | fixtures | `QueryWindow` |
| scheduler | `internal/scheduler/scheduler.go` | SLOs, running flag, cancel function, WaitGroup, a goroutine and a ticker per SLO | `LoadSLOs`, `Start`, `Stop`, `EvaluateNow` |
| state cache | `internal/scheduler/cache.go` | map from SLO to its last evaluation | `Get`, `Set` |
| audit store | `internal/storage/sqlite` | tables `slo_definitions`, `evaluations`, `latest_state` | `NewStore`, `StoreSLODefinition`, `StoreEvaluation`, `UpdateLatestState`, `Close`; queries |
| gate API | `internal/api` | none of its own | `/v1/gate/decision`, `/v1/state`, `/readyz`, `/v1/slo`, `/v1/audit`, `/healthz` |
| server process | `cmd/aegis-server` | where `main` is | boot, serve, drain, stop, close |
| SLO loader | `internal/slo` | files | load, validate, parse durations |
| configuration, CLI | `internal/config`, `cmd/aegis-cli` | none | check flags; validate files |

How they interact. `main` opens the database, gives it to the scheduler, loads the
SLOs (which stores their definitions), starts the scheduler and then the HTTP
server. Each loop goroutine calls `evaluateOnce`: evaluator (which calls the
adapter), policy engine, `cache.Set`, `StoreEvaluation`, `UpdateLatestState`.
`POST /v1/gate/decision` with `forceFresh` calls the same `evaluateOnce` on the
handler's goroutine, through `EvaluateNow`; every handler then reads the cache. On
SIGTERM `main` drains the HTTP server (with a timeout), stops the scheduler (which
waits for the loops) and closes the database.

What is hard:

* evaluations of one SLO by its loop and by handlers interleave. An evaluation takes
  its timestamp before it queries and publishes in three steps, none of which
  compares timestamps;
* any of the writes may fail, which is logged and forgotten; the process may die
  between any two steps, and only the tables survive;
* `Stop` cancels a context the evaluations do not look at, while tickers go on
  firing and `select` chooses at random; the WaitGroup counts the loops and not the
  evaluations of the handlers; the drain before it may time out;
* a failed evaluation changes nothing, so the decision in force gets old;
* NaN burn rates compare false, and evaluation intervals may be zero or wrap around;
* an evaluation asks two queries per window, one after another and in the order of a Go
  map, while the metrics move, and chooses one timestamp of several for staleness;
* all evaluations share ten permits; a query queues, sleeps and retries within one
  deadline, which may pass anywhere;
* a directory of SLO files is read twice, once to be kept and once to be judged;
* clients page through a table that grows and is cut back, by an offset and by
  timestamps compared as text.

`PROJECT.json` lists these hazards one by one with their lines and the properties
that watch them.

## 2. What makes each component correct

* policy engine: the loop over the rules returns the documented aggregation
  (any BLOCK, else any WARN, else ALLOW; at least WARN when a modifier is set)
  whatever the order of the rules, its reasons account for it, and a rate that is
  unknown does not make it weaker than the known ones call for.
* scheduler, cache, store: a served decision is in the audit trail, about to be,
  or its write failed; cache and `latest_state` agree; neither goes back in time by
  itself; `Stop` returns, and behind every loop; the cache follows the metrics.
* gate API: an answer is no older than what there was when the request came; the
  result of a forced evaluation, or of one begun no earlier, is what is answered,
  unless somebody was evaluating the SLO already; every request is answered.
* evaluator: burn rates are those of what Prometheus held during the call; if that did
  not change, the rules that trigger are those of the metrics; a window without traffic and
  one whose newest timestamp is old are flagged.
* adapters: no permit is lost, and every query returns whatever Prometheus does.
* loader: nothing but acceptable files is loaded, and all the valid ones if the load
  succeeds; a load that fails has a reason in the directory; an edit under way taints
  no other file; the command line predicts the server.
* audit queries: a range selects the instants in it; pages miss only what was deleted
  and repeat only what insertions pushed back.
* server: the database is closed behind every loop, a drained shutdown loses
  nothing, a shutdown ends.

## 3. Modules

```
GatePolicy ── PolicyEngine ── MCPolicyEngine
    │               └── PolicyEngine_proofs
    │
AuditStore ── Scheduler ── GateAPI ── AegisServer ── MCAegisServer
                 │   │         │           │
        GateLedger   │    MCGateAPI        │
   (refined by it)   ├── MCScheduler       │
                     └── Scheduler_proofs ── GateAPI_proofs ── AegisServer_proofs

GatePolicy ── MetricsAdapter ── Evaluator ── Evaluation ── MCEvaluation
                            PromAdapter ──────────┤
                                 └── PromAdapter_proofs ── Evaluation_proofs

AuditQuery ── MCAuditQuery                    Loader ── MCLoader
     └── AuditQuery_proofs                       └── Loader_proofs
```

| module | models | correspondence |
|---|---|---|
| `GatePolicy` | decisions, a rule triggering | burn rates and thresholds are exact ratios of integers, `Over(num, den)`, compared without a division, or `NotANumber`: the NaN that `SamplePair.Value` parses and the arithmetic passes on; every comparison with it is false |
| `PolicyEngine` | `policy.Engine.Evaluate` | `ApplyModifiers`, one `EvaluateRule` per iteration of the loop, `Return`. The reasons are two sets: the fixed ones, and the indices of the rules that gave one |
| `AuditStore` | the tables and the writes of `sqlite.Store` | a row is SLO, time, decision; no rows are deleted. The writes read the definition first, so they need it. `WriteFails` covers a locked database, a full disk and a burn rate `json.Marshal` rejects |
| `Scheduler` | `scheduler.Scheduler` and `StateCache` | see below |
| `GateLedger` | the abstract promise about decisions | a board, debts and a trail; nothing of goroutines, caches or tables |
| `GateAPI` | three handlers on concurrent goroutines | a handler is a program counter and locals in `req[c]`; with `forceFresh` it is a caller of the scheduler's `EvaluateNow` |
| `AegisServer` | `cmd/aegis-server/main.go` | `main` from `"down"` through `"serving"` to `"closed"`, driving Scheduler's `LoadSLOs`, `Start`, `Stop`, `StopReturns` and `CloseStore` |
| `MetricsAdapter` | what a query returns, by either adapter | an answer is a sequence of samples with a value and an age; a timestamp is an age counted back from the evaluation's `now` |
| `PromAdapter` | `prometheus.Adapter.QueryWindow` on all goroutines | `phase[g]` is where the query of `g` is; `cur` and `waiters` are those of `semaphore.Weighted` in `x/sync`, which hands a released permit to the first waiter |
| `Evaluator` | `eval.Evaluator.Evaluate` | `pc` is the query under way; the arithmetic of `sli.go` in exact ratios, for any ratio as objective |
| `Evaluation` | the evaluator composed with either adapter | the goroutine `Self` evaluates, the others compete for permits, `metrics` moves; `past` is a history of what Prometheus held during the call |
| `AuditQuery` | `GET /v1/audit` and `QueryAudit`, page by page | a row is id, kind (what filters tell apart), instant and zone; `Text` orders timestamps the way their texts do; `atStart`, `inserted`, `deleted`, `repeats` are history |
| `Loader` | `LoadFromDirectory`, `ValidateDirectory`, `ParseDuration`, `aegis validate` | a pass has the files it has still to read (`todo`) and what it has read (`got`); the server makes two passes, the command line one; `touched` is history |
| `MC*` | values for TLC | model values, sets of SLOs, symmetry of the callers |
| `*_proofs` | theorems | see section 5 |

Scheduler. `ev[t]` is the activation of `evaluateOnce` on thread `t`; the loop of SLO
`s` is the thread `s`, a handler is a member of `Callers`. The steps of an activation
are the points at which another goroutine can get in between: `Begin` (reads the
clock), `Evaluate` or `EvaluateFails` (all queries and the policy engine; no shared
state is touched), `SetCache`, `RecordEvaluation`, `RecordLatest`. `loop[s]` is where
`evaluateLoop` is (`"launched"`, `"initial"`, `"select"`, `"off"`), `ticked[s]` the
ticker's channel of capacity one. `stopping` is `Stop` inside `wg.Wait()`. The cache is
a function from SLOs to rows: each of its operations is a critical section of its
own lock, hence one step. `forced` is a history variable: the SLOs on which
`EvaluateNow` was used in this process.

The environment: the clock (which may stand still between two readings), for each SLO
the decision its metrics call for, and whether its queries are answered. `Evaluate`
samples once although the program queries window after window: the policy engine's
result on a mix of two states of the metrics is one the environment may pass through.
`Evaluation` opens this step: `EachRateWasReal` is why a mix is all it can be, and
`EvaluationReturns` is the fairness Scheduler assumes of it.

Evaluation. A step is what happens between two points at which another goroutine can
get in between or Prometheus can change: asking for a permit, being handed one, the end
of an attempt, the sleep. A query answered gets the answer of that moment.
`QueryWindow` of the synthetic adapter has no such point and is one step.

Operators whose comment begins with "Fault:" are no part of any specification. Each
is a mutated form of the definition that follows it, listed in `PROJECT.json`: with it
in place of the definition, the property named there fails.

## 4. What is checked

| run | instance | states | question |
|---|---|---|---|
| `policy_engine` | up to 2 rules over 2 windows, thresholds 1 and 2, rates 1/2, 2, NaN | 190 k | the aggregation, for every policy and evaluation |
| `scheduler_races` | 1 SLO, 2 callers, 2 instants, database with failing writes | 246 k | the safety of races between a loop and callers, and refinement of the ledger |
| `scheduler_live` | 2 SLOs, the ticker of one panics, 1 caller, 2 decisions, fairness | 253 k | Stop waits and returns; the cache follows the metrics |
| `gate_api` | 2 SLOs, the interval of one does not parse, 1 handler, fairness | 31 k | a state request over several SLOs; every request is answered |
| `aegis_server` | 1 SLO, 1 handler, 2 instants, database, fairness | 159 k | what answers are worth; shutdown; that the server uses the scheduler as specified |
| `evaluation` | 2 windows, 1 rule on both, 3 snapshots of the metrics, 2 rivals for 1 permit, 1 retry, 4 sets of fixtures, fairness | 108 k | what an evaluation is worth, and that queries end |
| `audit_pages` | 3 rows, 3 instants, 2 zones, 4 requests | 1.4 M | what paging misses and repeats, and what a range selects |
| `loader` | 2 files, 6 specs, a file that does not parse, 2 edits | 4.5 M | what a load accepts, and what an edit taints |

Four more runs (`scheduler_outage`, `scheduler_panic`, `policy_unknown`,
`loader_invalid_file`) expect a violation; see below.

Why the bounds are enough. SLOs share nothing but the process, so one shows the
races and a second one is needed for what crosses SLOs (`Stop` waiting for all loops, a
panic, a state request). A race needs two evaluations of an SLO with different
timestamps, hence two instants, and three threads let an overtaking be overtaken.
The instants bound the timestamps of a behaviour, not its length: loops, requests,
Stop/Start cycles, crashes and restarts repeat for ever. In `scheduler_live` time stands
still and the two decisions tell rows apart; its second loop makes one evaluation, which
`Stop` has to wait for like those of the first, and then takes the process down. A
directory without that SLO is one of those `LoadSLOs` may find, so that liveness is not
only asked of processes that die. In `gate_api` time stands still too, since it
asks whether each SLO is there, also the one that never gets evaluated; that answers take nothing back in time is checked in
`aegis_server`, where the handler races the loop over two instants, and proved for any
number of handlers. Two rules cover every order of two severities, and the theorems
drop the bound.
In `evaluation` a permit for three goroutines makes everybody wait for everybody, and the
second rival makes a queue that one can leave behind another. The snapshots are one
with NaN and old data in a window and more good events than events in the other, one at
the threshold with a dead series, and one with vanished series; two of them meet in a
call. In `audit_pages` the rows are few, but
limits of one and two make pages shorter than the table, and the zones an hour apart
make wall clocks cross; the theorems drop all these bounds. In `loader` a duration is a
byte, so that the unit of a day is enough to wrap around: nine days are negative and
seventeen are one day.
Deadlock is checked everywhere but in the two runs of the policy engine
(`policy_engine`, `policy_unknown`), which is one call that ends.

Fairness (`Fairness`, `APIFairness`, `ServerFairness`): goroutines that can run do; a
query returns, since the adapter's context and the HTTP client have timeouts; a ticker
fires; a loop that is ready both for a tick and for `ctx.Done()` again and again takes
the latter some time, since `select` chooses uniformly (strong fairness of
`SelectDone`, and nothing weaker would do: ticks may keep coming). The drain has a
timeout. Nothing is assumed of the clock, of the metrics, of when Prometheus answers,
of clients, or of when `main` is signalled; in `aegis_server` nothing is assumed of the
handlers either. In `Evaluation` nothing at all is assumed of Prometheus: an attempt may
hang until the deadline ends it. What is assumed is that deadlines pass, that a
goroutine that waits for nobody goes on, and that the rivals finish what they start.

### Where the code departs from its documents

Four runs expect a violation; `PROJECT.json` quotes the sentence each one refutes.

* `scheduler_outage`: with all queries failing for ever the cached ALLOW remains,
  where RUNBOOK.md:474 and PED.md:348 say WARN. Forcing an evaluation does not help: the
  handler answers 200 with that ALLOW, as `EvaluateNow` returns nil.
* `scheduler_panic`: an interval of `0s` passes validation and panics (PED.md:128, 334).
* `policy_unknown`: a NaN burn rate neither triggers a rule nor sets a modifier, so the
  engine allows what it knows nothing of (engine.go:87; PED.md:349-350 say "Partial data
  → WARN" and "Never ALLOW when data is stale or unknown"). Prometheus returns NaN, and
  `SamplePair.Value` passes it on. `DecisionIsVerdict` is what does hold: the decision is
  at least the verdict of the rules whose rates are known.
* `loader_invalid_file`: one file with an error and `LoadSLOs` keeps none, `main` exits
  (scheduler.go:49; TASKS.md:40 says "valid ones still load", PED.md:128 "without
  crashing system"). `SteadyLoadIsSound` is what does hold, and takes no side in this.

Seen while modelling, and not run:

* an evaluation of `EvaluateNow` that began before a periodic one and ends after it leaves
  the older row in `latest_state` (store.go:158), which storage/types.go:62 calls the most
  recent state. `RegressesOnlyIfForced` is what does hold;
* a forced evaluation may be answered with the result of an older one that was under way
  when it began, and that reached the cache after it (server.go:245 against the comment
  at 235). `FreshUnlessContended` is what does hold: only such a one can do it;
* without traffic, and with data too old, a modifier is set, but the newest timestamp of
  a window speaks for all its series, so a series that died is counted as long as another
  one lives (adapter.go:166-185). `EmptyOrOldIsFlagged` says no more than what holds;
* a range of time is compared as text, so bounds in another zone than the process's
  select the wrong rows (store.go:225, README.md:173). `RangeExactInOneZone` says when
  the answer is right, and TLC refutes it without its condition on the zones;
* a directory without SLOs is valid for `aegis validate`, and rejected by the server;
* `minDataPoints` is required by the schema and read by nobody. An answer of Prometheus
  to an instant query carries the time of the query, so data is stale only if a query
  says so by an offset;
* the server never loads fixtures into its synthetic adapter (main.go:45), so that with
  it every evaluation fails;
* `/readyz` ignores the adapter (TASKS.md:97), `Stop` does not wait for evaluations of
  handlers though its comment says so (scheduler.go:116), and a failed write leaves a
  served decision out of the audit trail (TASKS.md:110).

## 5. What is proved

TLAPS checks these for every value of the constants: any set of SLOs and callers
(finite or not), any longest policy, any clock bound, with and without a
database. The assumptions are the named ones of the modules: `NaNAssumption` (NaN is no
integer and no ratio), `PolicyAssumption`, `StoreAssumption` (`NoState` is no row, the two switches are
Boolean), `SchedulerAssumption` (callers are not SLOs), `GroupAssumption` (a request names
finitely many SLOs),
`AdapterAssumption` (finitely many goroutines), `EvaluatorAssumption` (finitely many
windows, the objective a ratio in 0 .. 1), `NoneAssumption` (`None` is no result),
`EvaluationAssumption` (what Prometheus and the fixtures may hold is well typed: any number
of series with any integers or NaN as values, and any ages), `NoTimeAssumption`, `AuditAssumption` (a zone is at most a day from UTC) and
`LoaderAssumption` (finitely many files).

* `PolicyEngine_proofs`: the loop invariant `LoopInv` says that the result so far is the
  verdict of the rules visited so far (`Blamable`, `VerdictOf`). `AggregateIsVerdict` shows
  that the code's if/else chain adds one rule to a verdict; at the end all rules are
  visited, which gives `ReasonsExplainDecision` and `DecisionIsVerdict`: at least the
  verdict of the rules whose rates are known, and equal to it when all of them are.
* `Scheduler_proofs`: `IndInv` is inductive. `ServedIsRecorded` and `LoopsDrained` are
  not so by themselves. That a loop's result is never older than what it replaces
  (`LoopIsNotOlder`) needs that timestamps are not ahead of the clock (`Stamps`), that only
  the loop of `s` and callers in `forced` evaluate `s` (`LoopsEvaluateTheirOwn`,
  `CallersForce`), and that a loop publishes one result at a time (`LoopPublishesOnce`).
  That writes succeed needs the definitions (`DefinitionsStored`), and that a crash
  cleans up after the loaded SLOs needs `OnlyLoadedSLOs`. From it follow `LoopsDrained`,
  `ServedIsRecorded`, `LatestFollowsCache`, `RegressesOnlyIfForced`, and that Scheduler
  implements `GateLedger` (`KeepsLedger`): a step publishes, settles one debt, restarts, or
  changes nothing of board, debts and trail.
* `GateAPI_proofs`: a step of a handler is a step of the scheduler or leaves it alone
  (`HandleStep`, `ArrivesFrame`), so `APISpec` implies `Spec` and keeps `IndInv`. What an
  answer is worth is said only of finished requests, so neither `AnswersCoverArrival` nor
  `FreshUnlessContended` is inductive. `APIInv` (`RequestsAreTracked`) says what holds on
  the way. `AnswersInv`: what the cache held at the arrival is still there, or newer, for
  the SLOs a request has yet to read, and is covered by what it read of the others; it
  lasts because the cache of an SLO goes back only under `EvaluateNow`, which is
  `RegressesOnlyIfForced` once more, and never loses an entry in a process. `FreshInv`: the
  evaluation a request forced is on its way to the cache, or the cache has a result as
  recent, and no evaluation begun before it is still under way to replace it
  (`EvaluationsSince`), for nobody was evaluating the SLO when it began.
  `RequestsAreBounded`: a request has at most eight steps left, those of its forced
  evaluation included, or one more than the SLOs of its state that are left to read.
* `AegisServer_proofs`: main acts on what it has done before and asks nobody.
  `MainControls` says what it may rely on: how far it has come determines whether SLOs are
  loaded, the scheduler runs or stops, and the database is open (an exit, for one, is the
  end of a process that has loaded something, as Scheduler's `Crash` requires). With
  `DrainedMeansNoRequest` (after a complete drain no handler is left) this is
  `ServerInv`. It gives `ServerImplementsAPI` and `ServerImplementsScheduler`, so every
  theorem above holds in the server; then `DatabaseClosesLast`, because a scheduler that
  is neither running nor stopping has no loops; `ServerAnswers`: what the API promises of
  its answers holds under main; and `CompleteShutdown`: nobody
  evaluates when the database closes (`NobodyEvaluates`), so no write is still owed.

* `PromAdapter_proofs`: `PermitsConserved` with the types is inductive, though only
  once it is known that the queue has each waiter once and loses exactly the one that
  leaves (`AppendQueue`, `TailQueue`, `RemoveQueue`), and counts are cardinalities of the
  holders (`ReturnsPermitKeeps` for the permit that changes hands).
  `QueriesAreBounded`: `StepsLeft`, a number of at most `2 * RetryCount + 6`, is never
  raised by a step that touches an open query, its own or one of others that hands it a
  permit; a query that begins to wait cannot be sent back.
* `Evaluation_proofs`: every step of an evaluation is a step of the adapter or none
  (`EvaluationImplementsAdapter`), so permits are conserved under it. `EvaluationInv` is
  inductive. Its part `RealInv`: what was measured of a window came from two instants of
  the call in order (`MeasurementsWereReal`), the history ends with what Prometheus holds
  now (`PastEndsNow`), and the flag for old data is that of the windows measured so far
  (`StaleSoFar`). Its part `TypeInv`: a window to come is not measured yet, and a query of
  `Self` is open only during a call; `TypeOK` needs both. From it `EvaluationTypeCorrect`,
  `EachRateIsReal` and `EmptyOrOldFlagged`: had a window no data, its sum would be 0
  (`ScalarOfNothing`), which sets the modifier; had it old data only, so would its newest
  timestamp be (`TimestampIsNewest`).

  An answer has any number of series, and `ScalarValue` is a fold over them, so that its
  type takes an induction over data. The library's theorems of induction are beyond the
  provers, but the fact that a set of numbers has a least element is not
  (`WFMin`, of the module `WellFoundedInduction`): `SumType` and its like suppose that some
  set of positions has no sum of the claimed kind, and take away one position from a
  smallest one.

  `SteadyIsExact` is about arithmetic, in exact ratios: nothing is assumed of how divisions
  come out. `RateIsExact` shows that the two divisions of a burn rate, by the total and by
  1 - objective, compare with a threshold as the cross-multiplied product of `Burning`
  does, in the three cases of the clamps (good events within the total, beyond it, a
  negative total); `BudgetIsExact` does it for the budget. It supposes an objective below
  1 and thresholds above 0. The schema requires both
  (slo_v1.json:62-66, 136-140); at an objective of 1 the program burns at rate 0 whatever
  happens, and that is no rate the metrics could be said to have. The program divides
  float64s, so the theorem is about its formula, and what rounding does to a rate within
  an ulp of its threshold is not in it. Two theorems put
  evaluator and policy together, by way of `VerdictOn`, which `EngineReturnsVerdict` proves
  of the engine: `AllowRestsOnTraffic` (behind an ALLOW there is in every window a total
  whose series are there and do not add up to zero, and a timestamp within the limit) and
  `SteadyDecisionIsThePolicys` (on steady metrics the decision is at least the
  documented verdict on the metrics, with no evaluator in between, and equals it when they
  are numbers). Note what the former does not say: that the data are numbers (see
  `policy_unknown`), or that every series is fresh.

  `EvaluationsAreBounded`: `CallStepsLeft` counts the queries to come, two for each
  window left, at `2 * RetryCount + 7` steps each, and what is left of the open one
  (`GotCountsDown` for the step from one query to the next, which frees a whole query's
  worth and so pays for whatever the next one takes).
* `AuditQuery_proofs`: ranks in a table are a bijection with `1 .. n` (`RankIsInjective`,
  `RanksHaveNoGaps`), an insertion moves a row up by one at most, a deletion down by as
  many as go. So `AuditInv`: of the rows before the offset only as many are missing as
  were deleted (`SkipInv`), and an insertion pays for each row that was or will be
  delivered again (`RepeatInv`). An empty page means that everything is before the offset.
* `Loader_proofs`: `LoaderInv` says what a pass knows while files change under it: what it
  read of a file nobody has edited since is what the file holds (`PassIsFaithful`), also
  in what the server keeps (`KeptIsFaithful`). `ParseDurationIsExact` bounds where the
  wrapped product is the product; with it the errors of a pass nobody disturbs each have a
  reason in the directory (`ErrorsHaveReasons`), and a pass without errors has an
  acceptable one (`NoErrorsAccepts`). That is `SteadyLoadsAreSound`.

Only model-checked: the liveness properties (`StopTerminates`, `CacheConverges`,
`RequestsAnswered`, `ShutdownCompletes`, `EvaluationReturns`, `QueriesReturn`), which are out
of this prover's reach, as fairness and `ENABLED` are. Of `RequestsAnswered`,
`EvaluationReturns` and `QueriesReturn` the bounds on steps above are the part that can be
proved: what fairness has to add is that a request, a call or an open query has a step
that is taken. `StopTerminates` has no such part: `select` may choose the tick any number
of times. Every invariant and every action property that a
passing run checks is stated by a theorem.

## 6. What is not modelled, and the plan

Not modelled: wording of reasons and logs, JSON encoding, connection deadlines, printing
and configuration, which keep no state. `/healthz`, `/v1/slo` and `/v1/slo/{id}` return
what is constant after the load. Unused code (`IsStale`, `GetAll`, `Delete`, `Clear`,
`GetLatestState`) is left out, and so are the fixtures' loaders, which the server never
calls. Floats are exact in `Evaluator`: a burn rate that rounding puts below its
threshold is out of reach, and infinities, which Prometheus may return, are left out, as
is a timestamp of zero or one that does not parse, which the adapter drops. The JSON
schema is a verdict a spec carries, and a directory walk that fails is left out. Of the
handlers, answers that depend on nothing but the request or the lack of a database are
left out (400 and 405 of `/v1/state`, 503 and 500 of `/v1/audit`). `Start` while `Stop`
waits is left out (the guard `~stopping`): the code would allow it, but only `main`
calls either, one after the other.

`Scheduler` keeps its one-step `Evaluate` rather than composing with `Evaluation`, and
`AuditQuery` has a table of its own: the products would be out of TLC's reach, and each
side's promise to the other is a property named above.

To come, as a theorem: that a call of `Evaluation`, seen from outside, is the one-step
`Evaluate` or `EvaluateFails` of `Scheduler`.
