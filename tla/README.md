# TLA+ verification of wes-work-planning

wes-work-planning decides which warehouse work is handed out next. Work units
are enqueued on process paths, released to the floor by cut-off under a WIP
limit, and completed; every change is announced on Kafka through a
transactional outbox. This directory holds TLA+ models of that behaviour, the
TLC configurations that check them and TLAPS proofs of the most important
results. Paths below are relative to the repository (`src/` in
`PROJECT.json`); line numbers of every modelled definition are in its `map`.

Contents: 1 inventory, 2 how the parts interact, 3 what is hard, 4 the modules,
5 the runs, 6 fairness, 7 proofs, 8 what disagrees with the documentation,
9 what is not modelled, 10 plan.

## 1. Inventory

| component | state | operations | correct when |
|---|---|---|---|
| WorkPool (`internal/domain/release`) | entries (unit, CPT, released, completed), WIP limit, version | Enqueue, ReleaseNext, Reconcile; queries | WIP limit kept, earliest cut-off first, entries only move forward |
| WorkUnit (`internal/domain/workunit`) | state Pending, Released, Completed; path | Release, Complete | assigned at most once at a time, completed once |
| lifecycle use cases (`internal/application/usecases`) | a copy of a pool and of a unit per request | EnqueueWorkUnit, ReleaseNextWork, RecordCompletion, with `retryOnPoolConflict` | no update is lost, every request is answered, pool and unit agree |
| Postgres repositories, UnitOfWork | `work_pools`, `work_pool_entries`, `work_units` | two-statement read; version-guarded save; one transaction per use case | both tables and the outbox change together |
| outbox (`outbox_publisher.go`, `outbox_relay.go`) | `outbox_events`; each relay's open pass | insert, claim, send, mark, commit, abort | committed events are delivered, nothing else is, order per aggregate |
| event encoders (`adapters/outbound/kafka`) | none | Encode per topic | the key that keeps an aggregate's order |
| HTTP API (`inbound/http`) | none | check the request, call the use case, map its error | the answer says what was done |
| idempotency middleware (`inbound/http/idempotency.go`) | `idempotency_keys` | insert, run, record, replay | a command with one key takes effect once and has one answer |
| integration consumer (`inbound/kafka/consumer.go`, `apply_*`, `observe_*`) | `processed_events`, offsets | handle, retry, dead-letter, commit | each event takes effect exactly once or is dead-lettered |
| inventory and labour views | one row per SKU or path | add a delta, overwrite | sum of the deltas; latest plan |
| analytics projector and reports (`cmd/wes-projector`, `analyticsstore`) | `analytics_consumed_events`, `analytics_processed_events`, `throughput_rollup` | mark, claim, count; query | each event counted once; reports add up |
| path catalogue cache (`kafkacatalog`, `pathcatalog`) | map of active paths, catch-up targets, ready | upsert, deactivate, lookup | not ready before it is complete; longest prefix |
| monitoring and planning (`sample_backlog`, `rebalance_decision`, `commit_shift_plan`, `receive_charge_forecast`) | plan and forecast rows | one read, a decision, an event; an upsert with an event | decision of one moment; the stored document is the last one announced |
| lookups and breakers (`traveldistance`, `productclassification`, `resilience`) | a breaker per dependency | a call with retries; no hint when it fails | a breaker opens for failures of its own dependency |
| process (`cmd/wes/main.go`, `bootretry`, `readiness.go`) | phase of boot, service or shutdown; readiness | boot in order, serve, stop in order | serves from a complete catalogue; nothing committed stays unsent |
| in-memory repositories | maps behind mutexes | as Postgres, no transaction | development wiring |
| MCP server, reports server, telemetry, migrations | none | call use cases, query, output | see section 9 |

## 2. How they interact

A request is a goroutine: an HTTP handler, or one of four Kafka consume loops.
It calls a use case, which loads its own copy of a pool, decides on the copy
and saves inside one transaction: pool, then unit, then one outbox row per
event and topic. Requests share nothing but the database. `cmd/wes` may run as
several replicas (`autoscaling.api.maxReplicas: 4`, and two during a rolling
deploy), each with handlers, consumers and an outbox relay. Relays share the
outbox table; they send to two topics (`warehouse.work-planning.events`,
`warehouse.wes.analytics`), the second of which `cmd/wes-projector` reads.
Inbound events (allocated orders, completed tasks, stock and labour changes)
call the same use cases, with the processed-event mark in the same transaction.
`POST /paths/{pathId}/work-units` needs an `Idempotency-Key`: its handler runs
inside the middleware's transaction, which the use case's unit of work joins.
`cmd/wes` serves only after it has replayed the catalogue topic into a cache of
its own, from which handlers and consumers look paths up. Two other services are
asked for hints over HTTP, each through a circuit breaker: facility-layout before
the transaction of a shift plan, inventory-storage inside that of a release.

## 3. What is hard

* The pool is read in two statements, so a copy can pair an old version with
  newer entries; the save overwrites all entries. Only the version guard
  protects the other requests' changes.
* Two aggregates (pool entry, work unit) are kept equal without a lock on the
  second one; `RecordCompletion` checks the unit before it loads the pool.
* The retry loop must drop all it learnt and must end.
* Outbox ids are drawn before commit, relays overlap, a send may succeed and
  report failure, a pass may be rolled back after it has sent.
* Inbound events: mark, effect, offset and dead letter are three stores.
* A request with a key may be sent again while the first one runs, fails or loses
  its answer; refusals are recorded and replayed like successes.
* The projector's offset, gate and counter are committed one after the other.
* The catalogue's cache is ready at a target that was fixed when the topic was
  dialled, while the topic grows and some messages do not decode.
* Shutdown stops readiness, readers, listener, relay and pool one by one, around
  requests, messages and a pass that are under way, and within a deadline.

`PROJECT.json` lists each hazard at its line with the properties that cover it,
or the reason why none does.

## 4. The modules

| module | what it is |
|---|---|
| `WorkPool` | constant-level: the value of a pool and the pure operations on it |
| `WorkPlanning` | the three use cases, statement by statement, over the database |
| `WorkLifecycle` | the abstract specification: atomic Enqueue, Release, Complete |
| `WorkPlanningProofs`, `WorkPlanningAgreementProofs` | theorems about `WorkPlanning`: for any callers; agreement of pool and unit, and the refinement of `WorkLifecycle` |
| `OutboxRelay`, `OutboxRelayProofs` | writers' transactions, relays, Kafka partitions, consumers |
| `InboundEvents`, `InboundEventsProofs` | the consume loops of the replicas, with offsets, dead letters and rebalances |
| `EventInbox` | the abstract specification: an event takes effect once, as a whole |
| `HttpApi` | constant-level: what each handler checks, in order, and how errors are answered |
| `IdempotencyKey` | `POST .../work-units` behind its middleware, the other routes beside it |
| `IdempotencyKeyProofs` | theorems about `IdempotencyKey` |
| `PathCatalogue` | the cache built from the catalogue's topic, and its lookup |
| `Process`, `ProcessProofs` | boot, service and shutdown of `cmd/wes`; extends `PathCatalogue` |
| `AnalyticsProjection`, `AnalyticsProjectionProofs` | the analytics topic, the projectors, the database, the reports |
| `ThroughputStore` | the abstract specification: an event counts once, in its row |
| `CircuitBreaker` | constant-level: the state of a breaker and the operations on it |
| `PlanningDesk`, `PlanningDeskProofs` | plans, forecasts, samples, advice and the lookups; extends `WorkPool`, `CircuitBreaker` |
| `MC...` | constants for TLC, one module for each of the seven that are run |

Operators whose comment begins with "Mutated" are plausible bugs. No
specification uses them; they show which property would notice.

### WorkPool and WorkPlanning

| code | model |
|---|---|
| `work_pools.version`; 0 for no row | `poolVersion[p]` |
| `work_pool_entries` | `poolEntries[p]`, a function from ids to entry states |
| `work_units` | `unit[w]`: state and path |
| `outbox_events` of a unit, in commit order | `events[w]` |
| a goroutine in a use case | `pc`, `req`, `copy`, `tries` of a client |
| `RecordCompletion` reads the unit | `ReadUnit` |
| `FindByPathId`, first statement / `hydratePoolEntries` | `ReadPoolRow` / `ReadPoolEntries` |
| `nextReleasableUnit`, one turn of the loop | `PickUnit` |
| the transaction when the version matches | `Save` |
| `ErrConcurrentModification`: retry, or give up at the 12th | `LoseRace` |
| a crash, a cancelled context, a failed statement | `Abandon` |

The transaction is one step. Its first statement is the guarded `UPDATE` (or
the `INSERT ... ON CONFLICT DO NOTHING`) of the pool's row, which Postgres
locks until the commit; whoever comes second waits there and then sees the new
version. Every writer of a unit locks that unit's pool first, and read
committed hides the rest. `RecordCompletion` loads the pool after it has opened
its transaction, but read committed gives each statement its own snapshot, so
its reads are steps like the others'.

Two error branches are left out because they cannot be reached: a pool without
the unit in `completePoolEntry`, and a pool entry without its unit in
`nextReleasableUnit`. `UnitHasEntry` is the invariant that says so, and is proved.

What is assumed of callers is named and not always assumed: `SinglePath` (an id
is enqueued on one path only) and `OneCompleter` (completions come one at a
time). No code checks either. The run `lifecycle` has both; section 7 says which
theorems need which.

`WorkLifecycle` has no store, version or request in flight. `ImplementsLifecycle`
maps `unit[w].state` to its `stage` and `events` to `announced`; each `Save` is
one atomic operation and every other step a stutter.

### OutboxRelay

| code | model |
|---|---|
| `outbox_events` rows, `BIGSERIAL` id | `outbox`, the id is the index |
| a use case's transaction about an aggregate | `tx[a]`: `Begin`, `Publish` per encoder, `Commit`, `Rollback` |
| `claimOutboxRows`, `FOR UPDATE SKIP LOCKED`, `LIMIT` | `ClaimOutboxRows` |
| `RelaySink.Send`, `RequiredAcks: all` | `Send` (once, or twice if the writer retries a lost acknowledgement) |
| the row's `UPDATE`, invisible until the commit | `Mark` |
| the end of `RelayOnce` | `CommitPass` |
| `abortSend` | `AbortSend`, whose send may have got through |
| crash, shutdown, failed statement or commit | `RollBackPass` |
| a topic's partitions; the next read of a consumer | `partition`, `Receive` (external) |

Writers of one aggregate take turns because they hold its row's lock when they
insert (section 4, WorkPlanning); writers of different aggregates interleave,
so rows become visible out of id order. Events that a use case raises without
writing the aggregate (`SampleBacklog`, `RebalanceDecision`) have no such lock,
and no order is claimed between two of them.

Each row keeps how often it was sent and whether its last attempt failed
(`last_error`). `overlapped` is a history variable: it says whether two passes
were ever under way together.

### InboundEvents

| code | model |
|---|---|
| `processed_events` | `marks` |
| `work_pool_entries` of a path, a view's row | `stored[r]`: what was written to it, in order |
| `consumeLoop` of a replica | `loop[l]`: label, message, failed attempts, next write, uncommitted writes |
| the group's assignment, the owner's reader, the group's offset | `owner`, `position`, `committed` |
| `FetchMessage` and `dispatch` | `Fetch`, `Dispatch` |
| `TryMarkProcessed`, waiting for another transaction's mark | `Mark` |
| one line of `ApplyOrderAllocated`, a completion, a view's upsert | `Write`; `SkipDuplicate` for `ErrDuplicateEntry` |
| an error that comes back every time | `Reject` |
| commit of the unit of work | `CommitTx`; `LoseAnswer` if the answer is lost |
| a failed statement, a timeout | `FailAttempt` |
| Postgres fails one transaction of a deadlock | `BreakDeadlock` (external) |
| `dlqPublish`, `writeDLQ` | `DeadLetter`; `dead` is what was reported as written, `kept` what the broker has |
| `CommitMessages` | `CommitOffset` |
| `Run` returns an error: of a fetch, a dead letter or an offset commit | `StopLoop` |
| SIGTERM: `cancelConsumer()` | `Shutdown`, `cancelled`; `GiveUp` is `FailAttempt` under it |
| process death, restart, rebalance | `Crash`, `Restart`, `Rebalance`, `TakeOver` |

A transaction here spans several pools, so the locks that `WorkPlanning` could
leave out matter: a written row stays locked until the transaction ends, which
is how two orders can wait for each other. A pool's save that meets a lock waits,
loses the version check and reads again in the same transaction
(`retryOnPoolConflict`); that is one `Write`, enabled when the lock is free. The
kinds of event stand for what the four handlers do with them: a malformed one
is dead-lettered at once, a foreign one passed over, a rejected one fails every
attempt, an event about an unknown unit is handled without a write.

A shutdown cancels the context under which a loop handles its message, and nothing
waits for the loop. An attempt under way fails, or has committed already and does not
learn it; `backoff.WithContext` then returns whatever attempts are left, and `dispatch`
goes on to the dead letter and the offset, which may get through and be reported as
failed (`AfterFailure`, `StopLoop`). So a message that a shutdown finds in hand may be
dead-lettered after one attempt, and be applied after the restart. `interrupted` is a
history variable, those messages; `attempts` counts the attempts that failed under a
context that was not cancelled.

Each loop is a process of its own, which allows more crashes than the code has
(its four loops die together) and never fewer. A rebalance does not interrupt a
handler: the loop goes on with its message, and may commit an offset for a
partition it no longer owns, also backwards.

`EventInbox` has no offsets, retries or transactions; `ImplementsInbox` maps
`marks` to its `applied`. `CommitEffect` is its one step. What an event adds to a row
is stated, not computed: the items of its new writes, in their order, where a write
to a pool is new unless the unit was there or an earlier line of the order put it
there.

Two assumptions about the log are named, and needed only by what is said of the
views: `OneHome` (the copies of an event share a partition: messages are keyed by
event id) and `ViewsShowEvents` (a view's changes are told apart by their event).

### HttpApi and IdempotencyKey

| code | model |
|---|---|
| a handler's checks, in order, and its use case's errors | `Stages(route)`; `Stops` is the stage that answers |
| `statusFor`, `problemCatalog`, `writeError` | `StatusFor`, `ProblemCatalog`, `Refusal` |
| `idempotency_keys`, committed | `row[k]`: the body (the unit it creates) and the answer |
| a key inserted in an open transaction | `holder[k]` |
| a pool saved in an open transaction | `saver` |
| a goroutine in the middleware or in a handler | `at`, `call` |
| `INSERT ... ON CONFLICT DO NOTHING`, with its wait | `Insert` |
| `replayCachedResponse` | `Replay` |
| `postWorkUnit` | `Handle`, `ReadPool`, `Save` |
| the recorded outcome and the commit | `Record`; `LoseCommit` if the confirmation is lost |
| a failed statement, a panic | `Fail`; a client gone or a crash: `Abandon` |
| every other route | `ServeDirect`, in one step |
| clients, who send again what a 500 or nothing has answered | `Send`, `Reply`, `got` (external) |

Writes of an open transaction cannot be seen, so they are made by the commit,
and what can be noticed of them before, the locks, is state. `got` has the
answers a client takes for final. The two statements of the pool's read are one
step here; `WorkPlanning` has them apart.

### PathCatalogue and Process

| code | model |
|---|---|
| the topic; the messages published so far | `Topic`, `published` |
| `paths`, `targetOffsets`, `ready` of the `Consumer` | `paths`, `target`, `ready` |
| `NewConsumer`, `Run` with `handle` and `checkReady` | `NewConsumer`, `ReadMessage` |
| `Lookup`, over a map in any order | `Lookups(id)`, all results over all orders |
| `run`: catalogue, database, servers | `phase`, with `Start`, `DialTopic`, `WaitReady`, `Serve` |
| `bootretry.Retry` | `BootFails` |
| `WaitReady` at its deadline | `ReplayTimeout` |
| requests and the pool's connections | `inflight`, `holding`: `BeginRequest`, `BeginTx`, `EndTx`, `FinishRequest` |
| the outbox, the relay | `committed`, `sent`, `relay`: `BeginPass`, `EndPass`, reduced to counts |
| a reader, the listener, the relay that fails | `ReaderFails` (logged only), `ComponentFails` (`run` returns) |
| `gracefulShutdown`, then the deferred calls | `Signal`, `StopReaders`, `CloseListener`, `Drain`, `StopRelay`, `Close` |
| Kubernetes | `Start` again; `Crash` (external) |

An id is the sequence of its parts between dashes, so that "a prefix of the id
that ends at a dash" is `IsPrefix`. `Canonical` is `strings.ToUpper` on the ids
that occur: an update may spell a path differently from its creation. The target
of a replay is taken once, when the topic is dialled; `startEnds` remembers it.
Rows and passes are counts because the order of rows is `OutboxRelay`'s matter.

`server.Shutdown` waits for the requests under way, for 5 seconds; `pgPool.Close` waits
for the connections that are lent, and the end of the process for nothing. So `Close`
has the guard `holding = {}`, and a request without a connection (reading its body,
making a lookup, writing its reply) is cut off when the deadline passed in `Drain` or a
component failed, in which case nothing drains and the listener stays open to the end.
`late` marks these ends.

### AnalyticsProjection and ThroughputStore

| code | model |
|---|---|
| `AnalyticsPublisher.Encode`: contract, key | `Encoded`, `KeyOf`, `On` |
| `ReadMessage` of the reader, which commits by itself | `ReadMessage`, `CommitOffset` |
| `HandleMessage`: the switch, the gate | `CommitOffset`, `MarkProcessed` |
| `claim`, `upsertCounter`, commit | `Claim`, `Upsert`, `CommitTx`; `LoseAnswer` |
| an error of `Handle`, logged | `FailHandling` |
| an error of the reader, with or without a message: `Run` returns | `StopRun` |
| SIGTERM, which cancels the context of the call under way | `Shutdown` |
| `PostgresReport.Query`, `FreshnessLag` | `Query` with `Total`, `Latest` |
| group and locks | `Assign`, `Rebalance`, `TakeOver`, `ClaimHolders`, `RowHolders` (external) |

`ThroughputStore` is the in-memory store, the reference implementation of the
port; `ImplementsStore` maps the claims to its `seen`, the rollup to its `rows` and
the watermark to its `latest`. `cut` is a history variable: the events whose
handling a fault has hit.

### CircuitBreaker and PlanningDesk

| code | model |
|---|---|
| `gobreaker.CircuitBreaker` with this service's settings | a record; `Admits`, `Succeeded`, `Failed`, `Excluded` (external), `ReadyToTrip` |
| `GetDistance`, `GetClassification`: retries inside one call | `Enter`, `FetchAnswered`, `FetchFailed` with `LookupFailed` |
| a caller that goes away | `CancelLookup` |
| interval and cool-down | `TimerEnds` |
| `CommitShiftPlan`, `ReceiveChargeForecast` | `Ask`, (`Enter`), `Save`, `Publish`, `CommitTx` |
| `SampleBacklog`, `RebalanceDecision` | `Ask`, `Read`, then `Publish` or `AnswerReading` |
| `ReleaseNextWork` up to the encoder's lookup | `Ask`, `Hold`, `Enter`, ... |
| other use cases on the pool | `OtherWork` (external) |

`seen` is a history variable: the readings of all states that the pool has had
since a request began; `failed` counts the lookups that failed since a breaker
was last closed.

## 5. The runs

| run | instance | shows |
|---|---|---|
| `lifecycle` | 3 units on 2 paths, 2 clients, 1 of them completing, WIP limit 1, 3 attempts | `TypeOK`; `WipLimitRespected`; `PoolAgreesWithUnits`: entry and unit always agree; `SaveIsFresh`: a save that passes the version check writes the committed entries plus one change; `NoSpuriousConflict`; `EntriesMoveForward`: no lost update; `EarliestCutoffFirst`; `ImplementsLifecycle`; `EveryRequestAnswered` |
| `recompleted` | as `lifecycle`, both clients completing, 2 attempts | `CompletedAtMostOnce` is violated (section 8) |
| `delivery` | 2 aggregates, 3 events, 2 relays, batches of 2, 1 failure | `TypeOK`; `NeitherEarlyNorLost`: what is sent was committed, what is marked was sent; `DuplicatesNeedFailure`; `OrderWithoutOverlap`; `EveryEventDelivered` |
| `once` | 2 replicas, 2 partitions, 2 orders with opposite lines, one in common that the second names twice, 1 rejected event, 2 attempts, 1 failure or shutdown, 1 rebalance | `TypeOK`, `ImplementsInbox`, `NothingSkipped`, `BlipsHeal`, `EveryMessageSettled` |
| `views` | 2 replicas, 2 plans of which one is in the log twice, 1 malformed message, 2 failures or shutdowns, 2 rebalances | `ViewsFollowLogUnlessDeadLettered` |
| `loss` | 1 partition, 1 failure | `NoMessageLost` is violated (section 8) |
| `http` | 2 calls at once, 4 commands on 2 keys and 2 units, 2 attempts at the pool, 1 save by others, 1 failure | `TypeOK`; `OneAnswer`: a command never has two final answers; `AnswerIsTrue`; `OutcomeMatchesEffect`: recorded 201s, units and events are the same; `EveryCommandSettled` |
| `serving` | 2 partitions of 3 messages, 1 request at a time, 1 outbox row, 2 attempts at each dependency, 2 failures, 1 signal | `TypeOK`; `ServesCompleteCatalogue`; `CacheFollowsLog`; `LookupIsLongestMatch`; `OrderlyStop`: a shutdown that keeps its deadline cuts no request off; `CommittedIsSent`; `BootSucceeds` |
| `stranded` | as `serving`, no failure | `NothingStranded` is violated (section 8) |
| `analytics` | 2 projectors, 2 partitions, 6 messages, 1 failure, 1 shutdown, 1 rebalance | `TypeOK`; `ReportsAddUp`; `ImplementsStore`; `EveryEventCounted` |
| `rollout` | 1 projector, 1 event, 1 shutdown | `ExactlyOnce` is violated (section 8) |
| `desk` | 2 clients, 3 requests of 7 kinds, 2 units, both feed modes, breakers that trip after 2 failures, 1 database failure, 2 timers | `TypeOK`; `StreamEndsWithWhatIsStored`; `ReadingsAreOfOneMoment`; `OpensForItsOwnFailures` |

Bounds. Two clients are enough for every pairwise race on a pool; three units
give a tie and an order of cut-offs, and a path of their own for one of them. A
WIP limit of 1 makes the limit bind at once (1000 in the code). Attempts are 2
or 3 instead of 12: one retry, a retry of a retry, and the exhausted budget.
`delivery` uses the analytics topic, the one with a per-aggregate key; three
rows against batches of two make a pass end before the table is empty; two
aggregates make rows commit out of id order. `MaxEvents` and `MaxFailures` bound
the writers and the failures. Deadlock is not checked for `OutboxRelay`: once
the bounded events are delivered, it stops. `WorkPlanning` never stops.
`InboundEvents` has 2 attempts for the code's 3: a retry and an exhausted budget.
Two orders on two partitions make the circle of locks; one failure is a crash, a
lost answer, a failed attempt, a loop that stops or a shutdown, at any point; what
fails because of the shutdown is not counted again. One rebalance gives a message to a
second loop. It ends when its log is handled, so deadlock is
not checked there either; waits that never end would show in
`EveryMessageSettled`.

`http` has a command, its key with another body, its body with another key, and
one that is refused: the four relations two commands can have. A client may send
again before the first answer, so both calls may carry one key. One competing
save makes a retry, one retry exhausts the budget of 2. The type invariant keeps
`tries` below the budget. Clients never stop, so deadlock is checked.
`serving` has a partition that may be empty at the start, a path declared under
three spellings, a prefix of another's prefix, two paths with the same prefix, and
an unreadable message at the end of a partition. Two failures suffice to exhaust
the attempts at a dependency, or to fail a reader and then the process; one
signal is enough, because a process that is down starts again in any case. It
stops for good once its bounds are used up, so deadlock is not checked; its
liveness properties would show a wait that never ends. `analytics` sends a
message twice (the relay's at-least-once), and has the three kinds that are not
counted. An hour is two ticks, so that events fall on both sides of a limit.
`desk` asks three times: two documents racing and a third, or a reading between
two releases. Two failures for the streak and three requests for the rate stand
for 5 and 10; two timers open, half-open and close a breaker, or end a window and
then open it. It ends when its requests are used up.

Symmetry of clients is used only in `desk`, which has no temporal property and in
which every client may do the same.

## 6. Fairness

`WorkPlanning!FairSpec`: a goroutine in the middle of a request keeps running
(`WF` of its own steps). Nobody has to send a request, a crash may end one, and
losing races is bounded by the budget, so no strong fairness is needed.

`OutboxRelay!FairSpec`: `Run` loops until its process ends, so a relay keeps
taking steps; consumers keep reading. Failures are not fair and are bounded: the
broker works again some day. Without that a row can be retried for ever, which
is what the code does. Writers have no fairness: a transaction may stay open,
and only committed rows are promised to arrive.

`InboundEvents!FairSpec`: loops run, an attempt under a cancelled context fails (`GiveUp`), Postgres ends waits, a dead process is
restarted and the group reassigns its partitions. A loop that has stopped is
not restarted by anything in the code: `Run` returns, `cmd/wes` logs it, the process
stays ready, and its open reader keeps its partitions. `EveryMessageSettled`
therefore excepts behaviours in which a loop stops.

`IdempotencyKey!FairSpec`: a request runs to its answer (`WF` of its steps; the
wait for a key or for the pool's row is a disabled step, and ends when the holder's
transaction does, because that one runs too). A client whose command has no
answer sends it again: `SF`, since the slot it needs is taken and free in turns.
Failures are bounded.

`Process!FairSpec`: Kubernetes restarts what is down, goroutines run, a transaction
ends, the topic is read. A request need not end: it may wait for its client's body, and
the server limits the reading of headers only (`ReadHeaderTimeout`, `main.go:132`); that
is why a shutdown has a deadline. The replay's deadline passes when the reader has stopped
(weakly fair only then: with a reader that runs it is a misfortune). Requests and
publications have no fairness.

`AnalyticsProjection!FairSpec`: as `InboundEvents!FairSpec`; a projector whose `Run`
has returned is not restarted, because its health check still says ok.

`PlanningDesk` has safety properties only.

## 7. Proofs

Each safety property that a passing run checks is proved, and so are the three refinements,
for every value of the constants that satisfies the assumptions in the modules. Each
proof module states its inductive invariant as a conjunction of named parts; a lemma
per action, or per kind of action, shows that they are kept.

`WorkPlanningProofs` assumes what is in `WorkPool` (`WorkUnits` finite, cut-offs and limit
natural) and `WorkPlanning` (`PathsOf`, `Completers`, the budget, the null values),
for any number of clients, units and paths, and neither `SinglePath` nor
`OneCompleter`.

* `TypeCorrect`: `Spec => []TypeOK`. `TypeOK` is inductive because it says, with
  `Known`, what a request at each label has learnt: without it a save could have
  no path to save to. One lemma per action; `BecomesType` reduces "one client
  moved" to that client's new label, request, copy and count.
* `WipLimitHolds`: `Spec => []WipLimitRespected`. The limit of the committed pools is
  not inductive, since what is saved next is in the copies. `WipInv` adds that
  every copy that may be saved is within the limit. Whether its version is
  current does not matter, which is the reason why the limit holds on any
  interleaving.
* `NoLostUpdate`: `Spec => EntriesMoveForward`. `FollowInv`: a copy's version is never
  ahead of the pool's, and if it equals the pool's then the copy's entries follow
  from the committed ones (`Follows`). A torn read has the older version, so
  it is harmless: the save will be refused.
* `UrgentFirst`: `Spec => EarliestCutoffFirst`, from the same invariant, whose
  `Follows` also says which entry may be released.

`WorkPlanningAgreementProofs` goes on from there.

* `UnitHasEntryHolds`, without further assumptions: a unit that is stored has an entry
  in the pool of its path, so the code's "not found" branches after a load cannot be
  reached. `EntryInv` adds the copies: what a copy holds, but for the unit being saved,
  is a unit's entry, and a completion's entry is in its pool.
* `AgreementHolds`: `SinglePath /\ Spec => []PoolAgreesWithUnits`. `AgreeInv` adds `CopyFresh`: a
  copy whose version is the pool's is the committed pool, or that pool with the one
  change that the save is for. `SaveIsFreshHolds` follows from the same invariant.
  Without `SinglePath` entry and unit part ways (section 8).
* `NoSpuriousConflictHolds`, with `SinglePath`: `LostInv` bounds a request's lost races by
  the saves of its pool, those before its copy was read if it has one.
* `LifecycleImplemented`: `SinglePath /\ OneCompleter /\ Spec => ImplementsLifecycle`.
  `CompleterInv`: a unit that a completion has read as released stays so, because
  nobody else completes. The run `recompleted` shows that `OneCompleter` is needed.

`IdempotencyKeyProofs` proves all safety properties of the `http` run for any number
of calls, keys, commands and units, any budget and any number of failures. It assumes
`KeyAssumption` only: the types of the commands, whose own faults are those of the
checks before the use case (`RequestFaults`), and the null values.

* `TypeCorrect`: `Spec => []TypeOK`. `Inv` adds to `TypeOK` what a call knows at its
  label, that a key's owner is the one call past its insert with that key, that there
  is no row while a key is owned, and that a row's answer is one that a request which
  ran may record. One lemma for each way to go on: inside a transaction, by its
  rollback, by its commit.
* `OneAnswerHolds`: `Spec => []OneAnswer`. `FinalOK`: every answer that has settled or
  is about to settle a command is its `Verdict`, a function of the key's row; and
  by `Inv` only a key's owner writes its row, and only while there is none, so the
  verdict never changes.
* `OutcomeMatchesEffectHolds`: `Spec => []OutcomeMatchesEffect`. `EffectOK` needs the
  calls in flight: who holds the pool has a success to record and nobody else has,
  and who is about to save has read a version that is not ahead, and knows its unit
  to be missing if that version is still current.
* `AnswerIsTrueHolds`: `Spec => []AnswerIsTrue`, from all three and `ToldOK`, what a call
  that has its answer did itself.

`OutboxRelayProofs`, for any number of aggregates, events, relays, batches and failures:

* `TypeCorrect`, `NeitherEarlyNorLostHolds`, `DuplicatesNeedFailureHolds` share
  `DeliveryInv`: what a pass has sent is claimed by it and committed, and a committed
  row that no pass has just sent was sent once per failure at most (`RowSends`). The
  count of sends alone is not inductive: it is the pass that knows of the one to come.
* `OrderWithoutOverlapHolds`: `OrderInv` adds that an aggregate's open rows are its last
  ones (`OpenLast`), that what was sent is on its partition or received (`ReachOK`), and
  that without overlap one pass at most is under way and has claimed every older
  committed row of an aggregate of which it has one (`AloneOK`).

`InboundEventsProofs`, for any log, effects, replicas, attempts, failures, rebalances:

* `TypeCorrect`. The invariant adds that an attempt is begun only while one is left, and
  that a loop whose context is cancelled is at a message or down (`CancelOK`).
* `NothingSkippedHolds`: `SkipInv` says what a loop knows about the messages before the one
  it is at (`BehindOK`), also when it has lost the partition, and what the owner has
  fetched (`FetchedOK`). An offset that goes backwards is harmless, because what is
  settled stays so.
* `BlipsHealHolds`: `BlipInv` compares the attempts of a message with all attempts that
  failed. It speaks of loops whose context is not cancelled; the message of any other
  is in `interrupted`.
* `InboxImplemented`: `Spec => ImplementsInbox`, without assumptions on the log. `TxInv`: what
  an open transaction has staged lists the new writes of its event so far (`Carries`),
  each unit so far is in its pool, stored or staged (`Pooled`), and two transactions
  share neither an event nor a row (`Apart`). `StaysTx` is the step that matters: a
  commit of another changes only rows that this transaction has not written, and
  leaves it less to add there.
* `ViewsFollowLogHolds`, with `OneHome` and `ViewsShowEvents`, from `SkipInv` and `TxInv`: a
  transaction commits when everything before its event in the partition has taken
  effect or was dead-lettered (`LogBehind`), and its event had no mark; so no earlier
  change can come later.

`AnalyticsProjectionProofs`, for any log, replicas and faults:

* `TypeCorrect`, and `StoreImplemented`: `Spec => ImplementsStore`. `ClaimInv` adds that an
  event being counted is so by one open transaction and is not in the claims yet
  (`Exclusive`): each commit counts a new event.
* `ReportsAddUpHolds`: every report is the number of events claimed in its window. The invariant
  (`Reports`) says it of the sets: what a commit adds to the rows in a window, it adds to
  the claims in it.

`ProcessProofs`, for any topic, partitions, requests, budgets and timing of the signal:

* `TypeCorrect`; `ServesCompleteCatalogueHolds` (`ReplayOK`: a partition is struck off the
  targets only when the end noted at the dial has been read); `OrderlyStopHolds`
  (`StopOK`: from the signal on `/readyz` says no, the listener is closed from `drain` on,
  and a shutdown that has not missed its deadline has no request left after that);
  `CacheFollowsLogHolds`, for topics in which the messages of a path share a partition,
  as their key makes them (assumed in `CatalogueAssumption`).
* `LookupIsLongestMatchHolds`: the lookup is a loop over a map in any order. Its result is
  defined step by step, so this needs induction on the steps; it is done by a least
  counterexample, from the library's theorem that the naturals are well-founded.

`PlanningDeskProofs`, for any clients, requests, units, limits and trip conditions:

* `TypeCorrect` (`Stages`: what a request has at each label; `BreakerOK`).
* `StreamEndsWithWhatIsStoredHolds` (`OutboxOK`): the ids of a document's events are drawn
  while its row is locked, above those of all that is committed about it.
* `ReadingsAreOfOneMomentHolds` (`WorkOK`, `SeenOK`): an open request has seen the pool as it
  is, and one release at a time holds a unit, within the limit.
* `OpensForItsOwnFailuresHolds` (`BreakerOK`): a closed breaker counts no more than what
  has failed of its own dependency, and one that is not closed had enough failures.

Assumptions that a proof asked for, and the code justifies, were added to the modules:
the topics are sequences (`Sent`, `Topic`), and `Keys` and `Clients` are finite.

The attempts at proofs found faults of the models, since repaired. `Init` of `PathCatalogue`
violated the type invariant when a partition was empty. Two cases of a breaker's
`CASE` overlapped, so that TLC took the first and the definition allowed both.
`EventInbox` did not skip a unit that one order names twice, as the code does; the
instance of `once` had no such order and has one now. `SentBefore` held between
events of different partitions.

Only model-checked: liveness (`EveryRequestAnswered`, `EveryEventDelivered`,
`EveryMessageSettled`, `EveryCommandSettled`, `CommittedIsSent`, `BootSucceeds`,
`EveryEventCounted`), which the prover does not reach.

## 8. Where code and documentation disagree

Shown by a run:

* `recompleted`: "cannot complete twice" (`work_unit.go:105`). Two completions
  both read the unit as released; the second reads the pool after the first has
  committed, passes the version guard and announces the completion again.
* `loss`: "no message loss" (`consumer.go:545`). The dead-letter writers leave
  `RequiredAcks` unset, which `outbound/kafka/writer_config.go:23` explains is
  `RequireNone`; a dead letter that the broker never stored counts as written.
* `stranded`: the relay is stopped last so that an event "is not stranded until the
  next pod boots" (`main.go:498-503`, ADR 0014). `stopRelay()` cancels the relay as soon
  as the listener has drained, and no pass is begun after that: a row committed
  while the relay slept, or in a pass that is rolled back, waits for the next
  process. `CommittedIsSent` is what does hold.
* `rollout`: "exactly once per CloudEvents id" (`analytics_consumer.go:45`). Offset
  and gate are committed before the counter, each by itself; a shutdown between
  them loses the event. `ImplementsStore` (at most once) and `EveryEventCounted`
  (unless a fault hit the handling) are what does hold.

Known from the models, without a run of their own. The property is defined, and
TLC finds a counterexample when it is made the invariant of the configuration
named, with the constants given:

* `WorkPlanning!AssignedAtMostOnce`, against "assigned at most once at a time"
  (`work_unit.go:31`): `MCWorkPlanning_recompleted.cfg` with `PathsOf <- TwoPathsForW1`.
  Enqueue refuses a known id within one pool only and upserts the unit's row.
  Enqueued on a second path, a released unit is pending again and handed out twice.
* `OutboxRelay!NoOvertaking`, against "a later message for the same aggregate must
  not overtake a failed earlier one" (`outbox_relay.go:102`):
  `MCOutboxRelay_delivery.cfg` with batches of 1. True within a relay. A second
  relay skips the locked rows and sends the later ones. `OrderWithoutOverlap` is
  what does hold.
* `OutboxRelay!PerAggregateOrder`, against ADR 0024, which promises for both topics
  that an aggregate's events share a partition: the same configuration with
  `Topics <- BothTopics`, two partitions and no failure. Integration messages are
  keyed by event id; ADR 0004 says so.
* `InboundEvents!LatestPlanShown`, against "the latest labor plan"
  (`observe_labor_plan.go:12`): `MCInboundEvents_views.cfg` with
  `Log <- TwoPlansLog`. The upsert ignores `ObservedAt`. A plan dead-lettered by one
  replica and still applied by the replica that had the partition before
  overwrites a newer one. `ViewsFollowLogUnlessDeadLettered` is what does hold within a
  partition.

Seen in the models, without a property that shows it:

* A shutdown may have a message dead-lettered after one failed attempt
  (`AfterFailure`), against "only once ALL attempts are exhausted" (`consumer.go:244-246`);
  `BlipsHeal` exempts exactly those messages.
* A fetch that fails ends the consume loop as well (`StopLoop`), against "only a commit
  failure or a DLQ publish failure" (`consumer.go:249-250`).
* The problem of a lost race says "retry the request" (`errors.go:87`), but every 4xx is
  recorded under its key (`idempotency.go:258-263`), so the same key brings the same 409;
  `OneAnswer` holds because of it.
* A lookup problem "must never block or delay releasing work"
  (`publisher.go:385-387`), but the lookup is made inside the release's transaction, which
  holds the pool's row (`Hold`, `Enter` of `PlanningDesk`). It never fails a release, and
  delays the others on the path.

## 9. Not modelled, and why

Payloads (SKU, reference, gift wrap, values of the hints, CloudEvents encoding),
rendering and logging: no property depends on them. The only place that makes a
pool, `EnqueueWorkUnit`, makes it `ReleaseFed`; `PlanningDesk` also has flow-fed pools,
which the queries distinguish. Entries with equal CPT are handed out in any
order, because rows are read back `ORDER BY cpt` only. `WorkPool.Release` and
`WorkPool.Complete` are called by no use case. The in-memory repositories are for
development and have no transaction; the in-memory throughput store is modelled,
as a specification. The direct (no outbox) publisher is used without Postgres
only. `InboundEvents` leaves out the in-memory wiring (`releaseMark`) and the
quantities in the views. Rate deviations compare quantities of a plan with those of
the floor; only their event is modelled. The MCP server calls the same use cases
and logs their events; the reports server is read-only HTTP over the query that
`AnalyticsProjection` has; telemetry is output; migrations, the file catalogue and the
wiring of `main.go` run once, in sequence.

`Process` reduces requests to their connections and rows to counts, `IdempotencyKey` the read of a pool to one
step, `PlanningDesk` the optimistic save to a lock: in each case the detail is in
another module, and the composition of all of them is out of TLC's reach.

Nothing is stated about two hazards, because the code and its documentation do
not say what should happen: a row that can never be sent, and work on a path that is
deactivated. Some properties stop short of the hazard they are listed under.
`NoSpuriousConflict` counts all saves of a pool, also those before the read.
`LookupIsLongestMatch` compares prefixes: if two active paths declare the same one, which
definition is returned depends on the order of the map. `CacheFollowsLog` holds of a
reader that has stopped. `OpensForItsOwnFailures` counts failures since the breaker was
last closed, whatever their window. `OrderlyStop` says nothing of a shutdown that misses
its deadline. `ViewsFollowLogUnlessDeadLettered` is about one partition, so an older plan
that comes from another one is outside it.

## 10. Plan

Done: all modules of section 4; a proof of every safety property that a run checks and
of the three refinements (34 theorems). Next in proofs: nothing that the prover
reaches and a run checks is left. Next in modelling: a composition of
`InboundEvents` and `WorkPlanning` in which an order's lines go through the optimistic
save statement by statement; today the two meet in one step (`Write`).
