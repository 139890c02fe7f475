# Tash8eel in TLA+

TLA+ models of the concurrent core of Tash8eel (a NestJS monorepo: `apps/api`,
`apps/worker`, `apps/portal`, `packages/shared`, `packages/agent-sdk`), checked with
TLC on small instances, with theorems that TLAPS proves for every size.
Paths below are relative to the repository; `events/` stands for
`apps/api/src/application/events/`.

## 1. The system

One PostgreSQL database, one or more **API** processes (production starts two:
`--scale api=2` in `deploy-production.yml`), one or more **worker** processes, and
Redis, which is optional (`REDIS_ENABLED` defaults to `false`). Processes share
nothing but the database and, when it is enabled, Redis. Within a process everything
interleaves at each `await`.

| Component | State | Operations | Interacts with | Hard because |
|---|---|---|---|---|
| Transactional outbox (`events/outbox.*`, `apps/worker/src/outbox`) | `outbox_events`, `dlq_events`, a lock | publish; two consumers: API cron, worker poller | handlers; agent tasks | two consumers that do not know of each other; locks of different lifetimes; crashes |
| Agent task orchestrator (`apps/worker/src/orchestrator`) | `agent_tasks`; per process: counters, breakers, timers | dispatch, execute, retry, clean up, cancel | agents; subscriptions; the outbox poller creates tasks | executions outlive the transaction that starts them; memory counters read before an await |
| Message delivery (`message-delivery.*`, webhooks) | `messages` | queue, send, retry, mark; replies sent by the webhook | Meta's API, outbox | several senders, no lock, no claim |
| Stock and reservations (`inventory.*`, the agent) | stock levels, reservations, movements, `stock_deducted` of an order | reserve, confirm, release, expire, reconcile, list, take and give back | orders, agent tasks | expiry against confirmation, repeated status changes, transactions of many statements |
| Connector runtime | `connector_runtime_events`, `connector_runtime_dlq` | enqueue, claim, process, retry, put back | ERP systems | claims of dead requests, late retries |
| Dead-letter service and CLI | `dlq_events` | replay, resolve | outbox | its replays fail: `dlq_events` has no `aggregate_type`, `aggregate_id` or `replayed_at` (`001_init.sql:408-424`), and the CLI inserts a status the enum does not have, so a dead letter is final |
| Team orchestrator | `team_tasks` | sequential and parallel teams | agents | partial failure of a team |
| Connection pool of the worker (`database.module.ts`) | connections, requests that wait | connect, release, time out | dispatcher, executions, poller | whoever holds one asks for a second one |
| Entitlements | subscription rows, a cache of 5 minutes | check agent and feature | orchestrator | a stale cache; a plan that cannot be read is taken for the free one |
| Inbox and dialog, LLM pipeline | conversations | reply to a message | messages, orders | mostly language-model output |
| Payments, deliveries, subscriptions, usage, loyalty, webhooks, notifications, governance, schedulers, staff, portal | tables of their own | request handlers and crons | outbox | see PROJECT.json for each |

What makes each correct, in short: the outbox loses no event and settles each for
good; a task is executed once at a time, a bounded number of times, and always
reaches a final status; a message is sent once unless its acknowledgement was lost;
what is reserved is what the reservations say, what is on hand is accounted for, and a
reservation ends once; a claimed connector event is applied once and gets an outcome; a
merchant's tasks are refused by its plan only, and nobody waits for a connection for ever.

`PROJECT.json` lists every component with its sources and status, and every hazard of
the code at its line with the properties that watch it.

## 2. Modules

| Module | Contents |
|---|---|
| `EventQueue` | abstract specification: an at-least-once queue, which the poller of `Outbox` implements |
| `WorkQueue` | abstract specification: a queue whose items several owners take and settle on their own, which `AgentTasks` and `Connector` implement |
| `Ledger` | abstract specification: the stock of a merchant as a ledger, which `Stock` implements |
| `Outbox` | both consumers of `outbox_events`, detailed; its properties and the refinement to `EventQueue` |
| `MCOutbox` | instances of it for TLC |
| `OutboxProofs` | theorems about `Outbox` |
| `AgentTasks` | `agent_tasks` and the orchestrators of all worker processes; its properties |
| `MCAgentTasks` | instances of it for TLC |
| `AgentTasksProofs` | theorems about `AgentTasks` |
| `MessageDelivery` | outbound messages: the delivery cron of every API process, the portal and the webhook; its properties |
| `MCMessageDelivery` | instances of it for TLC |
| `MessageDeliveryProofs` | theorems about `MessageDelivery` |
| `Stock`, `MCStock`, `StockProofs` | the stock of a merchant and everybody who changes it; its instance; its theorems |
| `Connector`, `MCConnector`, `ConnectorProofs` | the queue of ERP events and its dead letters; its instance; its theorems |
| `WorkerPool`, `MCWorkerPool`, `WorkerPoolProofs` | the connection pool of a worker process and the plans it reads through it; its instance; its theorems |

### 2.1 Outbox

A row is its `status` and `retry_count`; its event type is abstracted to which consumer
has a handler for it (`ApiEvents`, `WorkerEvents`). `NoticeEvents` are daily reports and
escalations, whose handlers in the worker return without a word when the table
`notifications`, or a column of it, is missing. Events are numbered in `created_at`
order, but become visible in any order, as publishers' transactions do.

Wherever a statement runs on its own, its failure is one of two things: nothing happened,
or it took effect and the answer was lost. The code goes on alike after both. Here and in
the other modules one action has both outcomes, or `...Error` is the first and
`...Unheard` the second.

*The API consumer* (`OutboxWorker.processOutbox`) is one action per awaited call: `ApiFetch`
(lock and SELECT), `ApiHandle`/`ApiThrow`/`ApiSkip` (the handler, or none),
`ApiMarkProcessed`, `ApiMarkFailed`. Its SELECT is FOR UPDATE in autocommit, so its row
locks are gone when it returns and its batch is a copy; its UPDATEs are by id and unguarded,
and wait for the row lock of whoever has it (`e \notin Locked`). At the fifth failure
`moveToDlq` names columns `dlq_events` does not have and a status the enum does not have;
the transaction rolls back and the exception leaves the loop (`ApiMarkFailedThrows`).
`ApiMarkProcessedUnheard` is the UPDATE to COMPLETED whose answer is lost, upon which
`markFailed` writes FAILED over it. The lock expires after 30 s whether or not its holder is
done (`LockExpire`); without Redis it is one lock per process.

*The poller* (`pollOutbox`) keeps its row locks until COMMIT: `tx[w]` partitions its
rows into those to do and those it will commit as COMPLETED, PENDING or dead. Effects
of a handler (an INSERT into `agent_tasks` on another connection) happen at once in
`WorkerProcess`, or not at all in `WorkerSkip`; the status only in `WorkerCommit`;
`WorkerRollback` is an error or a crash, after which the effects stay. A handler whose
INSERT throws is retried or dead-lettered (`WorkerRetry`, `WorkerDeadLetter`), although
the INSERT, which the transaction does not include, may have taken effect
(`InsertThrows`). `PROCESSING` is never committed, so it is not a status of the model.

`handled`, `tasks` and `unrecorded` are history variables: how often effects were
applied, and how often the worker may have applied them and committed nothing that says
so, because its batch was rolled back or the answer to its INSERT was lost.

In the refinement an event is `dead` only if it is FAILED *and* has its dead letter; a
FAILED event without one is `lost`, which the abstract queue does not know.

### 2.2 AgentTasks

`dispatchTasks` is one action per await: `DispatchFetch` (SELECT FOR UPDATE SKIP LOCKED),
then for the first remaining row one of `DispatchDrop` (governance or the subscription
refuses it, or no agent has its type), `DispatchSkip` (breaker or limit) or `DispatchMark`,
which reads the counter and awaits the UPDATE, then `DispatchStart`, which writes the
counter it read plus one and starts the execution, all before `DispatchCommit` or
`DispatchAbort`. `executeTask` is `ExecStart` (waits for the dispatcher's row lock),
`ExecComplete`/`ExecFail`, and the catch block as `ExecRetry`, `ExecExhaust` or `ExecError`,
each with the `finally` block that gives the slot back (`End`). The first two UPDATEs are
inside the try block: if one takes effect and its answer is lost (`ExecStartUnheard`,
`ExecCompleteUnheard`), the catch block writes PENDING or FAILED over it, over COMPLETED
too, and the agent is called again. `ExecExhaustUnheard` and `CleanupStaleUnheard` lose the
answers of the others. `CleanupStale`, `CancelTask`, `RetryTask` and `Crash` are the other
writers.

Time is left open: which PENDING rows are due, when a breaker closes, and when a row is
old enough for the cleanup are free choices. What governance and the subscription say
is a free choice too. The timeout of a task is set and cleared before the execution's
first `await`, so `handleTaskTimeout` has no action.

`disturbed` records the tasks whose row was taken from a running execution: by a batch
that rolled back after it had started it, or by `retryTask` after the cleanup failed
it. The properties below hold for every other task; for these the code gives no
guarantee. `cleaned` counts what the cleanup subtracted from a counter.

### 2.3 MessageDelivery

A row of `messages` is its `delivery_status`, its `retry_count` and whether it has the
provider's id (`acked`). `Insert` leaves the status at its default, PENDING, which the
cron selects like QUEUED: an operator's message can be sent before `Queue` has run, and
`Queue` then writes QUEUED over SENT (only the provider's id keeps it from being selected
again). A bot's reply (`Replies`) is sent by the webhook itself (`ReplyAccepted`,
`ReplyFailed`), which then marks the newest undelivered reply of the conversation
(`ReplyMark`), while the cron may have selected it too.

`processMessageQueue` is one action per await: `Fetch`, `SendAccepted`/`SendFailed`/
`SendRefused` (the provider's answer), `RecordSent`/`RecordFailed`/`RecordRefused`
(`updateDeliveryStatus`), and the two halves of `scheduleRetry`, `ReadRetry` and then
`Reschedule` or `GiveUp`. `RecordSent` has the case in which the row is written and the
events after it throw; the catch block then makes the row PENDING again. `SendFailed` has
the case in which the provider accepted the message and the adapter could not log it.
`RecordError`, `RetryError`, `RequestDies` and `Crash` are failing statements and dying
processes. Which rows' `next_retry_at` has come is a free choice.

`copies` counts what the provider accepted, `lost` the acceptances of an operator's
message that nobody learned or recorded. Receipts are not actions: the UPDATE of the
webhook joins on `whatsapp_message_log.message_id`, which nothing writes.

### 2.4 Stock

Quantities are those of a variant: `onHand`, `reserved`, and `located`, the on-hand
quantity at its default location. Reservations and orders are for one unit. `Reserve`,
`Confirm`, `Release` and `CleanupExpired` stand for the worker's handlers and the API's
controller alike: one transaction each, which locks its rows before it reads them, so
one action that waits until those rows are free (`Free`, `FreeReservation`).

The reconciliation of an API process (`RecStep(p)`) is not one action: its transaction
reads the clock (`RecStart`), looks for what is due (`RecLook`), expires it (`RecMark`),
subtracts it from each variant (`RecGive`), sums up the active reservations in one
statement with a snapshot of its own (`RecSync`), overwrites row by row (`RecWrite`) and
commits (`RecCommit`). Until then its changes are in `marked`, `rows` and `value`, visible
to nobody, and others may change every row that it has not come to. `RecTimeout` is
`lock_timeout`, `RecRollback` an error or a restart. Redis is not needed for any of the
properties: the cron of each process is an independent actor.

An order takes stock when it is created or becomes active (`OrderCreated`,
`OrderActive`), gives it back when it is cancelled (`OrderCancelled`), both by what
`stock_deducted` says, and finds its variant anew each time: `heldFrom` records where
the unit came from. `OrderUnmoved` is the request that finds nothing to move, `OrderOther`
a writer of `orders.status` that ignores the stock. `UpdateStock` is the worker's stock
update and `UpdateHangs` the API's, which waits on a second connection for the row its
first has locked. `Refuse` is the refused reservation whose connection goes back to the
pool without ROLLBACK and keeps its lock (`leaked`) until the idle timeout (`LeakEnds`).
`ListRead` and `ListWrite` are the listing, which overwrites on-hand quantities with the
totals by location; `AutoSelect` and `AutoReserve` the agent, which adds to
`quantity_reserved` without a reservation.

The history says which ways of changing stock a property excludes: `drifted` (the agent
reserved), `lowered` (something but a confirmation took), `other` (units by updates,
listings, clamped deductions and returns to another variant than they came from),
`settled` (orders last written by a request that moves stock).

### 2.5 Connector

`processQueue` is one action per await: `Claim`, one statement that takes up to a batch of
PENDING and RETRY events and counts an attempt; then per event `NoEndpoint`, `Apply` or
`ApplyFails` (the ERP event's own transaction, whose effects may be there although it
reports a failure), `MarkProcessed`, or in the catch block `MarkRetry` or `MarkDead` and
`WriteLetter`. `MarkFails` is the UPDATE to PROCESSED that fails, or takes effect without
being heard of, after the event was applied; either way the catch block writes RETRY or
DEAD_LETTER, over PROCESSED if need be. `CallDies` the end of the request or process at any
await. `retryDlq` is three statements without a transaction (`RetryRead`, `RetryEvent`,
`RetryLetter`); `RetryBatch` is one transaction. The UPDATEs are by id and unguarded, so a
late retry can put back an event that was put back, claimed or processed before: `late`
records those. `applied`, `unsure` (no outcome recorded), `abandoned` (the request died) and
`replays` are the rest of the history. Nothing selects PROCESSING rows again: an abandoned
event stays. The worker's connector cycle counts rows and touches none.

### 2.6 WorkerPool

`pg.Pool` is `held` and a FIFO `queue`: `Request`, `Return` and, after
`connectionTimeoutMillis` (15 s), `Withdraw`. Its users are the dispatcher, which keeps a
connection and its row locks for a whole batch and asks for a second one to read the
merchant's plan (`DispatchRead`); the executions it starts, which each ask for one and
then wait for the row locks of that very batch (`ExecMark` needs its COMMIT); their
agents; and the poller, which asks for a second one for every task it inserts. So ten
connections can all be held by users that wait for one another, and a timeout is all that
ends it: the mutant without it (`TimesOutNever`) makes `NobodyWaitsForever` fail.

What the timeout costs is in the model too: `DispatchReadTimeout` is a read of the plan
that fails for want of a connection, upon which the code takes the free plan, caches it for
five minutes and CANCELs paid tasks (`misread`). A change of plan does not reach the cache
either, as nothing calls `invalidateMerchantSubscription`
(`orchestrator.service.ts:380-382`). `DecidedByPlan` says that these two are the only ways
to a wrong decision.

`Tasks` are tasks of paid agents that governance lets pass. The statements of the crons,
the stale cleanup, retries and database errors are left to `AgentTasks` and `Outbox`.

### 2.7 What they implement

`Queue` and `Books`, at the end of the detailed modules, map their state to that of an
abstract module. Where the code breaks the promise, the item is `loose` there, so that
the exception is a part of the specification and not a hypothesis of the theorem.

| `WorkQueue` | `AgentTasks` | `Connector` |
|---|---|---|
| held by an owner | executed, from before its dispatch commits until the execution writes the row | in the batch of a request |
| waiting | PENDING | PENDING, RETRY |
| stuck | PROCESSING without an execution | PROCESSING without a request |
| done, dead | COMPLETED or CANCELLED, FAILED | PROCESSED, DEAD_LETTER |
| loose | `disturbed` | `late` |
| `Add` | `Create` | `EnqueueEvent` |
| `Take` | `DispatchStart` | `Claim` |
| `Settle` | `ExecComplete`, `ExecRetry`, `ExecExhaust` | `MarkProcessed`, `MarkRetry`, `WriteLetter` |
| `Refuse` | `DispatchCommit` (of the rows it dropped), `CancelTask` | none |
| `Lose` | `ExecError`, `Crash`, `CleanupStale`, `CleanupStaleUnheard` | `CallDies` |
| `Return` | `RetryTask`, `DispatchAbort` | `RetryEvent`, `RetryBatch` |

An item whose owner has written it without hearing so is still held, as that owner may
write over it; if the owner is lost then (`ExecCompleteUnheard` and a crash, `MarkFails` and
the death of the request), `Lose` leaves it done.

In `Ledger` nothing counts what is reserved: `Promise` looks at the reservations
themselves. `Reserve` is a `Promise` although the handlers look at `quantity_reserved`;
`Confirm` is `Take`; `Release`, `CleanupExpired` and the COMMIT of a reconciliation are
`GiveBack`; the orders' requests are `Issue` and `Return`, the updates and listings
`Adjust`, `AutoReserve` is `Loosen`. Every other statement of a reconciliation, among them
those that overwrite the counters, is no step of the ledger.

## 3. Runs

| Run | Instance | Shows |
|---|---|---|
| `outbox` | 2 API, 2 worker processes, 2 events (one both consumers handle, one a notice of the worker's), limit 3, 2 faults; processes are symmetric | `TypeOK`, `TxRowsArePending`, `NoResurrection`, `DeadLetteredOnce`, `DuplicateTaskOnlyIfUnrecorded`, `RetryBelowLimit`, `SharedEventNotLost` (of an event both consumers handle, neither completes it before one of them applied it) |
| `outbox_live` | 1 API, 2 workers, batches of 1, 1 fault, fair | `Settles`: each event is settled in the end |
| `outbox_worker` | 2 workers, no API, 3 events (one a notice, one of an unknown type), 2 faults | `ImplementsEventQueue`: the poller alone refines `EventQueue`, with a dead letter for each event it gives up |
| `outbox_lost` | 1 API, 2 workers | **violated**: `AtLeastOnce`. The consumer without a handler completes the event |
| `outbox_forgotten` | 1 API, 2 workers, fair | **violated**: `FailedIsRetriedOrDeadLettered`. One failure in the API parks the event for ever |
| `agent_tasks` | 2 workers, 1 task, 2 executions, limit 1, 2 attempts, 2 faults, fair | `TypeOK`, `OneExecutionPerTask`, `ImplementsWorkQueue`, `CallsBounded`, `ExcessOnlyFromCleanup`, `OrphanRecovered` |
| `agent_slot` | 1 worker, 3 tasks, limit 2, no fault | **violated**: `ActiveCountsExecutions`. A concurrency slot is lost for good |
| `message_delivery` | 1 API, an operator's message and 2 replies of one conversation, batches of 2, 2 attempts, 1 fault, fair | `TypeOK`, `TwiceOnlyIfLost`, `SentWasAccepted`, `SentNoMoreThanAccepted`, `Attempted` |
| `message_twice` | 2 API, 1 message, no fault | **violated**: `TwiceOnlyIfLost`. Both processes select it, and nothing keeps both from sending it |
| `stock` | 1 variant with 1 unit, 2 reservations, 1 order, 1 reconciling process, 1 request of the other kinds, 1 fault, fair | `StockTypeOK`, `ReservedMatchesActive`, `StockAccounted`, `PromisesCovered`, `HeldWhileOpen`, `ImplementsLedger`, `LapsedEnds`, `DriftCorrected` |
| `connector` | 2 events, one without an endpoint, 2 requests, 1 retry, batches of 2, 2 attempts, 2 replays, 2 deaths or errors, fair | `ConnectorTypeOK`, `ClaimIsExclusive`, `StuckOnlyIfAbandoned`, `DeadHasLetter`, `AppliedOnce`, `AttemptsBounded`, `ImplementsWorkQueue`, `ClaimSettles` |
| `worker_pool` | 2 tasks of 2 merchants, 3 connections, batches of 2, 1 change of plan, fair | `TypeOK`, `PoolSound`, `DecidedByPlan`, `NobodyWaitsForever` |

**Bounds.** `MaxFaults` and `MaxErrors` bound crashes and database errors, `MaxCount`
saturates history counters, `Runs` bounds the executions alive at a time, `MaxRequests`
the stock updates, listings, refusals and automatic reservations, `MaxReplays` how often an
event is put back, `MaxChanges` the changes of plans, `PollBatch` the tasks that a poll
inserts; `BatchSize`, `MaxRetry`, `MaxRetries`, `MaxAttempts`, `Max` and `Threshold` are the
code's constants made small. They are enough for the interactions the hazards name: two
processes of each kind compete for the same row; a batch holds more than one row, so that
one row's trouble meets another's; limits of 2 or 3 attempts include a first and a last one;
two faults allow a crash during the recovery from another. In `agent_tasks` one task
suffices for properties that speak of one task; tasks meet only through the counters,
which two workers, two executions and the cleanup bring apart already, and
`LimitsHoldUpToCleanups` is for any number of tasks. Three connections are the least that
the dispatcher, its read and the executions of two tasks can exhaust in each order. In
`stock` two reservations compete for one unit; that two reconciliations never
share a row is theorem `RowsNotShared`, for any number of API processes. In
`message_delivery` the operator's message shares batches with the replies, and two replies
are the least of which the wrong one can be marked. The theorems of section 4 hold without
any of these bounds.

Deadlock is not checked: when every event is settled or every task final, and the bounds
are used up, nothing is left to do.

**Fairness.** A cron or interval fires again for ever and every awaited call returns, so
each process takes a step when it can (`WF` of `ApiStep(a)` and `WorkerStep(w)` in
`Outbox`, `DispatchStep(w)` and `ExecStep(r)` in `AgentTasks`, `WorkerStep(a)` in
`MessageDelivery`, `RecStep(p)` in `Stock`); a row's `next_retry_at` comes; an expiring lock
expires; a row that nobody updates for ten minutes is old enough for `cleanupStaleTasks`; an
idle connection is closed after `idleTimeoutMillis` (`LeakEnds(v)`,
`database.module.ts:85`). A request to the connector that was received goes on until it ends
or dies (`CallStep(c)`), but nobody has to send one. In `WorkerPool` statements
return and connection timers fire (`DispatchStep`, `PollStep`, `ExecStep(t)`). Nothing is
assumed of publishers, of faults (they may stop or not, up to the bound), of a hanging
stock update, or of what a handler or agent returns or whether it does.

## 4. Theorems

All for any number of events, tasks, agents and processes, any limits and any number of
faults. No assumption but the named ones on the constants: sets that are counted are finite
(a run of the system has finitely many rows, executions, requests and processes), limits are
positive or natural numbers as in the code, and `MaxCount` of `MessageDelivery`, where its
counters saturate, is at least 2.

| Theorem (`OutboxProofs`) | States |
|---|---|
| `TypeCorrect` | `[]TypeOK` |
| `RowLocksHold` | `[]TxRowsArePending` |
| `SettledForGood` | `NoResurrection` |
| `OneDeadLetter` | `[]DeadLetteredOnce` |
| `RetryStaysBelowLimit` | `[]RetryBelowLimit` |
| `DuplicatesOnlyIfUnrecorded` | `[]DuplicateTaskOnlyIfUnrecorded` |
| `SharedEventsApplied` | `[]SharedEventNotLost` |
| `WorkerAloneDelivers`, `WorkerAloneDeadLetters`, `WorkerAloneImplementsQueue` | with `Apis = {}`: `[]AtLeastOnce` (what `outbox_lost` violates with an API process), `[]FailedIsDeadLettered`, `ImplementsEventQueue` |

The invariant behind them is `TxInv`: the rows of an open transaction are PENDING, in
that transaction only, and in one part of it only. It is inductive because every late
UPDATE waits for the lock. From it follow `NoResurrection` (a commit finds its rows as
its SELECT left them), and the accounts `RetryInv` and `TasksInv`, which relate a
counter to what the open transaction is about to write. `SharedInv` credits an event
that is COMPLETED, in a poller's `done` part, or returned from an API handler and not yet
marked with effects that were applied. For the refinement the queue's
`Settle(D, X)` is a COMMIT that settles a set of events at once, `Apply` a handler's
effects, and everything else stutters; it needs that what a transaction has in `done`
had its effects applied.

| Theorem (`AgentTasksProofs`) | States |
|---|---|
| `TypeCorrect` | `[]TypeOK` |
| `ExecutedOnceAtATime` | `[]OneExecutionPerTask` |
| `SettledTasksStay` | `FinalStatusStays` |
| `RetryStaysBelowMax` | `[]RetryBelowMax` |
| `CallsStayBounded` | `[]CallsBounded` |
| `LimitsHoldUpToCleanups` | `[]ExcessOnlyFromCleanup` |
| `TasksAreWorkQueue` | `ImplementsWorkQueue` |

`DispatchInv` says that a dispatch's rows are PENDING and its own. `ExecutionInv` says that
the row of an execution nobody disturbed is either still waiting for the commit of the
dispatch that started it, or PROCESSING, or failed as stale, or COMPLETED while the
execution is in its catch block, and unlocked: hence no dispatch can pick it up, which gives
`OneExecutionPerTask`. From it `FinalStatusStays` follows: CANCELLED is final, and only the
execution that completed a task without hearing so may write over its COMPLETED. `CallsInv`
pays each call of an agent with a retry. `LimitInv` bounds the executions by the counter
plus what the cleanup took from it, and also by the value a dispatch has read and not yet
written: that value may be too large (the lost slot of `agent_slot`) but never too small.

`TasksAreWorkQueue` has one lemma for each action. Those of the dispatch use that a row in
its hands has no execution (`FreeTask`), those of an execution that an undisturbed row is
PROCESSING, failed as stale or completed unheard when it writes it (`ExecutedRow`), so that
an execution settles only what it holds; a row that the cleanup fails while its execution
goes on is still held, and only that execution can make it anything else.

| Theorem (`MessageDeliveryProofs`) | States |
|---|---|
| `TypeCorrect` | `[]TypeOK` |
| `SentMeansAccepted` | `[]SentWasAccepted` |
| `NoMoreSentThanAccepted` | `[]SentNoMoreThanAccepted` |
| `ProcessesSendOnce` | `[]OncePerProcess`: an operator's message is sent once by each API process, and once more for each lost acceptance |
| `OneSenderSendsOnce` | its corollary: with a single API process, `[]TwiceOnlyIfLost` |

The webhook may mark another reply than the one that was accepted, so that a message shown
as SENT need not have been accepted itself. `AccountInv` therefore says that there is an
account: a set Q of messages that a worker sent, which accounts for their rows, and a set P
of replies that the webhook sent, of which at least as many are used up as rows outside Q
are SENT. A message in both was accepted twice. Each step says how P and Q change.

`OnceInv` is the reason a process does not repeat itself. Until a copy of a message is
recorded, every copy is lost or in the hands of a process about to record it (`Holding`).
From then on the row has the provider's id and is not selected again: only a process that
has it in its batch will still send it (`Ready`), so each process adds one copy at most
(`CopiesInv`). With two processes the bound is reached: that is what `message_twice` shows.

| Theorem (`StockProofs`) | States |
|---|---|
| `StockTypes` | `[]StockTypeOK` |
| `ReservedIsActive` | `[]ReservedMatchesActive` |
| `StockIsAccounted` | `[]StockAccounted` |
| `PromisesAreCovered` | `[]PromisesCovered` |
| `StockFollowsOrder` | `[]HeldWhileOpen` |
| `ReservationEndsOnce` | `EndsOnce` |
| `StockIsLedger` | `ImplementsLedger` |
| `RowsNotShared` | `[]NoSharedRow`, for any number of reconciling processes |

`StockInv` ties the uncommitted part of a reconciliation to the committed rows: what it has
marked is due, still active for all others, and nobody else's (`HoldsInv`, `NoSharedRow`); of
what was due when it began, whatever is still active it has marked (`AsOfInv`); it holds
the variants of these before it counts (`RowsInv`); and what it writes is what will
be active once it commits (`ValueInv`). Only so is the overwriting of `quantity_reserved`
harmless and `ReservedMatchesActive` inductive, although the sums come from one snapshot
and are written one row after the other. The accounts add `HeldCreated`: an order that
holds a unit was created. For the ledger, `ReservedMatchesActive` turns the comparison of a
handler with `quantity_reserved` into one with the reservations (`ReserveIsPromise`), and
`HoldsInv` makes the COMMIT of a reconciliation one entry; what precedes it is none
(`RecIsQuiet`).

| Theorem (`ConnectorProofs`) | States |
|---|---|
| `ConnectorTypes` | `[]ConnectorTypeOK` |
| `ClaimsExclusive` | `[]ClaimIsExclusive` |
| `OnlyAbandonedStuck` | `[]StuckOnlyIfAbandoned` |
| `DeadHaveLetters` | `[]DeadHasLetter` |
| `AppliedAtMostOnce` | `[]AppliedOnce` |
| `AttemptsAreBounded` | `[]AttemptsBounded` |
| `ProcessedIsFinal` | `ProcessedStays` |
| `ConnectorIsWorkQueue` | `ImplementsWorkQueue` |

`ConnectorInv` adds to the properties that a request's current event is in its batch
(`CallInv`), that an event in a batch is PROCESSING, or DEAD_LETTER while that request
writes its letter, or PROCESSED while that request, which did not hear so, is in its catch
block, unless a retry came late (`WorkInv`, which the refinement needs too),
that an applied event is PROCESSED, or its request is about to say so (`AppliedInv`), and
that an event which waits or is at work has an attempt left (`AttemptInv`).

That suffices for `AppliedOnce` without late retries. With them several requests have one
event, and the account is `ChanceInv`: an event has one chance to be applied until it has a
letter, and one for each time it is put back; what was applied, the requests that have the
event and have not applied it (`Holding`), and its waiting to be claimed (`Waits`) use up no
more. A put-back adds a chance and at most one use; the first letter of an event takes the
chance of the request that writes it (`LettersInv`: only what has a letter is put back).
`ProcessedStays` excepts a late retry and the request that marked an event without hearing
so.

| Theorem (`WorkerPoolProofs`) | States |
|---|---|
| `TypeCorrect` | `[]TypeOK` |
| `PoolStaysSound` | `[]PoolSound` |
| `PlanDecides` | `DecidedByPlan` |

`WorkerPoolInv` says who uses the pool at which point of the code (`PoolMatches`), that a row
a dispatch has not decided is PENDING without an execution (`RowInv`), that a user which has
its connection keeps it (`KeepsTheirs`), and that the pool never has a free connection and
somebody waiting. Its steps need facts on `Append`, `Tail` and the removal of one element
of an injective sequence, and on cardinalities. `PlanInv` says that a cached or just read
answer is the plan's unless the merchant is in `misread`.

The properties of `RetryStaysBelowMax`, `SettledTasksStay`, `ProcessedIsFinal`,
`ReservationEndsOnce`, `ProcessesSendOnce`, `RowsNotShared`, `WorkerAloneDelivers` and
`WorkerAloneDeadLetters` are in no passing run. The runs check a refinement in the place of
`FinalStatusStays`, `ProcessedStays` and `EndsOnce`: what is done stays done there too.

Only model-checked: `Settles`, `OrphanRecovered`, `Attempted`, `LapsedEnds`,
`DriftCorrected`, `ClaimSettles` and `NobodyWaitsForever`, as liveness under fairness is
out of the prover's reach.

## 5. What the violated runs say

* `outbox_lost`: `docs/ARCHITECTURE.md:200` and `docs/COMPLETE_DOCUMENTATION.md:920`
  promise at-least-once delivery. Both consumers take every type and complete what they
  do not know (`outbox.worker.ts:68`, `outbox-poller.service.ts:196`).
* `outbox_forgotten`: the documents promise retries and a dead letter after five
  failures; `markFailed` sets FAILED at the first (`outbox.service.ts:146`), which
  nobody selects.
* `message_twice`: `docs/ARCHITECTURE.md:202` promises locks against duplicate processing,
  and `docs/runbooks/redis-reenablement.md:97-107` says that Redis makes a second API
  process safe; `message-delivery.worker.ts:55` takes no lock and claims no row.
* `agent_slot`: `orchestrator.service.ts:588` writes a counter it read before an await.

## 6. Not modelled

* *Outbox*: `cleanupOldEvents` and `retryEvent`, called by nothing; metrics and health; the
  contents of handlers. The dead-letter service's `resolve` and `list` touch only
  `dlq_events`; its replay and the CLI's fail and roll back (section 1).
* *Agent tasks*: `purgeOldTasks`, metrics, the contents of agents, governance and
  subscriptions. `processDeadLetterQueue` writes only `dead_letter_queue`, which no
  migration creates, and selects rows that theorem `RetryStaysBelowMax` shows not to exist.
* *Messages*: `retryFailedMessage`, called by nothing; the test receipts of
  `webhooks.controller.ts`, of development only; Twilio's webhook, of the same shape as
  Meta's; statistics.
* *Stock*: transfers, direct writes of a location's stock, import and deletion of items,
  received goods, shrinkage, ingredients of recipes, the quantity reserved by location,
  alerts and recommendations.
* *Connector*: `startReconciliation`, health queries, and the record of a worker cycle.
* *Pool*: the crons' single statements, the agents' own transactions, database errors.
* The remaining components of section 1 have no module; PROJECT.json says why for each.
  Prompts and rankings of language models, the portal, adapters and seeds are not a matter
  for state machines; they are most of the repository's lines.

A leaked transaction (`leaked`) is modelled by the rows that its refused reservation locked.
Single statements that the pool later runs on its connection become part of it, are undone
when the connection is closed, and lock their rows until then; neither is modelled.

Some hazards are in the models and go wrong in the code, so that the properties can only
say that nothing else does. The history variables mark them: `misread` (a plan that was not
read or has changed), `abandoned` (a request that died, between a dead event and its letter
too), `other` (listings, clamped deductions, misplaced returns), `hung` (an update that
waits for itself). PROJECT.json lists these hazards without a property.

What the models keep and a reader of the code may not expect: a negative
`quantity_reserved` is left as it is by the reconciliation, which compares with
`GREATEST(quantity_reserved, 0)`; a deduction clamped at zero, given back in full,
invents stock; a put-back connector event keeps its `attempt_count`, so it is tried
once, and a letter marked REPLAYED is not opened again when the event dies a second
time; a refused reservation keeps its row locks with an idle connection.

## 7. Plan

What could follow, the most useful first.

1. A composition of `Outbox` and `AgentTasks`: from an event to at most one completed task
   per application of its effects. `AgentTasks` could be replaced by `WorkQueue` in it.
2. The rows a dispatch skips: ten PENDING rows of a saturated agent, or of one with an open
   breaker, at the head of the order keep all others from being selected.
3. `TeamTasks`: sequential and parallel teams, and what becomes of a team when a member
   fails or the process dies.
4. A channel with lost acknowledgements that sends once per sender, which
   `MessageDelivery` would implement; queue and dispatch of `WorkerPool` as a pool of tokens.
5. `Stock` with locations, transfers and received goods; payments and deliveries, whose
   status changes are requests of several statements.
