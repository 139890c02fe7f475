------------------------------- MODULE Outbox -------------------------------
(***************************************************************************)
(* The transactional outbox: the table outbox_events, its dead-letter      *)
(* table dlq_events, and the two independent consumers that drain it:      *)
(*   - OutboxWorker in every API process: reads a batch in autocommit (its *)
(*     FOR UPDATE locks end with the statement), then settles the rows one *)
(*     by one, by id, whatever their status is by then;                    *)
(*   - OutboxPollerService in every worker process: one transaction per    *)
(*     batch, row locks held from the SELECT to the COMMIT, the effects of *)
(*     a handler committed at once on another connection.                  *)
(* A row is abstracted to its status and retry_count; its event type to    *)
(* which of the two consumers has a handler for it.                        *)
(***************************************************************************)
EXTENDS Naturals, FiniteSets

CONSTANTS
    Events,         \* the rows ever inserted, numbered in created_at order
    ApiEvents,      \* events whose type EventHandlerRegistry has a handler for
    WorkerEvents,   \* events whose type has a case with effects in processEvent
    NoticeEvents,   \* those of them whose effects are skipped without the table
                    \* notifications (daily report, escalation)
    Apis,           \* API processes (production runs two)
    Workers,        \* worker processes
    RedisEnabled,   \* REDIS_ENABLED: one shared lock, else one lock per process
    BatchSize,      \* LIMIT of both SELECTs (50)
    MaxRetry,       \* the failure that dead-letters an event (5)
    MaxFaults,      \* bound: process deaths and database errors in a behaviour
    MaxCount        \* bound: where the effect counters saturate

ASSUME EventsAssumption == Events \subseteq Nat
ASSUME HandlersAssumption == ApiEvents \subseteq Events /\ WorkerEvents \subseteq Events
ASSUME NoticesAssumption == NoticeEvents \subseteq WorkerEvents \ ApiEvents
ASSUME RedisAssumption == RedisEnabled \in BOOLEAN
ASSUME BoundsAssumption ==
    /\ BatchSize \in Nat
    /\ MaxRetry \in Nat \ {0}
    /\ MaxFaults \in Nat
    /\ MaxCount \in Nat \ {0}

VARIABLES
    status,     \* outbox_events.status as committed; "none" before the INSERT
    retry,      \* outbox_events.retry_count as committed
    dlq,        \* number of dlq_events rows per event
    api,        \* per API process: where processOutbox is, and its batch
    locks,      \* API processes whose outbox-worker-lock is held and not expired
    tx,         \* per worker process: the open transaction of pollOutbox
    handled,    \* history: times the effects of the API's handler were applied
    tasks,      \* history: times the effects of the worker's handler were applied
    unrecorded, \* history: times a worker may have applied an event's effects and
                \* committed nothing that says so
    faults      \* process deaths and database errors so far

rowVars == <<status, retry, dlq>>
historyVars == <<handled, tasks, unrecorded>>
vars == <<status, retry, dlq, api, locks, tx, handled, tasks, unrecorded, faults>>

-----------------------------------------------------------------------------
Statuses == {"none", "PENDING", "COMPLETED", "FAILED"}
Settled == {"COMPLETED", "FAILED"}

\* Where processOutbox is with the first event of its batch: about to call the
\* handler, back from it, or in the catch block.
ApiStates == {"idle", "next", "returned", "threw"}
ApiIdle == [pc |-> "idle", batch |-> {}]

\* An open transaction: the events still to process, and those for which it
\* will commit COMPLETED, PENDING with one more retry, or FAILED and dead.
Tx == [todo : SUBSET Events, done : SUBSET Events,
       again : SUBSET Events, dead : SUBSET Events]
NoTx == [todo |-> {}, done |-> {}, again |-> {}, dead |-> {}]
TxRows(w) == tx[w].todo \cup tx[w].done \cup tx[w].again \cup tx[w].dead
LockedWithoutForUpdate == {}
Locked == UNION {TxRows(w) : w \in Workers}

\* What SELECT ... WHERE status = 'PENDING' FOR UPDATE SKIP LOCKED can see, and
\* the ORDER BY created_at LIMIT it takes of that.
Fetchable == {e \in Events : status[e] = "PENDING"} \ Locked
Oldest(S) == {e \in S : Cardinality({f \in S : f < e}) < BatchSize}
IsFirst(e, S) == e \in S /\ \A f \in S : e <= f

Bump(counter, e) ==
    [counter EXCEPT ![e] = IF @ < MaxCount THEN @ + 1 ELSE @]

Fault == faults < MaxFaults /\ faults' = faults + 1

-----------------------------------------------------------------------------
Init ==
    /\ status = [e \in Events |-> "none"]
    /\ retry = [e \in Events |-> 0]
    /\ dlq = [e \in Events |-> 0]
    /\ api = [a \in Apis |-> ApiIdle]
    /\ locks = {}
    /\ tx = [w \in Workers |-> NoTx]
    /\ handled = [e \in Events |-> 0]
    /\ tasks = [e \in Events |-> 0]
    /\ unrecorded = [e \in Events |-> 0]
    /\ faults = 0

\* publishEvent and publishEventInTransaction: the row becomes visible when the
\* publisher's transaction commits, not necessarily in created_at order.
Publish(e) ==
    /\ status[e] = "none"
    /\ status' = [status EXCEPT ![e] = "PENDING"]
    /\ UNCHANGED <<retry, dlq, api, locks, tx, historyVars, faults>>

-----------------------------------------------------------------------------
(* OutboxWorker.processOutbox, one action per database call or handler.    *)

\* acquireLock: one lock for all processes in Redis, or one per process.
CanLock(a) == IF RedisEnabled THEN locks = {} ELSE a \notin locks

\* Take the lock and read a batch. The row locks of the SELECT are gone when it
\* returns: the batch is a copy that anything may outdate. An empty batch
\* releases the lock and changes nothing.
ApiFetch(a) ==
    /\ api[a].pc = "idle"
    /\ CanLock(a)
    /\ Oldest(Fetchable) # {}
    /\ locks' = locks \cup {a}
    /\ api' = [api EXCEPT ![a] = [pc |-> "next", batch |-> Oldest(Fetchable)]]
    /\ UNCHANGED <<rowVars, tx, historyVars, faults>>

\* A type without a handler is logged and passes for handled.
ApiSkip(a) ==
    \E e \in api[a].batch \ ApiEvents :
        /\ api[a].pc = "next"
        /\ IsFirst(e, api[a].batch)
        /\ api' = [api EXCEPT ![a].pc = "returned"]
        /\ UNCHANGED <<rowVars, locks, tx, historyVars, faults>>

ApiHandle(a) ==
    \E e \in api[a].batch \cap ApiEvents :
        /\ api[a].pc = "next"
        /\ IsFirst(e, api[a].batch)
        /\ api' = [api EXCEPT ![a].pc = "returned"]
        /\ handled' = Bump(handled, e)
        /\ UNCHANGED <<rowVars, locks, tx, tasks, unrecorded, faults>>

ApiThrowSwallowed(a) ==
    \E e \in api[a].batch \cap ApiEvents :
        /\ api[a].pc = "next"
        /\ IsFirst(e, api[a].batch)
        /\ api' = [api EXCEPT ![a].pc = "returned"]
        /\ handled' \in {handled, Bump(handled, e)}
        /\ UNCHANGED <<rowVars, locks, tx, tasks, unrecorded, faults>>

\* The handler throws, before or after its effects.
ApiThrow(a) ==
    \E e \in api[a].batch \cap ApiEvents :
        /\ api[a].pc = "next"
        /\ IsFirst(e, api[a].batch)
        /\ api' = [api EXCEPT ![a].pc = "threw"]
        /\ handled' \in {handled, Bump(handled, e)}
        /\ UNCHANGED <<rowVars, locks, tx, tasks, unrecorded, faults>>

\* On to the next event; the finally block after the last one.
ApiAdvance(a, e) ==
    IF api[a].batch = {e}
    THEN /\ api' = [api EXCEPT ![a] = ApiIdle]
         /\ locks' = locks \ {a}
    ELSE /\ api' = [api EXCEPT ![a] = [pc |-> "next", batch |-> @.batch \ {e}]]
         /\ UNCHANGED locks

\* An exception out of the catch block: the outer catch and the finally block.
ApiAbandon(a) ==
    /\ api' = [api EXCEPT ![a] = ApiIdle]
    /\ locks' = locks \ {a}

\* markProcessed: UPDATE ... WHERE id, after waiting for the row's lock. Its
\* failure is caught like a handler's.
ApiMarkProcessed(a) ==
    \E e \in api[a].batch :
        /\ api[a].pc = "returned"
        /\ IsFirst(e, api[a].batch)
        /\ e \notin Locked
        /\ status' = [status EXCEPT ![e] = "COMPLETED"]
        /\ ApiAdvance(a, e)
        /\ UNCHANGED <<retry, dlq, tx, historyVars, faults>>

\* Its UPDATE fails, or takes effect and its answer is lost.
ApiMarkProcessedError(a) ==
    /\ api[a].pc = "returned"
    /\ Fault
    /\ api' = [api EXCEPT ![a].pc = "threw"]
    /\ UNCHANGED <<rowVars, locks, tx, historyVars>>

ApiMarkProcessedUnheard(a) ==
    \E e \in api[a].batch :
        /\ api[a].pc = "returned"
        /\ IsFirst(e, api[a].batch)
        /\ e \notin Locked
        /\ Fault
        /\ status' = [status EXCEPT ![e] = "COMPLETED"]
        /\ api' = [api EXCEPT ![a].pc = "threw"]
        /\ UNCHANGED <<retry, dlq, locks, tx, historyVars>>

\* markFailed compares the incremented retry_count.
ApiLastRetryTooLate(e) == retry[e] + 1 > MaxRetry
ApiLastRetry(e) == retry[e] + 1 >= MaxRetry

\* FAILED and one more retry, after waiting for the row's lock.
ApiMarkFailed(a) ==
    \E e \in api[a].batch :
        /\ api[a].pc = "threw"
        /\ IsFirst(e, api[a].batch)
        /\ e \notin Locked
        /\ ~ApiLastRetry(e)
        /\ status' = [status EXCEPT ![e] = "FAILED"]
        /\ retry' = [retry EXCEPT ![e] = @ + 1]
        /\ ApiAdvance(a, e)
        /\ UNCHANGED <<dlq, tx, historyVars, faults>>

\* markFailed at the last retry calls moveToDlq, whose INSERT names columns that
\* dlq_events does not have: the transaction rolls back, the exception leaves
\* the loop, and the rest of the batch is abandoned with it.
ApiMarkFailedThrows(a) ==
    \E e \in api[a].batch :
        /\ api[a].pc = "threw"
        /\ IsFirst(e, api[a].batch)
        /\ e \notin Locked
        /\ ApiLastRetry(e)
        /\ ApiAbandon(a)
        /\ UNCHANGED <<rowVars, tx, historyVars, faults>>

\* Its transaction fails, or its COMMIT takes effect and the answer is lost.
ApiMarkFailedError(a) ==
    /\ api[a].pc = "threw"
    /\ Fault
    /\ ApiAbandon(a)
    /\ UNCHANGED <<rowVars, tx, historyVars>>

ApiMarkFailedUnheard(a) ==
    \E e \in api[a].batch :
        /\ api[a].pc = "threw"
        /\ IsFirst(e, api[a].batch)
        /\ e \notin Locked
        /\ ~ApiLastRetry(e)
        /\ Fault
        /\ status' = [status EXCEPT ![e] = "FAILED"]
        /\ retry' = [retry EXCEPT ![e] = @ + 1]
        /\ ApiAbandon(a)
        /\ UNCHANGED <<dlq, tx, historyVars>>

\* The process dies and is restarted: a lock in its memory is gone, a lock in
\* Redis stays until its time to live is over.
ApiCrash(a) ==
    /\ api[a].pc # "idle"
    /\ Fault
    /\ api' = [api EXCEPT ![a] = ApiIdle]
    /\ locks' = IF RedisEnabled THEN locks ELSE locks \ {a}
    /\ UNCHANGED <<rowVars, tx, historyVars>>

\* The lock's 30 s are over, whether or not its holder is done.
LockExpire(a) ==
    /\ a \in locks
    /\ locks' = locks \ {a}
    /\ UNCHANGED <<rowVars, api, tx, historyVars, faults>>

-----------------------------------------------------------------------------
(* OutboxPollerService.pollOutbox.                                         *)

\* The updates one event of the batch gets inside the transaction t.
Completing(t, e) == [t EXCEPT !.todo = @ \ {e}, !.done = @ \cup {e}]
Retrying(t, e) == [t EXCEPT !.todo = @ \ {e}, !.again = @ \cup {e}]
Burying(t, e) == [t EXCEPT !.todo = @ \ {e}, !.dead = @ \cup {e}]

WorkerFetch(w) ==
    /\ tx[w] = NoTx
    /\ Oldest(Fetchable) # {}
    /\ tx' = [tx EXCEPT ![w].todo = Oldest(Fetchable)]
    /\ UNCHANGED <<rowVars, api, locks, historyVars, faults>>

\* processEvent returns; its effects are committed at once, the COMPLETED only
\* with the batch. A type without a case is logged and completed as well.
WorkerProcess(w) ==
    \E e \in tx[w].todo :
        /\ IsFirst(e, tx[w].todo)
        /\ tx' = [tx EXCEPT ![w] = Completing(tx[w], e)]
        /\ tasks' = IF e \in WorkerEvents THEN Bump(tasks, e) ELSE tasks
        /\ UNCHANGED <<rowVars, api, locks, handled, unrecorded, faults>>

\* The two handlers that insert a notification return when its table or one of
\* its columns is missing: the event is completed without its effects.
WorkerSkip(w) ==
    \E e \in tx[w].todo \cap NoticeEvents :
        /\ IsFirst(e, tx[w].todo)
        /\ tx' = [tx EXCEPT ![w] = Completing(tx[w], e)]
        /\ UNCHANGED <<rowVars, api, locks, historyVars, faults>>

\* newRetryCount >= 5, from the copy of the row, which the lock keeps current.
WorkerLastRetry(e) == retry[e] + 1 >= MaxRetry

WorkerRetrySwallowed(w) ==
    \E e \in tx[w].todo \cap WorkerEvents :
        /\ IsFirst(e, tx[w].todo)
        /\ ~WorkerLastRetry(e)
        /\ tx' = [tx EXCEPT ![w] = Completing(tx[w], e)]
        /\ UNCHANGED <<rowVars, api, locks, historyVars, faults>>

\* The one INSERT of a handler throws: it failed, or it was applied (it is not
\* part of the transaction) and only its answer was lost.
InsertThrows(e) ==
    \/ UNCHANGED <<tasks, unrecorded, faults>>
    \/ /\ Fault
       /\ tasks' = Bump(tasks, e)
       /\ unrecorded' = [unrecorded EXCEPT ![e] = @ + 1]

\* processEvent throws: retry later, or dead-letter.
WorkerRetry(w) ==
    \E e \in tx[w].todo \cap WorkerEvents :
        /\ IsFirst(e, tx[w].todo)
        /\ ~WorkerLastRetry(e)
        /\ tx' = [tx EXCEPT ![w] = Retrying(tx[w], e)]
        /\ InsertThrows(e)
        /\ UNCHANGED <<rowVars, api, locks, handled>>

WorkerDeadLetter(w) ==
    \E e \in tx[w].todo \cap WorkerEvents :
        /\ IsFirst(e, tx[w].todo)
        /\ WorkerLastRetry(e)
        /\ tx' = [tx EXCEPT ![w] = Burying(tx[w], e)]
        /\ InsertThrows(e)
        /\ UNCHANGED <<rowVars, api, locks, handled>>

\* What the transaction wrote of each row.
NewStatusLeftProcessing(w, e) ==
    CASE e \in tx[w].done -> "PROCESSING"
      [] e \in tx[w].dead -> "FAILED"
      [] e \in tx[w].again -> "PENDING"
      [] OTHER -> status[e]
NewStatusDeadStaysPending(w, e) ==
    CASE e \in tx[w].done -> "COMPLETED"
      [] e \in tx[w].dead \cup tx[w].again -> "PENDING"
      [] OTHER -> status[e]
NewStatus(w, e) ==
    CASE e \in tx[w].done -> "COMPLETED"
      [] e \in tx[w].dead -> "FAILED"
      [] e \in tx[w].again -> "PENDING"
      [] OTHER -> status[e]

NewRetryForgotten(w, e) == retry[e]
NewRetry(w, e) == IF e \in tx[w].again THEN retry[e] + 1 ELSE retry[e]

NewDlq(w, e) == IF e \in tx[w].dead THEN dlq[e] + 1 ELSE dlq[e]

\* COMMIT: the batch's updates and dead letters become visible, its locks end.
WorkerCommit(w) ==
    /\ tx[w] # NoTx
    /\ tx[w].todo = {}
    /\ status' = [e \in Events |-> NewStatus(w, e)]
    /\ retry' = [e \in Events |-> NewRetry(w, e)]
    /\ dlq' = [e \in Events |-> NewDlq(w, e)]
    /\ tx' = [tx EXCEPT ![w] = NoTx]
    /\ UNCHANGED <<api, locks, historyVars, faults>>

\* ROLLBACK on a database error, or the process dies and onModuleInit finds no
\* row in PROCESSING to recover, since none was ever committed. The effects of
\* the events already processed stay.
WorkerRollback(w) ==
    /\ tx[w] # NoTx
    /\ Fault
    /\ unrecorded' = [e \in Events |-> IF e \in tx[w].done THEN unrecorded[e] + 1
                                       ELSE unrecorded[e]]
    /\ tx' = [tx EXCEPT ![w] = NoTx]
    /\ UNCHANGED <<rowVars, api, locks, handled, tasks>>

-----------------------------------------------------------------------------
ApiStep(a) ==
    \/ ApiFetch(a) \/ ApiSkip(a) \/ ApiHandle(a) \/ ApiThrow(a)
    \/ ApiMarkProcessed(a) \/ ApiMarkFailed(a) \/ ApiMarkFailedThrows(a)

ApiFault(a) ==
    \/ ApiMarkProcessedError(a) \/ ApiMarkProcessedUnheard(a)
    \/ ApiMarkFailedError(a) \/ ApiMarkFailedUnheard(a) \/ ApiCrash(a)

WorkerStep(w) ==
    \/ WorkerFetch(w) \/ WorkerProcess(w) \/ WorkerSkip(w)
    \/ WorkerRetry(w) \/ WorkerDeadLetter(w) \/ WorkerCommit(w)

Next ==
    \/ \E e \in Events : Publish(e)
    \/ \E a \in Apis : ApiStep(a) \/ ApiFault(a) \/ LockExpire(a)
    \/ \E w \in Workers : WorkerStep(w) \/ WorkerRollback(w)

Spec == Init /\ [][Next]_vars

\* The crons keep firing and every awaited call returns; publishing, faults and
\* the outcome of a handler are left open.
Fairness ==
    /\ \A a \in Apis : WF_vars(ApiStep(a)) /\ WF_vars(LockExpire(a))
    /\ \A w \in Workers : WF_vars(WorkerStep(w))

FairSpec == Spec /\ Fairness
-----------------------------------------------------------------------------
(* Properties.                                                             *)

\* Every variable has its type; a transaction is on rows of the table.
TypeOK ==
    /\ status \in [Events -> Statuses]
    /\ retry \in [Events -> Nat]
    /\ dlq \in [Events -> Nat]
    /\ api \in [Apis -> [pc : ApiStates, batch : SUBSET Events]]
    /\ locks \in SUBSET Apis
    /\ tx \in [Workers -> Tx]
    /\ handled \in [Events -> Nat]
    /\ tasks \in [Events -> Nat]
    /\ unrecorded \in [Events -> Nat]
    /\ faults \in Nat

\* The rows of an open pollOutbox transaction stay as its SELECT read them: no
\* other worker has them and the late UPDATE of an API process waits for them.
TxRowsArePending ==
    \A w \in Workers : \A e \in TxRows(w) :
        /\ status[e] = "PENDING"
        /\ \A v \in Workers \ {w} : e \notin TxRows(v)

\* No interleaving of the two consumers puts a settled event back in the queue:
\* the worker's retry never overwrites what an API process wrote meanwhile.
NoResurrection ==
    [][\A e \in Events : status[e] \in Settled => status'[e] \in Settled]_vars

\* An event is dead-lettered once at most, and is never PENDING again after.
DeadLetteredOnce ==
    \A e \in Events : dlq[e] <= 1 /\ (dlq[e] = 1 => status[e] \in Settled)

\* pollOutbox creates the agent task of an event once, and once more for each time
\* nothing was committed of an earlier creation: its batch was rolled back, or the
\* handler's INSERT took effect and its answer was lost.
DuplicateTaskOnlyIfUnrecorded ==
    \A e \in Events : tasks[e] <= 1 + unrecorded[e]

\* No committed retry_count reaches the limit: the worker leaves the last one
\* out when it dead-letters, the API rolls it back.
RetryBelowLimit == \A e \in Events : retry[e] < MaxRetry

\* An event both consumers have a handler for is not COMPLETED before one of
\* them applied its effects.
SharedEventNotLost ==
    \A e \in ApiEvents \cap WorkerEvents :
        status[e] = "COMPLETED" => handled[e] + tasks[e] > 0

\* Why those hold: an event is in one part of one transaction, the worker keeps
\* a last failure out of retry_count, and of the effects of an event that is not
\* settled nor about to be nothing was recorded.
PartsDisjoint(t) ==
    /\ t.todo \cap (t.done \cup t.again \cup t.dead) = {}
    /\ t.done \cap (t.again \cup t.dead) = {}
    /\ t.again \cap t.dead = {}
Counted(e) == status[e] \in Settled \/ \E w \in Workers : e \in tx[w].done
TxInv == TxRowsArePending /\ \A w \in Workers : PartsDisjoint(tx[w])
RetryInv ==
    RetryBelowLimit /\ \A w \in Workers : \A e \in tx[w].again : retry[e] + 1 < MaxRetry
TasksInv ==
    \A e \in Events : tasks[e] <= unrecorded[e] + (IF Counted(e) THEN 1 ELSE 0)
OutboxInv == TypeOK /\ TxInv /\ RetryInv /\ DeadLetteredOnce /\ TasksInv

\* The at-least-once delivery the documents promise: a COMPLETED event has been
\* through every handler registered for its type. (A notification without its
\* table is skipped with a warning, so no promise is made of it.)
AtLeastOnce ==
    \A e \in Events : status[e] = "COMPLETED" =>
        /\ e \in ApiEvents => handled[e] > 0
        /\ e \in WorkerEvents \ NoticeEvents => tasks[e] > 0

\* With no API process the poller is the at-least-once queue of EventQueue: an
\* event is dead there when it is FAILED and has a dead letter to show for it. A
\* FAILED event without one is lost, which no state of the queue is.
Standing(e) ==
    CASE status[e] = "none" -> "absent"
      [] status[e] = "PENDING" -> "queued"
      [] status[e] = "COMPLETED" -> "delivered"
      [] status[e] = "FAILED" /\ dlq[e] > 0 -> "dead"
      [] OTHER -> "lost"
Queue == INSTANCE EventQueue WITH
    Handled <- WorkerEvents \ NoticeEvents,
    state <- [e \in Events |-> Standing(e)],
    applied <- {e \in WorkerEvents : tasks[e] > 0}

\* Every step of pollOutbox is a step of that queue: no event leaves it before
\* its effects were applied or its dead letter is written, and none comes back
\* (true of the poller only).
ImplementsEventQueue == Queue!Spec

\* Every published event is eventually settled, whatever its handlers do.
Settles == \A e \in Events : status[e] = "PENDING" ~> status[e] \in Settled

\* A failed event is retried to success or dead-lettered, as documented.
FailedIsRetriedOrDeadLettered ==
    \A e \in Events :
        status[e] = "FAILED" ~> (status[e] = "COMPLETED" \/ dlq[e] > 0)
=============================================================================
