----------------------------- MODULE AgentTasks -----------------------------
(***************************************************************************)
(* The agent task queue: the table agent_tasks and the OrchestratorService *)
(* of every worker process. dispatchTasks holds one transaction over a     *)
(* batch of PENDING rows, starts an execution for each row it marks        *)
(* PROCESSING without waiting for it, and commits afterwards; executions   *)
(* write the row on connections of their own, by id and unguarded; crons   *)
(* of any process fail rows left in PROCESSING. Concurrency limits and     *)
(* circuit breakers are counters in the memory of each process.            *)
(* A row is abstracted to its status and retry_count. What governance and  *)
(* the merchant's subscription allow, whether a row is due, and what an    *)
(* agent returns are left open.                                            *)
(***************************************************************************)
EXTENDS Naturals, FiniteSets

CONSTANTS
    Tasks,          \* rows ever inserted, numbered in (priority, created_at) order
    Agents,         \* agent types
    AgentOf,        \* the agent type of each task
    Registered,     \* the agent types the orchestrator has an agent for
    Workers,        \* worker processes
    Limit,          \* concurrencyLimits of each agent type
    BatchSize,      \* LIMIT of the SELECT (10)
    MaxRetries,     \* maxRetries that mapRowToTask gives every task (3)
    Threshold,      \* circuitBreakerThreshold (5)
    Runs,           \* bound: names for the executions alive at one time
    MaxFaults,      \* bound: process deaths and database errors in a behaviour
    MaxCount        \* bound: where the count of cleaned rows saturates

ASSUME TasksAssumption == Tasks \subseteq Nat /\ IsFiniteSet(Tasks)
ASSUME AgentsAssumption ==
    /\ AgentOf \in [Tasks -> Agents]
    /\ Registered \subseteq Agents
    /\ Limit \in [Agents -> Nat \ {0}]
ASSUME RunsAssumption == IsFiniteSet(Runs)
ASSUME NumbersAssumption ==
    /\ BatchSize \in Nat
    /\ MaxRetries \in Nat \ {0}
    /\ Threshold \in Nat \ {0}
    /\ MaxFaults \in Nat
    /\ MaxCount \in Nat

VARIABLES
    status,     \* agent_tasks.status as committed; "none" before the INSERT
    retry,      \* agent_tasks.retry_count as committed
    disp,       \* per worker: the open transaction of dispatchTasks
    run,        \* executions alive: executeTask called and not yet returned
    active,     \* activeTasks, per worker and agent
    breaker,    \* failures of the circuit breaker, per worker and agent
    disturbed,  \* history: tasks that lost their row to someone while executed
    calls,      \* history: agent.execute calls since the INSERT or retryTask
    cleaned,    \* history: decrements of activeTasks by cleanupStaleTasks
    faults      \* process deaths and database errors so far

rowVars == <<status, retry>>
historyVars == <<disturbed, calls, cleaned>>
vars == <<status, retry, disp, run, active, breaker, disturbed, calls, cleaned, faults>>

-----------------------------------------------------------------------------
Statuses == {"none", "PENDING", "PROCESSING", "COMPLETED", "FAILED", "CANCELLED"}

\* A dispatch: the rows its SELECT locked, those still to look at, those it will
\* commit as PROCESSING and those it refuses, and the activeTasks value it read
\* before it waits for the UPDATE of the row ("mark").
Dispatch == [pc : {"idle", "look", "mark"}, batch : SUBSET Tasks, todo : SUBSET Tasks,
             started : SUBSET Tasks, dropped : SUBSET Tasks, current : Nat]
NoDispatch == [pc |-> "idle", batch |-> {}, todo |-> {},
               started |-> {}, dropped |-> {}, current |-> 0]
Over(rows) == [pc |-> "look", batch |-> rows, todo |-> rows,
               started |-> {}, dropped |-> {}, current |-> 0]

\* What becomes of a row of the batch, and the dispatch that waits to start it.
Skipping(d, t) == [d EXCEPT !.todo = @ \ {t}]
Dropping(d, t) == [d EXCEPT !.todo = @ \ {t}, !.dropped = @ \cup {t}]
Starting(d, t) == [d EXCEPT !.pc = "look", !.todo = @ \ {t}, !.started = @ \cup {t}]
Marking(d, n) == [d EXCEPT !.pc = "mark", !.current = n]

\* An execution: about to mark its row, in agent.execute, or in the catch block;
\* retry is the copy of retry_count in its task object.
Execution == [pc : {"starting", "running", "failed"}, worker : Workers,
              task : Tasks, retry : Nat]
NoRun == [pc |-> "none"]
Live(r) == run[r] # NoRun
RunsOf(w, a) ==
    {r \in Runs : Live(r) /\ run[r].worker = w /\ AgentOf[run[r].task] = a}

LockedNothing == {}
Locked == UNION {disp[w].batch : w \in Workers}
Fetchable == {t \in Tasks : status[t] = "PENDING"} \ Locked
Oldest(S) == {t \in S : Cardinality({u \in S : u < t}) < BatchSize}
IsFirst(t, S) == t \in S /\ \A u \in S : t <= u

Fault == faults < MaxFaults /\ faults' = faults + 1
Saturated(n) == IF n < MaxCount THEN n ELSE MaxCount
LessUnclamped(n, k) == n - k
Less(n, k) == IF n > k THEN n - k ELSE 0

-----------------------------------------------------------------------------
Init ==
    /\ status = [t \in Tasks |-> "none"]
    /\ retry = [t \in Tasks |-> 0]
    /\ disp = [w \in Workers |-> NoDispatch]
    /\ run = [r \in Runs |-> NoRun]
    /\ active = [w \in Workers |-> [a \in Agents |-> 0]]
    /\ breaker = [w \in Workers |-> [a \in Agents |-> 0]]
    /\ disturbed = {}
    /\ calls = [t \in Tasks |-> 0]
    /\ cleaned = [w \in Workers |-> [a \in Agents |-> 0]]
    /\ faults = 0

\* scheduleTask, createBulkTasks and the INSERTs of the pollers and schedulers.
Create(t) ==
    /\ status[t] = "none"
    /\ status' = [status EXCEPT ![t] = "PENDING"]
    /\ UNCHANGED <<retry, disp, run, active, breaker, historyVars, faults>>

-----------------------------------------------------------------------------
(* dispatchTasks, one action per point where it awaits.                    *)

\* SELECT ... FOR UPDATE SKIP LOCKED over the rows that are due.
DispatchFetch(w) ==
    \E due \in SUBSET Fetchable \ {{}} :
        /\ disp[w].pc = "idle"
        /\ disp' = [disp EXCEPT ![w] = Over(Oldest(due))]
        /\ UNCHANGED <<rowVars, run, active, breaker, historyVars, faults>>

Looking(w, t) == disp[w].pc = "look" /\ IsFirst(t, disp[w].todo)
BreakerOpen(w, a) == breaker[w][a] >= Threshold

\* Trigger governance or the subscription (its row, its cached copy, or the free
\* plan when it cannot be read) says no, or the type has no agent.
DispatchDrop(w) ==
    \E t \in disp[w].todo :
        /\ Looking(w, t)
        /\ disp' = [disp EXCEPT ![w] = Dropping(disp[w], t)]
        /\ UNCHANGED <<rowVars, run, active, breaker, historyVars, faults>>

\* The agent's breaker is open or its limit reached: the row stays PENDING, and
\* locked until the batch commits.
DispatchSkip(w) ==
    \E t \in disp[w].todo :
        /\ Looking(w, t)
        /\ AgentOf[t] \in Registered
        /\ BreakerOpen(w, AgentOf[t]) \/ active[w][AgentOf[t]] >= Limit[AgentOf[t]]
        /\ disp' = [disp EXCEPT ![w] = Skipping(disp[w], t)]
        /\ UNCHANGED <<rowVars, run, active, breaker, historyVars, faults>>

DispatchMarkAtLimit(w) ==
    \E t \in disp[w].todo :
        /\ Looking(w, t)
        /\ AgentOf[t] \in Registered /\ ~BreakerOpen(w, AgentOf[t])
        /\ active[w][AgentOf[t]] <= Limit[AgentOf[t]]
        /\ disp' = [disp EXCEPT ![w] = Marking(disp[w], active[w][AgentOf[t]])]
        /\ UNCHANGED <<rowVars, run, active, breaker, historyVars, faults>>

\* Below the limit: currentActive is read, and the UPDATE of the row awaited.
DispatchMark(w) ==
    \E t \in disp[w].todo :
        /\ Looking(w, t)
        /\ AgentOf[t] \in Registered /\ ~BreakerOpen(w, AgentOf[t])
        /\ active[w][AgentOf[t]] < Limit[AgentOf[t]]
        /\ disp' = [disp EXCEPT ![w] = Marking(disp[w], active[w][AgentOf[t]])]
        /\ UNCHANGED <<rowVars, run, active, breaker, historyVars, faults>>

\* The UPDATE has returned: the counter becomes what was read plus one, and the
\* execution starts on its own, before the row is committed as PROCESSING.
DispatchStart(w) ==
    \E t \in disp[w].todo, r \in Runs :
        /\ disp[w].pc = "mark"
        /\ IsFirst(t, disp[w].todo)
        /\ ~Live(r)
        /\ active' = [active EXCEPT ![w][AgentOf[t]] = disp[w].current + 1]
        /\ run' = [run EXCEPT ![r] =
                      [pc |-> "starting", worker |-> w, task |-> t, retry |-> retry[t]]]
        /\ disp' = [disp EXCEPT ![w] = Starting(disp[w], t)]
        /\ UNCHANGED <<rowVars, breaker, historyVars, faults>>

\* The refused rows become CANCELLED, or FAILED for want of an agent.
DispatchCommit(w) ==
    \E failed \in SUBSET {t \in disp[w].dropped : AgentOf[t] \notin Registered} :
        /\ disp[w].pc = "look"
        /\ disp[w].todo = {}
        /\ status' = [t \in Tasks |-> CASE t \in disp[w].started -> "PROCESSING"
                                        [] t \in failed -> "FAILED"
                                        [] t \in disp[w].dropped \ failed -> "CANCELLED"
                                        [] OTHER -> status[t]]
        /\ disp' = [disp EXCEPT ![w] = NoDispatch]
        /\ UNCHANGED <<retry, run, active, breaker, historyVars, faults>>

\* A database error: ROLLBACK, while the executions already started go on.
DispatchAbort(w) ==
    /\ disp[w].pc # "idle"
    /\ Fault
    /\ disturbed' = disturbed \cup disp[w].started
    /\ disp' = [disp EXCEPT ![w] = NoDispatch]
    /\ UNCHANGED <<rowVars, run, active, breaker, calls, cleaned>>

\* circuitBreakerResetMs after the last failure an open breaker closes.
BreakerReset(w, a) ==
    /\ BreakerOpen(w, a)
    /\ breaker' = [breaker EXCEPT ![w][a] = 0]
    /\ UNCHANGED <<rowVars, disp, run, active, historyVars, faults>>

-----------------------------------------------------------------------------
(* executeTask. Its timeout was set and cleared before its first await, so *)
(* handleTaskTimeout never runs.                                           *)

\* The finally block: the execution is over, its slot given back. One step with
\* the UPDATE before it, which makes the row due again in two seconds at least.
End(r) ==
    /\ run' = [run EXCEPT ![r] = NoRun]
    /\ active' = [active EXCEPT ![run[r].worker][AgentOf[run[r].task]] =
                      Less(active[run[r].worker][AgentOf[run[r].task]], 1)]

\* The UPDATE to PROCESSING waits for the dispatcher's lock on the row, then
\* agent.execute is called, whatever the row has become.
ExecStart(r) ==
    /\ run[r].pc = "starting"
    /\ run[r].task \notin Locked
    /\ status' = [status EXCEPT ![run[r].task] = "PROCESSING"]
    /\ run' = [run EXCEPT ![r].pc = "running"]
    /\ calls' = [calls EXCEPT ![run[r].task] = IF @ > MaxRetries THEN @ ELSE @ + 1]
    /\ UNCHANGED <<retry, disp, active, breaker, disturbed, cleaned, faults>>

\* That UPDATE fails, or takes effect and its answer is lost.
ExecStartError(r) ==
    /\ run[r].pc = "starting"
    /\ Fault
    /\ run' = [run EXCEPT ![r].pc = "failed"]
    /\ UNCHANGED <<rowVars, disp, active, breaker, historyVars>>

ExecStartUnheard(r) ==
    /\ run[r].pc = "starting"
    /\ run[r].task \notin Locked
    /\ Fault
    /\ status' = [status EXCEPT ![run[r].task] = "PROCESSING"]
    /\ run' = [run EXCEPT ![r].pc = "failed"]
    /\ UNCHANGED <<retry, disp, active, breaker, historyVars>>

\* The agent succeeded and its result is stored: COMPLETED, by id.
ExecComplete(r) ==
    /\ run[r].pc = "running"
    /\ run[r].task \notin Locked
    /\ status' = [status EXCEPT ![run[r].task] = "COMPLETED"]
    /\ breaker' = [breaker EXCEPT ![run[r].worker][AgentOf[run[r].task]] = 0]
    /\ End(r)
    /\ UNCHANGED <<retry, disp, historyVars, faults>>

\* The agent threw or reported a failure, or its result could not be stored.
ExecFail(r) ==
    /\ run[r].pc = "running"
    /\ run' = [run EXCEPT ![r].pc = "failed"]
    /\ UNCHANGED <<rowVars, disp, active, breaker, historyVars, faults>>

\* The UPDATE to COMPLETED takes effect, but its answer is lost: the catch block
\* will write over it.
ExecCompleteUnheard(r) ==
    /\ run[r].pc = "running"
    /\ run[r].task \notin Locked
    /\ Fault
    /\ status' = [status EXCEPT ![run[r].task] = "COMPLETED"]
    /\ run' = [run EXCEPT ![r].pc = "failed"]
    /\ UNCHANGED <<retry, disp, active, breaker, historyVars>>

ExhaustedTooLate(r) == run[r].retry + 1 > MaxRetries
\* newRetryCount is computed from the copy the execution started with.
Exhausted(r) == run[r].retry + 1 >= MaxRetries

ExecRetry(r) ==
    /\ run[r].pc = "failed"
    /\ run[r].task \notin Locked
    /\ ~Exhausted(r)
    /\ status' = [status EXCEPT ![run[r].task] = "PENDING"]
    /\ retry' = [retry EXCEPT ![run[r].task] = run[r].retry + 1]
    /\ End(r)
    /\ UNCHANGED <<disp, breaker, historyVars, faults>>

\* The last attempt leaves retry_count as it is and counts for the breaker.
ExecExhaust(r) ==
    /\ run[r].pc = "failed"
    /\ run[r].task \notin Locked
    /\ Exhausted(r)
    /\ status' = [status EXCEPT ![run[r].task] = "FAILED"]
    /\ breaker' = [breaker EXCEPT ![run[r].worker][AgentOf[run[r].task]] =
                       IF @ < Threshold THEN @ + 1 ELSE @]
    /\ End(r)
    /\ UNCHANGED <<retry, disp, historyVars, faults>>

\* Its answer is lost: the breaker does not count it. (A retry leaves the same
\* state whether its answer arrives or not.)
ExecExhaustUnheard(r) ==
    /\ run[r].pc = "failed"
    /\ run[r].task \notin Locked
    /\ Exhausted(r)
    /\ Fault
    /\ status' = [status EXCEPT ![run[r].task] = "FAILED"]
    /\ End(r)
    /\ UNCHANGED <<retry, disp, breaker, historyVars>>

\* The UPDATE of the catch block fails as well: the row is left as it is.
ExecError(r) ==
    /\ run[r].pc = "failed"
    /\ Fault
    /\ End(r)
    /\ UNCHANGED <<rowVars, disp, breaker, historyVars>>

-----------------------------------------------------------------------------
(* The crons and calls of any worker process.                              *)

RowsOf(a, S) == Cardinality({t \in S : AgentOf[t] = a})

CleanupStaleExecutedOnly(w, stale) ==
    /\ stale # {}
    /\ \A t \in stale : /\ status[t] = "PROCESSING" /\ t \notin Locked
                        /\ active[w][AgentOf[t]] > 0
    /\ status' = [t \in Tasks |-> IF t \in stale THEN "FAILED" ELSE status[t]]
    /\ UNCHANGED <<retry, disp, run, active, breaker, historyVars, faults>>

\* cleanupStaleTasks: rows 10 minutes in PROCESSING, executed or orphaned, fail;
\* the counters decremented are those of the process that runs the cron.
CleanupStale(w, stale) ==
    /\ stale # {}
    /\ \A t \in stale : status[t] = "PROCESSING" /\ t \notin Locked
    /\ status' = [t \in Tasks |-> IF t \in stale THEN "FAILED" ELSE status[t]]
    /\ active' = [active EXCEPT ![w] =
                      [a \in Agents |-> Less(active[w][a], RowsOf(a, stale))]]
    /\ cleaned' = [cleaned EXCEPT ![w] =
                      [a \in Agents |-> Saturated(cleaned[w][a] + RowsOf(a, stale))]]
    /\ UNCHANGED <<retry, disp, run, breaker, disturbed, calls, faults>>

\* The rows fail, but the answer that names them is lost: no counter changes.
CleanupStaleUnheard(stale) ==
    /\ stale # {}
    /\ \A t \in stale : status[t] = "PROCESSING" /\ t \notin Locked
    /\ Fault
    /\ status' = [t \in Tasks |-> IF t \in stale THEN "FAILED" ELSE status[t]]
    /\ UNCHANGED <<retry, disp, run, active, breaker, historyVars>>

CancelTaskExecuted(t) ==
    /\ status[t] \in {"PENDING", "PROCESSING"}
    /\ t \notin Locked
    /\ status' = [status EXCEPT ![t] = "CANCELLED"]
    /\ UNCHANGED <<retry, disp, run, active, breaker, historyVars, faults>>

\* cancelTask waits for a lock on the row and then looks at its status.
CancelTask(t) ==
    /\ t \in Fetchable
    /\ status' = [status EXCEPT ![t] = "CANCELLED"]
    /\ UNCHANGED <<retry, disp, run, active, breaker, historyVars, faults>>

\* retryTask: a task may be executed while its retry is dispatched.
RetryTask(t) ==
    /\ status[t] = "FAILED"
    /\ t \notin Locked
    /\ status' = [status EXCEPT ![t] = "PENDING"]
    /\ retry' = [retry EXCEPT ![t] = 0]
    /\ calls' = [calls EXCEPT ![t] = 0]
    /\ disturbed' = IF \E r \in Runs : Live(r) /\ run[r].task = t
                    THEN disturbed \cup {t} ELSE disturbed
    /\ UNCHANGED <<disp, run, active, breaker, cleaned, faults>>

\* The process dies, or onModuleDestroy stops waiting after 30 s.
Crash(w) ==
    /\ Fault
    /\ run' = [r \in Runs |-> IF Live(r) /\ run[r].worker = w THEN NoRun ELSE run[r]]
    /\ disp' = [disp EXCEPT ![w] = NoDispatch]
    /\ active' = [active EXCEPT ![w] = [a \in Agents |-> 0]]
    /\ breaker' = [breaker EXCEPT ![w] = [a \in Agents |-> 0]]
    /\ UNCHANGED <<rowVars, historyVars>>

-----------------------------------------------------------------------------
DispatchStep(w) ==
    \/ DispatchFetch(w) \/ DispatchDrop(w) \/ DispatchSkip(w)
    \/ DispatchMark(w) \/ DispatchStart(w) \/ DispatchCommit(w)

ExecStep(r) ==
    \/ ExecStart(r) \/ ExecComplete(r) \/ ExecFail(r)
    \/ ExecRetry(r) \/ ExecExhaust(r)

ExecFault(r) ==
    \/ ExecStartError(r) \/ ExecStartUnheard(r) \/ ExecCompleteUnheard(r)
    \/ ExecExhaustUnheard(r) \/ ExecError(r)

Next ==
    \/ \E t \in Tasks : Create(t) \/ CancelTask(t) \/ RetryTask(t)
    \/ \E w \in Workers : DispatchStep(w) \/ DispatchAbort(w) \/ Crash(w)
    \/ \E w \in Workers, a \in Agents : BreakerReset(w, a)
    \/ \E w \in Workers, stale \in SUBSET Tasks :
           CleanupStale(w, stale) \/ CleanupStaleUnheard(stale)
    \/ \E r \in Runs : ExecStep(r) \/ ExecFault(r)

Spec == Init /\ [][Next]_vars

\* Timers keep firing, every awaited call returns, and a row nobody updates any
\* more comes of the age that cleanupStaleTasks looks for.
Fairness ==
    /\ \A w \in Workers : WF_vars(DispatchStep(w))
    /\ \A r \in Runs : WF_vars(ExecStep(r))
    /\ \A t \in Tasks : WF_vars(\E w \in Workers : CleanupStale(w, {t}))

FairSpec == Spec /\ Fairness
-----------------------------------------------------------------------------
(* Properties.                                                             *)

\* Every variable has its type.
TypeOK ==
    /\ status \in [Tasks -> Statuses]
    /\ retry \in [Tasks -> Nat]
    /\ disp \in [Workers -> Dispatch]
    /\ run \in [Runs -> Execution \cup {NoRun}]
    /\ active \in [Workers -> [Agents -> Nat]]
    /\ breaker \in [Workers -> [Agents -> Nat]]
    /\ disturbed \in SUBSET Tasks
    /\ calls \in [Tasks -> Nat]
    /\ cleaned \in [Workers -> [Agents -> Nat]]
    /\ faults \in Nat

\* A task is executed once at a time over all processes, unless its row was
\* taken from an execution: by a batch rolled back after it had started it, or
\* by retryTask after cleanupStaleTasks had failed it.
OneExecutionPerTask ==
    \A r, s \in Runs :
        Live(r) /\ Live(s) /\ r # s /\ run[r].task = run[s].task
            => run[r].task \in disturbed

\* CANCELLED is final, and COMPLETED for all but the execution that wrote it and
\* did not hear so: no late UPDATE of another one, no cron and no dispatch revives
\* such a task, again unless its row was taken.
Unheard(r, t) ==
    run[r].pc = "failed" /\ run[r].task = t /\ run'[r] = NoRun
FinalStatusStays ==
    [][\A t \in Tasks \ disturbed :
          status[t] \in {"COMPLETED", "CANCELLED"} /\ status'[t] # status[t] =>
              status[t] = "COMPLETED" /\ \E r \in Runs : Unheard(r, t)]_vars

\* Where a task is for those who work on the queue: held by its execution, from
\* before the dispatch commits until it has written the row; stuck when an execution
\* has ended without writing the row.
Resting(row) ==
    CASE row = "none" -> "absent"
      [] row = "PENDING" -> "waiting"
      [] row = "PROCESSING" -> "stuck"
      [] row \in {"COMPLETED", "CANCELLED"} -> "done"
      [] row = "FAILED" -> "dead"
Executes(r, t) == Live(r) /\ run[r].task = t
Standing(t) ==
    IF t \in disturbed THEN "loose"
    ELSE IF \E r \in Runs : Executes(r, t) THEN "held"
    ELSE IF \E w \in Workers : t \in disp[w].started THEN "stuck"
    ELSE Resting(status[t])
Holders(t) == IF t \in disturbed THEN {} ELSE {r \in Runs : Executes(r, t)}
Queue == INSTANCE WorkQueue WITH
    Items <- Tasks,
    Owners <- Runs,
    state <- [t \in Tasks |-> Standing(t)],
    owners <- [t \in Tasks |-> Holders(t)]

\* Every step of the dispatches, executions and crons is a step of the work queue:
\* a task has one execution, which alone completes it; a COMPLETED or CANCELLED
\* task that nobody executes stays so; a stale task that is still executed is
\* revived by nobody but its execution; but for tasks whose row was taken.
ImplementsWorkQueue == Queue!Spec

\* No committed retry_count reaches maxRetries, so processDeadLetterQueue, which
\* selects FAILED rows with retry_count >= 3, finds none.
RetryBelowMax == \A t \in Tasks : retry[t] < MaxRetries

\* Between two calls of retryTask a task calls its agent maxRetries times at
\* most, through failures, stale cleanups, crashes and redispatches.
CallsBounded ==
    \A t \in Tasks \ disturbed : calls[t] <= MaxRetries

\* A process executes more tasks of an agent than its limit only by as many as
\* cleanupStaleTasks subtracted from its counter.
ExcessOnlyFromCleanup ==
    \A w \in Workers, a \in Agents :
        cleaned[w][a] < MaxCount
            => Cardinality(RunsOf(w, a)) <= Limit[a] + cleaned[w][a]

\* A row left in PROCESSING by a dead process or a failed UPDATE leaves it.
OrphanRecovered ==
    \A t \in Tasks : status[t] = "PROCESSING" ~> status[t] # "PROCESSING"

\* activeTasks counts executions: the counter of an agent is never above the
\* number of its executions, else the agent has lost a slot for good.
ActiveCountsExecutions ==
    \A w \in Workers, a \in Agents : active[w][a] <= Cardinality(RunsOf(w, a))

\* Why those hold: a locked row is PENDING and locked by one dispatch, which
\* starts or drops it once.
WellFormed(d) ==
    /\ d.todo \cup d.started \cup d.dropped \subseteq d.batch
    /\ d.todo \cap (d.started \cup d.dropped) = {}
    /\ d.started \cap d.dropped = {}
    /\ d.pc = "idle" => d.batch = {}
DispatchInv ==
    /\ \A w \in Workers : WellFormed(disp[w])
    /\ \A w \in Workers : \A t \in disp[w].batch : status[t] = "PENDING"
    /\ \A w, v \in Workers : w # v => disp[w].batch \cap disp[v].batch = {}

\* An execution's row, as long as nobody took it, is waiting for the commit of
\* the dispatch that started it, or in PROCESSING, or failed as stale, or completed
\* without the execution's having heard of it.
ExecutionInv ==
    \A r \in Runs : Live(r) /\ run[r].task \notin disturbed =>
        \/ run[r].task \in disp[run[r].worker].started
        \/ /\ run[r].task \notin Locked
           /\ \/ status[run[r].task] \in {"PROCESSING", "FAILED"}
              \/ status[run[r].task] = "COMPLETED" /\ run[r].pc = "failed"

\* A call of the agent is paid for by a retry, the last one by leaving PENDING.
CallsInv ==
    \A t \in Tasks \ disturbed :
        /\ calls[t] <= retry[t] + 1
        /\ status[t] \in {"none", "PENDING"} => calls[t] <= retry[t]
        /\ \A r \in Runs : Live(r) /\ run[r].task = t =>
              /\ run[r].retry = retry[t]
              /\ run[r].pc = "starting" => calls[t] <= retry[t]

\* No execution is missing from the counter of its agent, nor from the copy of
\* it that a dispatch is about to add one to.
LimitInv ==
    \A w \in Workers, a \in Agents :
        /\ active[w][a] <= Limit[a]
        /\ cleaned[w][a] < MaxCount
              => Cardinality(RunsOf(w, a)) <= active[w][a] + cleaned[w][a]
        /\ \A t \in Tasks :
              disp[w].pc = "mark" /\ IsFirst(t, disp[w].todo) /\ AgentOf[t] = a =>
                  /\ disp[w].current < Limit[a]
                  /\ cleaned[w][a] < MaxCount
                        => Cardinality(RunsOf(w, a)) <= disp[w].current + cleaned[w][a]

AgentTasksInv ==
    /\ TypeOK /\ DispatchInv /\ ExecutionInv /\ OneExecutionPerTask /\ RetryBelowMax
    /\ CallsInv
=============================================================================
