----------------------------- MODULE WorkerPool -----------------------------
(***************************************************************************)
(* The connection pool of one worker process, and who waits for whom in    *)
(* it:                                                                     *)
(*   - dispatchTasks holds a connection, and row locks, for a whole batch, *)
(*     and asks for a second one to read a merchant's entitlements, which  *)
(*     it caches for five minutes;                                         *)
(*   - the executions it starts take a connection each and then wait for   *)
(*     the row locks of the very dispatch that started them;               *)
(*   - pollOutbox holds a connection for a batch and asks for another one  *)
(*     for every agent task it inserts.                                    *)
(* What ends a wait is connectionTimeoutMillis.  The retries, limits and   *)
(* database errors of the tasks are in AgentTasks.                         *)
(***************************************************************************)
EXTENDS Naturals, Sequences, FiniteSets

CONSTANTS
    Tasks,          \* rows of agent_tasks, of paid agents or features, that pass
                    \* trigger governance and have an agent
    Merchants,      \* merchants with tasks
    MerchantOf,     \* agent_tasks.merchant_id; a value not in Merchants for NULL
    Max,            \* DATABASE_MAX_CONNECTIONS (10)
    BatchSize,      \* LIMIT of dispatchTasks (10)
    PollBatch,      \* bound: the agent tasks one pollOutbox batch inserts
    MaxChanges      \* bound: changes of plans in a behaviour

ASSUME TasksAssumption == IsFiniteSet(Tasks)
ASSUME SizesAssumption ==
    /\ Max \in Nat \ {0}
    /\ BatchSize \in Nat \ {0}
    /\ PollBatch \in Nat
    /\ MaxChanges \in Nat

VARIABLES
    held,       \* who holds a connection
    queue,      \* who waits for one, in the order they asked
    disp,       \* dispatchTasks: where it is, and its batch
    exec,       \* per task: where its execution is
    poll,       \* pollOutbox: where it is, and what its batch has left to insert
    row,        \* agent_tasks.status as committed; "none" before the INSERT
    plan,       \* merchants whose row enables the agent and feature of their tasks
    cache,      \* merchantSubscriptions: the unexpired entries of the process
    misread,    \* history: merchants whose last read failed, or is out of date
    changes     \* changes of plans so far

poolVars == <<held, queue>>
planVars == <<plan, cache, misread, changes>>
vars == <<held, queue, disp, exec, poll, row, plan, cache, misread, changes>>

-----------------------------------------------------------------------------
\* The users of the pool: the process's dispatcher and its read of a merchant,
\* the poller and its INSERT, and one execution per task.
OwnUsers == {"dispatch", "read", "poll", "insert"}
Users == OwnUsers \cup Tasks
ASSUME UsersAssumption == Tasks \cap OwnUsers = {}

Statuses == {"none", "PENDING", "PROCESSING", "COMPLETED", "FAILED", "CANCELLED"}
Answers == {"none", "on", "off"}

\* dispatchTasks is idle, waits for its connection, is about to take the next
\* row, waits for the merchant of a row, or has its answer.
Dispatch == [pc : {"idle", "connect", "next", "reading", "decide"},
             batch : SUBSET Tasks, todo : SUBSET Tasks, started : SUBSET Tasks,
             refused : SUBSET Tasks, task : SUBSET Tasks, answer : Answers]
NoDispatch == [pc |-> "idle", batch |-> {}, todo |-> {}, started |-> {},
               refused |-> {}, task |-> {}, answer |-> "none"]
Over(rows) == [NoDispatch EXCEPT !.pc = "next", !.batch = rows, !.todo = rows]

\* An execution waits for its UPDATE to PROCESSING, a query of its agent, the
\* INSERT of the result, the UPDATE to COMPLETED or the one of the catch block;
\* without a connection it is in agent.execute, between the last two statements,
\* or about to enter the catch block.
Waits == {"mark", "query", "insert", "store", "catch"}
ExecStates == Waits \cup {"none", "agent", "inserted", "failed"}

PollIdle == [pc |-> "idle", left |-> 0]

-----------------------------------------------------------------------------
(* pg.Pool: a free connection at once, else a place in its queue; a        *)
(* connection given back goes to the first in the queue; after             *)
(* connectionTimeoutMillis a request leaves the queue with an error.       *)

Waiting == {queue[i] : i \in DOMAIN queue}

Request(u) ==
    IF queue = <<>> /\ Cardinality(held) < Max
    THEN held' = held \cup {u} /\ UNCHANGED queue
    ELSE queue' = Append(queue, u) /\ UNCHANGED held

Return(u) ==
    IF queue = <<>>
    THEN held' = held \ {u} /\ UNCHANGED queue
    ELSE held' = (held \ {u}) \cup {Head(queue)} /\ queue' = Tail(queue)

TimesOutNever(i) == FALSE
TimesOut(i) == i \in DOMAIN queue

Withdraw(u) ==
    \E i \in DOMAIN queue :
        /\ queue[i] = u
        /\ TimesOut(i)
        /\ queue' = [j \in 1 .. Len(queue) - 1 |-> IF j < i THEN queue[j] ELSE queue[j + 1]]
        /\ UNCHANGED held

-----------------------------------------------------------------------------
Init ==
    /\ held = {}
    /\ queue = <<>>
    /\ disp = NoDispatch
    /\ exec = [t \in Tasks |-> "none"]
    /\ poll = PollIdle
    /\ row = [t \in Tasks |-> "none"]
    /\ plan \in SUBSET Merchants
    /\ cache = [m \in Merchants |-> "none"]
    /\ misread = {}
    /\ changes = 0

Create(t) ==
    /\ row[t] = "none"
    /\ row' = [row EXCEPT ![t] = "PENDING"]
    /\ UNCHANGED <<poolVars, disp, exec, poll, planVars>>

-----------------------------------------------------------------------------
(* Entitlements.                                                           *)

\* An API process changes merchants.enabled_agents or enabled_features; no one
\* calls invalidateMerchantSubscription.
PlanChanges(m) ==
    /\ changes < MaxChanges
    /\ changes' = changes + 1
    /\ plan' = IF m \in plan THEN plan \ {m} ELSE plan \cup {m}
    /\ misread' = misread \cup {m}
    /\ UNCHANGED <<poolVars, disp, exec, poll, row, cache>>

\* subscriptionCacheTTL has passed.
CacheExpires(m) ==
    /\ cache[m] # "none"
    /\ cache' = [cache EXCEPT ![m] = "none"]
    /\ UNCHANGED <<poolVars, disp, exec, poll, row, plan, misread, changes>>

\* What the process knows of a task's merchant; nothing is asked without one.
Known(t) == IF MerchantOf[t] \in Merchants THEN cache[MerchantOf[t]] ELSE "on"

Asking(t) == [disp EXCEPT !.pc = "reading", !.task = {t}]
Answered(answer) == [disp EXCEPT !.pc = "decide", !.answer = answer]

-----------------------------------------------------------------------------
(* dispatchTasks.                                                          *)

DispatchBegin ==
    /\ disp.pc = "idle"
    /\ disp' = [disp EXCEPT !.pc = "connect"]
    /\ Request("dispatch")
    /\ UNCHANGED <<exec, poll, row, planVars>>

DispatchConnectTimeout ==
    /\ disp.pc = "connect"
    /\ disp' = NoDispatch
    /\ Withdraw("dispatch")
    /\ UNCHANGED <<exec, poll, row, planVars>>

\* SELECT ... FOR UPDATE of rows that are due, in the order of their priority.
DispatchFetch ==
    \E rows \in SUBSET {t \in Tasks : row[t] = "PENDING"} \ {{}} :
        /\ disp.pc = "connect"
        /\ "dispatch" \in held
        /\ Cardinality(rows) <= BatchSize
        /\ disp' = Over(rows)
        /\ UNCHANGED <<poolVars, exec, poll, row, planVars>>

DispatchFetchNoneLeaks ==
    /\ disp.pc = "connect"
    /\ "dispatch" \in held
    /\ disp' = NoDispatch
    /\ UNCHANGED <<poolVars, exec, poll, row, planVars>>

\* No row is due: COMMIT, and the finally block releases the connection.
DispatchFetchNone ==
    /\ disp.pc = "connect"
    /\ "dispatch" \in held
    /\ disp' = NoDispatch
    /\ Return("dispatch")
    /\ UNCHANGED <<exec, poll, row, planVars>>

\* The cached entry answers, or no merchant is to be asked.
DispatchCached ==
    \E t \in disp.todo :
        /\ disp.pc = "next"
        /\ Known(t) # "none"
        /\ disp' = [Answered(Known(t)) EXCEPT !.task = {t}]
        /\ UNCHANGED <<poolVars, exec, poll, row, planVars>>

DispatchReadBehind ==
    \E t \in disp.todo :
        /\ disp.pc = "next"
        /\ Known(t) = "none"
        /\ disp' = [Answered("off") EXCEPT !.task = {t}]
        /\ UNCHANGED <<poolVars, exec, poll, row, planVars>>

\* getMerchantSubscription asks the pool for another connection.
DispatchRead ==
    \E t \in disp.todo :
        /\ disp.pc = "next"
        /\ Known(t) = "none"
        /\ disp' = Asking(t)
        /\ Request("read")
        /\ UNCHANGED <<exec, poll, row, planVars>>

DispatchReadDone ==
    \E t \in disp.task :
        LET m == MerchantOf[t]
            answer == IF m \in plan THEN "on" ELSE "off"
        IN  /\ disp.pc = "reading"
            /\ "read" \in held
            /\ disp' = Answered(answer)
            /\ cache' = [cache EXCEPT ![m] = answer]
            /\ misread' = misread \ {m}
            /\ Return("read")
            /\ UNCHANGED <<exec, poll, row, plan, changes>>

\* The read fails for want of a connection: the free plan, which has none of the
\* paid agents and features, is cached in its place.
DispatchReadTimeout ==
    \E t \in disp.task :
        /\ disp.pc = "reading"
        /\ disp' = Answered("off")
        /\ cache' = [cache EXCEPT ![MerchantOf[t]] = "off"]
        /\ misread' = misread \cup {MerchantOf[t]}
        /\ Withdraw("read")
        /\ UNCHANGED <<exec, poll, row, plan, changes>>

DispatchRefuse ==
    /\ disp.pc = "decide"
    /\ disp.answer = "off"
    /\ disp' = [disp EXCEPT !.pc = "next", !.todo = @ \ disp.task,
                            !.refused = @ \cup disp.task,
                            !.task = {}, !.answer = "none"]
    /\ UNCHANGED <<poolVars, exec, poll, row, planVars>>

\* The breaker is open, or the agent's concurrency limit is reached.
DispatchSkip ==
    \E t \in disp.todo :
        /\ \/ disp.pc = "next"
           \/ disp.pc = "decide" /\ disp.answer = "on" /\ t \in disp.task
        /\ disp' = [disp EXCEPT !.pc = "next", !.todo = @ \ {t}, !.task = {},
                                !.answer = "none"]
        /\ UNCHANGED <<poolVars, exec, poll, row, planVars>>

\* The row is set to PROCESSING in the transaction, and executeTask called, whose
\* first statement asks for a connection of its own.
DispatchStart ==
    \E t \in disp.task :
        /\ disp.pc = "decide"
        /\ disp.answer = "on"
        /\ disp' = [disp EXCEPT !.pc = "next", !.todo = @ \ {t}, !.started = @ \cup {t},
                                !.task = {}, !.answer = "none"]
        /\ exec' = [exec EXCEPT ![t] = "mark"]
        /\ Request(t)
        /\ UNCHANGED <<poll, row, planVars>>

DispatchCommit ==
    /\ disp.pc = "next"
    /\ disp.todo = {}
    /\ row' = [t \in Tasks |-> CASE t \in disp.started -> "PROCESSING"
                                 [] t \in disp.refused -> "CANCELLED"
                                 [] OTHER -> row[t]]
    /\ disp' = NoDispatch
    /\ Return("dispatch")
    /\ UNCHANGED <<exec, poll, planVars>>

-----------------------------------------------------------------------------
(* executeTask.                                                            *)

\* A statement on a row waits for the row lock with its connection in hand.
CanWrite(t) == t \in held /\ t \notin disp.batch

ExecMark(t) ==
    /\ exec[t] = "mark"
    /\ CanWrite(t)
    /\ row' = [row EXCEPT ![t] = "PROCESSING"]
    /\ exec' = [exec EXCEPT ![t] = "agent"]
    /\ Return(t)
    /\ UNCHANGED <<disp, poll, planVars>>

\* agent.execute runs a query.
AgentAsks(t) ==
    /\ exec[t] = "agent"
    /\ exec' = [exec EXCEPT ![t] = "query"]
    /\ Request(t)
    /\ UNCHANGED <<disp, poll, row, planVars>>

ExecAnswer(t) ==
    /\ exec[t] = "query"
    /\ t \in held
    /\ exec' = [exec EXCEPT ![t] = "agent"]
    /\ Return(t)
    /\ UNCHANGED <<disp, poll, row, planVars>>

\* It returns, and its result is inserted into agent_results.
AgentReturns(t) ==
    /\ exec[t] = "agent"
    /\ exec' = [exec EXCEPT ![t] = "insert"]
    /\ Request(t)
    /\ UNCHANGED <<disp, poll, row, planVars>>

AgentThrows(t) ==
    /\ exec[t] = "agent"
    /\ exec' = [exec EXCEPT ![t] = "failed"]
    /\ UNCHANGED <<poolVars, disp, poll, row, planVars>>

\* The result says success or not.
ExecInserted(t) ==
    /\ exec[t] = "insert"
    /\ t \in held
    /\ \E next \in {"inserted", "failed"} : exec' = [exec EXCEPT ![t] = next]
    /\ Return(t)
    /\ UNCHANGED <<disp, poll, row, planVars>>

ExecStore(t) ==
    /\ exec[t] = "inserted"
    /\ exec' = [exec EXCEPT ![t] = "store"]
    /\ Request(t)
    /\ UNCHANGED <<disp, poll, row, planVars>>

ExecComplete(t) ==
    /\ exec[t] = "store"
    /\ CanWrite(t)
    /\ row' = [row EXCEPT ![t] = "COMPLETED"]
    /\ exec' = [exec EXCEPT ![t] = "none"]
    /\ Return(t)
    /\ UNCHANGED <<disp, poll, planVars>>

\* No connection in time: the statement throws, into the catch block.
ExecTimeout(t) ==
    /\ exec[t] \in Waits \ {"catch"}
    /\ exec' = [exec EXCEPT ![t] = "failed"]
    /\ Withdraw(t)
    /\ UNCHANGED <<disp, poll, row, planVars>>

ExecCatch(t) ==
    /\ exec[t] = "failed"
    /\ exec' = [exec EXCEPT ![t] = "catch"]
    /\ Request(t)
    /\ UNCHANGED <<disp, poll, row, planVars>>

\* Retried, or FAILED after its last attempt.
ExecSettle(t) ==
    /\ exec[t] = "catch"
    /\ CanWrite(t)
    /\ \E status \in {"PENDING", "FAILED"} : row' = [row EXCEPT ![t] = status]
    /\ exec' = [exec EXCEPT ![t] = "none"]
    /\ Return(t)
    /\ UNCHANGED <<disp, poll, planVars>>

\* The catch block's own UPDATE finds no connection: the row is left as it is.
ExecGiveUp(t) ==
    /\ exec[t] = "catch"
    /\ exec' = [exec EXCEPT ![t] = "none"]
    /\ Withdraw(t)
    /\ UNCHANGED <<disp, poll, row, planVars>>

-----------------------------------------------------------------------------
(* pollOutbox.                                                             *)

PollBegin ==
    /\ poll.pc = "idle"
    /\ poll' = [poll EXCEPT !.pc = "connect"]
    /\ Request("poll")
    /\ UNCHANGED <<disp, exec, row, planVars>>

PollConnectTimeout ==
    /\ poll.pc = "connect"
    /\ poll' = PollIdle
    /\ Withdraw("poll")
    /\ UNCHANGED <<disp, exec, row, planVars>>

PollFetch ==
    \E n \in 0 .. PollBatch :
        /\ poll.pc = "connect"
        /\ "poll" \in held
        /\ poll' = [pc |-> "next", left |-> n]
        /\ UNCHANGED <<poolVars, disp, exec, row, planVars>>

\* createAgentTask inserts on a connection of its own.
PollInsertPastEnd ==
    /\ poll.pc = "next"
    /\ poll' = [poll EXCEPT !.pc = "insert"]
    /\ Request("insert")
    /\ UNCHANGED <<disp, exec, row, planVars>>

PollInsert ==
    /\ poll.pc = "next"
    /\ poll.left > 0
    /\ poll' = [poll EXCEPT !.pc = "insert"]
    /\ Request("insert")
    /\ UNCHANGED <<disp, exec, row, planVars>>

PollInserted ==
    /\ poll.pc = "insert"
    /\ "insert" \in held
    /\ poll' = [pc |-> "next", left |-> poll.left - 1]
    /\ Return("insert")
    /\ UNCHANGED <<disp, exec, row, planVars>>

\* The event fails and the batch goes on.
PollInsertTimeout ==
    /\ poll.pc = "insert"
    /\ poll' = [pc |-> "next", left |-> poll.left - 1]
    /\ Withdraw("insert")
    /\ UNCHANGED <<disp, exec, row, planVars>>

PollCommit ==
    /\ poll.pc = "next"
    /\ poll.left = 0
    /\ poll' = PollIdle
    /\ Return("poll")
    /\ UNCHANGED <<disp, exec, row, planVars>>

-----------------------------------------------------------------------------
\* The process dies and is restarted: its transactions are rolled back.
Crash ==
    /\ held' = {}
    /\ queue' = <<>>
    /\ disp' = NoDispatch
    /\ exec' = [t \in Tasks |-> "none"]
    /\ poll' = PollIdle
    /\ cache' = [m \in Merchants |-> "none"]
    /\ UNCHANGED <<row, plan, misread, changes>>

DispatchStep ==
    \/ DispatchConnectTimeout \/ DispatchFetch \/ DispatchFetchNone
    \/ DispatchCached \/ DispatchRead \/ DispatchReadDone \/ DispatchReadTimeout
    \/ DispatchRefuse \/ DispatchSkip \/ DispatchStart \/ DispatchCommit

ExecStep(t) ==
    \/ ExecMark(t) \/ ExecAnswer(t) \/ ExecInserted(t) \/ ExecStore(t)
    \/ ExecComplete(t) \/ ExecTimeout(t) \/ ExecCatch(t) \/ ExecSettle(t)
    \/ ExecGiveUp(t)

AgentStep(t) == AgentAsks(t) \/ AgentReturns(t) \/ AgentThrows(t)

PollStep ==
    \/ PollConnectTimeout \/ PollFetch \/ PollInsert \/ PollInserted
    \/ PollInsertTimeout \/ PollCommit

Next ==
    \/ \E t \in Tasks : Create(t) \/ ExecStep(t) \/ AgentStep(t)
    \/ \E m \in Merchants : PlanChanges(m) \/ CacheExpires(m)
    \/ DispatchBegin \/ DispatchStep
    \/ PollBegin \/ PollStep
    \/ Crash

Spec == Init /\ [][Next]_vars

\* Statements return and timers fire; nothing is assumed of an agent.
Fairness ==
    /\ WF_vars(DispatchStep)
    /\ WF_vars(PollStep)
    /\ \A t \in Tasks : WF_vars(ExecStep(t))

FairSpec == Spec /\ Fairness
-----------------------------------------------------------------------------
(* Properties.                                                             *)

\* Every variable has its type.
TypeOK ==
    /\ held \in SUBSET Users
    /\ queue \in Seq(Users)
    /\ disp \in Dispatch
    /\ exec \in [Tasks -> ExecStates]
    /\ poll \in [pc : {"idle", "connect", "next", "insert"}, left : Nat]
    /\ row \in [Tasks -> Statuses]
    /\ plan \in SUBSET Merchants
    /\ cache \in [Merchants -> Answers]
    /\ misread \in SUBSET Merchants
    /\ changes \in Nat

\* Who is at a point of the code where it has a connection or waits for one.
Uses(u) ==
    CASE u = "dispatch" -> disp.pc # "idle"
      [] u = "read" -> disp.pc = "reading"
      [] u = "poll" -> poll.pc # "idle"
      [] u = "insert" -> poll.pc = "insert"
      [] OTHER -> exec[u] \in Waits

\* The pool loses no connection and serves no request twice: whoever has one, or
\* waits, is still going to give it back, and nobody waits while one is free.
PoolSound ==
    /\ Cardinality(held) <= Max
    /\ queue # <<>> => Cardinality(held) = Max
    /\ held \cup Waiting = {u \in Users : Uses(u)}
    /\ held \cap Waiting = {}
    /\ \A i, j \in DOMAIN queue : queue[i] = queue[j] => i = j

\* A task is refused although its merchant's plan has what it needs, or started
\* although it has not, only if the plan could not be read, or has changed since.
DecidedByPlan ==
    [][\A t \in Tasks : MerchantOf[t] \in Merchants \ misread =>
          /\ t \in disp'.refused \ disp.refused => MerchantOf[t] \notin plan
          /\ t \in disp'.started \ disp.started => MerchantOf[t] \in plan]_vars

\* However full the pool is of users that wait for one another, a dispatch and a
\* poll end, and so does each wait of an execution.
NobodyWaitsForever ==
    /\ disp.pc # "idle" ~> disp.pc = "idle"
    /\ poll.pc # "idle" ~> poll.pc = "idle"
    /\ \A t \in Tasks : exec[t] \in Waits ~> exec[t] \notin Waits
=============================================================================
