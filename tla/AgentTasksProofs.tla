-------------------------- MODULE AgentTasksProofs --------------------------
(***************************************************************************)
(* Theorems about AgentTasks, for any number of tasks, agents, worker      *)
(* processes and executions, and any limits.                               *)
(***************************************************************************)
EXTENDS AgentTasks, FiniteSetTheorems, TLAPS

-----------------------------------------------------------------------------
(* Types.                                                                  *)

\* Initially every variable has its type.
LEMMA InitTypeOK == Init => TypeOK
  BY DEF Init, TypeOK, Statuses, NoDispatch, Dispatch, NoRun, Execution

\* What happens to a row of a dispatch keeps the dispatch's type.
LEMMA DispatchType ==
  ASSUME NEW d \in Dispatch, NEW t \in Tasks
  PROVE  /\ Skipping(d, t) \in Dispatch
         /\ Dropping(d, t) \in Dispatch
         /\ Starting(d, t) \in Dispatch
         /\ \A n \in Nat : Marking(d, n) \in Dispatch
  BY DEF Dispatch, Skipping, Dropping, Starting, Marking

\* A dispatch begins and ends as one of the records the types allow.
LEMMA NewDispatchType ==
  NoDispatch \in Dispatch /\ \A S \in SUBSET Tasks : Over(S) \in Dispatch
  BY DEF Dispatch, Over, NoDispatch

\* Counting rows and subtracting from a counter give natural numbers.
LEMMA CountType ==
  ASSUME NEW S \in SUBSET Tasks, NEW a \in Agents
  PROVE  RowsOf(a, S) \in Nat
<1>1. IsFiniteSet({t \in S : AgentOf[t] = a})
  BY TasksAssumption, FS_Subset
<1> QED
  BY <1>1, FS_CardinalityType DEF RowsOf

\* Taking from a counter gives a natural number no larger than it.
LEMMA LessType ==
  ASSUME NEW n \in Nat, NEW k \in Nat
  PROVE  Less(n, k) \in Nat /\ Less(n, k) <= n /\ n <= Less(n, k) + k
  BY DEF Less

\* An execution that is alive is a record with all its fields.
LEMMA LiveType ==
  ASSUME TypeOK, NEW r \in Runs, run[r].pc \in {"starting", "running", "failed"}
  PROVE  /\ run[r] \in Execution /\ Live(r)
         /\ run[r].task \in Tasks /\ run[r].worker \in Workers
         /\ run[r].retry \in Nat /\ AgentOf[run[r].task] \in Agents
  BY AgentsAssumption DEF TypeOK, NoRun, Execution, Live

\* The end of an execution keeps the types.
LEMMA EndType ==
  ASSUME TypeOK, NEW r \in Runs, run[r].pc \in {"starting", "running", "failed"}, End(r)
  PROVE  /\ run' \in [Runs -> Execution \cup {NoRun}]
         /\ active' \in [Workers -> [Agents -> Nat]]
<1>1. Less(active[run[r].worker][AgentOf[run[r].task]], 1) \in Nat
  BY LiveType, LessType DEF TypeOK
<1> QED
  BY <1>1, LiveType DEF TypeOK, End

\* Every step of the system keeps every variable's type.
LEMMA NextTypeOK == TypeOK /\ [Next]_vars => TypeOK'
<1> SUFFICES ASSUME TypeOK, [Next]_vars PROVE TypeOK'
  OBVIOUS
<1> USE DEF TypeOK, rowVars, historyVars
<1>1. ASSUME NEW t \in Tasks, Create(t) \/ CancelTask(t) PROVE TypeOK'
  BY <1>1 DEF Create, CancelTask, Statuses
<1>2. ASSUME NEW t \in Tasks, RetryTask(t) PROVE TypeOK'
  BY <1>2 DEF RetryTask, Statuses
<1>3. ASSUME NEW w \in Workers, DispatchFetch(w) PROVE TypeOK'
  <2>1. PICK due \in SUBSET Fetchable : disp' = [disp EXCEPT ![w] = Over(Oldest(due))]
    BY <1>3 DEF DispatchFetch
  <2>2. Over(Oldest(due)) \in Dispatch
    BY NewDispatchType DEF Oldest, Fetchable
  <2> QED
    BY <1>3, <2>1, <2>2 DEF DispatchFetch
<1>4. ASSUME NEW w \in Workers, DispatchDrop(w) PROVE TypeOK'
  <2>1. PICK t \in disp[w].todo : disp' = [disp EXCEPT ![w] = Dropping(disp[w], t)]
    BY <1>4 DEF DispatchDrop
  <2>2. Dropping(disp[w], t) \in Dispatch
    BY DispatchType DEF Dispatch
  <2> QED
    BY <1>4, <2>1, <2>2 DEF DispatchDrop
<1>5. ASSUME NEW w \in Workers, DispatchSkip(w) PROVE TypeOK'
  <2>1. PICK t \in disp[w].todo : disp' = [disp EXCEPT ![w] = Skipping(disp[w], t)]
    BY <1>5 DEF DispatchSkip
  <2>2. Skipping(disp[w], t) \in Dispatch
    BY DispatchType DEF Dispatch
  <2> QED
    BY <1>5, <2>1, <2>2 DEF DispatchSkip
<1>6. ASSUME NEW w \in Workers, DispatchMark(w) PROVE TypeOK'
  <2>1. PICK t \in disp[w].todo :
           disp' = [disp EXCEPT ![w] = Marking(disp[w], active[w][AgentOf[t]])]
    BY <1>6 DEF DispatchMark
  <2>2. t \in Tasks /\ AgentOf[t] \in Agents
    BY AgentsAssumption DEF Dispatch
  <2>3. active[w][AgentOf[t]] \in Nat
    BY <2>2
  <2>4. Marking(disp[w], active[w][AgentOf[t]]) \in Dispatch
    BY <2>2, <2>3, DispatchType
  <2> QED
    BY <1>6, <2>1, <2>4 DEF DispatchMark
<1>7. ASSUME NEW w \in Workers, DispatchStart(w) PROVE TypeOK'
  <2>1. PICK t \in disp[w].todo, r \in Runs :
           /\ active' = [active EXCEPT ![w][AgentOf[t]] = disp[w].current + 1]
           /\ run' = [run EXCEPT ![r] =
                [pc |-> "starting", worker |-> w, task |-> t, retry |-> retry[t]]]
           /\ disp' = [disp EXCEPT ![w] = Starting(disp[w], t)]
    BY <1>7 DEF DispatchStart
  <2>2. t \in Tasks /\ AgentOf[t] \in Agents /\ disp[w].current + 1 \in Nat
    BY AgentsAssumption DEF Dispatch
  <2>3. Starting(disp[w], t) \in Dispatch
    BY <2>2, DispatchType
  <2>4. active' \in [Workers -> [Agents -> Nat]]
    BY <2>1, <2>2
  <2>5. run' \in [Runs -> Execution \cup {NoRun}]
    BY <2>1, <2>2 DEF Execution
  <2> QED
    BY <1>7, <2>1, <2>3, <2>4, <2>5 DEF DispatchStart
<1>8. ASSUME NEW w \in Workers, DispatchCommit(w) PROVE TypeOK'
  <2>1. status' \in [Tasks -> Statuses]
    BY <1>8 DEF DispatchCommit, Statuses
  <2> QED
    BY <1>8, <2>1, NewDispatchType DEF DispatchCommit
<1>9. ASSUME NEW w \in Workers, DispatchAbort(w) PROVE TypeOK'
  BY <1>9, NewDispatchType DEF DispatchAbort, Fault, Dispatch
<1>10. ASSUME NEW w \in Workers, Crash(w) PROVE TypeOK'
  BY <1>10, NewDispatchType DEF Crash, Fault
<1>11. ASSUME NEW w \in Workers, NEW a \in Agents, BreakerReset(w, a) PROVE TypeOK'
  BY <1>11 DEF BreakerReset
<1>12. ASSUME NEW w \in Workers, NEW S \in SUBSET Tasks, CleanupStale(w, S) PROVE TypeOK'
  <2>1. \A a \in Agents : Less(active[w][a], RowsOf(a, S)) \in Nat
    BY LessType, CountType
  <2>2. \A a \in Agents : Saturated(cleaned[w][a] + RowsOf(a, S)) \in Nat
    BY CountType, NumbersAssumption DEF Saturated
  <2>3. status' \in [Tasks -> Statuses]
    BY <1>12 DEF CleanupStale, Statuses
  <2>4. active' \in [Workers -> [Agents -> Nat]]
    BY <1>12, <2>1 DEF CleanupStale
  <2>5. cleaned' \in [Workers -> [Agents -> Nat]]
    BY <1>12, <2>2 DEF CleanupStale
  <2> QED
    BY <1>12, <2>3, <2>4, <2>5 DEF CleanupStale
<1>13. ASSUME NEW r \in Runs, ExecStart(r) PROVE TypeOK'
  <2>1. run[r] \in Execution /\ run[r].task \in Tasks
    BY <1>13, LiveType DEF ExecStart
  <2>2. run' \in [Runs -> Execution \cup {NoRun}]
    BY <1>13, <2>1 DEF ExecStart, Execution
  <2>3. calls' \in [Tasks -> Nat]
    BY <1>13, <2>1 DEF ExecStart
  <2> QED
    BY <1>13, <2>1, <2>2, <2>3 DEF ExecStart, Statuses
<1>14. ASSUME NEW r \in Runs, \/ ExecStartError(r) \/ ExecStartUnheard(r)
                               \/ ExecCompleteUnheard(r) \/ ExecFail(r)
       PROVE  TypeOK'
  <2> USE DEF ExecStartError, ExecStartUnheard, ExecCompleteUnheard, ExecFail
  <2>1. run[r] \in Execution
    BY <1>14, LiveType
  <2>2. run' = [run EXCEPT ![r] = [run[r] EXCEPT !.pc = "failed"]]
    BY <1>14
  <2>3. [run[r] EXCEPT !.pc = "failed"] \in Execution
    BY <2>1 DEF Execution
  <2>4. status' \in [Tasks -> Statuses]
    BY <1>14 DEF Statuses
  <2> QED
    BY <1>14, <2>2, <2>3, <2>4 DEF Fault
<1>15. ASSUME NEW r \in Runs, ExecComplete(r) PROVE TypeOK'
  BY <1>15, LiveType, EndType DEF ExecComplete, Statuses
<1>16. ASSUME NEW r \in Runs, ExecRetry(r) PROVE TypeOK'
  BY <1>16, LiveType, EndType DEF ExecRetry, Statuses
<1>17. ASSUME NEW r \in Runs, ExecExhaust(r) \/ ExecExhaustUnheard(r) PROVE TypeOK'
  <2>1. run[r].pc = "failed" /\ End(r)
    BY <1>17 DEF ExecExhaust, ExecExhaustUnheard
  <2>2. status' = [status EXCEPT ![run[r].task] = "FAILED"]
    BY <1>17 DEF ExecExhaust, ExecExhaustUnheard
  <2>3. breaker' \in [Workers -> [Agents -> Nat]]
    <3>1. CASE UNCHANGED breaker
      BY <3>1
    <3>2. CASE ExecExhaust(r)
      <4>1. breaker[run[r].worker][AgentOf[run[r].task]] \in Nat
        BY <2>1, LiveType
      <4> QED
        BY <2>1, <3>2, <4>1, LiveType DEF ExecExhaust
    <3> QED
      BY <1>17, <3>1, <3>2 DEF ExecExhaustUnheard
  <2>4. /\ UNCHANGED <<retry, disp, disturbed, calls, cleaned>>
        /\ faults' \in Nat
    BY <1>17 DEF ExecExhaust, ExecExhaustUnheard, Fault
  <2> QED
    BY <2>1, <2>2, <2>3, <2>4, LiveType, EndType DEF Statuses
<1>18. ASSUME NEW r \in Runs, ExecError(r) PROVE TypeOK'
  BY <1>18, LiveType, EndType DEF ExecError, Fault
<1>19. ASSUME NEW S \in SUBSET Tasks, CleanupStaleUnheard(S) PROVE TypeOK'
  BY <1>19 DEF CleanupStaleUnheard, Statuses, Fault
<1>20. CASE UNCHANGED vars
  BY <1>20 DEF vars
<1> QED
  BY <1>1, <1>2, <1>3, <1>4, <1>5, <1>6, <1>7, <1>8, <1>9, <1>10, <1>11, <1>12,
     <1>13, <1>14, <1>15, <1>16, <1>17, <1>18, <1>19, <1>20
  DEF Next, DispatchStep, ExecStep, ExecFault

\* Type correctness of the task table and of every process's memory.
THEOREM TypeCorrect == Spec => []TypeOK
  BY InitTypeOK, NextTypeOK, PTL DEF Spec

-----------------------------------------------------------------------------
(* Row locks.                                                              *)

\* Nobody writes a locked row without being the dispatch that locked it.
LEMMA LocksHold ==
  ASSUME DispatchInv, disp' = disp, \A t \in Locked : status'[t] = status[t]
  PROVE  DispatchInv'
  BY DEF DispatchInv, Locked

\* A dispatch may become any well-formed one over rows that are PENDING and that
\* no other dispatch has, if it leaves the rows of the others alone.
LEMMA DispatchChanges ==
  ASSUME TypeOK, DispatchInv, NEW w \in Workers, NEW d \in Dispatch,
         disp' = [disp EXCEPT ![w] = d], WellFormed(d),
         \A t \in d.batch : status'[t] = "PENDING",
         \A v \in Workers \ {w} : /\ d.batch \cap disp[v].batch = {}
                                  /\ \A t \in disp[v].batch : status'[t] = status[t]
  PROVE  DispatchInv'
  BY DEF DispatchInv, TypeOK

\* The same for the steps that only move a row within a dispatch.
LEMMA DispatchMoves ==
  ASSUME TypeOK, DispatchInv, NEW w \in Workers, NEW d \in Dispatch,
         disp' = [disp EXCEPT ![w] = d], WellFormed(d),
         d.batch \subseteq disp[w].batch, UNCHANGED status
  PROVE  DispatchInv'
<1>1. \A t \in d.batch : status'[t] = "PENDING"
  BY DEF DispatchInv
<1>2. \A v \in Workers \ {w} : /\ d.batch \cap disp[v].batch = {}
                               /\ \A t \in disp[v].batch : status'[t] = status[t]
  BY DEF DispatchInv
<1> QED
  BY <1>1, <1>2, DispatchChanges

\* Skipping, dropping, marking or starting the next row keeps a dispatch
\* well-formed and its batch the same.
LEMMA MovesWellFormed ==
  ASSUME NEW d \in Dispatch, WellFormed(d), NEW t \in d.todo
  PROVE  /\ WellFormed(Skipping(d, t)) /\ Skipping(d, t).batch = d.batch
         /\ WellFormed(Dropping(d, t)) /\ Dropping(d, t).batch = d.batch
         /\ WellFormed(Starting(d, t)) /\ Starting(d, t).batch = d.batch
         /\ \A n \in Nat : /\ WellFormed(Marking(d, n))
                           /\ Marking(d, n).batch = d.batch
  BY DEF Dispatch, WellFormed, Skipping, Dropping, Starting, Marking

\* The dispatch over no rows, and over rows just selected, is well-formed.
LEMMA NewWellFormed ==
  /\ WellFormed(NoDispatch) /\ NoDispatch.batch = {}
  /\ \A S \in SUBSET Tasks : WellFormed(Over(S)) /\ Over(S).batch = S
  BY DEF WellFormed, NoDispatch, Over

\* No dispatch, no rows.
LEMMA InitDispatchInv == Init => DispatchInv
  BY NewWellFormed DEF Init, DispatchInv

\* The invariant of the dispatches is inductive.
LEMMA NextDispatchInv == TypeOK /\ DispatchInv /\ [Next]_vars => DispatchInv'
<1> SUFFICES ASSUME TypeOK, DispatchInv, [Next]_vars PROVE DispatchInv'
  OBVIOUS
<1> USE DEF rowVars, historyVars
<1>0. ASSUME NEW w \in Workers PROVE disp[w] \in Dispatch /\ WellFormed(disp[w])
  BY DEF TypeOK, DispatchInv
<1>1. ASSUME NEW t \in Tasks, Create(t) \/ CancelTask(t) \/ RetryTask(t) PROVE DispatchInv'
  <2>1. \A u \in Locked : status'[u] = status[u]
    <3>1. status[t] # "PENDING" \/ t \notin Locked
      BY <1>1 DEF Create, CancelTask, RetryTask, Fetchable
    <3>2. \A u \in Tasks \ {t} : status'[u] = status[u]
      BY <1>1 DEF Create, CancelTask, RetryTask, TypeOK
    <3>3. \A u \in Locked : u \in Tasks /\ status[u] = "PENDING"
      BY <1>0 DEF Locked, DispatchInv, Dispatch
    <3> QED
      BY <3>1, <3>2, <3>3
  <2> QED
    BY <1>1, <2>1, LocksHold DEF Create, CancelTask, RetryTask
<1>2. ASSUME NEW w \in Workers, DispatchFetch(w) PROVE DispatchInv'
  <2>1. PICK due \in SUBSET Fetchable : disp' = [disp EXCEPT ![w] = Over(Oldest(due))]
    BY <1>2 DEF DispatchFetch
  <2>2. Oldest(due) \in SUBSET Fetchable /\ Oldest(due) \in SUBSET Tasks
    BY DEF Oldest, Fetchable
  <2> DEFINE d == Over(Oldest(due))
  <2>3. d \in Dispatch /\ WellFormed(d) /\ d.batch = Oldest(due)
    BY <2>2, NewDispatchType, NewWellFormed
  <2>4. \A t \in Oldest(due) : status'[t] = "PENDING"
    BY <1>2, <2>2 DEF DispatchFetch, Fetchable
  <2>5. \A v \in Workers : Oldest(due) \cap disp[v].batch = {}
    BY <2>2 DEF Fetchable, Locked
  <2>6. UNCHANGED status
    BY <1>2 DEF DispatchFetch
  <2> HIDE DEF d
  <2> QED
    BY <2>1, <2>3, <2>4, <2>5, <2>6, DispatchChanges DEF d
<1>3. ASSUME NEW w \in Workers, DispatchDrop(w) PROVE DispatchInv'
  <2>1. PICK t \in disp[w].todo : disp' = [disp EXCEPT ![w] = Dropping(disp[w], t)]
    BY <1>3 DEF DispatchDrop
  <2> QED
    BY <1>0, <1>3, <2>1, DispatchType, MovesWellFormed, DispatchMoves DEF DispatchDrop, Dispatch
<1>4. ASSUME NEW w \in Workers, DispatchSkip(w) PROVE DispatchInv'
  <2>1. PICK t \in disp[w].todo : disp' = [disp EXCEPT ![w] = Skipping(disp[w], t)]
    BY <1>4 DEF DispatchSkip
  <2> QED
    BY <1>0, <1>4, <2>1, DispatchType, MovesWellFormed, DispatchMoves DEF DispatchSkip, Dispatch
<1>5. ASSUME NEW w \in Workers, DispatchMark(w) PROVE DispatchInv'
  <2>1. PICK t \in disp[w].todo :
           disp' = [disp EXCEPT ![w] = Marking(disp[w], active[w][AgentOf[t]])]
    BY <1>5 DEF DispatchMark
  <2>2. t \in Tasks
    BY <1>0 DEF Dispatch
  <2>3. active[w][AgentOf[t]] \in Nat
    BY <2>2, AgentsAssumption DEF TypeOK
  <2>4. Marking(disp[w], active[w][AgentOf[t]]) \in Dispatch
    BY <1>0, <2>2, <2>3, DispatchType
  <2>5. /\ WellFormed(Marking(disp[w], active[w][AgentOf[t]]))
        /\ Marking(disp[w], active[w][AgentOf[t]]).batch = disp[w].batch
    BY <1>0, <2>3, MovesWellFormed
  <2> QED
    BY <1>5, <2>1, <2>4, <2>5, DispatchMoves DEF DispatchMark
<1>6. ASSUME NEW w \in Workers, DispatchStart(w) PROVE DispatchInv'
  <2>1. PICK t \in disp[w].todo : disp' = [disp EXCEPT ![w] = Starting(disp[w], t)]
    BY <1>6 DEF DispatchStart
  <2> QED
    BY <1>0, <1>6, <2>1, DispatchType, MovesWellFormed, DispatchMoves DEF DispatchStart, Dispatch
<1>7. ASSUME NEW w \in Workers, DispatchCommit(w) PROVE DispatchInv'
  <2>1. \A v \in Workers \ {w} : \A t \in disp[v].batch : status'[t] = status[t]
    BY <1>0, <1>7 DEF DispatchCommit, DispatchInv, WellFormed, TypeOK, Dispatch
  <2> QED
    BY <1>7, <2>1, NewDispatchType, NewWellFormed, DispatchChanges DEF DispatchCommit
<1>8. ASSUME NEW w \in Workers, DispatchAbort(w) \/ Crash(w) PROVE DispatchInv'
  BY <1>8, NewDispatchType, NewWellFormed, DispatchMoves DEF DispatchAbort, Crash
<1>9. ASSUME NEW w \in Workers, NEW a \in Agents, BreakerReset(w, a) PROVE DispatchInv'
  BY <1>9, LocksHold DEF BreakerReset
<1>10. ASSUME NEW w \in Workers, NEW S \in SUBSET Tasks,
              CleanupStale(w, S) \/ CleanupStaleUnheard(S)
       PROVE  DispatchInv'
  <2>1. \A t \in Locked : status'[t] = status[t]
    BY <1>10 DEF CleanupStale, CleanupStaleUnheard, Locked, TypeOK, Dispatch
  <2> QED
    BY <1>10, <2>1, LocksHold DEF CleanupStale, CleanupStaleUnheard
<1>11. ASSUME NEW r \in Runs,
              \/ ExecStart(r) \/ ExecComplete(r) \/ ExecRetry(r) \/ ExecExhaust(r)
              \/ ExecStartUnheard(r) \/ ExecCompleteUnheard(r) \/ ExecExhaustUnheard(r)
       PROVE  DispatchInv'
  <2> USE DEF ExecStart, ExecComplete, ExecRetry, ExecExhaust, ExecStartUnheard,
              ExecCompleteUnheard, ExecExhaustUnheard
  <2>1. \A t \in Locked : status'[t] = status[t]
    BY <1>11 DEF TypeOK, Locked, Dispatch
  <2> QED
    BY <1>11, <2>1, LocksHold
<1>12. ASSUME NEW r \in Runs, ExecFail(r) \/ ExecStartError(r) \/ ExecError(r) PROVE DispatchInv'
  BY <1>12, LocksHold DEF ExecFail, ExecStartError, ExecError
<1>13. CASE UNCHANGED vars
  BY <1>13, LocksHold DEF vars
<1> QED
  BY <1>1, <1>2, <1>3, <1>4, <1>5, <1>6, <1>7, <1>8, <1>9, <1>10, <1>11, <1>12, <1>13
  DEF Next, DispatchStep, ExecStep, ExecFault

-----------------------------------------------------------------------------
(* One execution per task.                                                 *)

\* The executions of a next state that were there before with the same task in
\* the same process, in the catch block if they were there; disturbed only grows.
SameRuns ==
    /\ \A r \in Runs : Live(r)' => /\ Live(r)
                                   /\ run'[r].task = run[r].task
                                   /\ run'[r].worker = run[r].worker
                                   /\ run[r].pc = "failed" => run'[r].pc = "failed"
    /\ disturbed \subseteq disturbed'

\* Steps that start no execution leave one execution per task.
LEMMA StillOne ==
  ASSUME OneExecutionPerTask, SameRuns PROVE OneExecutionPerTask'
  BY DEF OneExecutionPerTask, SameRuns

\* A row of a dispatch is not that of an execution whose row nobody took, unless
\* the dispatch has just started that execution.
LEMMA RowsFree ==
  ASSUME TypeOK, DispatchInv, ExecutionInv, NEW w \in Workers, NEW t \in disp[w].todo,
         NEW r \in Runs, Live(r), run[r].task = t
  PROVE  t \in disturbed
<1>1. disp[w] \in Dispatch /\ WellFormed(disp[w])
  BY DEF TypeOK, DispatchInv
<1>2. t \in Locked
  BY <1>1 DEF WellFormed, Locked
<1>3. run[r] \in Execution
  BY DEF TypeOK, Live
<1>4. \A v \in Workers : t \notin disp[v].started
  <2> SUFFICES ASSUME NEW v \in Workers, t \in disp[v].started PROVE FALSE
    OBVIOUS
  <2>1. WellFormed(disp[v])
    BY DEF DispatchInv
  <2>2. t \in disp[v].batch /\ t \in disp[w].batch
    BY <1>1, <2>1 DEF WellFormed
  <2>3. v = w
    BY <2>2 DEF DispatchInv
  <2> QED
    BY <1>1, <2>3 DEF WellFormed
<1>5. run[r].worker \in Workers
  BY <1>3 DEF Execution
<1> QED
  BY <1>2, <1>4, <1>5 DEF ExecutionInv

\* An execution keeps its hold of the row when the dispatches only move rows on,
\* and when the row's status stays or becomes PROCESSING or FAILED unlocked, or
\* becomes COMPLETED as the execution gets to its catch block.
LEMMA StillHeld ==
  ASSUME TypeOK, ExecutionInv, SameRuns,
         \A w \in Workers : disp[w].started \subseteq disp'[w].started,
         Locked' = Locked,
         \A r \in Runs : Live(r)' /\ run[r].task \notin disturbed' /\ run[r].task \notin Locked
             => \/ status'[run[r].task] \in {status[run[r].task], "PROCESSING", "FAILED"}
                \/ status'[run[r].task] = "COMPLETED" /\ run'[r].pc = "failed"
  PROVE  ExecutionInv'
<1> SUFFICES ASSUME NEW r \in Runs, Live(r)', run'[r].task \notin disturbed'
             PROVE  \/ run'[r].task \in disp'[run'[r].worker].started
                    \/ /\ run'[r].task \notin Locked'
                       /\ \/ status'[run'[r].task] \in {"PROCESSING", "FAILED"}
                          \/ status'[run'[r].task] = "COMPLETED" /\ run'[r].pc = "failed"
  BY DEF ExecutionInv
<1>1. /\ Live(r) /\ run'[r].task = run[r].task /\ run'[r].worker = run[r].worker
      /\ run[r].task \notin disturbed
  BY DEF SameRuns
<1>2. run[r].worker \in Workers
  BY <1>1 DEF TypeOK, Live, Execution
<1>3. CASE run[r].task \in disp[run[r].worker].started
  BY <1>1, <1>2, <1>3
<1>4. CASE run[r].task \notin disp[run[r].worker].started
  <2>1. /\ run[r].task \notin Locked
        /\ \/ status[run[r].task] \in {"PROCESSING", "FAILED"}
           \/ status[run[r].task] = "COMPLETED" /\ run'[r].pc = "failed"
    BY <1>1, <1>4 DEF ExecutionInv, SameRuns
  <2>2. \/ status'[run[r].task] \in {status[run[r].task], "PROCESSING", "FAILED"}
        \/ status'[run[r].task] = "COMPLETED" /\ run'[r].pc = "failed"
    BY <1>1, <2>1
  <2> QED
    BY <1>1, <2>1, <2>2
<1> QED
  BY <1>3, <1>4

ExecInv == ExecutionInv /\ OneExecutionPerTask

\* No execution is alive initially.
LEMMA InitExecInv == Init => ExecInv
  BY DEF Init, ExecInv, ExecutionInv, OneExecutionPerTask, Live

\* One execution per task is inductive together with the execution's hold of
\* its row.
LEMMA NextExecInv == TypeOK /\ DispatchInv /\ ExecInv /\ [Next]_vars => ExecInv'
<1> SUFFICES ASSUME TypeOK, DispatchInv, ExecInv, [Next]_vars PROVE ExecInv'
  OBVIOUS
<1> USE DEF rowVars, historyVars, ExecInv
<1>0. /\ \A w \in Workers : disp[w] \in Dispatch /\ WellFormed(disp[w])
      /\ \A r \in Runs : Live(r) => /\ run[r] \in Execution
                                    /\ run[r].task \in Tasks /\ run[r].worker \in Workers
      /\ \A t \in Locked : status[t] = "PENDING" /\ t \in Tasks
  BY DEF TypeOK, DispatchInv, Live, Locked, Execution, Dispatch
<1>1. ASSUME NEW t \in Tasks, Create(t) \/ CancelTask(t) \/ RetryTask(t) PROVE ExecInv'
  <2>1. SameRuns /\ disp' = disp
    BY <1>1 DEF Create, CancelTask, RetryTask, SameRuns, Live
  <2>2. \A u \in Tasks \ {t} : status'[u] = status[u]
    BY <1>1 DEF Create, CancelTask, RetryTask, TypeOK
  <2>3. ASSUME NEW r \in Runs, Live(r), run[r].task = t PROVE t \in disturbed'
    <3>1. CASE Create(t) \/ CancelTask(t)
      <4>1. status[t] \in {"none", "PENDING"} /\ (status[t] = "PENDING" => t \notin Locked)
        BY <3>1 DEF Create, CancelTask, Fetchable
      <4>2. t \notin Locked
        BY <1>0, <4>1
      <4>3. \A w \in Workers : t \notin disp[w].started
        BY <1>0, <4>2 DEF Locked, WellFormed
      <4> QED
        BY <1>0, <2>3, <3>1, <4>1, <4>3 DEF ExecutionInv, Create, CancelTask
    <3>2. CASE RetryTask(t)
      BY <2>3, <3>2 DEF RetryTask
    <3> QED
      BY <1>1, <3>1, <3>2
  <2>4. \A r \in Runs : Live(r)' /\ run[r].task \notin disturbed' /\ run[r].task \notin Locked
             => status'[run[r].task] = status[run[r].task]
    BY <1>0, <2>1, <2>2, <2>3 DEF SameRuns
  <2>5. Locked' = Locked
    BY <2>1 DEF Locked
  <2> QED
    BY <2>1, <2>4, <2>5, StillHeld, StillOne
<1>2. ASSUME NEW w \in Workers, DispatchFetch(w) PROVE ExecInv'
  <2>1. PICK due \in SUBSET Fetchable : disp' = [disp EXCEPT ![w] = Over(Oldest(due))]
    BY <1>2 DEF DispatchFetch
  <2>2. SameRuns /\ UNCHANGED <<status, run, disturbed>>
    BY <1>2 DEF DispatchFetch, SameRuns, Live
  <2>3. disp[w].started = {}
    BY <1>0, <1>2 DEF DispatchFetch, WellFormed
  <2>4. Oldest(due) \subseteq Fetchable
    BY DEF Oldest
  <2>5. \A t \in Locked' : t \in Locked \/ status[t] = "PENDING"
    BY <2>1, <2>4 DEF Locked, TypeOK, Over, Fetchable
  <2>6. \A v \in Workers : disp[v].started \subseteq disp'[v].started
    BY <2>1, <2>3 DEF TypeOK
  <2>7. ExecutionInv'
    BY <1>0, <2>2, <2>5, <2>6 DEF ExecutionInv, Live
  <2> QED
    BY <2>2, <2>7, StillOne
<1>3. ASSUME NEW w \in Workers, DispatchDrop(w) \/ DispatchSkip(w) \/ DispatchMark(w)
      PROVE  ExecInv'
  <2>1. SameRuns /\ UNCHANGED status
    BY <1>3 DEF DispatchDrop, DispatchSkip, DispatchMark, SameRuns, Live
  <2>2. \A v \in Workers : /\ disp'[v].started = disp[v].started
                           /\ disp'[v].batch = disp[v].batch
    <3>1. \A t, n : /\ Dropping(disp[w], t).started = disp[w].started
                    /\ Dropping(disp[w], t).batch = disp[w].batch
                    /\ Skipping(disp[w], t).started = disp[w].started
                    /\ Skipping(disp[w], t).batch = disp[w].batch
                    /\ Marking(disp[w], n).started = disp[w].started
                    /\ Marking(disp[w], n).batch = disp[w].batch
      BY <1>0 DEF Dropping, Skipping, Marking, Dispatch
    <3>2. CASE DispatchDrop(w)
      BY <3>1, <3>2 DEF DispatchDrop, TypeOK
    <3>3. CASE DispatchSkip(w)
      BY <3>1, <3>3 DEF DispatchSkip, TypeOK
    <3>4. CASE DispatchMark(w)
      BY <3>1, <3>4 DEF DispatchMark, TypeOK
    <3> QED
      BY <1>3, <3>2, <3>3, <3>4
  <2>3. Locked' = Locked
    BY <2>2 DEF Locked
  <2>4. \A v \in Workers : disp[v].started \subseteq disp'[v].started
    BY <2>2
  <2> QED
    BY <2>1, <2>3, <2>4, StillHeld, StillOne
<1>4. ASSUME NEW w \in Workers, DispatchStart(w) PROVE ExecInv'
  <2>1. PICK t \in disp[w].todo, r \in Runs :
           /\ ~Live(r)
           /\ run' = [run EXCEPT ![r] =
                [pc |-> "starting", worker |-> w, task |-> t, retry |-> retry[t]]]
           /\ disp' = [disp EXCEPT ![w] = Starting(disp[w], t)]
    BY <1>4 DEF DispatchStart
  <2>2. UNCHANGED <<status, disturbed>>
    BY <1>4 DEF DispatchStart
  <2>3. /\ Starting(disp[w], t).batch = disp[w].batch
        /\ Starting(disp[w], t).started = disp[w].started \cup {t}
    BY <1>0 DEF Starting, Dispatch
  <2>4. Locked' = Locked
    BY <2>1, <2>3 DEF Locked, TypeOK
  <2>5. \A v \in Workers : disp[v].started \subseteq disp'[v].started
    BY <2>1, <2>3 DEF TypeOK
  <2>6. t \in disp'[w].started
    BY <2>1, <2>3 DEF TypeOK
  <2>7. run'[r].task = t /\ run'[r].worker = w /\ \A s \in Runs \ {r} : run'[s] = run[s]
    BY <2>1 DEF TypeOK
  <2>8. \A s \in Runs \ {r} : Live(s)' <=> Live(s)
    BY <2>7 DEF Live
  <2>9. \A s \in Runs \ {r} : Live(s) /\ run[s].task = t => t \in disturbed
    BY RowsFree
  <2>10. ExecutionInv'
    BY <1>0, <2>2, <2>4, <2>5, <2>6, <2>7, <2>8 DEF ExecutionInv
  <2>11. OneExecutionPerTask'
    BY <2>2, <2>7, <2>8, <2>9 DEF OneExecutionPerTask
  <2> QED
    BY <2>10, <2>11
<1>5. ASSUME NEW w \in Workers, DispatchCommit(w) PROVE ExecInv'
  <2>1. SameRuns /\ disp' = [disp EXCEPT ![w] = NoDispatch] /\ UNCHANGED <<run, disturbed>>
    BY <1>5 DEF DispatchCommit, SameRuns, Live
  <2>2. Locked' \subseteq Locked /\ \A t \in disp[w].batch : t \notin Locked'
    BY <2>1 DEF Locked, NoDispatch, TypeOK, DispatchInv
  <2>3. \A t \in Tasks \ Locked : status'[t] = status[t]
    BY <1>0, <1>5 DEF DispatchCommit, Locked, WellFormed
  <2>4. \A t \in disp[w].started : status'[t] = "PROCESSING" /\ t \in disp[w].batch
    BY <1>0, <1>5 DEF DispatchCommit, WellFormed, Dispatch
  <2>5. \A v \in Workers \ {w} : disp'[v] = disp[v]
    BY <2>1 DEF TypeOK
  <2>6. ExecutionInv'
    BY <1>0, <2>1, <2>2, <2>3, <2>4, <2>5 DEF ExecutionInv, Live
  <2> QED
    BY <2>1, <2>6, StillOne
<1>6. ASSUME NEW w \in Workers, DispatchAbort(w) \/ Crash(w) PROVE ExecInv'
  <2>1. SameRuns /\ disp' = [disp EXCEPT ![w] = NoDispatch] /\ UNCHANGED status
    BY <1>6 DEF DispatchAbort, Crash, SameRuns, Live
  <2>2. Locked' \subseteq Locked
    BY <2>1 DEF Locked, NoDispatch, TypeOK
  <2>3. \A v \in Workers \ {w} : disp'[v] = disp[v]
    BY <2>1 DEF TypeOK
  <2>4. ASSUME NEW r \in Runs, Live(r)', run[r].worker = w
        PROVE  disp[w].started \subseteq disturbed'
    BY <1>6, <2>4 DEF DispatchAbort, Crash, Live
  <2>5. ExecutionInv'
    <3> SUFFICES ASSUME NEW r \in Runs, Live(r)', run'[r].task \notin disturbed'
                 PROVE  \/ run'[r].task \in disp'[run'[r].worker].started
                        \/ /\ run'[r].task \notin Locked'
                           /\ \/ status'[run'[r].task] \in {"PROCESSING", "FAILED"}
                              \/ status'[run'[r].task] = "COMPLETED" /\ run'[r].pc = "failed"
      BY DEF ExecutionInv
    <3>1. /\ Live(r) /\ run'[r].task = run[r].task /\ run'[r].worker = run[r].worker
          /\ run[r].task \notin disturbed
          /\ run[r].pc = "failed" => run'[r].pc = "failed"
      BY <2>1 DEF SameRuns
    <3> QED
      BY <1>0, <2>1, <2>2, <2>3, <2>4, <3>1 DEF ExecutionInv
  <2> QED
    BY <2>1, <2>5, StillOne
<1>7. ASSUME NEW w \in Workers, NEW a \in Agents, BreakerReset(w, a) PROVE ExecInv'
  BY <1>7 DEF BreakerReset, ExecutionInv, OneExecutionPerTask, Live, Locked
<1>8. ASSUME NEW w \in Workers, NEW S \in SUBSET Tasks,
             CleanupStale(w, S) \/ CleanupStaleUnheard(S)
      PROVE  ExecInv'
  <2>1. SameRuns /\ Locked' = Locked /\ disp' = disp
    BY <1>8 DEF CleanupStale, CleanupStaleUnheard, SameRuns, Live, Locked
  <2>2. \A t \in Tasks : status'[t] \in {status[t], "FAILED"}
    BY <1>8 DEF CleanupStale, CleanupStaleUnheard
  <2> QED
    BY <1>0, <2>1, <2>2, StillHeld, StillOne DEF SameRuns
<1>9. ASSUME NEW r \in Runs, ExecStart(r) PROVE ExecInv'
  <2>1. run[r] \in Execution /\ Live(r)
    BY <1>9, LiveType DEF ExecStart
  <2>2. run' = [run EXCEPT ![r] = [run[r] EXCEPT !.pc = "running"]]
    BY <1>9 DEF ExecStart
  <2>3. SameRuns /\ Locked' = Locked /\ disp' = disp
    <3>1. /\ run[r].pc = "starting" /\ UNCHANGED <<disp, disturbed>>
          /\ run'[r] = [run[r] EXCEPT !.pc = "running"]
          /\ \A s \in Runs \ {r} : run'[s] = run[s]
      BY <1>9, <2>2 DEF ExecStart, TypeOK
    <3> QED
      BY <2>1, <3>1 DEF SameRuns, Live, Locked, Execution
  <2>4. \A t \in Tasks : status'[t] \in {status[t], "PROCESSING"}
    BY <1>9 DEF ExecStart, TypeOK
  <2> QED
    BY <1>0, <2>3, <2>4, StillHeld, StillOne DEF SameRuns
<1>10. ASSUME NEW r \in Runs, \/ ExecFail(r) \/ ExecStartError(r)
                               \/ ExecStartUnheard(r) \/ ExecCompleteUnheard(r)
       PROVE  ExecInv'
  <2> USE DEF ExecFail, ExecStartError, ExecStartUnheard, ExecCompleteUnheard
  <2>1. run[r] \in Execution /\ Live(r)
    BY <1>10, LiveType
  <2>2. run' = [run EXCEPT ![r] = [run[r] EXCEPT !.pc = "failed"]]
    BY <1>10
  <2>3. /\ SameRuns /\ Locked' = Locked /\ disp' = disp /\ disturbed' = disturbed
        /\ run'[r].pc = "failed"
    BY <1>10, <2>1, <2>2 DEF SameRuns, Live, Locked, Execution, TypeOK
  <2>4. ASSUME NEW s \in Runs, Live(s)', run[s].task \notin disturbed'
        PROVE  \/ status'[run[s].task] \in {status[run[s].task], "PROCESSING", "FAILED"}
               \/ status'[run[s].task] = "COMPLETED" /\ run'[s].pc = "failed"
    <3>1. CASE run[s].task = run[r].task
      <4>1. s = r
        BY <2>1, <2>3, <2>4, <3>1 DEF OneExecutionPerTask, SameRuns
      <4>2. status'[run[r].task] \in {status[run[r].task], "PROCESSING", "COMPLETED"}
        BY <1>0, <1>10, <2>1 DEF TypeOK
      <4> QED
        BY <2>3, <4>1, <4>2
    <3>2. CASE run[s].task # run[r].task
      <4>1. run[s] \in Execution
        BY <2>3, <2>4 DEF TypeOK, SameRuns, Live
      <4>2. run[s].task \in Tasks
        BY <4>1 DEF Execution
      <4>3. status'[run[s].task] = status[run[s].task]
        BY <1>10, <3>2, <4>2 DEF TypeOK
      <4> QED
        BY <4>3
    <3> QED
      BY <3>1, <3>2
  <2> QED
    BY <2>3, <2>4, StillHeld, StillOne
<1>11. ASSUME NEW r \in Runs, \/ ExecComplete(r) \/ ExecRetry(r) \/ ExecExhaust(r)
                               \/ ExecExhaustUnheard(r) \/ ExecError(r)
       PROVE  ExecInv'
  <2> USE DEF ExecComplete, ExecRetry, ExecExhaust, ExecExhaustUnheard, ExecError
  <2>1. run' = [run EXCEPT ![r] = NoRun] /\ Live(r)
    BY <1>11, LiveType DEF End
  <2>2. SameRuns /\ Locked' = Locked /\ disp' = disp /\ disturbed' = disturbed
    BY <1>11, <2>1 DEF SameRuns, Live, Locked, TypeOK
  <2>3. ~Live(r)'
    BY <2>1 DEF Live, TypeOK
  <2>4. \A t \in Tasks \ {run[r].task} : status'[t] = status[t]
    BY <1>11 DEF TypeOK
  <2>5. \A s \in Runs : Live(s)' /\ run[s].task \notin disturbed'
                         => status'[run[s].task] = status[run[s].task]
    BY <1>0, <2>1, <2>2, <2>3, <2>4 DEF OneExecutionPerTask, SameRuns
  <2> QED
    BY <2>2, <2>5, StillHeld, StillOne
<1>12. CASE UNCHANGED vars
  BY <1>12 DEF vars, ExecutionInv, OneExecutionPerTask, Live, Locked
<1> QED
  BY <1>1, <1>2, <1>3, <1>4, <1>5, <1>6, <1>7, <1>8, <1>9, <1>10, <1>11, <1>12
  DEF Next, DispatchStep, ExecStep, ExecFault

\* A task is executed once at a time over all processes, however dispatches,
\* executions and crons interleave, as long as nobody took its row away.
THEOREM ExecutedOnceAtATime == Spec => []OneExecutionPerTask
<1>1. Init => TypeOK /\ DispatchInv /\ ExecInv
  BY InitTypeOK, InitDispatchInv, InitExecInv
<1>2. TypeOK /\ DispatchInv /\ ExecInv /\ [Next]_vars => (TypeOK /\ DispatchInv /\ ExecInv)'
  BY NextTypeOK, NextDispatchInv, NextExecInv
<1>3. ExecInv => OneExecutionPerTask
  BY DEF ExecInv
<1> QED
  BY <1>1, <1>2, <1>3, PTL DEF Spec

\* CANCELLED is final, and COMPLETED is so but for the last UPDATE of the execution
\* that wrote it, when it did not hear of it: whatever else is late, as long as
\* nobody took the task's row from its execution.
THEOREM SettledTasksStay == Spec => FinalStatusStays
<1>1. TypeOK /\ DispatchInv /\ ExecInv /\ [Next]_vars
        => [\A t \in Tasks \ disturbed :
              status[t] \in {"COMPLETED", "CANCELLED"} /\ status'[t] # status[t] =>
                 status[t] = "COMPLETED" /\ \E r \in Runs : Unheard(r, t)]_vars
  <2> SUFFICES ASSUME TypeOK, DispatchInv, ExecInv, [Next]_vars,
                      NEW t \in Tasks \ disturbed, status[t] \in {"COMPLETED", "CANCELLED"},
                      status'[t] # status[t]
               PROVE  status[t] = "COMPLETED" /\ \E r \in Runs : Unheard(r, t)
    OBVIOUS
  <2>1. \A w \in Workers : t \notin disp[w].batch /\ t \notin disp[w].started
                          /\ t \notin disp[w].dropped
    BY DEF DispatchInv, WellFormed
  <2>2. ASSUME NEW r \in Runs, Live(r), run[r].task = t
        PROVE  status[t] = "COMPLETED" /\ run[r].pc = "failed"
    <3>1. run[r].worker \in Workers
      BY <2>2 DEF TypeOK, Live, Execution
    <3> QED
      BY <2>1, <2>2, <3>1 DEF ExecInv, ExecutionInv
  <2> USE DEF TypeOK, rowVars
  <2>3. ASSUME NEW u \in Tasks, Create(u) \/ CancelTask(u) \/ RetryTask(u) PROVE FALSE
    BY <2>3 DEF Create, CancelTask, RetryTask, Fetchable
  <2>4. ASSUME NEW w \in Workers, DispatchStep(w) PROVE FALSE
    BY <2>1, <2>4 DEF DispatchStep, DispatchFetch, DispatchDrop, DispatchSkip,
                      DispatchMark, DispatchStart, DispatchCommit
  <2>5. ASSUME NEW w \in Workers, DispatchAbort(w) \/ Crash(w) PROVE FALSE
    BY <2>5 DEF DispatchAbort, Crash
  <2>6. ASSUME NEW w \in Workers, NEW a \in Agents, BreakerReset(w, a) PROVE FALSE
    BY <2>6 DEF BreakerReset
  <2>7. ASSUME NEW w \in Workers, NEW S \in SUBSET Tasks,
               CleanupStale(w, S) \/ CleanupStaleUnheard(S)
        PROVE  FALSE
    BY <2>7 DEF CleanupStale, CleanupStaleUnheard
  <2>8. ASSUME NEW r \in Runs, ExecStep(r) \/ ExecFault(r)
        PROVE  Live(r) /\ run[r].task = t /\ run'[r] = NoRun
    <3> USE DEF ExecStart, ExecComplete, ExecFail, ExecRetry, ExecExhaust, ExecStartError,
                ExecStartUnheard, ExecCompleteUnheard, ExecExhaustUnheard, ExecError
    <3>1. Live(r)
      BY <2>8, LiveType DEF ExecStep, ExecFault
    <3>2. run[r].task = t
      BY <2>8 DEF ExecStep, ExecFault
    <3>3. run[r].pc = "failed"
      BY <2>2, <3>1, <3>2
    <3> QED
      BY <2>8, <3>1, <3>2, <3>3 DEF ExecStep, ExecFault, End
  <2>9. PICK r \in Runs : ExecStep(r) \/ ExecFault(r)
    BY <2>3, <2>4, <2>5, <2>6, <2>7 DEF Next, vars
  <2> QED
    BY <2>2, <2>8, <2>9 DEF Unheard
<1>2. Init => TypeOK /\ DispatchInv /\ ExecInv
  BY InitTypeOK, InitDispatchInv, InitExecInv
<1>3. TypeOK /\ DispatchInv /\ ExecInv /\ [Next]_vars => (TypeOK /\ DispatchInv /\ ExecInv)'
  BY NextTypeOK, NextDispatchInv, NextExecInv
<1> QED
  BY <1>1, <1>2, <1>3, PTL DEF Spec, FinalStatusStays

-----------------------------------------------------------------------------
(* Retries and calls of an agent.                                          *)

\* A row is inserted with no retries.
LEMMA InitRetry == Init => RetryBelowMax
  BY NumbersAssumption DEF Init, RetryBelowMax

\* Only a retry that is not the last one is counted in the row.
LEMMA NextRetry == TypeOK /\ RetryBelowMax /\ [Next]_vars => RetryBelowMax'
<1> SUFFICES ASSUME TypeOK, RetryBelowMax, [Next]_vars PROVE RetryBelowMax'
  OBVIOUS
<1> USE DEF rowVars, TypeOK, RetryBelowMax
<1>1. ASSUME NEW t \in Tasks, RetryTask(t) PROVE RetryBelowMax'
  BY <1>1, NumbersAssumption DEF RetryTask
<1>2. ASSUME NEW r \in Runs, ExecRetry(r) PROVE RetryBelowMax'
  <2>1. run[r].retry \in Nat /\ run[r].retry + 1 < MaxRetries
    BY <1>2, LiveType, NumbersAssumption DEF ExecRetry, Exhausted
  <2> QED
    BY <1>2, <2>1 DEF ExecRetry
<1>3. CASE UNCHANGED retry
  BY <1>3
<1> QED
  BY <1>1, <1>2, <1>3
  DEF Next, vars, Create, CancelTask, DispatchStep, DispatchFetch, DispatchDrop, DispatchSkip,
      DispatchMark, DispatchStart, DispatchCommit, DispatchAbort, Crash, BreakerReset,
      CleanupStale, CleanupStaleUnheard, ExecStep, ExecStart, ExecComplete, ExecFail,
      ExecExhaust, ExecFault, ExecStartError, ExecStartUnheard, ExecCompleteUnheard,
      ExecExhaustUnheard, ExecError

\* No retry_count reaches maxRetries: the dead-letter cron has nothing to move.
THEOREM RetryStaysBelowMax == Spec => []RetryBelowMax
<1>1. Init => TypeOK /\ RetryBelowMax
  BY InitTypeOK, InitRetry
<1>2. TypeOK /\ RetryBelowMax /\ [Next]_vars => (TypeOK /\ RetryBelowMax)'
  BY NextTypeOK, NextRetry
<1> QED
  BY <1>1, <1>2, PTL DEF Spec

\* The executions of a next state, with the retry_count they started from and no
\* more of them starting.
SameStarts ==
    \A r \in Runs : Live(r)' => /\ Live(r)
                                /\ run'[r].task = run[r].task
                                /\ run'[r].retry = run[r].retry
                                /\ run'[r].pc = "starting" => run[r].pc = "starting"

\* Steps that call no agent and count no retry.
LEMMA CallsFrame ==
  ASSUME CallsInv, SameStarts, UNCHANGED <<retry, calls>>, disturbed \subseteq disturbed',
         \A t \in Tasks : status'[t] \in {"none", "PENDING"} => status[t] \in {"none", "PENDING"}
  PROVE  CallsInv'
  BY DEF CallsInv, SameStarts

\* CallsInv, read for one task, and OneExecutionPerTask after a step.
LEMMA CallsOf ==
  ASSUME CallsInv, NEW t \in Tasks, t \notin disturbed
  PROVE  /\ calls[t] <= retry[t] + 1
         /\ status[t] \in {"none", "PENDING"} => calls[t] <= retry[t]
         /\ \A r \in Runs : Live(r) /\ run[r].task = t =>
               /\ run[r].retry = retry[t]
               /\ run[r].pc = "starting" => calls[t] <= retry[t]
  BY DEF CallsInv

\* Two executions of an undisturbed task are the same one.
LEMMA OnlyOne ==
  ASSUME OneExecutionPerTask, SameStarts, NEW r \in Runs, Live(r), run[r].task \notin disturbed,
         NEW s \in Runs, Live(s)', run'[s].task = run[r].task
  PROVE  s = r
  BY DEF OneExecutionPerTask, SameStarts

\* No agent has been called initially.
LEMMA InitCalls == Init => CallsInv
  BY DEF Init, CallsInv, Live

\* The account of calls and retries is inductive.
LEMMA NextCalls ==
  TypeOK /\ DispatchInv /\ ExecInv /\ CallsInv /\ [Next]_vars => CallsInv'
<1> SUFFICES ASSUME TypeOK, DispatchInv, ExecInv, CallsInv, [Next]_vars PROVE CallsInv'
  OBVIOUS
<1> USE DEF rowVars, historyVars
<1>1. ASSUME NEW t \in Tasks, Create(t) \/ CancelTask(t) PROVE CallsInv'
  BY <1>1, CallsFrame DEF Create, CancelTask, SameStarts, Live, TypeOK
<1>2. ASSUME NEW t \in Tasks, RetryTask(t) PROVE CallsInv'
  <2>1. UNCHANGED run /\ disturbed \subseteq disturbed'
    BY <1>2 DEF RetryTask
  <2>2. t \notin disturbed' => \A r \in Runs : Live(r)' => run'[r].task # t
    BY <1>2 DEF RetryTask, Live
  <2>3. calls'[t] = 0 /\ retry'[t] = 0
    BY <1>2 DEF RetryTask, TypeOK
  <2>4. \A u \in Tasks \ {t} : /\ calls'[u] = calls[u] /\ retry'[u] = retry[u]
                               /\ status'[u] = status[u]
    BY <1>2 DEF RetryTask, TypeOK
  <2> QED
    BY <2>1, <2>2, <2>3, <2>4 DEF CallsInv, Live
<1>3. ASSUME NEW w \in Workers, \/ DispatchFetch(w) \/ DispatchDrop(w) \/ DispatchSkip(w)
                                \/ DispatchMark(w) \/ DispatchAbort(w)
      PROVE  CallsInv'
  BY <1>3, CallsFrame DEF DispatchFetch, DispatchDrop, DispatchSkip, DispatchMark,
                          DispatchAbort, SameStarts, Live
<1>4. ASSUME NEW w \in Workers, DispatchStart(w) PROVE CallsInv'
  <2>1. PICK t \in disp[w].todo, r \in Runs :
           /\ ~Live(r)
           /\ run' = [run EXCEPT ![r] =
                [pc |-> "starting", worker |-> w, task |-> t, retry |-> retry[t]]]
    BY <1>4 DEF DispatchStart
  <2>2. status[t] = "PENDING" /\ UNCHANGED <<status, retry, calls, disturbed>>
    BY <1>4 DEF DispatchStart, DispatchInv, WellFormed
  <2>3. /\ run'[r] = [pc |-> "starting", worker |-> w, task |-> t, retry |-> retry[t]]
        /\ \A s \in Runs \ {r} : run'[s] = run[s]
    BY <2>1 DEF TypeOK
  <2> QED
    BY <2>2, <2>3 DEF CallsInv, Live
<1>5. ASSUME NEW w \in Workers, DispatchCommit(w) PROVE CallsInv'
  BY <1>5, CallsFrame DEF DispatchCommit, SameStarts, Live
<1>6. ASSUME NEW w \in Workers, Crash(w) PROVE CallsInv'
  BY <1>6, CallsFrame DEF Crash, SameStarts, Live
<1>7. ASSUME NEW w \in Workers, NEW a \in Agents, BreakerReset(w, a) PROVE CallsInv'
  BY <1>7, CallsFrame DEF BreakerReset, SameStarts, Live
<1>8. ASSUME NEW w \in Workers, NEW S \in SUBSET Tasks,
             CleanupStale(w, S) \/ CleanupStaleUnheard(S)
      PROVE  CallsInv'
  BY <1>8, CallsFrame DEF CleanupStale, CleanupStaleUnheard, SameStarts, Live
<1>9. ASSUME NEW r \in Runs, ExecStart(r) PROVE CallsInv'
  <2>1. run[r] \in Execution /\ Live(r) /\ run[r].task \in Tasks
    BY <1>9, LiveType DEF ExecStart
  <2>2. run' = [run EXCEPT ![r] = [run[r] EXCEPT !.pc = "running"]]
    BY <1>9 DEF ExecStart
  <2>3. SameStarts /\ run'[r].pc = "running"
    BY <2>1, <2>2 DEF SameStarts, Live, Execution, TypeOK
  <2>4. UNCHANGED <<retry, disturbed>>
    BY <1>9 DEF ExecStart
  <2>5. ASSUME NEW t \in Tasks \ disturbed, t # run[r].task
        PROVE  /\ calls'[t] <= retry'[t] + 1
               /\ status'[t] \in {"none", "PENDING"} => calls'[t] <= retry'[t]
               /\ \A s \in Runs : Live(s)' /\ run'[s].task = t =>
                     /\ run'[s].retry = retry'[t]
                     /\ run'[s].pc = "starting" => calls'[t] <= retry'[t]
    <3>1. calls'[t] = calls[t] /\ status'[t] = status[t]
      BY <1>9, <2>5 DEF ExecStart, TypeOK
    <3>2. t \in Tasks \ disturbed
      BY <2>5
    <3> QED
      BY <2>3, <2>4, <3>1, <3>2, CallsOf DEF SameStarts
  <2>6. ASSUME run[r].task \notin disturbed
        PROVE  /\ calls'[run[r].task] <= retry'[run[r].task] + 1
               /\ status'[run[r].task] = "PROCESSING"
               /\ \A s \in Runs : Live(s)' /\ run'[s].task = run[r].task =>
                     s = r /\ run'[s].retry = retry'[run[r].task]
    <3>1. calls[run[r].task] <= retry[run[r].task]
      BY <1>9, <2>1, <2>6 DEF CallsInv, ExecStart
    <3>2. calls'[run[r].task] <= calls[run[r].task] + 1 /\ status'[run[r].task] = "PROCESSING"
      BY <1>9, <2>1 DEF ExecStart, TypeOK
    <3>3. retry[run[r].task] \in Nat /\ calls[run[r].task] \in Nat /\ calls'[run[r].task] \in Nat
      BY <1>9, <2>1 DEF TypeOK, ExecStart
    <3>4. \A s \in Runs : Live(s)' /\ run'[s].task = run[r].task =>
                     s = r /\ run'[s].retry = retry'[run[r].task]
      BY <2>1, <2>3, <2>4, <2>6, CallsOf, OnlyOne DEF SameStarts, ExecInv
    <3> QED
      BY <2>4, <3>1, <3>2, <3>3, <3>4
  <2> QED
    BY <2>3, <2>4, <2>5, <2>6 DEF CallsInv
<1>10. ASSUME NEW r \in Runs, \/ ExecFail(r) \/ ExecStartError(r)
                               \/ ExecStartUnheard(r) \/ ExecCompleteUnheard(r)
       PROVE  CallsInv'
  <2> USE DEF ExecFail, ExecStartError, ExecStartUnheard, ExecCompleteUnheard
  <2>1. run[r] \in Execution /\ Live(r)
    BY <1>10, LiveType
  <2>2. run' = [run EXCEPT ![r] = [run[r] EXCEPT !.pc = "failed"]]
    BY <1>10
  <2>3. SameStarts
    BY <2>1, <2>2 DEF SameStarts, Live, Execution, TypeOK
  <2>4. \A t \in Tasks : status'[t] \in {status[t], "PROCESSING", "COMPLETED"}
    BY <1>10 DEF TypeOK
  <2> QED
    BY <1>10, <2>3, <2>4, CallsFrame
<1>11. ASSUME NEW r \in Runs, \/ ExecComplete(r) \/ ExecExhaust(r)
                               \/ ExecExhaustUnheard(r) \/ ExecError(r)
       PROVE  CallsInv'
  <2> USE DEF ExecComplete, ExecExhaust, ExecExhaustUnheard, ExecError
  <2>1. SameStarts
    BY <1>11 DEF End, SameStarts, Live, TypeOK
  <2>2. \A t \in Tasks : status'[t] \in {status[t], "COMPLETED", "FAILED"}
    BY <1>11 DEF TypeOK
  <2> QED
    BY <1>11, <2>1, <2>2, CallsFrame
<1>12. ASSUME NEW r \in Runs, ExecRetry(r) PROVE CallsInv'
  <2>1. run[r] \in Execution /\ Live(r) /\ run[r].task \in Tasks /\ run[r].retry \in Nat
    BY <1>12, LiveType DEF ExecRetry
  <2>2. run' = [run EXCEPT ![r] = NoRun]
    BY <1>12 DEF ExecRetry, End
  <2>3. SameStarts /\ ~Live(r)'
    BY <2>2 DEF SameStarts, Live, TypeOK
  <2>4. UNCHANGED <<calls, disturbed>>
    BY <1>12 DEF ExecRetry
  <2>5. /\ \A t \in Tasks \ {run[r].task} : status'[t] = status[t] /\ retry'[t] = retry[t]
        /\ retry'[run[r].task] = run[r].retry + 1
    BY <1>12, <2>1 DEF ExecRetry, TypeOK
  <2>6. ASSUME run[r].task \notin disturbed
        PROVE  /\ calls[run[r].task] <= retry'[run[r].task]
               /\ \A s \in Runs : Live(s)' => run'[s].task # run[r].task
    <3>1. calls[run[r].task] <= run[r].retry + 1
      BY <2>1, <2>6 DEF CallsInv
    <3>2. \A s \in Runs : Live(s)' => run'[s].task # run[r].task
      BY <2>1, <2>3, <2>6, OnlyOne DEF ExecInv
    <3> QED
      BY <2>5, <3>1, <3>2
  <2>7. /\ calls[run[r].task] \in Nat /\ retry'[run[r].task] \in Nat
    BY <2>1, <2>5 DEF TypeOK
  <2>8. ASSUME NEW t \in Tasks \ disturbed, t # run[r].task
        PROVE  /\ calls'[t] <= retry'[t] + 1
               /\ status'[t] \in {"none", "PENDING"} => calls'[t] <= retry'[t]
               /\ \A s \in Runs : Live(s)' /\ run'[s].task = t =>
                     /\ run'[s].retry = retry'[t]
                     /\ run'[s].pc = "starting" => calls'[t] <= retry'[t]
    <3>1. t \in Tasks /\ t \notin disturbed /\ status'[t] = status[t] /\ retry'[t] = retry[t]
      BY <2>5, <2>8
    <3> QED
      BY <2>3, <2>4, <3>1, CallsOf DEF SameStarts
  <2>9. calls[run[r].task] <= retry'[run[r].task] => calls[run[r].task] <= retry'[run[r].task] + 1
    BY <2>7
  <2> QED
    BY <2>4, <2>6, <2>8, <2>9 DEF CallsInv
<1>13. CASE UNCHANGED vars
  BY <1>13, CallsFrame DEF vars, SameStarts, Live
<1> QED
  BY <1>1, <1>2, <1>3, <1>4, <1>5, <1>6, <1>7, <1>8, <1>9, <1>10, <1>11, <1>12, <1>13
  DEF Next, DispatchStep, ExecStep, ExecFault

\* Between two retryTask a task calls its agent maxRetries times at most.
THEOREM CallsStayBounded == Spec => []CallsBounded
<1>1. Init => TypeOK /\ DispatchInv /\ ExecInv /\ RetryBelowMax /\ CallsInv
  BY InitTypeOK, InitDispatchInv, InitExecInv, InitRetry, InitCalls
<1>2. TypeOK /\ DispatchInv /\ ExecInv /\ RetryBelowMax /\ CallsInv /\ [Next]_vars
        => (TypeOK /\ DispatchInv /\ ExecInv /\ RetryBelowMax /\ CallsInv)'
  BY NextTypeOK, NextDispatchInv, NextExecInv, NextRetry, NextCalls
<1>3. TypeOK /\ RetryBelowMax /\ CallsInv => CallsBounded
  BY NumbersAssumption DEF TypeOK, RetryBelowMax, CallsInv, CallsBounded
<1> QED
  BY <1>1, <1>2, <1>3, PTL DEF Spec

-----------------------------------------------------------------------------
(* Concurrency limits.                                                     *)

\* The executions of an agent in a process are finitely many.
LEMMA RunsOfFinite ==
  ASSUME NEW w, NEW a
  PROVE  IsFiniteSet(RunsOf(w, a)) /\ Cardinality(RunsOf(w, a)) \in Nat
  BY RunsAssumption, FS_Subset, FS_CardinalityType DEF RunsOf

\* LimitInv for one agent in one process.
LimitOf(w, a) ==
    /\ active[w][a] <= Limit[a]
    /\ cleaned[w][a] < MaxCount
          => Cardinality(RunsOf(w, a)) <= active[w][a] + cleaned[w][a]
    /\ \A t \in Tasks :
          disp[w].pc = "mark" /\ IsFirst(t, disp[w].todo) /\ AgentOf[t] = a =>
              /\ disp[w].current < Limit[a]
              /\ cleaned[w][a] < MaxCount
                    => Cardinality(RunsOf(w, a)) <= disp[w].current + cleaned[w][a]

\* LimitInv, read for one process and one agent.
LEMMA LimitInvOf == LimitInv <=> \A w \in Workers, a \in Agents : LimitOf(w, a)
  BY DEF LimitInv, LimitOf

\* Steps that neither count nor start nor end an execution of the agent.
LEMMA LimitFrame ==
  ASSUME NEW w \in Workers, NEW a \in Agents, LimitOf(w, a),
         active'[w][a] = active[w][a], cleaned'[w][a] = cleaned[w][a],
         RunsOf(w, a)' = RunsOf(w, a),
         disp'[w].pc = "mark" => disp'[w] = disp[w]
  PROVE  LimitOf(w, a)'
  BY DEF LimitOf

\* The executions of an agent stay the same when none starts or ends.
LEMMA SameRunsOf ==
  ASSUME NEW w, NEW a,
         \A r \in Runs : /\ Live(r)' <=> Live(r)
                         /\ run'[r].task = run[r].task
                         /\ run'[r].worker = run[r].worker
  PROVE  RunsOf(w, a)' = RunsOf(w, a)
  BY DEF RunsOf

\* Every counter starts at 0, with no execution alive.
LEMMA InitLimit == Init => LimitInv
<1> SUFFICES ASSUME Init, NEW w \in Workers, NEW a \in Agents PROVE LimitOf(w, a)
  BY LimitInvOf
<1>1. RunsOf(w, a) = {}
  BY DEF Init, RunsOf, Live
<1>2. Cardinality(RunsOf(w, a)) = 0
  BY <1>1, FS_EmptySet
<1>3. Limit[a] \in Nat
  BY AgentsAssumption
<1> QED
  BY <1>2, <1>3 DEF Init, LimitOf, NoDispatch

\* The end of an execution takes one off the counter, unless it is 0 already.
LEMMA EndLimit ==
  ASSUME TypeOK, LimitInv, NEW r \in Runs,
         run[r].pc \in {"starting", "running", "failed"}, End(r),
         UNCHANGED <<disp, cleaned>>
  PROVE  LimitInv'
<1> SUFFICES ASSUME NEW w \in Workers, NEW a \in Agents PROVE LimitOf(w, a)'
  BY DEF LimitInv, LimitOf
<1>1. LimitOf(w, a)
  BY LimitInvOf
<1>2. /\ Live(r) /\ run' = [run EXCEPT ![r] = NoRun]
      /\ run[r].worker \in Workers /\ AgentOf[run[r].task] \in Agents
  BY LiveType DEF End
<1>3. ~Live(r)' /\ \A s \in Runs \ {r} : run'[s] = run[s]
  BY <1>2 DEF Live, TypeOK
<1>4. CASE run[r].worker = w /\ AgentOf[run[r].task] = a
  <2>1. r \in RunsOf(w, a) /\ RunsOf(w, a)' = RunsOf(w, a) \ {r}
    BY <1>2, <1>3, <1>4 DEF RunsOf, Live
  <2>2. Cardinality(RunsOf(w, a)') = Cardinality(RunsOf(w, a)) - 1
    BY <2>1, RunsOfFinite, FS_RemoveElement
  <2>3. active'[w][a] = Less(active[w][a], 1)
    BY <1>2, <1>4 DEF End, TypeOK
  <2>4. /\ active[w][a] \in Nat /\ cleaned[w][a] \in Nat /\ Limit[a] \in Nat
        /\ disp[w].current \in Nat /\ Cardinality(RunsOf(w, a)) \in Nat
        /\ MaxCount \in Nat
    BY AgentsAssumption, NumbersAssumption, RunsOfFinite DEF TypeOK, Dispatch
  <2>5. active'[w][a] <= active[w][a] /\ active[w][a] <= active'[w][a] + 1 /\ active'[w][a] \in Nat
    BY <2>3, <2>4, LessType
  <2> QED
    BY <1>1, <2>2, <2>4, <2>5 DEF LimitOf
<1>5. CASE ~(run[r].worker = w /\ AgentOf[run[r].task] = a)
  <2>1. RunsOf(w, a)' = RunsOf(w, a)
    BY <1>3, <1>5 DEF RunsOf, Live
  <2>2. active'[w][a] = active[w][a]
    BY <1>2, <1>5 DEF End, TypeOK
  <2> QED
    BY <1>1, <2>1, <2>2, LimitFrame
<1> QED
  BY <1>4, <1>5

\* The account of executions and counters is inductive.
LEMMA NextLimit == TypeOK /\ DispatchInv /\ LimitInv /\ [Next]_vars => LimitInv'
<1> SUFFICES ASSUME TypeOK, DispatchInv, LimitInv, [Next]_vars PROVE LimitInv'
  OBVIOUS
<1> USE DEF rowVars, historyVars
<1>0. /\ \A w \in Workers, a \in Agents : LimitOf(w, a)
      /\ \A w \in Workers, a \in Agents :
            /\ active[w][a] \in Nat /\ cleaned[w][a] \in Nat /\ Limit[a] \in Nat
            /\ disp[w].current \in Nat /\ Cardinality(RunsOf(w, a)) \in Nat
      /\ MaxCount \in Nat
  BY LimitInvOf, AgentsAssumption, NumbersAssumption, RunsOfFinite DEF TypeOK, Dispatch
<1>1. CASE UNCHANGED <<active, cleaned, run, disp>>
  BY <1>1 DEF LimitInv, RunsOf, Live
<1>2. ASSUME NEW w \in Workers, \/ DispatchFetch(w) \/ DispatchDrop(w) \/ DispatchSkip(w)
                                \/ DispatchCommit(w) \/ DispatchAbort(w)
      PROVE  LimitInv'
  <2>1. UNCHANGED <<active, cleaned, run>> /\ \A v \in Workers \ {w} : disp'[v] = disp[v]
    BY <1>2 DEF DispatchFetch, DispatchDrop, DispatchSkip, DispatchCommit, DispatchAbort, TypeOK
  <2>2. disp'[w].pc # "mark"
    <3>1. \A t : /\ disp[w].pc = "look" => Dropping(disp[w], t).pc = "look"
                 /\ disp[w].pc = "look" => Skipping(disp[w], t).pc = "look"
      BY DEF Dropping, Skipping, TypeOK, Dispatch
    <3>2. NoDispatch.pc # "mark" /\ \A S : Over(S).pc # "mark"
      BY DEF NoDispatch, Over
    <3>3. CASE DispatchFetch(w)
      BY <3>2, <3>3 DEF DispatchFetch, TypeOK
    <3>4. CASE DispatchDrop(w)
      BY <3>1, <3>4 DEF DispatchDrop, Looking, TypeOK
    <3>5. CASE DispatchSkip(w)
      BY <3>1, <3>5 DEF DispatchSkip, Looking, TypeOK
    <3>6. CASE DispatchCommit(w) \/ DispatchAbort(w)
      BY <3>2, <3>6 DEF DispatchCommit, DispatchAbort, TypeOK
    <3> QED
      BY <1>2, <3>3, <3>4, <3>5, <3>6
  <2>3. ASSUME NEW v \in Workers, NEW a \in Agents PROVE LimitOf(v, a)'
    <3>1. RunsOf(v, a)' = RunsOf(v, a)
      BY <2>1 DEF RunsOf, Live
    <3> QED
      BY <1>0, <2>1, <2>2, <3>1, LimitFrame
  <2> QED
    BY <2>3 DEF LimitInv, LimitOf
<1>3. ASSUME NEW w \in Workers, DispatchMark(w) PROVE LimitInv'
  <2>1. PICK t \in disp[w].todo :
           /\ IsFirst(t, disp[w].todo) /\ active[w][AgentOf[t]] < Limit[AgentOf[t]]
           /\ disp' = [disp EXCEPT ![w] = Marking(disp[w], active[w][AgentOf[t]])]
    BY <1>3 DEF DispatchMark, Looking
  <2>2. UNCHANGED <<active, cleaned, run>> /\ \A v \in Workers \ {w} : disp'[v] = disp[v]
    BY <1>3 DEF DispatchMark, TypeOK
  <2>3. disp'[w].current = active[w][AgentOf[t]] /\ disp'[w].todo = disp[w].todo
    BY <2>1 DEF Marking, TypeOK, Dispatch
  <2>4. \A u \in Tasks : IsFirst(u, disp[w].todo) => u = t
    <3>1. disp[w].todo \subseteq Nat
      BY TasksAssumption DEF TypeOK, Dispatch
    <3> QED
      BY <2>1, <3>1 DEF IsFirst
  <2>5. ASSUME NEW v \in Workers, NEW a \in Agents PROVE LimitOf(v, a)'
    <3>1. RunsOf(v, a)' = RunsOf(v, a)
      BY <2>2 DEF RunsOf, Live
    <3>2. CASE v = w
      BY <1>0, <2>1, <2>2, <2>3, <2>4, <3>1, <3>2 DEF LimitOf
    <3>3. CASE v # w
      BY <1>0, <2>2, <3>1, <3>3, LimitFrame
    <3> QED
      BY <3>2, <3>3
  <2> QED
    BY <2>5 DEF LimitInv, LimitOf
<1>4. ASSUME NEW w \in Workers, DispatchStart(w) PROVE LimitInv'
  <2>1. PICK t \in disp[w].todo, r \in Runs :
           /\ disp[w].pc = "mark" /\ IsFirst(t, disp[w].todo) /\ ~Live(r)
           /\ active' = [active EXCEPT ![w][AgentOf[t]] = disp[w].current + 1]
           /\ run' = [run EXCEPT ![r] =
                [pc |-> "starting", worker |-> w, task |-> t, retry |-> retry[t]]]
           /\ disp' = [disp EXCEPT ![w] = Starting(disp[w], t)]
    BY <1>4 DEF DispatchStart
  <2>2. t \in Tasks /\ AgentOf[t] \in Agents /\ UNCHANGED cleaned
    BY <1>4, AgentsAssumption DEF DispatchStart, TypeOK, Dispatch
  <2>3. /\ run'[r].task = t /\ run'[r].worker = w /\ Live(r)'
        /\ \A s \in Runs \ {r} : run'[s] = run[s]
    BY <2>1 DEF Live, NoRun, TypeOK
  <2>4. disp'[w].pc = "look" /\ \A v \in Workers \ {w} : disp'[v] = disp[v]
    BY <2>1 DEF Starting, TypeOK, Dispatch
  <2>5. ASSUME NEW v \in Workers, NEW a \in Agents PROVE LimitOf(v, a)'
    <3>1. CASE v = w /\ a = AgentOf[t]
      <4>1. RunsOf(w, a)' = RunsOf(w, a) \cup {r} /\ r \notin RunsOf(w, a)
        BY <2>1, <2>3, <3>1 DEF RunsOf, Live
      <4>2. Cardinality(RunsOf(w, a)') = Cardinality(RunsOf(w, a)) + 1
        BY <4>1, RunsOfFinite, FS_AddElement
      <4>3. active'[w][a] = disp[w].current + 1
        BY <2>1, <2>2, <3>1 DEF TypeOK
      <4>4. /\ disp[w].current < Limit[a]
            /\ cleaned[w][a] < MaxCount
                  => Cardinality(RunsOf(w, a)) <= disp[w].current + cleaned[w][a]
        BY <1>0, <2>1, <2>2, <3>1 DEF LimitOf
      <4> QED
        BY <1>0, <2>2, <2>4, <3>1, <4>2, <4>3, <4>4 DEF LimitOf
    <3>2. CASE ~(v = w /\ a = AgentOf[t])
      <4>1. RunsOf(v, a)' = RunsOf(v, a)
        BY <2>1, <2>3, <3>2 DEF RunsOf, Live
      <4>2. active'[v][a] = active[v][a]
        BY <2>1, <2>2, <3>2 DEF TypeOK
      <4> QED
        BY <1>0, <2>2, <2>4, <4>1, <4>2, LimitFrame
    <3> QED
      BY <3>1, <3>2
  <2> QED
    BY <2>5 DEF LimitInv, LimitOf
<1>5. ASSUME NEW w \in Workers, Crash(w) PROVE LimitInv'
  <2>1. /\ disp' = [disp EXCEPT ![w] = NoDispatch] /\ UNCHANGED cleaned
        /\ active' = [active EXCEPT ![w] = [a \in Agents |-> 0]]
        /\ run' = [r \in Runs |-> IF Live(r) /\ run[r].worker = w THEN NoRun ELSE run[r]]
    BY <1>5 DEF Crash
  <2>2. disp'[w].pc # "mark" /\ \A v \in Workers \ {w} : disp'[v] = disp[v]
    BY <2>1 DEF NoDispatch, TypeOK
  <2>3. ASSUME NEW v \in Workers, NEW a \in Agents PROVE LimitOf(v, a)'
    <3>1. CASE v = w
      <4>1. RunsOf(w, a)' = {}
        BY <2>1 DEF RunsOf, Live
      <4>2. Cardinality(RunsOf(w, a)') = 0
        BY <4>1, FS_EmptySet
      <4>3. active'[w][a] = 0
        BY <2>1 DEF TypeOK
      <4> QED
        BY <1>0, <2>1, <2>2, <3>1, <4>2, <4>3 DEF LimitOf
    <3>2. CASE v # w
      <4>1. RunsOf(v, a)' = RunsOf(v, a)
        BY <2>1, <3>2 DEF RunsOf, Live
      <4> QED
        BY <1>0, <2>1, <2>2, <3>2, <4>1, LimitFrame DEF TypeOK
    <3> QED
      BY <3>1, <3>2
  <2> QED
    BY <2>3 DEF LimitInv, LimitOf
<1>6. ASSUME NEW w \in Workers, NEW S \in SUBSET Tasks, CleanupStale(w, S) PROVE LimitInv'
  <2>1. /\ UNCHANGED <<disp, run>>
        /\ active' = [active EXCEPT ![w] =
                        [a \in Agents |-> Less(active[w][a], RowsOf(a, S))]]
        /\ cleaned' = [cleaned EXCEPT ![w] =
                        [a \in Agents |-> Saturated(cleaned[w][a] + RowsOf(a, S))]]
    BY <1>6 DEF CleanupStale
  <2>2. ASSUME NEW v \in Workers, NEW a \in Agents PROVE LimitOf(v, a)'
    <3>1. RunsOf(v, a)' = RunsOf(v, a)
      BY <2>1 DEF RunsOf, Live
    <3>2. CASE v = w
      <4>1. /\ active'[w][a] = Less(active[w][a], RowsOf(a, S))
            /\ cleaned'[w][a] = Saturated(cleaned[w][a] + RowsOf(a, S))
        BY <2>1 DEF TypeOK
      <4>2. /\ RowsOf(a, S) \in Nat /\ active'[w][a] \in Nat /\ active'[w][a] <= active[w][a]
            /\ active[w][a] <= active'[w][a] + RowsOf(a, S)
        BY <1>0, <4>1, CountType, LessType
      <4>3. cleaned'[w][a] < MaxCount
              => cleaned'[w][a] = cleaned[w][a] + RowsOf(a, S) /\ cleaned[w][a] < MaxCount
        BY <1>0, <4>1, <4>2 DEF Saturated
      <4> QED
        BY <1>0, <2>1, <3>1, <3>2, <4>2, <4>3 DEF LimitOf
    <3>3. CASE v # w
      BY <1>0, <2>1, <3>1, <3>3, LimitFrame DEF TypeOK
    <3> QED
      BY <3>2, <3>3
  <2> QED
    BY <2>2 DEF LimitInv, LimitOf
<1>7. ASSUME NEW r \in Runs, \/ ExecStart(r) \/ ExecFail(r) \/ ExecStartError(r)
                              \/ ExecStartUnheard(r) \/ ExecCompleteUnheard(r)
      PROVE  LimitInv'
  <2> USE DEF ExecStart, ExecFail, ExecStartError, ExecStartUnheard, ExecCompleteUnheard
  <2>1. run[r] \in Execution /\ Live(r)
    BY <1>7, LiveType
  <2>2. PICK pc \in {"running", "failed"} : run' = [run EXCEPT ![r] = [run[r] EXCEPT !.pc = pc]]
    BY <1>7
  <2>3. UNCHANGED <<active, cleaned, disp>>
    BY <1>7
  <2>4. \A s \in Runs : /\ Live(s)' <=> Live(s)
                        /\ run'[s].task = run[s].task
                        /\ run'[s].worker = run[s].worker
    BY <2>1, <2>2 DEF Live, NoRun, Execution, TypeOK
  <2>5. ASSUME NEW v \in Workers, NEW a \in Agents PROVE LimitOf(v, a)'
    BY <1>0, <2>3, <2>4, SameRunsOf, LimitFrame
  <2> QED
    BY <2>5 DEF LimitInv, LimitOf
<1>8. ASSUME NEW r \in Runs, \/ ExecComplete(r) \/ ExecRetry(r) \/ ExecExhaust(r)
                              \/ ExecExhaustUnheard(r) \/ ExecError(r)
      PROVE  LimitInv'
  BY <1>8, EndLimit DEF ExecComplete, ExecRetry, ExecExhaust, ExecExhaustUnheard, ExecError
<1> QED
  BY <1>1, <1>2, <1>3, <1>4, <1>5, <1>6, <1>7, <1>8
  DEF Next, vars, DispatchStep, ExecStep, ExecFault, Create, CancelTask, RetryTask,
      BreakerReset, CleanupStaleUnheard

\* A process executes more tasks of an agent than its limit only by as many as
\* the stale cleanup subtracted from its counter, however stale the counter was
\* when the dispatcher added one to it.
THEOREM LimitsHoldUpToCleanups == Spec => []ExcessOnlyFromCleanup
<1>1. Init => TypeOK /\ DispatchInv /\ LimitInv
  BY InitTypeOK, InitDispatchInv, InitLimit
<1>2. TypeOK /\ DispatchInv /\ LimitInv /\ [Next]_vars => (TypeOK /\ DispatchInv /\ LimitInv)'
  BY NextTypeOK, NextDispatchInv, NextLimit
<1>3. TypeOK /\ LimitInv => ExcessOnlyFromCleanup
  <2> SUFFICES ASSUME TypeOK, LimitInv, NEW w \in Workers, NEW a \in Agents,
                      cleaned[w][a] < MaxCount
               PROVE  Cardinality(RunsOf(w, a)) <= Limit[a] + cleaned[w][a]
    BY DEF ExcessOnlyFromCleanup
  <2>1. /\ active[w][a] \in Nat /\ cleaned[w][a] \in Nat /\ Limit[a] \in Nat
        /\ Cardinality(RunsOf(w, a)) \in Nat
    BY AgentsAssumption, RunsOfFinite DEF TypeOK
  <2> QED
    BY <2>1 DEF LimitInv
<1> QED
  BY <1>1, <1>2, <1>3, PTL DEF Spec

-----------------------------------------------------------------------------
(* The task queue implements the work queue of WorkQueue.                  *)

\* A task is always somewhere in that queue.
LEMMA StandingType ==
  ASSUME TypeOK, NEW t \in Tasks
  PROVE  Standing(t) \in Queue!States /\ (Standing(t) = "loose" <=> t \in disturbed)
  BY DEF TypeOK, Standing, Resting, Queue!States, Statuses

\* What a step leaves alone keeps its place.
LEMMA SamePlace ==
  ASSUME NEW t \in Tasks, t \in disturbed' <=> t \in disturbed, status'[t] = status[t],
         \A w \in Workers : t \in disp'[w].started <=> t \in disp[w].started,
         \A r \in Runs : Executes(r, t)' <=> Executes(r, t)
  PROVE  Standing(t)' = Standing(t) /\ Holders(t)' = Holders(t)
  BY DEF Standing, Holders

\* An execution keeps its task in its place, whatever is written about it.
LEMMA SameWork ==
  ASSUME NEW t \in Tasks, t \in disturbed' <=> t \in disturbed,
         \A r \in Runs : Executes(r, t)' <=> Executes(r, t),
         \E r \in Runs : Executes(r, t)
  PROVE  Standing(t)' = Standing(t) /\ Holders(t)' = Holders(t)
  BY DEF Standing, Holders

\* A task whose row was taken stays loose.
LEMMA StaysLoose ==
  ASSUME NEW t \in Tasks, t \in disturbed, t \in disturbed'
  PROVE  Standing(t)' = Standing(t) /\ Holders(t)' = Holders(t)
  BY DEF Standing, Holders

\* A step without a change of place is a stuttering step of the queue.
LEMMA QuietInQueue ==
  ASSUME \A t \in Tasks : Standing(t)' = Standing(t) /\ Holders(t)' = Holders(t)
  PROVE  UNCHANGED Queue!vars
<1>1. [t \in Tasks |-> Standing(t)]' = [t \in Tasks |-> Standing(t)]
  OBVIOUS
<1>2. [t \in Tasks |-> Holders(t)]' = [t \in Tasks |-> Holders(t)]
  OBVIOUS
<1> QED
  BY <1>1, <1>2 DEF Queue!vars

\* A task that goes to another place alone.
LEMMA SendInQueue ==
  ASSUME NEW t \in Tasks, NEW to, NEW who, Standing(t)' = to, Holders(t)' = who,
         \A u \in Tasks \ {t} : Standing(u)' = Standing(u) /\ Holders(u)' = Holders(u)
  PROVE  Queue!Send({t}, to, who)
<1>1. [u \in Tasks |-> Standing(u)]' =
        [i \in Tasks |-> IF i \in {t} THEN to ELSE [u \in Tasks |-> Standing(u)][i]]
  OBVIOUS
<1>2. [u \in Tasks |-> Holders(u)]' =
        [i \in Tasks |-> IF i \in {t} THEN who ELSE [u \in Tasks |-> Holders(u)][i]]
  OBVIOUS
<1> QED
  BY <1>1, <1>2 DEF Queue!Send

\* Tasks that are settled while they wait.
LEMMA RefuseInQueue ==
  ASSUME TypeOK',
         \A t \in Tasks :
            /\ Standing(t)' # Standing(t) =>
                  Standing(t) = "waiting" /\ Standing(t)' \in {"done", "dead"}
            /\ Holders(t)' = Holders(t)
  PROVE  [Queue!Next]_(Queue!vars)
<1>1. \A t \in Tasks : Standing(t)' \in Queue!States
  BY StandingType DEF TypeOK, Standing, Resting, Queue!States, Statuses
<1>2. [t \in Tasks |-> Standing(t)]' \in [Tasks -> Queue!States]
  BY <1>1
<1>3. [t \in Tasks |-> Holders(t)]' = [t \in Tasks |-> Holders(t)]
  OBVIOUS
<1>4. Queue!Refuse
  BY <1>2, <1>3 DEF Queue!Refuse
<1> QED
  BY <1>4 DEF Queue!Next

\* Tasks that come loose or that are returned.
LEMMA ReturnInQueue ==
  ASSUME TypeOK',
         \A t \in Tasks :
            /\ Standing(t)' # Standing(t) =>
                  \/ Standing(t)' = "loose"
                  \/ Standing(t) = "dead" /\ Standing(t)' = "waiting"
            /\ Holders(t)' = IF Standing(t)' = "loose" THEN {} ELSE Holders(t)
  PROVE  [Queue!Next]_(Queue!vars)
<1>1. \A t \in Tasks : Standing(t)' \in Queue!States
  BY StandingType DEF TypeOK, Standing, Resting, Queue!States, Statuses
<1>2. [t \in Tasks |-> Standing(t)]' \in [Tasks -> Queue!States]
  BY <1>1
<1>3. [t \in Tasks |-> Holders(t)]' =
        [i \in Tasks |-> IF [t \in Tasks |-> Standing(t)]'[i] = "loose" THEN {}
                         ELSE [t \in Tasks |-> Holders(t)][i]]
  OBVIOUS
<1>4. Queue!Return
  BY <1>2, <1>3 DEF Queue!Return
<1> QED
  BY <1>4 DEF Queue!Next

\* What lost executions had may go anywhere, and what nobody writes about any more
\* anywhere but to what is done.
Lost(t, C) ==
    CASE Standing(t) = "stuck" -> Standing(t)' \in {"stuck", "waiting", "dead"}
      [] Standing(t) = "held" /\ Holders(t) \subseteq C ->
             Standing(t)' \in {"stuck", "waiting", "dead", "done"}
      [] OTHER -> Standing(t)' = Standing(t)
LEMMA LoseInQueue ==
  ASSUME TypeOK', NEW C \in SUBSET Runs,
         \A t \in Tasks :
            /\ Holders(t)' = Holders(t) \ C
            /\ Lost(t, C)
  PROVE  [Queue!Next]_(Queue!vars)
<1>1. \A t \in Tasks : Standing(t)' \in Queue!States
  BY StandingType DEF TypeOK, Standing, Resting, Queue!States, Statuses
<1>2. [t \in Tasks |-> Standing(t)]' \in [Tasks -> Queue!States]
  BY <1>1
<1>3. [t \in Tasks |-> Holders(t)]' = [i \in Tasks |-> [t \in Tasks |-> Holders(t)][i] \ C]
  OBVIOUS
<1>4. Queue!Lose(C)
  BY <1>2, <1>3 DEF Queue!Lose, Lost
<1> QED
  BY <1>4 DEF Queue!Next

-----------------------------------------------------------------------------
(* Where a task is, by its row, its dispatch and its execution.            *)

\* Only a locked, and so a PENDING, row is to be committed as PROCESSING; one that
\* its dispatch has yet to look at, or refuses, is not.
LEMMA NotStarted ==
  ASSUME TypeOK, DispatchInv, NEW t \in Tasks
  PROVE  /\ t \notin Locked \/ status[t] # "PENDING"
               => \A w \in Workers : t \notin disp[w].started
         /\ (\E v \in Workers : t \in disp[v].todo \cup disp[v].dropped)
               => \A w \in Workers : t \notin disp[w].started
  BY DEF DispatchInv, WellFormed, Locked

\* A row that no dispatch has started and that is not PROCESSING, FAILED or COMPLETED
\* has no execution, so the task is where its row says.
LEMMA FreeTask ==
  ASSUME TypeOK, ExecInv, NEW t \in Tasks \ disturbed,
         \A w \in Workers : t \notin disp[w].started,
         status[t] \notin {"PROCESSING", "FAILED", "COMPLETED"}
  PROVE  /\ \A r \in Runs : ~Executes(r, t)
         /\ Standing(t) = Resting(status[t]) /\ Holders(t) = {}
<1>1. ASSUME NEW r \in Runs, Executes(r, t) PROVE FALSE
  <2>1. run[r].worker \in Workers
    BY <1>1 DEF TypeOK, Executes, Live, Execution
  <2> QED
    BY <1>1, <2>1 DEF ExecInv, ExecutionInv, Executes
<1> QED
  BY <1>1 DEF Standing, Holders

\* The row of a task in execution, unless it was taken, is waiting for the commit of
\* its dispatch, or has been committed and not been settled but as stale, or without
\* the execution's having heard of it.
LEMMA ExecutedRow ==
  ASSUME TypeOK, DispatchInv, ExecInv, NEW t \in Tasks \ disturbed, NEW r \in Runs,
         Executes(r, t)
  PROVE  /\ status[t] \in {"PENDING", "PROCESSING", "FAILED", "COMPLETED"}
         /\ \A s \in Runs : Executes(s, t) => s = r
         /\ Standing(t) = "held" /\ Holders(t) = {r}
<1>1. run[r].worker \in Workers
  BY DEF TypeOK, Executes, Live, Execution
<1>2. status[t] \in {"PENDING", "PROCESSING", "FAILED", "COMPLETED"}
  BY <1>1 DEF ExecInv, ExecutionInv, Executes, DispatchInv, WellFormed
<1>3. \A s \in Runs : Executes(s, t) => s = r
  BY DEF ExecInv, OneExecutionPerTask, Executes
<1> QED
  BY <1>2, <1>3 DEF Standing, Holders

-----------------------------------------------------------------------------
(* Steps of the queue.                                                     *)

\* A new task waits.
LEMMA CreateIsAdd ==
  ASSUME TypeOK, DispatchInv, ExecInv, NEW t \in Tasks, Create(t)
  PROVE  [Queue!Next]_(Queue!vars)
<1>1. /\ status[t] = "none" /\ status'[t] = "PENDING"
      /\ UNCHANGED <<disturbed, disp, run>>
      /\ \A u \in Tasks \ {t} : status'[u] = status[u]
  BY DEF Create, TypeOK, rowVars, historyVars
<1>2. \A u \in Tasks \ {t} : Standing(u)' = Standing(u) /\ Holders(u)' = Holders(u)
  BY <1>1, SamePlace DEF Executes, Live
<1>3. CASE t \in disturbed
  BY <1>1, <1>2, <1>3, StaysLoose, QuietInQueue
<1>4. CASE t \notin disturbed
  <2>1. \A w \in Workers : t \notin disp[w].started
    BY <1>1, NotStarted
  <2>2. \A r \in Runs : ~Executes(r, t)
    BY <1>1, <1>4, <2>1, FreeTask
  <2>3. Standing(t) = "absent"
    BY <1>1, <1>4, <2>1, FreeTask DEF Resting
  <2>4. Standing(t)' = "waiting" /\ Holders(t)' = {}
    BY <1>1, <1>4, <2>1, <2>2 DEF Standing, Holders, Resting, Executes, Live
  <2>5. Queue!Send({t}, "waiting", {})
    BY <1>2, <2>4, SendInQueue
  <2>6. Queue!Add(t)
    BY <2>3, <2>5 DEF Queue!Add
  <2> QED
    BY <2>6 DEF Queue!Next
<1> QED
  BY <1>3, <1>4

\* cancelTask settles a task that waits.
LEMMA CancelIsRefuse ==
  ASSUME TypeOK, TypeOK', DispatchInv, ExecInv, NEW t \in Tasks, CancelTask(t)
  PROVE  [Queue!Next]_(Queue!vars)
<1>1. /\ status[t] = "PENDING" /\ t \notin Locked /\ status'[t] = "CANCELLED"
      /\ UNCHANGED <<disturbed, disp, run>>
      /\ \A u \in Tasks \ {t} : status'[u] = status[u]
  BY DEF CancelTask, Fetchable, TypeOK, rowVars, historyVars
<1>2. \A u \in Tasks \ {t} : Standing(u)' = Standing(u) /\ Holders(u)' = Holders(u)
  BY <1>1, SamePlace DEF Executes, Live
<1>3. CASE t \in disturbed
  BY <1>1, <1>2, <1>3, StaysLoose, QuietInQueue
<1>4. CASE t \notin disturbed
  <2>1. \A w \in Workers : t \notin disp[w].started
    BY <1>1, NotStarted
  <2>2. \A r \in Runs : ~Executes(r, t)
    BY <1>1, <1>4, <2>1, FreeTask
  <2>3. Standing(t) = "waiting" /\ Holders(t) = {}
    BY <1>1, <1>4, <2>1, FreeTask DEF Resting
  <2>4. Standing(t)' = "done" /\ Holders(t)' = {}
    BY <1>1, <1>4, <2>1, <2>2 DEF Standing, Holders, Resting, Executes, Live
  <2> QED
    BY <1>2, <2>3, <2>4, RefuseInQueue
<1> QED
  BY <1>3, <1>4

\* retryTask returns a failed task, or makes one loose that is executed.
LEMMA RetryIsReturn ==
  ASSUME TypeOK, TypeOK', DispatchInv, NEW t \in Tasks, RetryTask(t)
  PROVE  [Queue!Next]_(Queue!vars)
<1>1. /\ status[t] = "FAILED" /\ t \notin Locked /\ status'[t] = "PENDING"
      /\ UNCHANGED <<disp, run>>
      /\ disturbed' = IF \E r \in Runs : Executes(r, t) THEN disturbed \cup {t} ELSE disturbed
      /\ \A u \in Tasks \ {t} : status'[u] = status[u]
  BY DEF RetryTask, TypeOK, rowVars, Executes
<1>2. \A u \in Tasks \ {t} : Standing(u)' = Standing(u) /\ Holders(u)' = Holders(u)
  BY <1>1, SamePlace DEF Executes, Live
<1>3. \A u \in Tasks : Standing(u) = "loose" => Holders(u) = {}
  BY StandingType DEF Holders
<1>4. CASE t \in disturbed'
  <2>1. Standing(t)' = "loose" /\ Holders(t)' = {}
    BY <1>4 DEF Standing, Holders
  <2> QED
    BY <1>2, <1>3, <2>1, ReturnInQueue
<1>5. CASE t \notin disturbed'
  <2>1. t \notin disturbed /\ \A r \in Runs : ~Executes(r, t) /\ ~Executes(r, t)'
    BY <1>1, <1>5 DEF Executes, Live
  <2>2. \A w \in Workers : t \notin disp[w].started /\ t \notin disp'[w].started
    BY <1>1, NotStarted
  <2>3. Standing(t) = "dead" /\ Standing(t)' = "waiting"
    BY <1>1, <1>5, <2>1, <2>2 DEF Standing, Resting
  <2>4. Holders(t) = {} /\ Holders(t)' = {}
    BY <2>1 DEF Holders
  <2> QED
    BY <1>2, <1>3, <2>3, <2>4, ReturnInQueue
<1> QED
  BY <1>4, <1>5

\* A dispatch that selects rows, or moves on over them without starting one, is
\* nothing to the queue.
LEMMA LookingIsQuiet ==
  ASSUME TypeOK, DispatchInv, NEW w \in Workers,
         DispatchFetch(w) \/ DispatchDrop(w) \/ DispatchSkip(w) \/ DispatchMark(w)
  PROVE  UNCHANGED Queue!vars
<1>0. disp[w] \in Dispatch /\ WellFormed(disp[w])
  BY DEF TypeOK, DispatchInv
<1>1. UNCHANGED <<status, disturbed, run>>
  BY DEF DispatchFetch, DispatchDrop, DispatchSkip, DispatchMark, rowVars, historyVars
<1>2. \A v \in Workers : disp'[v].started = disp[v].started
  <2>1. \A t, n : /\ Dropping(disp[w], t).started = disp[w].started
                  /\ Skipping(disp[w], t).started = disp[w].started
                  /\ Marking(disp[w], n).started = disp[w].started
    BY <1>0 DEF Dropping, Skipping, Marking, Dispatch
  <2>2. CASE DispatchFetch(w)
    <3>1. disp[w].started = {}
      BY <1>0, <2>2 DEF DispatchFetch, WellFormed
    <3>2. PICK due \in SUBSET Fetchable : disp' = [disp EXCEPT ![w] = Over(Oldest(due))]
      BY <2>2 DEF DispatchFetch
    <3>3. Over(Oldest(due)).started = {}
      BY DEF Over
    <3> QED
      BY <3>1, <3>2, <3>3 DEF TypeOK
  <2>3. CASE DispatchDrop(w)
    BY <2>1, <2>3 DEF DispatchDrop, TypeOK
  <2>4. CASE DispatchSkip(w)
    BY <2>1, <2>4 DEF DispatchSkip, TypeOK
  <2>5. CASE DispatchMark(w)
    BY <2>1, <2>5 DEF DispatchMark, TypeOK
  <2> QED
    BY <2>2, <2>3, <2>4, <2>5
<1>3. \A t \in Tasks : Standing(t)' = Standing(t) /\ Holders(t)' = Holders(t)
  BY <1>1, <1>2, SamePlace DEF Executes, Live
<1> QED
  BY <1>3, QuietInQueue

\* The execution that a dispatch starts takes the task, before its row says so.
LEMMA StartIsTake ==
  ASSUME TypeOK, DispatchInv, ExecInv, NEW w \in Workers, DispatchStart(w)
  PROVE  [Queue!Next]_(Queue!vars)
<1>0. disp[w] \in Dispatch /\ WellFormed(disp[w])
  BY DEF TypeOK, DispatchInv
<1>1. PICK t \in disp[w].todo, r \in Runs :
         /\ ~Live(r)
         /\ run' = [run EXCEPT ![r] =
              [pc |-> "starting", worker |-> w, task |-> t, retry |-> retry[t]]]
         /\ disp' = [disp EXCEPT ![w] = Starting(disp[w], t)]
         /\ UNCHANGED <<status, disturbed>>
  BY DEF DispatchStart, rowVars, historyVars
<1>2. t \in Tasks /\ t \in disp[w].batch /\ status[t] = "PENDING"
  BY <1>0 DEF Dispatch, WellFormed, DispatchInv
<1>3. /\ run'[r].task = t /\ Live(r)' /\ \A s \in Runs \ {r} : run'[s] = run[s]
  BY <1>1 DEF Live, NoRun, TypeOK
<1>4. /\ \A s \in Runs : Executes(s, t)' <=> s = r \/ Executes(s, t)
      /\ \A u \in Tasks \ {t} : \A s \in Runs : Executes(s, u)' <=> Executes(s, u)
  BY <1>1, <1>3 DEF Executes, Live
<1>5. /\ Starting(disp[w], t).started = disp[w].started \cup {t}
      /\ \A v \in Workers \ {w} : disp'[v] = disp[v]
      /\ disp'[w] = Starting(disp[w], t)
  BY <1>0, <1>1 DEF Starting, Dispatch, TypeOK
<1>6. \A u \in Tasks \ {t} : Standing(u)' = Standing(u) /\ Holders(u)' = Holders(u)
  <2> SUFFICES ASSUME NEW u \in Tasks \ {t}
               PROVE  Standing(u)' = Standing(u) /\ Holders(u)' = Holders(u)
    OBVIOUS
  <2>1. \A v \in Workers : u \in disp'[v].started <=> u \in disp[v].started
    BY <1>5
  <2> QED
    BY <1>1, <1>4, <2>1, SamePlace
<1>7. CASE t \in disturbed
  BY <1>1, <1>2, <1>6, <1>7, StaysLoose, QuietInQueue
<1>8. CASE t \notin disturbed
  <2>1. \A v \in Workers : t \notin disp[v].started
    BY <1>2, NotStarted
  <2>2. \A s \in Runs : ~Executes(s, t)
    BY <1>2, <1>8, <2>1, FreeTask
  <2>3. Standing(t) = "waiting"
    BY <1>2, <1>8, <2>1, FreeTask DEF Resting
  <2>4. Standing(t)' = "held" /\ Holders(t)' = {r}
    BY <1>1, <1>4, <1>8, <2>2 DEF Standing, Holders
  <2>5. Queue!Send({t}, "held", {r})
    BY <1>2, <1>6, <2>4, SendInQueue
  <2>6. Queue!Take(r, {t})
    BY <1>2, <2>3, <2>5 DEF Queue!Take
  <2>7. {t} \in SUBSET Tasks
    BY <1>2
  <2> QED
    BY <2>6, <2>7 DEF Queue!Next
<1> QED
  BY <1>7, <1>8

\* The commit of a dispatch settles the tasks it refused, and no other.
LEMMA CommitIsRefuse ==
  ASSUME TypeOK, TypeOK', DispatchInv, ExecInv, NEW w \in Workers, DispatchCommit(w)
  PROVE  [Queue!Next]_(Queue!vars)
<1>0. disp[w] \in Dispatch /\ WellFormed(disp[w])
  BY DEF TypeOK, DispatchInv
<1>1. PICK failed \in SUBSET disp[w].dropped :
        status' = [t \in Tasks |-> CASE t \in disp[w].started -> "PROCESSING"
                                     [] t \in failed -> "FAILED"
                                     [] t \in disp[w].dropped \ failed -> "CANCELLED"
                                     [] OTHER -> status[t]]
  BY DEF DispatchCommit
<1>2. disp' = [disp EXCEPT ![w] = NoDispatch] /\ UNCHANGED <<run, disturbed>>
  BY DEF DispatchCommit, historyVars
<1>3. disp'[w].started = {} /\ \A v \in Workers \ {w} : disp'[v] = disp[v]
  BY <1>2 DEF NoDispatch, TypeOK
<1>4. \A r \in Runs, t \in Tasks : Executes(r, t)' <=> Executes(r, t)
  BY <1>2 DEF Executes, Live
<1>5. ASSUME NEW t \in Tasks
      PROVE  /\ Standing(t)' # Standing(t) =>
                   Standing(t) = "waiting" /\ Standing(t)' \in {"done", "dead"}
             /\ Holders(t)' = Holders(t)
  <2>1. CASE t \in disturbed \/ \E r \in Runs : Executes(r, t)
    BY <1>2, <1>4, <2>1, StaysLoose, SameWork
  <2>2. CASE t \notin disturbed /\ t \in disp[w].started /\ \A r \in Runs : ~Executes(r, t)
    <3>1. \A v \in Workers : t \notin disp'[v].started
      BY <1>0, <1>3, <2>2 DEF DispatchInv, WellFormed
    <3>2. status'[t] = "PROCESSING"
      BY <1>0, <1>1, <2>2 DEF WellFormed
    <3>3. Standing(t) = "stuck" /\ Standing(t)' = "stuck"
      BY <1>2, <1>4, <2>2, <3>1, <3>2 DEF Standing, Resting
    <3> QED
      BY <1>4, <2>2, <3>3 DEF Holders
  <2>3. CASE t \notin disturbed /\ t \in disp[w].dropped
    <3>1. \A v \in Workers : t \notin disp[v].started
      BY <2>3, NotStarted
    <3>2. status[t] = "PENDING"
      BY <1>0, <2>3 DEF DispatchInv, WellFormed
    <3>3. \A r \in Runs : ~Executes(r, t)
      BY <2>3, <3>1, <3>2, FreeTask
    <3>4. Standing(t) = "waiting"
      BY <2>3, <3>1, <3>2, FreeTask DEF Resting
    <3>5. \A v \in Workers : t \notin disp'[v].started
      BY <1>3, <3>1
    <3>6. status'[t] \in {"FAILED", "CANCELLED"}
      BY <1>1, <2>3, <3>1
    <3>7. Standing(t)' \in {"done", "dead"}
      BY <1>2, <1>4, <2>3, <3>3, <3>5, <3>6 DEF Standing, Resting
    <3> QED
      BY <1>2, <1>4, <3>4, <3>7 DEF Holders
  <2>4. CASE t \notin disp[w].started \cup disp[w].dropped
    <3>1. status'[t] = status[t]
      BY <1>1, <2>4
    <3>2. \A v \in Workers : t \in disp'[v].started <=> t \in disp[v].started
      BY <1>3, <2>4
    <3> QED
      BY <1>2, <1>4, <3>1, <3>2, SamePlace
  <2> QED
    BY <2>1, <2>2, <2>3, <2>4
<1> QED
  BY <1>5, RefuseInQueue

\* A dispatch that is rolled back takes the rows of the executions it started.
LEMMA AbortIsReturn ==
  ASSUME TypeOK, TypeOK', DispatchInv, NEW w \in Workers, DispatchAbort(w)
  PROVE  [Queue!Next]_(Queue!vars)
<1>1. /\ disturbed' = disturbed \cup disp[w].started
      /\ disp' = [disp EXCEPT ![w] = NoDispatch] /\ UNCHANGED <<status, run>>
  BY DEF DispatchAbort, rowVars
<1>2. \A v \in Workers \ {w} : disp'[v] = disp[v]
  BY <1>1 DEF TypeOK
<1>3. disp'[w].started = {}
  BY <1>1 DEF NoDispatch, TypeOK
<1>4. ASSUME NEW t \in Tasks
      PROVE  /\ Standing(t)' # Standing(t) => Standing(t)' = "loose"
             /\ Holders(t)' = IF Standing(t)' = "loose" THEN {} ELSE Holders(t)
  <2>1. CASE t \in disturbed'
    BY <2>1 DEF Standing, Holders
  <2>2. CASE t \notin disturbed'
    <3>1. t \notin disturbed /\ t \notin disp[w].started
      BY <1>1, <2>2
    <3>2. \A v \in Workers : t \in disp'[v].started <=> t \in disp[v].started
      BY <1>2, <1>3, <3>1
    <3>3. Standing(t)' = Standing(t) /\ Holders(t)' = Holders(t)
      BY <1>1, <2>2, <3>1, <3>2, SamePlace DEF Executes, Live
    <3>4. Standing(t) # "loose"
      BY <3>1, StandingType
    <3> QED
      BY <3>3, <3>4
  <2> QED
    BY <2>1, <2>2
<1> QED
  BY <1>4, ReturnInQueue

\* An execution that starts on its row, or fails, still has its task.
LEMMA WorkIsQuiet ==
  ASSUME TypeOK, DispatchInv, NEW r \in Runs,
         \/ ExecStart(r) \/ ExecStartError(r) \/ ExecStartUnheard(r)
         \/ ExecCompleteUnheard(r) \/ ExecFail(r)
  PROVE  UNCHANGED Queue!vars
<1> USE DEF ExecStart, ExecStartError, ExecStartUnheard, ExecCompleteUnheard, ExecFail
<1>1. run[r] \in Execution /\ Live(r) /\ run[r].task \in Tasks
  BY LiveType
<1>2. PICK pc \in {"running", "failed"} : run' = [run EXCEPT ![r] = [run[r] EXCEPT !.pc = pc]]
  OBVIOUS
<1>3. /\ UNCHANGED <<disp, disturbed>>
      /\ \A t \in Tasks \ {run[r].task} : status'[t] = status[t]
  BY DEF rowVars, historyVars, TypeOK
<1>4. \A s \in Runs, t \in Tasks : Executes(s, t)' <=> Executes(s, t)
  BY <1>1, <1>2 DEF Executes, Live, NoRun, Execution, TypeOK
<1>5. \A t \in Tasks \ {run[r].task} : Standing(t)' = Standing(t) /\ Holders(t)' = Holders(t)
  BY <1>3, <1>4, SamePlace
<1>6. Executes(r, run[r].task)
  BY <1>1 DEF Executes
<1>7. \A t \in Tasks : t = run[r].task => Standing(t)' = Standing(t) /\ Holders(t)' = Holders(t)
  BY <1>3, <1>4, <1>6, SameWork
<1> QED
  BY <1>5, <1>7, QuietInQueue

\* The end of an execution is nothing to the other tasks, nor to one taken from it.
LEMMA EndLeavesOthers ==
  ASSUME TypeOK, NEW r \in Runs, run[r].pc \in {"running", "failed"}, End(r),
         UNCHANGED <<disp, disturbed>>,
         \A t \in Tasks \ {run[r].task} : status'[t] = status[t]
  PROVE  /\ Executes(r, run[r].task) /\ run[r].task \in Tasks
         /\ \A t \in Tasks, s \in Runs : Executes(s, t)' <=> Executes(s, t) /\ s # r
         /\ \A t \in Tasks : t # run[r].task \/ t \in disturbed
               => Standing(t)' = Standing(t) /\ Holders(t)' = Holders(t)
<1>1. Live(r) /\ run[r].task \in Tasks /\ Executes(r, run[r].task)
  BY LiveType DEF Executes
<1>2. /\ run' = [run EXCEPT ![r] = NoRun] /\ ~Live(r)'
      /\ \A s \in Runs \ {r} : run'[s] = run[s]
  BY DEF End, Live, TypeOK
<1>3. \A t \in Tasks, s \in Runs : Executes(s, t)' <=> Executes(s, t) /\ s # r
  BY <1>2 DEF Executes, Live
<1>4. ASSUME NEW t \in Tasks, t # run[r].task \/ t \in disturbed
      PROVE  Standing(t)' = Standing(t) /\ Holders(t)' = Holders(t)
  <2>1. CASE t \in disturbed
    BY <2>1, StaysLoose
  <2>2. CASE t # run[r].task
    <3>1. \A s \in Runs : Executes(s, t)' <=> Executes(s, t)
      BY <1>3, <2>2 DEF Executes
    <3> QED
      BY <2>2, <3>1, SamePlace
  <2> QED
    BY <1>4, <2>1, <2>2
<1> QED
  BY <1>1, <1>3, <1>4

\* An execution that writes what became of its task settles it.
LEMMA EndIsSettle ==
  ASSUME TypeOK, DispatchInv, ExecInv, NEW r \in Runs,
         ExecComplete(r) \/ ExecRetry(r) \/ ExecExhaust(r) \/ ExecExhaustUnheard(r)
  PROVE  [Queue!Next]_(Queue!vars)
<1>1. /\ run[r].pc \in {"running", "failed"} /\ End(r) /\ UNCHANGED <<disp, disturbed>>
      /\ run[r].task \notin Locked
      /\ \A t \in Tasks \ {run[r].task} : status'[t] = status[t]
  BY DEF ExecComplete, ExecRetry, ExecExhaust, ExecExhaustUnheard, historyVars, TypeOK
<1>2. /\ \A s \in Runs, u \in Tasks : Executes(s, u)' <=> Executes(s, u) /\ s # r
      /\ \A u \in Tasks : u # run[r].task \/ u \in disturbed
            => Standing(u)' = Standing(u) /\ Holders(u)' = Holders(u)
  BY <1>1, EndLeavesOthers
<1>3. PICK t \in Tasks : t = run[r].task /\ Executes(r, t)
  BY <1>1, EndLeavesOthers
<1>4. status'[t] \in {"COMPLETED", "PENDING", "FAILED"}
  BY <1>3 DEF ExecComplete, ExecRetry, ExecExhaust, ExecExhaustUnheard, TypeOK
<1>5. CASE t \in disturbed
  BY <1>2, <1>3, <1>5, QuietInQueue
<1>6. CASE t \notin disturbed
  <2>1. Standing(t) = "held" /\ Holders(t) = {r} /\ \A s \in Runs : Executes(s, t) => s = r
    BY <1>3, <1>6, ExecutedRow
  <2>2. \A w \in Workers : t \notin disp'[w].started
    BY <1>1, <1>3, NotStarted
  <2>3. \A s \in Runs : ~Executes(s, t)'
    BY <1>2, <2>1
  <2>4. t \notin disturbed'
    BY <1>1, <1>6
  <2>5. PICK to \in {"done", "waiting", "dead"} : Standing(t)' = to
    BY <1>4, <2>2, <2>3, <2>4 DEF Standing, Resting
  <2>6. Holders(t)' = {}
    BY <2>3 DEF Holders
  <2>7. Queue!Send({t}, to, {})
    BY <1>2, <1>3, <2>5, <2>6, SendInQueue
  <2>8. Queue!Settle(r, t, to)
    BY <2>1, <2>7 DEF Queue!Settle
  <2> QED
    BY <2>8 DEF Queue!Next
<1> QED
  BY <1>5, <1>6

\* An execution that cannot write its row is lost to it.
LEMMA ErrorIsLose ==
  ASSUME TypeOK, TypeOK', DispatchInv, ExecInv, NEW r \in Runs, ExecError(r)
  PROVE  [Queue!Next]_(Queue!vars)
<1>1. /\ run[r].pc \in {"running", "failed"} /\ End(r)
      /\ UNCHANGED <<disp, disturbed, status>>
  BY DEF ExecError, rowVars, historyVars
<1>2. /\ \A s \in Runs, u \in Tasks : Executes(s, u)' <=> Executes(s, u) /\ s # r
      /\ \A u \in Tasks : u # run[r].task \/ u \in disturbed
            => Standing(u)' = Standing(u) /\ Holders(u)' = Holders(u)
      /\ Executes(r, run[r].task)
  BY <1>1, EndLeavesOthers
<1>3. ASSUME NEW t \in Tasks
      PROVE  /\ Holders(t)' = Holders(t) \ {r}
             /\ Lost(t, {r})
  <2>1. Holders(t)' = Holders(t) \ {r}
    BY <1>1, <1>2 DEF Holders
  <2>2. CASE t \in disturbed \/ t # run[r].task
    <3>1. Standing(t)' = Standing(t)
      BY <1>2, <2>2
    <3>2. ASSUME Standing(t) = "held" PROVE ~(Holders(t) \subseteq {r})
      <4>1. t \notin disturbed
        BY <3>2, StandingType
      <4>2. PICK s \in Runs : Executes(s, t)
        BY <3>2, <4>1 DEF Standing, Resting, TypeOK, Statuses
      <4> QED
        BY <2>2, <4>1, <4>2 DEF Holders, Executes
    <3> QED
      BY <2>1, <3>1, <3>2 DEF Lost
  <2>3. CASE t \notin disturbed /\ t = run[r].task
    <3>1. /\ Standing(t) = "held" /\ Holders(t) = {r}
          /\ status[t] \in {"PENDING", "PROCESSING", "FAILED", "COMPLETED"}
          /\ \A s \in Runs : Executes(s, t) => s = r
      BY <1>2, <2>3, ExecutedRow
    <3>2. \A s \in Runs : ~Executes(s, t)'
      BY <1>2, <3>1
    <3>3. t \notin disturbed' /\ status'[t] \in {"PENDING", "PROCESSING", "FAILED", "COMPLETED"}
      BY <1>1, <2>3, <3>1
    <3>4. Standing(t)' \in {"stuck", "waiting", "dead", "done"}
      BY <3>2, <3>3 DEF Standing, Resting
    <3> QED
      BY <2>1, <3>1, <3>4 DEF Lost
  <2> QED
    BY <2>2, <2>3
<1> QED
  BY <1>3, LoseInQueue

\* A process that dies is lost with all its executions.
LEMMA CrashIsLose ==
  ASSUME TypeOK, TypeOK', DispatchInv, ExecInv, NEW w \in Workers, Crash(w)
  PROVE  [Queue!Next]_(Queue!vars)
<1> DEFINE C == {r \in Runs : Live(r) /\ run[r].worker = w}
<1>1. /\ run' = [r \in Runs |-> IF r \in C THEN NoRun ELSE run[r]]
      /\ disp' = [disp EXCEPT ![w] = NoDispatch] /\ UNCHANGED <<status, disturbed>>
  BY DEF Crash, rowVars, historyVars
<1>2. \A r \in Runs, t \in Tasks : Executes(r, t)' <=> Executes(r, t) /\ r \notin C
  BY <1>1 DEF Executes, Live
<1>3. C \in SUBSET Runs
  OBVIOUS
<1>4. \A v \in Workers : disp'[v].started = IF v = w THEN {} ELSE disp[v].started
  BY <1>1 DEF TypeOK, NoDispatch
<1> HIDE DEF C
<1>5. ASSUME NEW t \in Tasks
      PROVE  /\ Holders(t)' = Holders(t) \ C
             /\ Lost(t, C)
  <2>1. Holders(t)' = Holders(t) \ C
    BY <1>1, <1>2 DEF Holders
  <2>2. CASE t \in disturbed
    <3>1. Standing(t) = "loose" /\ Standing(t)' = "loose"
      BY <1>1, <2>2 DEF Standing
    <3> QED
      BY <2>1, <3>1 DEF Lost
  <2>3. CASE t \notin disturbed /\ \E r \in Runs : Executes(r, t)
    <3>1. PICK r \in Runs : Executes(r, t)
      BY <2>3
    <3>2. /\ Standing(t) = "held" /\ Holders(t) = {r}
          /\ status[t] \in {"PENDING", "PROCESSING", "FAILED", "COMPLETED"}
          /\ \A s \in Runs : Executes(s, t) => s = r
      BY <2>3, <3>1, ExecutedRow
    <3>3. CASE r \in C
      <4>1. \A s \in Runs : ~Executes(s, t)'
        BY <1>2, <3>2, <3>3
      <4>2. t \notin disturbed' /\ status'[t] \in {"PENDING", "PROCESSING", "FAILED", "COMPLETED"}
        BY <1>1, <2>3, <3>2
      <4>3. Standing(t)' \in {"stuck", "waiting", "dead", "done"}
        BY <4>1, <4>2 DEF Standing, Resting
      <4> QED
        BY <2>1, <3>2, <3>3, <4>3 DEF Lost
    <3>4. CASE r \notin C
      <4>1. Standing(t)' = "held"
        BY <1>1, <1>2, <2>3, <3>1, <3>4 DEF Standing
      <4> QED
        BY <2>1, <3>2, <3>4, <4>1 DEF Lost
    <3> QED
      BY <3>3, <3>4
  <2>4. CASE t \notin disturbed /\ ~\E r \in Runs : Executes(r, t)
    <3>1. t \notin disturbed' /\ \A r \in Runs : ~Executes(r, t)'
      BY <1>1, <1>2, <2>4
    <3>2. CASE \A v \in Workers : t \notin disp[v].started
      <4>1. \A v \in Workers : t \notin disp'[v].started
        BY <1>4, <3>2
      <4>2. Standing(t)' = Standing(t)
        BY <1>1, <2>4, <3>1, <3>2, <4>1 DEF Standing
      <4>3. Standing(t) # "held"
        BY <2>4, <3>2 DEF Standing, Resting, TypeOK, Statuses
      <4>4. Standing(t) = "stuck" => Standing(t)' \in {"stuck", "waiting", "dead"}
        BY <4>2
      <4> QED
        BY <2>1, <4>2, <4>3, <4>4 DEF Lost
    <3>3. CASE \E v \in Workers : t \in disp[v].started
      <4>1. Standing(t) = "stuck"
        BY <2>4, <3>3 DEF Standing
      <4>2. status'[t] = "PENDING"
        BY <1>1, <3>3, NotStarted
      <4>3. Standing(t)' \in {"stuck", "waiting"}
        BY <3>1, <4>2 DEF Standing, Resting
      <4> QED
        BY <2>1, <4>1, <4>3 DEF Lost
    <3> QED
      BY <3>2, <3>3
  <2> QED
    BY <2>2, <2>3, <2>4
<1> QED
  BY <1>3, <1>5, LoseInQueue

\* cleanupStaleTasks gives up what is stuck, and takes nothing from an execution.
LEMMA CleanupIsLose ==
  ASSUME TypeOK, TypeOK', DispatchInv, NEW w \in Workers, NEW S \in SUBSET Tasks,
         CleanupStale(w, S) \/ CleanupStaleUnheard(S)
  PROVE  [Queue!Next]_(Queue!vars)
<1>1. /\ \A t \in S : status[t] = "PROCESSING" /\ status'[t] = "FAILED"
      /\ \A t \in Tasks \ S : status'[t] = status[t]
      /\ UNCHANGED <<disp, run, disturbed>>
  BY DEF CleanupStale, CleanupStaleUnheard, historyVars
<1>2. \A r \in Runs, t \in Tasks : Executes(r, t)' <=> Executes(r, t)
  BY <1>1 DEF Executes, Live
<1>3. ASSUME NEW t \in Tasks
      PROVE  /\ Holders(t)' = Holders(t) \ {}
             /\ Lost(t, {})
  <2>1. Holders(t)' = Holders(t) \ {}
    BY <1>1, <1>2 DEF Holders
  <2>2. ASSUME Standing(t) = "held" PROVE Holders(t) # {}
    <3>1. t \notin disturbed
      BY <2>2, StandingType
    <3> QED
      BY <2>2, <3>1 DEF Standing, Holders, Resting, TypeOK, Statuses
  <2>3. CASE t \notin S \/ t \in disturbed \/ \E r \in Runs : Executes(r, t)
    <3>1. Standing(t)' = Standing(t)
      BY <1>1, <1>2, <2>3, SamePlace, SameWork, StaysLoose
    <3> QED
      BY <2>1, <2>2, <3>1 DEF Lost
  <2>4. CASE t \in S /\ t \notin disturbed /\ \A r \in Runs : ~Executes(r, t)
    <3>1. \A v \in Workers : t \notin disp[v].started
      BY <1>1, <2>4, NotStarted
    <3>2. Standing(t) = "stuck"
      BY <1>1, <2>4, <3>1 DEF Standing, Resting
    <3>3. Standing(t)' = "dead"
      BY <1>1, <1>2, <2>4, <3>1 DEF Standing, Resting
    <3> QED
      BY <2>1, <3>2, <3>3 DEF Lost
  <2> QED
    BY <2>3, <2>4
<1> QED
  BY <1>3, LoseInQueue

\* Every step of the processes is a step of the queue, or changes nothing there.
LEMMA QueueStep ==
  TypeOK /\ TypeOK' /\ DispatchInv /\ ExecInv /\ [Next]_vars => [Queue!Next]_(Queue!vars)
<1> SUFFICES ASSUME TypeOK, TypeOK', DispatchInv, ExecInv, [Next]_vars
             PROVE  [Queue!Next]_(Queue!vars)
  OBVIOUS
<1>1. ASSUME NEW t \in Tasks, Create(t) \/ CancelTask(t) \/ RetryTask(t)
      PROVE  [Queue!Next]_(Queue!vars)
  BY <1>1, CreateIsAdd, CancelIsRefuse, RetryIsReturn
<1>2. ASSUME NEW w \in Workers, DispatchStep(w) \/ DispatchAbort(w) \/ Crash(w)
      PROVE  [Queue!Next]_(Queue!vars)
  BY <1>2, LookingIsQuiet, StartIsTake, CommitIsRefuse, AbortIsReturn, CrashIsLose
  DEF DispatchStep
<1>3. ASSUME UNCHANGED <<status, disp, run, disturbed>> PROVE UNCHANGED Queue!vars
  <2>1. \A t \in Tasks : Standing(t)' = Standing(t) /\ Holders(t)' = Holders(t)
    BY <1>3, SamePlace DEF Executes, Live
  <2> QED
    BY <2>1, QuietInQueue
<1>4. ASSUME NEW w \in Workers, NEW a \in Agents, BreakerReset(w, a)
      PROVE  UNCHANGED Queue!vars
  BY <1>3, <1>4 DEF BreakerReset, rowVars, historyVars
<1>5. ASSUME NEW w \in Workers, NEW S \in SUBSET Tasks,
             CleanupStale(w, S) \/ CleanupStaleUnheard(S)
      PROVE  [Queue!Next]_(Queue!vars)
  BY <1>5, CleanupIsLose
<1>6. ASSUME NEW r \in Runs, ExecStep(r) \/ ExecFault(r)
      PROVE  [Queue!Next]_(Queue!vars)
  BY <1>6, WorkIsQuiet, EndIsSettle, ErrorIsLose DEF ExecStep, ExecFault
<1>7. CASE UNCHANGED vars
  BY <1>3, <1>7 DEF vars
<1> QED
  BY <1>1, <1>2, <1>4, <1>5, <1>6, <1>7 DEF Next

\* The task queue implements the work queue of WorkQueue, for any number of tasks, of
\* processes and of executions, whatever crashes, is rolled back, fails or is retried.
THEOREM TasksAreWorkQueue == Spec => ImplementsWorkQueue
<1>1. Init => TypeOK /\ DispatchInv /\ ExecInv
  BY InitTypeOK, InitDispatchInv, InitExecInv
<1>2. TypeOK /\ DispatchInv /\ ExecInv /\ [Next]_vars => (TypeOK /\ DispatchInv /\ ExecInv)'
  BY NextTypeOK, NextDispatchInv, NextExecInv
<1>3. Init => Queue!Init
  <2> SUFFICES ASSUME Init PROVE Queue!Init
    OBVIOUS
  <2>1. \A t \in Tasks : Standing(t) = "absent" /\ Holders(t) = {}
    BY DEF Init, Standing, Resting, Holders, Executes, Live, NoDispatch
  <2> QED
    BY <2>1 DEF Queue!Init
<1>4. TypeOK /\ TypeOK' /\ DispatchInv /\ ExecInv /\ [Next]_vars => [Queue!Next]_(Queue!vars)
  BY QueueStep
<1> QED
  BY <1>1, <1>2, <1>3, <1>4, PTL DEF Spec, ImplementsWorkQueue, Queue!Spec
=============================================================================
