---------------------------- MODULE OutboxProofs ----------------------------
(***************************************************************************)
(* Theorems about Outbox, for any number of events, API processes and      *)
(* workers, any batch size and retry limit, with and without Redis.        *)
(***************************************************************************)
EXTENDS Outbox, TLAPS

-----------------------------------------------------------------------------
(* Types.                                                                  *)

\* Initially every variable has its type.
LEMMA InitTypeOK == Init => TypeOK
  BY BoundsAssumption
  DEF Init, TypeOK, Statuses, ApiStates, ApiIdle, NoTx, Tx

\* A saturating counter keeps its type.
LEMMA BumpType ==
  ASSUME NEW c \in [Events -> Nat], NEW e \in Events
  PROVE  Bump(c, e) \in [Events -> Nat]
  BY DEF Bump

\* Moving an event between the parts of a transaction keeps its type.
LEMMA MoveType ==
  ASSUME NEW t \in Tx, NEW e \in t.todo
  PROVE  /\ e \in Events
         /\ Completing(t, e) \in Tx
         /\ Retrying(t, e) \in Tx
         /\ Burying(t, e) \in Tx
  BY DEF Tx, Completing, Retrying, Burying

\* A handler whose INSERT throws keeps the types of what it counts.
LEMMA ThrowsType ==
  ASSUME TypeOK, NEW e \in Events, InsertThrows(e)
  PROVE  /\ tasks' \in [Events -> Nat]
         /\ unrecorded' \in [Events -> Nat]
         /\ faults' \in Nat
  BY BumpType DEF TypeOK, InsertThrows, Fault

\* Every step of the system keeps every variable's type.
LEMMA NextTypeOK == TypeOK /\ [Next]_vars => TypeOK'
<1> SUFFICES ASSUME TypeOK, [Next]_vars PROVE TypeOK'
  OBVIOUS
<1> USE DEF TypeOK, rowVars, historyVars
<1>1. ASSUME NEW e \in Events, Publish(e) PROVE TypeOK'
  BY <1>1 DEF Publish, Statuses
<1>2. ASSUME NEW a \in Apis, ApiFetch(a) PROVE TypeOK'
  BY <1>2 DEF ApiFetch, Oldest, Fetchable, ApiStates
<1>3. ASSUME NEW a \in Apis, ApiSkip(a) PROVE TypeOK'
  BY <1>3 DEF ApiSkip, ApiStates
<1>4. ASSUME NEW a \in Apis, ApiHandle(a) PROVE TypeOK'
  <2>1. PICK e \in ApiEvents : handled' = Bump(handled, e)
    BY <1>4 DEF ApiHandle
  <2>2. handled' \in [Events -> Nat]
    BY <2>1, HandlersAssumption, BumpType
  <2> QED
    BY <1>4, <2>2 DEF ApiHandle, ApiStates
<1>5. ASSUME NEW a \in Apis, ApiThrow(a) PROVE TypeOK'
  <2>1. PICK e \in ApiEvents : handled' \in {handled, Bump(handled, e)}
    BY <1>5 DEF ApiThrow
  <2>2. handled' \in [Events -> Nat]
    BY <2>1, HandlersAssumption, BumpType
  <2> QED
    BY <1>5, <2>2 DEF ApiThrow, ApiStates
<1>6. ASSUME NEW a \in Apis, ApiMarkProcessed(a) PROVE TypeOK'
  BY <1>6 DEF ApiMarkProcessed, ApiAdvance, ApiIdle, ApiStates, Statuses
<1>7. ASSUME NEW a \in Apis, ApiMarkFailed(a) PROVE TypeOK'
  BY <1>7 DEF ApiMarkFailed, ApiAdvance, ApiIdle, ApiStates, Statuses
<1>8. ASSUME NEW a \in Apis, ApiMarkFailedThrows(a) PROVE TypeOK'
  BY <1>8 DEF ApiMarkFailedThrows, ApiAbandon, ApiIdle, ApiStates
<1>9. ASSUME NEW a \in Apis, ApiFault(a) PROVE TypeOK'
  <2>1. CASE ApiMarkProcessedError(a)
    BY <2>1 DEF ApiMarkProcessedError, Fault, ApiStates
  <2>2. CASE ApiMarkFailedError(a)
    BY <2>2 DEF ApiMarkFailedError, ApiAbandon, ApiIdle, Fault, ApiStates
  <2>3. CASE ApiCrash(a)
    BY <2>3 DEF ApiCrash, ApiIdle, Fault, ApiStates
  <2>4. CASE ApiMarkProcessedUnheard(a)
    BY <2>4 DEF ApiMarkProcessedUnheard, Fault, ApiStates, Statuses
  <2>5. CASE ApiMarkFailedUnheard(a)
    BY <2>5 DEF ApiMarkFailedUnheard, ApiAbandon, ApiIdle, Fault, ApiStates, Statuses
  <2> QED
    BY <1>9, <2>1, <2>2, <2>3, <2>4, <2>5 DEF ApiFault
<1>10. ASSUME NEW a \in Apis, LockExpire(a) PROVE TypeOK'
  BY <1>10 DEF LockExpire
<1>11. ASSUME NEW w \in Workers, WorkerFetch(w) PROVE TypeOK'
  BY <1>11 DEF WorkerFetch, Oldest, Fetchable, Tx
<1>12. ASSUME NEW w \in Workers, WorkerProcess(w) PROVE TypeOK'
  <2>1. PICK e \in tx[w].todo :
           /\ tx' = [tx EXCEPT ![w] = Completing(tx[w], e)]
           /\ tasks' = IF e \in WorkerEvents THEN Bump(tasks, e) ELSE tasks
    BY <1>12 DEF WorkerProcess
  <2>2. tx' \in [Workers -> Tx]
    BY <2>1, MoveType
  <2>3. tasks' \in [Events -> Nat]
    BY <2>1, BumpType, HandlersAssumption
  <2> QED
    BY <1>12, <2>2, <2>3 DEF WorkerProcess
<1>13. ASSUME NEW w \in Workers, WorkerRetry(w) PROVE TypeOK'
  <2>1. PICK e \in tx[w].todo :
           tx' = [tx EXCEPT ![w] = Retrying(tx[w], e)] /\ InsertThrows(e)
    BY <1>13 DEF WorkerRetry
  <2>2. tx' \in [Workers -> Tx] /\ e \in Events
    BY <2>1, MoveType
  <2> QED
    BY <1>13, <2>1, <2>2, ThrowsType DEF WorkerRetry
<1>14. ASSUME NEW w \in Workers, WorkerDeadLetter(w) PROVE TypeOK'
  <2>1. PICK e \in tx[w].todo :
           tx' = [tx EXCEPT ![w] = Burying(tx[w], e)] /\ InsertThrows(e)
    BY <1>14 DEF WorkerDeadLetter
  <2>2. tx' \in [Workers -> Tx] /\ e \in Events
    BY <2>1, MoveType
  <2> QED
    BY <1>14, <2>1, <2>2, ThrowsType DEF WorkerDeadLetter
<1>15. ASSUME NEW w \in Workers, WorkerCommit(w) PROVE TypeOK'
  <2>1. status' \in [Events -> Statuses]
    BY <1>15 DEF WorkerCommit, NewStatus, Statuses
  <2>2. retry' \in [Events -> Nat] /\ dlq' \in [Events -> Nat]
    BY <1>15 DEF WorkerCommit, NewRetry, NewDlq
  <2> QED
    BY <1>15, <2>1, <2>2 DEF WorkerCommit, NoTx, Tx
<1>16. ASSUME NEW w \in Workers, WorkerRollback(w) PROVE TypeOK'
  BY <1>16 DEF WorkerRollback, NoTx, Tx, Fault
<1>17. ASSUME NEW w \in Workers, WorkerSkip(w) PROVE TypeOK'
  <2>1. tx' \in [Workers -> Tx]
    BY <1>17, MoveType DEF WorkerSkip
  <2> QED
    BY <1>17, <2>1 DEF WorkerSkip
<1>18. CASE UNCHANGED vars
  BY <1>18 DEF vars
<1> QED
  BY <1>1, <1>2, <1>3, <1>4, <1>5, <1>6, <1>7, <1>8, <1>9, <1>10, <1>11, <1>12,
     <1>13, <1>14, <1>15, <1>16, <1>17, <1>18 DEF Next, ApiStep, WorkerStep

\* Type correctness of the outbox tables, both consumers and the lock.
THEOREM TypeCorrect == Spec => []TypeOK
  BY InitTypeOK, NextTypeOK, PTL DEF Spec

-----------------------------------------------------------------------------
(* What a step of anyone but a worker leaves alone.                        *)

\* The steps of publishers, API processes and the clock.
Others ==
    \/ \E e \in Events : Publish(e)
    \/ \E a \in Apis : ApiStep(a) \/ ApiFault(a) \/ LockExpire(a)

\* The steps of workers.
WorkerNext == \E w \in Workers : WorkerStep(w) \/ WorkerRollback(w)

\* Nobody but a worker touches transactions, dead letters and agent tasks; the
\* rows of a transaction are left alone, settled rows stay settled, and what
\* stays unsettled keeps its retry_count.
LEMMA OthersFrame ==
  ASSUME TypeOK, TxInv, Others
  PROVE  /\ tx' = tx /\ dlq' = dlq /\ tasks' = tasks /\ unrecorded' = unrecorded
         /\ \A e \in Locked : status'[e] = status[e] /\ retry'[e] = retry[e]
         /\ \A e \in Events : status[e] \in Settled => status'[e] \in Settled
         /\ RetryBelowLimit => RetryBelowLimit'
  <1> DEFINE Frame ==
        /\ tx' = tx /\ dlq' = dlq /\ tasks' = tasks /\ unrecorded' = unrecorded
        /\ \A e \in Locked : status'[e] = status[e] /\ retry'[e] = retry[e]
        /\ \A e \in Events : status[e] \in Settled => status'[e] \in Settled
        /\ RetryBelowLimit => RetryBelowLimit'
  <1> USE DEF rowVars, historyVars
  <1>1. ASSUME NEW e \in Events, Publish(e) PROVE Frame
    <2>1. e \notin Locked
      BY <1>1 DEF Publish, TxInv, TxRowsArePending, Locked
    <2> QED
      BY <1>1, <2>1 DEF Publish, TypeOK, Settled, RetryBelowLimit
  <1>2. ASSUME UNCHANGED <<status, retry, dlq, tx, tasks, unrecorded>> PROVE Frame
    BY <1>2 DEF RetryBelowLimit
  <1>3. ASSUME NEW a \in Apis, ApiMarkProcessed(a) PROVE Frame
    BY <1>3 DEF ApiMarkProcessed, TypeOK, Settled, RetryBelowLimit
  <1>4. ASSUME NEW a \in Apis, ApiMarkFailed(a) PROVE Frame
    BY <1>4, BoundsAssumption
    DEF ApiMarkFailed, ApiLastRetry, TypeOK, Settled, RetryBelowLimit
  <1>5. ASSUME NEW a \in Apis, ApiStep(a) PROVE Frame
    BY <1>2, <1>3, <1>4, <1>5
    DEF ApiStep, ApiFetch, ApiSkip, ApiHandle, ApiThrow, ApiMarkFailedThrows
  <1>6. ASSUME NEW a \in Apis, ApiMarkProcessedUnheard(a) PROVE Frame
    BY <1>6 DEF ApiMarkProcessedUnheard, TypeOK, Settled, RetryBelowLimit
  <1>7. ASSUME NEW a \in Apis, ApiMarkFailedUnheard(a) PROVE Frame
    BY <1>7, BoundsAssumption
    DEF ApiMarkFailedUnheard, ApiLastRetry, TypeOK, Settled, RetryBelowLimit
  <1>8. ASSUME NEW a \in Apis, ApiFault(a) \/ LockExpire(a) PROVE Frame
    BY <1>2, <1>6, <1>7, <1>8
    DEF ApiFault, ApiMarkProcessedError, ApiMarkFailedError, ApiCrash, LockExpire
  <1> QED
    BY <1>1, <1>5, <1>8 DEF Others
-----------------------------------------------------------------------------
(* The row locks.                                                          *)

\* Moving an event inside a transaction keeps the transaction's rows and keeps
\* its parts disjoint.
LEMMA MoveKeepsRows ==
  ASSUME NEW t \in Tx, NEW e \in t.todo, PartsDisjoint(t),
         NEW u \in {Completing(t, e), Retrying(t, e), Burying(t, e)}
  PROVE  /\ PartsDisjoint(u)
         /\ u.todo \cup u.done \cup u.again \cup u.dead
              = t.todo \cup t.done \cup t.again \cup t.dead
  BY DEF Tx, PartsDisjoint, Completing, Retrying, Burying

\* A step inside an open transaction of w moves one event between its parts.
LEMMA WorkerMoves ==
  ASSUME NEW w \in Workers,
         WorkerProcess(w) \/ WorkerSkip(w) \/ WorkerRetry(w) \/ WorkerDeadLetter(w)
  PROVE  /\ \E e \in tx[w].todo :
               \E u \in {Completing(tx[w], e), Retrying(tx[w], e), Burying(tx[w], e)} :
                  tx' = [tx EXCEPT ![w] = u]
         /\ UNCHANGED rowVars
  BY DEF WorkerProcess, WorkerSkip, WorkerRetry, WorkerDeadLetter

\* The transactions' invariant is inductive.
LEMMA NextTxInv == TypeOK /\ TypeOK' /\ TxInv /\ [Next]_vars => TxInv'
<1> SUFFICES ASSUME TypeOK, TypeOK', TxInv, [Next]_vars PROVE TxInv'
  OBVIOUS
<1>1. ASSUME Others PROVE TxInv'
  <2>1. \A w \in Workers : TxRows(w)' = TxRows(w) /\ TxRows(w) \subseteq Locked
    BY <1>1, OthersFrame DEF TxRows, Locked
  <2> QED
    BY <1>1, <2>1, OthersFrame DEF TxInv, TxRowsArePending
<1>2. ASSUME NEW w \in Workers, WorkerFetch(w) PROVE TxInv'
  <2>1. /\ TxRows(w)' = Oldest(Fetchable)
        /\ PartsDisjoint(tx[w])'
    BY <1>2 DEF WorkerFetch, TxRows, PartsDisjoint, TypeOK, Tx, NoTx
  <2>2. \A e \in Oldest(Fetchable) : e \in Events /\ status[e] = "PENDING" /\ e \notin Locked
    BY DEF Oldest, Fetchable
  <2>3. \A v \in Workers \ {w} : tx'[v] = tx[v] /\ TxRows(v)' = TxRows(v)
    BY <1>2 DEF WorkerFetch, TxRows, TypeOK
  <2>4. status' = status
    BY <1>2 DEF WorkerFetch, rowVars
  <2>5. \A v \in Workers : TxRows(v) \subseteq Locked
    BY DEF Locked
  <2> QED
    BY <2>1, <2>2, <2>3, <2>4, <2>5 DEF TxInv, TxRowsArePending, PartsDisjoint
<1>3. ASSUME NEW w \in Workers,
             WorkerProcess(w) \/ WorkerSkip(w) \/ WorkerRetry(w) \/ WorkerDeadLetter(w)
      PROVE  TxInv'
  <2>1. PICK e \in tx[w].todo :
           \E u \in {Completing(tx[w], e), Retrying(tx[w], e), Burying(tx[w], e)} :
              tx' = [tx EXCEPT ![w] = u]
    BY <1>3, WorkerMoves
  <2>2. PICK u \in {Completing(tx[w], e), Retrying(tx[w], e), Burying(tx[w], e)} :
           tx' = [tx EXCEPT ![w] = u]
    BY <2>1
  <2>3. PartsDisjoint(tx[w])' /\ TxRows(w)' = TxRows(w)
    BY <2>2, MoveKeepsRows DEF TxInv, TxRows, TypeOK
  <2>4. \A v \in Workers \ {w} : tx'[v] = tx[v] /\ TxRows(v)' = TxRows(v)
    BY <2>2 DEF TxRows, TypeOK
  <2>5. status' = status
    BY <1>3, WorkerMoves DEF rowVars
  <2> QED
    BY <2>3, <2>4, <2>5 DEF TxInv, TxRowsArePending, PartsDisjoint
<1>4. ASSUME NEW w \in Workers, WorkerCommit(w) PROVE TxInv'
  <2>1. TxRows(w)' = {} /\ PartsDisjoint(tx[w])'
    BY <1>4 DEF WorkerCommit, TxRows, PartsDisjoint, NoTx, TypeOK
  <2>2. \A v \in Workers \ {w} : tx'[v] = tx[v] /\ TxRows(v)' = TxRows(v)
    BY <1>4 DEF WorkerCommit, TxRows, TypeOK
  <2>3. ASSUME NEW v \in Workers \ {w}, NEW e \in TxRows(v) PROVE status'[e] = "PENDING"
    <3>1. e \in Events /\ e \notin TxRows(w) /\ status[e] = "PENDING"
      BY <2>3 DEF TxInv, TxRowsArePending, TypeOK, TxRows, Tx
    <3> QED
      BY <1>4, <3>1 DEF WorkerCommit, NewStatus, TxRows
  <2> QED
    BY <2>1, <2>2, <2>3 DEF TxInv, TxRowsArePending, PartsDisjoint
<1>5. ASSUME NEW w \in Workers, WorkerRollback(w) PROVE TxInv'
  <2>1. TxRows(w)' = {} /\ PartsDisjoint(tx[w])' /\ status' = status
    BY <1>5 DEF WorkerRollback, TxRows, PartsDisjoint, NoTx, TypeOK, rowVars
  <2>2. \A v \in Workers \ {w} : tx'[v] = tx[v] /\ TxRows(v)' = TxRows(v)
    BY <1>5 DEF WorkerRollback, TxRows, TypeOK
  <2> QED
    BY <2>1, <2>2 DEF TxInv, TxRowsArePending, PartsDisjoint
<1>6. CASE UNCHANGED vars
  BY <1>6 DEF vars, TxInv, TxRowsArePending, TxRows, PartsDisjoint
<1> QED
  BY <1>1, <1>2, <1>3, <1>4, <1>5, <1>6 DEF Next, Others, WorkerStep

\* The rows a worker has in its transaction stay PENDING and its own: the late
\* updates of API processes and the other workers keep off them.
THEOREM RowLocksHold == Spec => []TxRowsArePending
  <1>1. Init => TxInv
    BY DEF Init, TxInv, TxRowsArePending, TxRows, PartsDisjoint, NoTx
  <1>2. TypeOK /\ TypeOK' /\ TxInv /\ [Next]_vars => TxInv'
    BY NextTxInv
  <1>3. TxInv => TxRowsArePending
    BY DEF TxInv
  <1> QED
    BY <1>1, <1>2, <1>3, TypeCorrect, PTL DEF Spec
-----------------------------------------------------------------------------
(* Settled events.                                                         *)

\* What a worker's step does to the tables: only a COMMIT writes them, and only
\* the rows of its transaction.
LEMMA WorkerFrame ==
  ASSUME NEW w \in Workers, WorkerStep(w) \/ WorkerRollback(w)
  PROVE  \/ WorkerCommit(w)
         \/ UNCHANGED rowVars
  BY DEF WorkerStep, WorkerFetch, WorkerProcess, WorkerSkip, WorkerRetry,
         WorkerDeadLetter, WorkerRollback

\* A settled event is in no transaction.
LEMMA SettledNotInTx ==
  ASSUME TxInv, NEW w \in Workers, NEW e, status[e] \in Settled
  PROVE  e \notin tx[w].todo \cup tx[w].done \cup tx[w].again \cup tx[w].dead
  BY DEF TxInv, TxRowsArePending, TxRows, Settled

\* A step never unsettles an event.
LEMMA NextSettled ==
  ASSUME TypeOK, TxInv, [Next]_vars, NEW e \in Events, status[e] \in Settled
  PROVE  status'[e] \in Settled
<1>1. CASE Others
  BY <1>1, OthersFrame
<1>2. ASSUME NEW w \in Workers, WorkerStep(w) \/ WorkerRollback(w)
      PROVE  status'[e] \in Settled
  <2>1. CASE WorkerCommit(w)
    BY <2>1, SettledNotInTx DEF WorkerCommit, NewStatus
  <2>2. CASE UNCHANGED rowVars
    BY <2>2 DEF rowVars
  <2> QED
    BY <1>2, <2>1, <2>2, WorkerFrame
<1>3. CASE UNCHANGED vars
  BY <1>3 DEF vars
<1> QED
  BY <1>1, <1>2, <1>3 DEF Next, Others

\* The transactions' invariant holds throughout.
LEMMA TxCorrect == Spec => []TxInv
  <1>1. Init => TxInv
    BY DEF Init, TxInv, TxRowsArePending, TxRows, PartsDisjoint, NoTx
  <1> QED
    BY <1>1, NextTxInv, TypeCorrect, PTL DEF Spec

\* No interleaving of the two consumers puts a settled event back in the queue.
THEOREM SettledForGood == Spec => NoResurrection
  <1>1. TypeOK /\ TxInv /\ [Next]_vars =>
          [\A e \in Events : status[e] \in Settled => status'[e] \in Settled]_vars
    BY NextSettled
  <1> QED
    BY <1>1, TypeCorrect, TxCorrect, PTL DEF Spec, NoResurrection

\* Dead letters: one per event, for events that are settled.
LEMMA NextDeadLettered ==
  TypeOK /\ TxInv /\ DeadLetteredOnce /\ [Next]_vars => DeadLetteredOnce'
<1> SUFFICES ASSUME TypeOK, TxInv, DeadLetteredOnce, [Next]_vars, NEW e \in Events
             PROVE  dlq'[e] <= 1 /\ (dlq'[e] = 1 => status'[e] \in Settled)
  BY DEF DeadLetteredOnce
<1>1. CASE dlq'[e] = dlq[e]
  BY <1>1, NextSettled DEF DeadLetteredOnce
<1>2. ASSUME NEW w \in Workers, WorkerCommit(w), e \in tx[w].dead
      PROVE  dlq'[e] <= 1 /\ status'[e] \in Settled
  <2>1. status[e] \notin Settled
    BY <1>2, SettledNotInTx
  <2>2. dlq[e] = 0
    <3>1. dlq[e] \in Nat /\ dlq[e] <= 1
      BY DEF DeadLetteredOnce, TypeOK
    <3>2. dlq[e] # 1
      BY <2>1 DEF DeadLetteredOnce
    <3> QED
      BY <3>1, <3>2
  <2>3. status'[e] = "FAILED"
    BY <1>2 DEF WorkerCommit, NewStatus, TxInv, PartsDisjoint
  <2> QED
    BY <1>2, <2>2, <2>3 DEF WorkerCommit, NewDlq, Settled
<1>3. ASSUME NEW w \in Workers, WorkerCommit(w), e \notin tx[w].dead
      PROVE  dlq'[e] = dlq[e]
  BY <1>3 DEF WorkerCommit, NewDlq
<1>4. CASE Others
  BY <1>1, <1>4, OthersFrame
<1>5. ASSUME NEW w \in Workers, WorkerStep(w) \/ WorkerRollback(w)
      PROVE  dlq'[e] <= 1 /\ (dlq'[e] = 1 => status'[e] \in Settled)
  BY <1>1, <1>2, <1>3, <1>5, WorkerFrame DEF rowVars
<1>6. CASE UNCHANGED vars
  BY <1>1, <1>6 DEF vars
<1> QED
  BY <1>4, <1>5, <1>6 DEF Next, Others

\* pollOutbox never dead-letters an event twice and never runs it again after.
THEOREM OneDeadLetter == Spec => []DeadLetteredOnce
  <1>1. Init => DeadLetteredOnce
    BY DEF Init, DeadLetteredOnce
  <1> QED
    BY <1>1, NextDeadLettered, TypeCorrect, TxCorrect, PTL DEF Spec
-----------------------------------------------------------------------------
(* The retry count.                                                        *)

\* The retry count's invariant is inductive.
LEMMA NextRetryInv == TypeOK /\ TypeOK' /\ TxInv /\ RetryInv /\ [Next]_vars => RetryInv'
<1> SUFFICES ASSUME TypeOK, TypeOK', TxInv, RetryInv, [Next]_vars PROVE RetryInv'
  OBVIOUS
<1>1. CASE Others
  <2>1. RetryBelowLimit' /\ tx' = tx
    BY <1>1, OthersFrame DEF RetryInv
  <2>2. \A w \in Workers : \A e \in tx[w].again : retry'[e] = retry[e]
    BY <1>1, OthersFrame DEF Locked, TxRows
  <2> QED
    BY <2>1, <2>2 DEF RetryInv
<1>2. ASSUME NEW w \in Workers, WorkerFetch(w) PROVE RetryInv'
  <2>1. tx'[w].again = {} /\ \A v \in Workers \ {w} : tx'[v] = tx[v]
    BY <1>2 DEF WorkerFetch, TypeOK, Tx, NoTx
  <2> QED
    BY <1>2, <2>1 DEF WorkerFetch, rowVars, RetryInv, RetryBelowLimit
<1>3. ASSUME NEW w \in Workers, WorkerProcess(w) \/ WorkerSkip(w) \/ WorkerDeadLetter(w)
      PROVE  RetryInv'
  <2>1. \A v \in Workers : tx'[v].again = tx[v].again
    <3>1. CASE WorkerProcess(w)
      BY <3>1 DEF WorkerProcess, Completing, TypeOK, Tx
    <3>2. CASE WorkerDeadLetter(w)
      BY <3>2 DEF WorkerDeadLetter, Burying, TypeOK, Tx
    <3>3. CASE WorkerSkip(w)
      BY <3>3 DEF WorkerSkip, Completing, TypeOK, Tx
    <3> QED
      BY <1>3, <3>1, <3>2, <3>3
  <2> QED
    BY <1>3, <2>1
    DEF WorkerProcess, WorkerSkip, WorkerDeadLetter, rowVars, RetryInv, RetryBelowLimit
<1>4. ASSUME NEW w \in Workers, WorkerRetry(w) PROVE RetryInv'
  <2>1. PICK e \in tx[w].todo :
           /\ ~WorkerLastRetry(e)
           /\ tx' = [tx EXCEPT ![w] = Retrying(tx[w], e)]
    BY <1>4 DEF WorkerRetry
  <2>2. e \in Events /\ retry[e] + 1 < MaxRetry
    BY <2>1, BoundsAssumption DEF WorkerLastRetry, TypeOK, Tx
  <2>3. /\ tx'[w].again = tx[w].again \cup {e}
        /\ \A v \in Workers \ {w} : tx'[v] = tx[v]
    BY <2>1 DEF Retrying, TypeOK, Tx
  <2>4. retry' = retry
    BY <1>4 DEF WorkerRetry, rowVars
  <2> QED
    BY <2>2, <2>3, <2>4 DEF RetryInv, RetryBelowLimit
<1>5. ASSUME NEW w \in Workers, WorkerCommit(w) PROVE RetryInv'
  <2>1. \A e \in Events : retry'[e] < MaxRetry
    BY <1>5 DEF WorkerCommit, NewRetry, RetryInv, RetryBelowLimit
  <2>2. tx'[w].again = {} /\ \A v \in Workers \ {w} : tx'[v] = tx[v]
    BY <1>5 DEF WorkerCommit, NoTx, TypeOK
  <2>3. ASSUME NEW v \in Workers \ {w}, NEW e \in tx[v].again PROVE retry'[e] = retry[e]
    <3>1. e \in Events /\ e \notin tx[w].again
      BY DEF TypeOK, Tx, TxInv, TxRowsArePending, TxRows
    <3> QED
      BY <1>5, <3>1 DEF WorkerCommit, NewRetry
  <2> QED
    BY <2>1, <2>2, <2>3 DEF RetryInv, RetryBelowLimit
<1>6. ASSUME NEW w \in Workers, WorkerRollback(w) PROVE RetryInv'
  <2>1. tx'[w].again = {} /\ \A v \in Workers \ {w} : tx'[v] = tx[v]
    BY <1>6 DEF WorkerRollback, NoTx, TypeOK
  <2> QED
    BY <1>6, <2>1 DEF WorkerRollback, rowVars, RetryInv, RetryBelowLimit
<1>7. CASE UNCHANGED vars
  BY <1>7 DEF vars, RetryInv, RetryBelowLimit
<1> QED
  BY <1>1, <1>2, <1>3, <1>4, <1>5, <1>6, <1>7 DEF Next, Others, WorkerStep

\* No committed retry_count reaches the limit that dead-letters, so nothing that
\* looks for rows at the limit will ever find one.
THEOREM RetryStaysBelowLimit == Spec => []RetryBelowLimit
  <1>1. Init => RetryInv
    BY BoundsAssumption DEF Init, RetryInv, RetryBelowLimit, NoTx
  <1>2. RetryInv => RetryBelowLimit
    BY DEF RetryInv
  <1> QED
    BY <1>1, <1>2, NextRetryInv, TypeCorrect, TxCorrect, PTL DEF Spec

-----------------------------------------------------------------------------
(* Duplicate agent tasks.                                                  *)

\* An event a worker still has to process is not counted as processed.
LEMMA TodoNotCounted ==
  ASSUME TxInv, NEW w \in Workers, NEW e \in tx[w].todo
  PROVE  ~Counted(e)
  BY DEF TxInv, TxRowsArePending, TxRows, PartsDisjoint, Counted, Settled

\* The invariant on applied effects is inductive.
LEMMA NextTasksInv == TypeOK /\ TypeOK' /\ TxInv /\ TasksInv /\ [Next]_vars => TasksInv'
<1> SUFFICES ASSUME TypeOK, TypeOK', TxInv, TasksInv, [Next]_vars, NEW e \in Events
             PROVE  tasks'[e] <= unrecorded'[e] + (IF Counted(e)' THEN 1 ELSE 0)
  BY DEF TasksInv
<1> DEFINE Goal == tasks'[e] <= unrecorded'[e] + (IF Counted(e)' THEN 1 ELSE 0)
<1>1. /\ tasks[e] \in Nat /\ tasks'[e] \in Nat
      /\ unrecorded[e] \in Nat /\ unrecorded'[e] \in Nat
      /\ Counted(e) \in BOOLEAN
      /\ tasks[e] <= unrecorded[e] + (IF Counted(e) THEN 1 ELSE 0)
  BY DEF TypeOK, TasksInv, Counted
\* Nothing more applied, nothing left unrecorded, nothing counted forgotten.
<1>2. ASSUME tasks'[e] = tasks[e], unrecorded'[e] = unrecorded[e], Counted(e) => Counted(e)'
      PROVE  Goal
  BY <1>1, <1>2
<1>3. status[e] \in Settled => status'[e] \in Settled
  BY NextSettled
<1>4. CASE Others
  <2>1. Counted(e) => Counted(e)'
    BY <1>3, <1>4, OthersFrame DEF Counted
  <2> QED
    BY <1>2, <1>4, <2>1, OthersFrame
<1>5. ASSUME NEW w \in Workers, WorkerFetch(w) \/ WorkerRetry(w) \/ WorkerDeadLetter(w)
      PROVE  Goal
  <2>1. \A v \in Workers : tx'[v].done = tx[v].done
    <3>1. CASE WorkerFetch(w)
      BY <3>1 DEF WorkerFetch, NoTx, TypeOK, Tx
    <3>2. CASE WorkerRetry(w)
      BY <3>2 DEF WorkerRetry, Retrying, TypeOK, Tx
    <3>3. CASE WorkerDeadLetter(w)
      BY <3>3 DEF WorkerDeadLetter, Burying, TypeOK, Tx
    <3> QED
      BY <1>5, <3>1, <3>2, <3>3
  <2>2. Counted(e) => Counted(e)'
    BY <1>3, <2>1 DEF Counted
  <2>3. \/ tasks'[e] = tasks[e] /\ unrecorded'[e] = unrecorded[e]
        \/ tasks'[e] <= tasks[e] + 1 /\ unrecorded'[e] = unrecorded[e] + 1
    <3>1. ASSUME NEW f \in Events, InsertThrows(f)
          PROVE  \/ tasks'[e] = tasks[e] /\ unrecorded'[e] = unrecorded[e]
                 \/ tasks'[e] <= tasks[e] + 1 /\ unrecorded'[e] = unrecorded[e] + 1
      BY <1>1, <3>1 DEF InsertThrows, Bump, TypeOK
    <3>2. CASE WorkerFetch(w)
      BY <3>2 DEF WorkerFetch, historyVars
    <3>3. CASE WorkerRetry(w) \/ WorkerDeadLetter(w)
      <4>1. PICK f \in Events : InsertThrows(f)
        BY <3>3, HandlersAssumption DEF WorkerRetry, WorkerDeadLetter
      <4> QED
        BY <3>1, <4>1
    <3> QED
      BY <1>5, <3>2, <3>3
  <2> QED
    BY <1>1, <2>2, <2>3
<1>6. ASSUME NEW w \in Workers, WorkerProcess(w) \/ WorkerSkip(w) PROVE Goal
  <2>1. PICK f \in tx[w].todo :
           /\ tx' = [tx EXCEPT ![w] = Completing(tx[w], f)]
           /\ tasks' \in {tasks, Bump(tasks, f)}
           /\ unrecorded' = unrecorded
    BY <1>6 DEF WorkerProcess, WorkerSkip, historyVars
  <2>2. /\ tx'[w].done = tx[w].done \cup {f}
        /\ \A v \in Workers \ {w} : tx'[v] = tx[v]
    BY <2>1 DEF Completing, TypeOK, Tx
  <2>3. CASE e = f
    <3>1. ~Counted(e) /\ Counted(e)'
      BY <2>2, <2>3, TodoNotCounted DEF Counted
    <3>2. tasks'[e] <= tasks[e] + 1
      BY <1>1, <2>1, <2>3 DEF Bump, TypeOK
    <3> QED
      BY <1>1, <2>1, <3>1, <3>2
  <2>4. CASE e # f
    <3>1. tasks'[e] = tasks[e]
      BY <2>1, <2>4 DEF Bump, TypeOK
    <3>2. Counted(e) => Counted(e)'
      BY <1>3, <2>2 DEF Counted
    <3> QED
      BY <1>2, <2>1, <3>1, <3>2
  <2> QED
    BY <2>3, <2>4
<1>7. ASSUME NEW w \in Workers, WorkerCommit(w) PROVE Goal
  <2>1. \A v \in Workers \ {w} : tx'[v] = tx[v]
    BY <1>7 DEF WorkerCommit, TypeOK
  <2>2. e \in tx[w].done => status'[e] \in Settled
    BY <1>7 DEF WorkerCommit, NewStatus, TxInv, PartsDisjoint, Settled
  <2>3. Counted(e) => Counted(e)'
    BY <1>3, <2>1, <2>2 DEF Counted
  <2> QED
    BY <1>2, <1>7, <2>3 DEF WorkerCommit, historyVars
<1>8. ASSUME NEW w \in Workers, WorkerRollback(w) PROVE Goal
  <2>1. tasks' = tasks /\ \A v \in Workers \ {w} : tx'[v] = tx[v]
    BY <1>8 DEF WorkerRollback, TypeOK
  <2>2. CASE e \in tx[w].done
    <3>1. unrecorded'[e] = unrecorded[e] + 1
      BY <1>8, <2>2 DEF WorkerRollback
    <3> QED
      BY <1>1, <2>1, <3>1
  <2>3. CASE e \notin tx[w].done
    <3>1. unrecorded'[e] = unrecorded[e]
      BY <1>8, <2>3 DEF WorkerRollback
    <3>2. Counted(e) => Counted(e)'
      BY <1>3, <2>1, <2>3 DEF Counted
    <3> QED
      BY <1>2, <2>1, <3>1, <3>2
  <2> QED
    BY <2>2, <2>3
<1>9. CASE UNCHANGED vars
  BY <1>2, <1>9 DEF vars, Counted
<1> QED
  BY <1>4, <1>5, <1>6, <1>7, <1>8, <1>9 DEF Next, Others, WorkerStep

\* A worker creates an event's agent task once, and once more for each creation of
\* which nothing was committed: a batch rolled back, or an INSERT whose answer was
\* lost. Row locks make every other duplicate impossible.
THEOREM DuplicatesOnlyIfUnrecorded == Spec => []DuplicateTaskOnlyIfUnrecorded
  <1>1. Init => TasksInv
    BY DEF Init, TasksInv, Counted, Settled, NoTx
  <1>2. TypeOK /\ TasksInv => DuplicateTaskOnlyIfUnrecorded
    BY DEF TypeOK, TasksInv, DuplicateTaskOnlyIfUnrecorded
  <1> QED
    BY <1>1, <1>2, NextTasksInv, TypeCorrect, TxCorrect, PTL DEF Spec
-----------------------------------------------------------------------------
(* Events both consumers have a handler for.                               *)

\* The effects of e were applied by one of the consumers.
Applied(e) == handled[e] > 0 \/ tasks[e] > 0

\* An API process is back from the handler of e and about to complete it.
ReturnedFor(a, e) == api[a].pc = "returned" /\ IsFirst(e, api[a].batch)

\* e is COMPLETED, or a consumer takes it for processed and will complete it.
Credited(e) ==
    \/ status[e] = "COMPLETED"
    \/ \E w \in Workers : e \in tx[w].done
    \/ \E a \in Apis : ReturnedFor(a, e)

\* Neither consumer credits a shared event without having applied its effects.
SharedInv == \A e \in ApiEvents \cap WorkerEvents : Credited(e) => Applied(e)

\* A saturating counter that was counted up is positive, and one that was
\* positive stays so.
LEMMA BumpPositive ==
  ASSUME NEW c \in [Events -> Nat], NEW e \in Events
  PROVE  /\ Bump(c, e)[e] > 0
         /\ \A f \in Events : c[f] > 0 => Bump(c, e)[f] > 0
  BY BoundsAssumption DEF Bump

\* Applied effects stay applied.
LEMMA AppliedStays ==
  ASSUME TypeOK, [Next]_vars, NEW e \in Events, Applied(e)
  PROVE  Applied(e)'
<1> USE DEF Applied, historyVars
<1>1. ASSUME UNCHANGED <<handled, tasks>> PROVE Applied(e)'
  BY <1>1
<1>2. ASSUME NEW a \in Apis, ApiHandle(a) \/ ApiThrow(a) PROVE Applied(e)'
  <2>1. PICK f \in ApiEvents : handled' \in {handled, Bump(handled, f)} /\ tasks' = tasks
    BY <1>2 DEF ApiHandle, ApiThrow
  <2> QED
    BY <2>1, BumpPositive, HandlersAssumption DEF TypeOK
<1>3. ASSUME NEW w \in Workers, WorkerProcess(w) \/ WorkerRetry(w) \/ WorkerDeadLetter(w)
      PROVE  Applied(e)'
  <2>1. PICK f \in Events : tasks' \in {tasks, Bump(tasks, f)} /\ handled' = handled
    BY <1>3 DEF WorkerProcess, WorkerRetry, WorkerDeadLetter, InsertThrows, TypeOK, Tx
  <2> QED
    BY <2>1, BumpPositive DEF TypeOK
<1>4. ASSUME NEW f \in Events, Publish(f) PROVE Applied(e)'
  BY <1>1, <1>4 DEF Publish
<1>5. ASSUME NEW a \in Apis, ApiStep(a) \/ ApiFault(a) \/ LockExpire(a)
      PROVE  Applied(e)'
  BY <1>1, <1>2, <1>5
  DEF ApiStep, ApiFault, LockExpire, ApiFetch, ApiSkip, ApiMarkProcessed, ApiMarkFailed,
      ApiMarkFailedThrows, ApiMarkProcessedError, ApiMarkProcessedUnheard,
      ApiMarkFailedError, ApiMarkFailedUnheard, ApiCrash
<1>6. ASSUME NEW w \in Workers, WorkerStep(w) \/ WorkerRollback(w) PROVE Applied(e)'
  BY <1>1, <1>3, <1>6
  DEF WorkerStep, WorkerFetch, WorkerSkip, WorkerCommit, WorkerRollback
<1>7. CASE UNCHANGED vars
  BY <1>1, <1>7 DEF vars
<1> QED
  BY <1>4, <1>5, <1>6, <1>7 DEF Next

\* A step of an API process credits a shared event only with its effects applied.
LEMMA ApiCredits ==
  ASSUME TypeOK, NEW e \in ApiEvents, NEW a \in Apis,
         ApiStep(a) \/ ApiFault(a) \/ LockExpire(a), Credited(e)'
  PROVE  Credited(e) \/ Applied(e)'
<1> USE DEF Credited, ReturnedFor, rowVars, historyVars
<1>1. ASSUME UNCHANGED <<status, tx>>, \A b \in Apis : ReturnedFor(b, e)' => ReturnedFor(b, e)
      PROVE  Credited(e)
  BY <1>1
<1>2. CASE ApiSkip(a)
  <2>1. PICK f \in api[a].batch \ ApiEvents :
           /\ IsFirst(f, api[a].batch)
           /\ api' = [api EXCEPT ![a].pc = "returned"]
    BY <1>2 DEF ApiSkip
  <2>2. f # e /\ f \in Nat /\ e \in Nat /\ api[a].batch \subseteq Nat
    BY <2>1, HandlersAssumption, EventsAssumption DEF TypeOK
  <2>3. ~IsFirst(e, api[a].batch)
    BY <2>1, <2>2 DEF IsFirst
  <2>4. api'[a].batch = api[a].batch /\ \A b \in Apis \ {a} : api'[b] = api[b]
    BY <2>1 DEF TypeOK
  <2> QED
    BY <1>1, <1>2, <2>3, <2>4 DEF ApiSkip, IsFirst
<1>3. CASE ApiHandle(a)
  <2>1. PICK f \in api[a].batch \cap ApiEvents :
           /\ IsFirst(f, api[a].batch)
           /\ api' = [api EXCEPT ![a].pc = "returned"]
           /\ handled' = Bump(handled, f)
    BY <1>3 DEF ApiHandle
  <2>2. f \in Nat /\ e \in Nat /\ api[a].batch \subseteq Nat
    BY <2>1, HandlersAssumption, EventsAssumption DEF TypeOK
  <2>3. IsFirst(e, api[a].batch) => e = f
    BY <2>1, <2>2 DEF IsFirst
  <2>4. api'[a].batch = api[a].batch /\ \A b \in Apis \ {a} : api'[b] = api[b]
    BY <2>1 DEF TypeOK
  <2>5. e = f => handled'[e] > 0
    BY <2>1, BumpPositive, HandlersAssumption DEF TypeOK
  <2> QED
    BY <1>1, <1>3, <2>3, <2>4, <2>5 DEF ApiHandle, Applied, IsFirst
<1>4. CASE ApiMarkProcessed(a) \/ ApiMarkProcessedUnheard(a)
  <2>1. PICK f \in api[a].batch :
           /\ ReturnedFor(a, f)
           /\ status' = [status EXCEPT ![f] = "COMPLETED"]
           /\ ApiAdvance(a, f) \/ api' = [api EXCEPT ![a].pc = "threw"]
           /\ tx' = tx
    BY <1>4 DEF ApiMarkProcessed, ApiMarkProcessedUnheard
  <2>2. \A b \in Apis : api'[b].pc = "returned" => b # a /\ api'[b] = api[b]
    BY <2>1 DEF ApiAdvance, ApiIdle, TypeOK
  <2>3. status'[e] = "COMPLETED" => status[e] = "COMPLETED" \/ e = f
    BY <2>1 DEF TypeOK
  <2> QED
    BY <2>1, <2>2, <2>3
<1>5. CASE ApiMarkFailed(a) \/ ApiMarkFailedUnheard(a)
  <2>1. status'[e] = "COMPLETED" => status[e] = "COMPLETED"
    <3>1. PICK f \in Events : status' = [status EXCEPT ![f] = "FAILED"]
      BY <1>5 DEF ApiMarkFailed, ApiMarkFailedUnheard, TypeOK
    <3> QED
      BY <3>1, HandlersAssumption DEF TypeOK
  <2>2. \A b \in Apis : api'[b].pc = "returned" => api'[b] = api[b]
    BY <1>5
    DEF ApiMarkFailed, ApiMarkFailedUnheard, ApiAdvance, ApiAbandon, ApiIdle, TypeOK
  <2> QED
    BY <1>5, <2>1, <2>2 DEF ApiMarkFailed, ApiMarkFailedUnheard
<1>6. ASSUME UNCHANGED <<status, tx>>, \A b \in Apis : api'[b].pc = "returned" => api'[b] = api[b]
      PROVE  Credited(e)
  BY <1>6
<1>7. CASE ApiFetch(a) \/ ApiThrow(a) \/ ApiMarkFailedThrows(a)
  <2>1. \A b \in Apis : api'[b].pc = "returned" => api'[b] = api[b]
    BY <1>7 DEF ApiFetch, ApiThrow, ApiMarkFailedThrows, ApiAbandon, ApiIdle, TypeOK
  <2> QED
    BY <1>6, <1>7, <2>1 DEF ApiFetch, ApiThrow, ApiMarkFailedThrows
<1>8. CASE ApiMarkProcessedError(a) \/ ApiMarkFailedError(a) \/ ApiCrash(a) \/ LockExpire(a)
  <2>1. \A b \in Apis : api'[b].pc = "returned" => api'[b] = api[b]
    BY <1>8 DEF ApiMarkProcessedError, ApiMarkFailedError, ApiCrash, LockExpire,
                ApiAbandon, ApiIdle, TypeOK
  <2> QED
    BY <1>6, <1>8, <2>1
    DEF ApiMarkProcessedError, ApiMarkFailedError, ApiCrash, LockExpire
<1> QED
  BY <1>2, <1>3, <1>4, <1>5, <1>7, <1>8 DEF ApiStep, ApiFault

\* A step of a worker credits a shared event only with its effects applied.
LEMMA WorkerCredits ==
  ASSUME TypeOK, TxInv, NEW e \in ApiEvents \cap WorkerEvents, NEW w \in Workers,
         WorkerStep(w) \/ WorkerRollback(w), Credited(e)'
  PROVE  Credited(e) \/ Applied(e)'
<1> USE DEF Credited, rowVars, historyVars
<1>1. \A a \in Apis : ReturnedFor(a, e)' <=> ReturnedFor(a, e)
  BY DEF WorkerStep, WorkerFetch, WorkerProcess, WorkerSkip, WorkerRetry,
         WorkerDeadLetter, WorkerCommit, WorkerRollback, ReturnedFor, IsFirst
<1>2. CASE WorkerFetch(w) \/ WorkerRollback(w)
  <2>1. \A v \in Workers : tx'[v].done \subseteq tx[v].done
    BY <1>2 DEF WorkerFetch, WorkerRollback, NoTx, TypeOK, Tx
  <2> QED
    BY <1>1, <1>2, <2>1 DEF WorkerFetch, WorkerRollback
<1>3. CASE WorkerProcess(w)
  <2>1. PICK f \in tx[w].todo :
           /\ tx' = [tx EXCEPT ![w] = Completing(tx[w], f)]
           /\ tasks' = IF f \in WorkerEvents THEN Bump(tasks, f) ELSE tasks
           /\ status' = status
    BY <1>3 DEF WorkerProcess
  <2>2. /\ tx'[w].done = tx[w].done \cup {f}
        /\ \A v \in Workers \ {w} : tx'[v] = tx[v]
    BY <2>1 DEF Completing, TypeOK, Tx
  <2>3. e = f => tasks'[e] > 0
    BY <2>1, BumpPositive, HandlersAssumption DEF TypeOK
  <2> QED
    BY <1>1, <2>1, <2>2, <2>3 DEF Applied
<1>4. CASE WorkerRetry(w)
  <2>1. \A v \in Workers : tx'[v].done = tx[v].done
    BY <1>4 DEF WorkerRetry, Retrying, TypeOK, Tx
  <2> QED
    BY <1>1, <1>4, <2>1 DEF WorkerRetry
<1>5. CASE WorkerDeadLetter(w)
  <2>1. \A v \in Workers : tx'[v].done = tx[v].done
    BY <1>5 DEF WorkerDeadLetter, Burying, TypeOK, Tx
  <2> QED
    BY <1>1, <1>5, <2>1 DEF WorkerDeadLetter
<1>6. CASE WorkerCommit(w)
  <2>1. \A v \in Workers : tx'[v].done \subseteq tx[v].done
    BY <1>6 DEF WorkerCommit, NoTx, TypeOK, Tx
  <2>2. status'[e] = "COMPLETED" => status[e] = "COMPLETED" \/ e \in tx[w].done
    BY <1>6, HandlersAssumption DEF WorkerCommit, NewStatus
  <2> QED
    BY <1>1, <2>1, <2>2
<1>7. CASE WorkerSkip(w)
  <2>1. PICK f \in tx[w].todo \cap NoticeEvents :
           tx' = [tx EXCEPT ![w] = Completing(tx[w], f)] /\ status' = status
    BY <1>7 DEF WorkerSkip
  <2>2. /\ tx'[w].done = tx[w].done \cup {f}
        /\ \A v \in Workers \ {w} : tx'[v] = tx[v]
    BY <2>1 DEF Completing, TypeOK, Tx
  <2>3. e # f
    BY <2>1, NoticesAssumption
  <2> QED
    BY <1>1, <2>1, <2>2, <2>3
<1> QED
  BY <1>2, <1>3, <1>4, <1>5, <1>6, <1>7 DEF WorkerStep

\* The invariant on shared events is inductive.
LEMMA NextSharedInv == TypeOK /\ TxInv /\ SharedInv /\ [Next]_vars => SharedInv'
<1> SUFFICES ASSUME TypeOK, TxInv, SharedInv, [Next]_vars,
                    NEW e \in ApiEvents \cap WorkerEvents, Credited(e)'
             PROVE  Applied(e)'
  BY DEF SharedInv
<1>1. Credited(e) => Applied(e)'
  BY AppliedStays, HandlersAssumption DEF SharedInv
<1>2. ASSUME NEW f \in Events, Publish(f) PROVE Applied(e)'
  <2>1. Credited(e)
    BY <1>2 DEF Publish, Credited, ReturnedFor, IsFirst, TypeOK
  <2> QED
    BY <1>1, <2>1
<1>3. ASSUME NEW a \in Apis, ApiStep(a) \/ ApiFault(a) \/ LockExpire(a)
      PROVE  Applied(e)'
  BY <1>1, <1>3, ApiCredits
<1>4. ASSUME NEW w \in Workers, WorkerStep(w) \/ WorkerRollback(w) PROVE Applied(e)'
  BY <1>1, <1>4, WorkerCredits
<1>5. CASE UNCHANGED vars
  <2>1. Credited(e)
    BY <1>5 DEF vars, Credited, ReturnedFor, IsFirst
  <2> QED
    BY <1>1, <2>1
<1> QED
  BY <1>2, <1>3, <1>4, <1>5 DEF Next

\* An event both consumers know is not COMPLETED before one of them has applied
\* its effects, however their batches overlap and whoever dies in between.
THEOREM SharedEventsApplied == Spec => []SharedEventNotLost
  <1>1. Init => SharedInv
    BY HandlersAssumption
    DEF Init, SharedInv, Credited, ReturnedFor, NoTx, ApiIdle
  <1>2. TypeOK /\ SharedInv => SharedEventNotLost
    BY HandlersAssumption
    DEF TypeOK, SharedInv, Credited, Applied, SharedEventNotLost
  <1> QED
    BY <1>1, <1>2, NextSharedInv, TypeCorrect, TxCorrect, PTL DEF Spec
-----------------------------------------------------------------------------
(* The worker's poller by itself.                                          *)

\* A FAILED event has its dead letter.
FailedIsDeadLettered == \A e \in Events : status[e] = "FAILED" => dlq[e] > 0

\* Without API processes, events leave the queue only as pollOutbox decides:
\* dead-lettered when FAILED, with their effects applied when COMPLETED.
DeliveredInv ==
    /\ FailedIsDeadLettered
    /\ \A e \in WorkerEvents \ NoticeEvents :
         status[e] = "COMPLETED" \/ (\E w \in Workers : e \in tx[w].done) => tasks[e] > 0

\* That invariant is inductive.
LEMMA NextDeliveredInv ==
  ASSUME Apis = {}
  PROVE  TypeOK /\ TypeOK' /\ TxInv /\ DeliveredInv /\ [Next]_vars => DeliveredInv'
<1> SUFFICES ASSUME TypeOK, TypeOK', TxInv, DeliveredInv, [Next]_vars PROVE DeliveredInv'
  OBVIOUS
<1> USE HandlersAssumption DEF DeliveredInv, FailedIsDeadLettered
<1>1. ASSUME NEW e \in Events, Publish(e) PROVE DeliveredInv'
  BY <1>1 DEF Publish, TypeOK, historyVars
<1>2. ASSUME NEW w \in Workers, WorkerFetch(w) PROVE DeliveredInv'
  <2>1. \A v \in Workers : tx'[v].done \subseteq tx[v].done
    BY <1>2 DEF WorkerFetch, NoTx, TypeOK, Tx
  <2> QED
    BY <1>2, <2>1 DEF WorkerFetch, rowVars, historyVars
<1>3. ASSUME NEW w \in Workers, WorkerProcess(w) PROVE DeliveredInv'
  <2>1. PICK f \in tx[w].todo :
           /\ tx' = [tx EXCEPT ![w] = Completing(tx[w], f)]
           /\ tasks' = IF f \in WorkerEvents THEN Bump(tasks, f) ELSE tasks
           /\ UNCHANGED rowVars
    BY <1>3 DEF WorkerProcess
  <2>2. /\ tx'[w].done = tx[w].done \cup {f}
        /\ \A v \in Workers \ {w} : tx'[v] = tx[v]
    BY <2>1 DEF Completing, TypeOK, Tx
  <2>3. \A e \in Events : tasks[e] > 0 => tasks'[e] > 0
    BY <2>1, BoundsAssumption DEF Bump, TypeOK
  <2>4. f \in WorkerEvents => tasks'[f] > 0
    BY <2>1, BoundsAssumption DEF Bump, TypeOK
  <2> QED
    BY <2>1, <2>2, <2>3, <2>4 DEF rowVars
<1>4. ASSUME NEW w \in Workers, WorkerRetry(w) \/ WorkerDeadLetter(w) PROVE DeliveredInv'
  <2>1. \A v \in Workers : tx'[v].done = tx[v].done
    <3>1. CASE WorkerRetry(w)
      BY <3>1 DEF WorkerRetry, Retrying, TypeOK, Tx
    <3>2. CASE WorkerDeadLetter(w)
      BY <3>2 DEF WorkerDeadLetter, Burying, TypeOK, Tx
    <3> QED
      BY <1>4, <3>1, <3>2
  <2>2. PICK f \in Events : InsertThrows(f)
    BY <1>4 DEF WorkerRetry, WorkerDeadLetter
  <2>3. \A e \in Events : tasks[e] > 0 => tasks'[e] > 0
    BY <2>2, BumpPositive DEF InsertThrows, TypeOK
  <2> QED
    BY <1>4, <2>1, <2>3 DEF WorkerRetry, WorkerDeadLetter, rowVars
<1>5. ASSUME NEW w \in Workers, WorkerCommit(w) PROVE DeliveredInv'
  <2>1. \A v \in Workers : tx'[v].done \subseteq tx[v].done
    BY <1>5 DEF WorkerCommit, NoTx, TypeOK, Tx
  <2>2. ASSUME NEW e \in Events, status'[e] = "COMPLETED"
        PROVE  status[e] = "COMPLETED" \/ e \in tx[w].done
    BY <1>5, <2>2 DEF WorkerCommit, NewStatus, TxInv, PartsDisjoint
  <2>3. ASSUME NEW e \in Events, status'[e] = "FAILED" PROVE dlq'[e] > 0
    <3>1. status[e] = "FAILED" \/ e \in tx[w].dead
      BY <1>5, <2>3 DEF WorkerCommit, NewStatus, TxInv, PartsDisjoint
    <3> QED
      BY <1>5, <3>1 DEF WorkerCommit, NewDlq, TypeOK
  <2> QED
    BY <1>5, <2>1, <2>2, <2>3 DEF WorkerCommit, historyVars
<1>6. ASSUME NEW w \in Workers, WorkerRollback(w) PROVE DeliveredInv'
  <2>1. \A v \in Workers : tx'[v].done \subseteq tx[v].done
    BY <1>6 DEF WorkerRollback, NoTx, TypeOK, Tx
  <2> QED
    BY <1>6, <2>1 DEF WorkerRollback, rowVars
<1>7. ASSUME NEW w \in Workers, WorkerSkip(w) PROVE DeliveredInv'
  <2>1. PICK f \in tx[w].todo \cap NoticeEvents :
           /\ tx' = [tx EXCEPT ![w] = Completing(tx[w], f)]
           /\ UNCHANGED <<rowVars, historyVars>>
    BY <1>7 DEF WorkerSkip
  <2>2. /\ tx'[w].done = tx[w].done \cup {f}
        /\ \A v \in Workers \ {w} : tx'[v] = tx[v]
    BY <2>1 DEF Completing, TypeOK, Tx
  <2> QED
    BY <2>1, <2>2 DEF rowVars, historyVars
<1>8. CASE UNCHANGED vars
  BY <1>8 DEF vars
<1> QED
  BY <1>1, <1>2, <1>3, <1>4, <1>5, <1>6, <1>7, <1>8 DEF Next, WorkerStep

\* Without API processes that invariant holds throughout.
LEMMA DeliveredCorrect == ASSUME Apis = {} PROVE Spec => []DeliveredInv
  <1>1. Init => DeliveredInv
    BY HandlersAssumption DEF Init, DeliveredInv, FailedIsDeadLettered, NoTx
  <1>2. TypeOK /\ TypeOK' /\ TxInv /\ DeliveredInv /\ [Next]_vars => DeliveredInv'
    BY NextDeliveredInv
  <1> QED
    BY <1>1, <1>2, TypeCorrect, TxCorrect, PTL DEF Spec

\* The poller by itself delivers at least once.
THEOREM WorkerAloneDelivers ==
  ASSUME Apis = {}, ApiEvents = {} PROVE Spec => []AtLeastOnce
  <1>1. TypeOK /\ DeliveredInv => AtLeastOnce
    BY DEF DeliveredInv, AtLeastOnce
  <1> QED
    BY <1>1, TypeCorrect, DeliveredCorrect, PTL

\* The poller by itself dead-letters every event it fails.
THEOREM WorkerAloneDeadLetters ==
  ASSUME Apis = {} PROVE Spec => []FailedIsDeadLettered
  <1>1. DeliveredInv => FailedIsDeadLettered
    BY DEF DeliveredInv
  <1> QED
    BY <1>1, DeliveredCorrect, PTL
-----------------------------------------------------------------------------
(* The poller by itself implements the at-least-once queue.                *)

\* Every step of the poller or of a publisher is a step of the queue, or none.
LEMMA QueueStep ==
  ASSUME Apis = {}, TypeOK, TypeOK', TxInv, DeliveredInv, [Next]_vars
  PROVE  [Queue!Next]_(Queue!vars)
<1> DEFINE state == [e \in Events |-> Standing(e)]
           applied == {e \in WorkerEvents : tasks[e] > 0}
<1> USE HandlersAssumption
<1>1. ASSUME state' = state, applied' = applied PROVE [Queue!Next]_(Queue!vars)
  BY <1>1 DEF Queue!vars
<1>2. ASSUME status' = status, dlq' = dlq PROVE state' = state
  BY <1>2 DEF Standing
<1>3. ASSUME NEW e \in Events, Publish(e) PROVE [Queue!Next]_(Queue!vars)
  <2>1. state[e] = "absent"
    BY <1>3 DEF Publish, Standing
  <2>2. state' = [state EXCEPT ![e] = "queued"]
    BY <1>3 DEF Publish, Standing, TypeOK
  <2>3. applied' = applied
    BY <1>3 DEF Publish, historyVars
  <2>4. Queue!Enqueue(e)
    BY <2>1, <2>2, <2>3 DEF Queue!Enqueue
  <2> QED
    BY <2>4 DEF Queue!Next
<1>4. ASSUME NEW w \in Workers, WorkerProcess(w) \/ WorkerRetry(w) \/ WorkerDeadLetter(w)
      PROVE  [Queue!Next]_(Queue!vars)
  <2>1. PICK f \in tx[w].todo :
           /\ tasks' = tasks \/ (f \in WorkerEvents /\ tasks' = Bump(tasks, f))
           /\ status' = status /\ dlq' = dlq
    <3>1. CASE WorkerProcess(w)
      BY <3>1 DEF WorkerProcess, rowVars
    <3>2. CASE WorkerRetry(w)
      BY <3>2 DEF WorkerRetry, InsertThrows, rowVars
    <3>3. CASE WorkerDeadLetter(w)
      BY <3>3 DEF WorkerDeadLetter, InsertThrows, rowVars
    <3> QED
      BY <1>4, <3>1, <3>2, <3>3
  <2>2. f \in Events /\ status[f] = "PENDING"
    BY DEF TypeOK, Tx, TxInv, TxRowsArePending, TxRows
  <2>3. CASE f \in WorkerEvents /\ tasks' = Bump(tasks, f)
    <3>1. applied' = applied \cup {f}
      BY <2>1, <2>3, BoundsAssumption DEF Bump, TypeOK
    <3>2. state[f] = "queued"
      BY <2>2 DEF Standing
    <3>3. Queue!Apply(f)
      BY <1>2, <2>1, <3>1, <3>2 DEF Queue!Apply
    <3> QED
      BY <2>2, <3>3 DEF Queue!Next
  <2>4. CASE tasks' = tasks
    BY <1>1, <1>2, <2>1, <2>4
  <2> QED
    BY <2>1, <2>3, <2>4
<1>5. ASSUME NEW w \in Workers, WorkerCommit(w) PROVE [Queue!Next]_(Queue!vars)
  <2> DEFINE D == tx[w].done
             X == tx[w].dead
  <2>1. D \in SUBSET Events /\ X \in SUBSET Events /\ D \cap X = {}
    BY DEF TypeOK, Tx, TxInv, PartsDisjoint
  <2>2. \A e \in D \cup X \cup tx[w].again : e \in Events /\ status[e] = "PENDING"
    BY DEF TxInv, TxRowsArePending, TxRows, TypeOK, Tx
  <2>3. \A e \in D \cup X : state[e] = "queued"
    BY <2>2 DEF Standing
  <2>4. D \cap (WorkerEvents \ NoticeEvents) \subseteq applied
    BY DEF DeliveredInv
  <2>5. ASSUME NEW e \in Events
        PROVE  Standing(e)' = IF e \in D THEN "delivered"
                              ELSE IF e \in X THEN "dead" ELSE Standing(e)
    <3>1. status'[e] = NewStatus(w, e) /\ dlq'[e] = NewDlq(w, e)
      BY <1>5 DEF WorkerCommit
    <3>2. e \in D => NewStatus(w, e) = "COMPLETED"
      BY DEF NewStatus, TxInv, PartsDisjoint
    <3>3. e \in X => NewStatus(w, e) = "FAILED"
      BY DEF NewStatus, TxInv, PartsDisjoint
    <3>4. e \notin D \cup X => NewStatus(w, e) = status[e]
      BY <2>2 DEF NewStatus
    <3>5. dlq[e] \in Nat /\ NewDlq(w, e) = IF e \in X THEN dlq[e] + 1 ELSE dlq[e]
      BY DEF NewDlq, TypeOK
    <3>6. CASE e \in D
      BY <2>1, <3>1, <3>2, <3>6 DEF Standing
    <3>7. CASE e \in X
      <4>1. status'[e] = "FAILED" /\ dlq'[e] > 0 /\ e \notin D
        BY <2>1, <3>1, <3>3, <3>5, <3>7
      <4> QED
        BY <3>7, <4>1 DEF Standing
    <3>8. CASE e \notin D \cup X
      <4>1. status'[e] = status[e] /\ dlq'[e] = dlq[e]
        BY <3>1, <3>4, <3>5, <3>8
      <4> QED
        BY <3>8, <4>1 DEF Standing
    <3> QED
      BY <3>6, <3>7, <3>8
  <2>6. state' = [e \in Events |-> IF e \in D THEN "delivered"
                                   ELSE IF e \in X THEN "dead" ELSE state[e]]
    BY <2>5
  <2>7. applied' = applied
    BY <1>5 DEF WorkerCommit, historyVars
  <2>8. Queue!Settle(D, X)
    BY <2>1, <2>3, <2>4, <2>6, <2>7 DEF Queue!Settle
  <2> QED
    BY <2>1, <2>8 DEF Queue!Next
<1>6. ASSUME NEW w \in Workers,
             WorkerFetch(w) \/ WorkerSkip(w) \/ WorkerRollback(w)
      PROVE  [Queue!Next]_(Queue!vars)
  <2>1. status' = status /\ dlq' = dlq /\ tasks' = tasks
    BY <1>6 DEF WorkerFetch, WorkerSkip, WorkerRollback, rowVars, historyVars
  <2> QED
    BY <1>1, <1>2, <2>1
<1>7. CASE UNCHANGED vars
  BY <1>1, <1>2, <1>7 DEF vars
<1> QED
  BY <1>3, <1>4, <1>5, <1>6, <1>7 DEF Next, WorkerStep

\* The poller by itself implements the at-least-once queue of EventQueue: no
\* event leaves it before its effects were applied or its dead letter is written,
\* none ever comes back.
THEOREM WorkerAloneImplementsQueue ==
  ASSUME Apis = {} PROVE Spec => ImplementsEventQueue
  <1>1. Init => Queue!Init
    BY HandlersAssumption DEF Init, Queue!Init, Standing
  <1>2. TypeOK /\ TypeOK' /\ TxInv /\ DeliveredInv /\ [Next]_vars
          => [Queue!Next]_(Queue!vars)
    BY QueueStep
  <1> QED
    BY <1>1, <1>2, TypeCorrect, TxCorrect, DeliveredCorrect, PTL
    DEF Spec, ImplementsEventQueue, Queue!Spec
=============================================================================
