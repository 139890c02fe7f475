-------------------------- MODULE WorkerPoolProofs --------------------------
(***************************************************************************)
(* Theorems about WorkerPool, for any number of tasks and merchants, any   *)
(* size of the pool and of the batches.                                    *)
(***************************************************************************)
EXTENDS WorkerPool, FiniteSetTheorems, TLAPS

-----------------------------------------------------------------------------
(* The pool by itself.                                                     *)

\* What the three operations of the pool keep: no connection more than Max, none
\* free while a request waits, and every user at most once in it.
PoolInv ==
    /\ held \in SUBSET Users
    /\ queue \in Seq(Users)
    /\ Cardinality(held) <= Max
    /\ queue # <<>> => Cardinality(held) = Max
    /\ held \cap Waiting = {}
    /\ \A i, j \in DOMAIN queue : queue[i] = queue[j] => i = j

\* Who has a connection or waits for one.
InPool == held \cup Waiting

\* There are finitely many users.
LEMMA UsersFinite == IsFiniteSet(Users)
<1>1. IsFiniteSet(OwnUsers)
  <2>1. IsFiniteSet({"dispatch"} \cup {"read"}) /\ IsFiniteSet({"poll"} \cup {"insert"})
    BY FS_Singleton, FS_Union
  <2>2. OwnUsers = ({"dispatch"} \cup {"read"}) \cup ({"poll"} \cup {"insert"})
    BY DEF OwnUsers
  <2> QED
    BY <2>1, <2>2, FS_Union
<1> QED
  BY <1>1, TasksAssumption, FS_Union DEF Users

\* One more or one less user with a connection.
LEMMA CountHeld ==
  ASSUME NEW S \in SUBSET Users, NEW u \in Users
  PROVE  /\ Cardinality(S) \in Nat
         /\ u \notin S => Cardinality(S \cup {u}) = Cardinality(S) + 1
         /\ u \in S => Cardinality(S \ {u}) = Cardinality(S) - 1
<1>1. IsFiniteSet(S)
  BY UsersFinite, FS_Subset
<1> QED
  BY <1>1, FS_CardinalityType, FS_AddElement, FS_RemoveElement

\* A request enters the pool.
LEMMA RequestEnters ==
  ASSUME PoolInv, NEW u \in Users, u \notin InPool, Request(u)
  PROVE  PoolInv' /\ InPool' = InPool \cup {u}
<1> USE DEF PoolInv, InPool
<1>1. CASE queue = <<>> /\ Cardinality(held) < Max
  <2>1. held' = held \cup {u} /\ queue' = queue
    BY <1>1 DEF Request
  <2>2. Cardinality(held') = Cardinality(held) + 1
    BY <2>1, CountHeld
  <2>3. Waiting' = Waiting /\ Waiting = {}
    BY <1>1, <2>1 DEF Waiting
  <2> QED
    BY <1>1, <2>1, <2>2, <2>3, CountHeld, SizesAssumption
<1>2. CASE ~(queue = <<>> /\ Cardinality(held) < Max)
  <2>1. queue' = Append(queue, u) /\ held' = held
    BY <1>2 DEF Request
  <2>2. Cardinality(held) = Max
    <3>1. Cardinality(held) \in Nat /\ Max \in Nat
      BY CountHeld, SizesAssumption
    <3> QED
      BY <1>2, <3>1
  <2>3. /\ DOMAIN queue' = DOMAIN queue \cup {Len(queue) + 1}
        /\ queue'[Len(queue) + 1] = u
        /\ \A i \in DOMAIN queue : queue'[i] = queue[i] /\ i # Len(queue) + 1
    BY <2>1
  <2>4. Waiting' = Waiting \cup {u}
    BY <2>3 DEF Waiting
  <2>5. \A i, j \in DOMAIN queue' : queue'[i] = queue'[j] => i = j
    BY <2>3 DEF Waiting
  <2>6. queue' \in Seq(Users)
    BY <2>1
  <2> QED
    BY <2>1, <2>2, <2>4, <2>5, <2>6
<1> QED
  BY <1>1, <1>2

\* A connection that is given back goes to the first who waits.
LEMMA ReturnLeaves ==
  ASSUME PoolInv, NEW u \in held, Return(u)
  PROVE  PoolInv' /\ InPool' = InPool \ {u}
<1> USE DEF PoolInv, InPool
<1>0. u \in Users
  OBVIOUS
<1>1. CASE queue = <<>>
  <2>1. held' = held \ {u} /\ queue' = queue
    BY <1>1 DEF Return
  <2>2. Cardinality(held') = Cardinality(held) - 1
    BY <1>0, <2>1, CountHeld
  <2>3. Waiting' = {} /\ Waiting = {}
    BY <1>1, <2>1 DEF Waiting
  <2> QED
    BY <1>0, <1>1, <2>1, <2>2, <2>3, CountHeld, SizesAssumption
<1>2. CASE queue # <<>>
  <2>1. held' = (held \ {u}) \cup {Head(queue)} /\ queue' = Tail(queue)
    BY <1>2 DEF Return
  <2>2. /\ Head(queue) = queue[1] /\ 1 \in DOMAIN queue
        /\ Len(queue) \in Nat \ {0}
        /\ DOMAIN queue = 1 .. Len(queue)
        /\ queue' \in Seq(Users)
        /\ DOMAIN queue' = 1 .. Len(queue) - 1
        /\ \A i \in DOMAIN queue' : queue'[i] = queue[i + 1] /\ i + 1 \in DOMAIN queue
    BY <1>2, <2>1
  <2>3. Head(queue) \in Users /\ Head(queue) \notin held
    BY <2>2 DEF Waiting
  <2>4. Cardinality(held') = Cardinality(held)
    <3>1. Cardinality(held \ {u}) = Cardinality(held) - 1
      BY <1>0, CountHeld
    <3>2. Cardinality((held \ {u}) \cup {Head(queue)}) = Cardinality(held \ {u}) + 1
      BY <2>3, CountHeld
    <3> QED
      BY <1>0, <2>1, <3>1, <3>2, CountHeld
  <2>5. Waiting' = Waiting \ {Head(queue)} /\ Head(queue) \in Waiting
    <3>1. \A i \in DOMAIN queue' : queue'[i] \in Waiting /\ queue'[i] # Head(queue)
      BY <2>2 DEF Waiting
    <3>2. ASSUME NEW i \in DOMAIN queue, queue[i] # Head(queue)
          PROVE  queue[i] \in Waiting'
      <4>1. i - 1 \in DOMAIN queue' /\ queue'[i - 1] = queue[i]
        BY <2>2, <3>2
      <4> QED
        BY <4>1 DEF Waiting
    <3>3. Head(queue) \in Waiting
      BY <2>2 DEF Waiting
    <3> QED
      BY <3>1, <3>2, <3>3 DEF Waiting
  <2>6. \A i, j \in DOMAIN queue' : queue'[i] = queue'[j] => i = j
    BY <2>2
  <2> QED
    BY <1>2, <2>1, <2>2, <2>3, <2>4, <2>5, <2>6
<1> QED
  BY <1>1, <1>2

\* A request that times out leaves the queue.
LEMMA WithdrawLeaves ==
  ASSUME PoolInv, NEW u, Withdraw(u)
  PROVE  PoolInv' /\ u \in InPool /\ InPool' = InPool \ {u}
<1> USE DEF PoolInv, InPool
<1>1. PICK k \in DOMAIN queue :
         /\ queue[k] = u
         /\ queue' = [j \in 1 .. Len(queue) - 1 |-> IF j < k THEN queue[j] ELSE queue[j + 1]]
         /\ held' = held
  BY DEF Withdraw
<1>2. /\ DOMAIN queue = 1 .. Len(queue) /\ Len(queue) \in Nat \ {0} /\ k \in 1 .. Len(queue)
      /\ \A i \in DOMAIN queue : queue[i] \in Users
  BY <1>1
<1>3. /\ DOMAIN queue' = 1 .. Len(queue) - 1
      /\ \A j \in DOMAIN queue' :
            LET i == IF j < k THEN j ELSE j + 1
            IN  queue'[j] = queue[i] /\ i \in DOMAIN queue /\ i # k
  BY <1>1, <1>2
<1>4. queue' \in Seq(Users)
  BY <1>1, <1>2, <1>3
<1>5. Waiting' = Waiting \ {u} /\ u \in Waiting
  <2>1. \A j \in DOMAIN queue' : queue'[j] \in Waiting /\ queue'[j] # u
    BY <1>1, <1>2, <1>3 DEF Waiting
  <2>2. ASSUME NEW i \in DOMAIN queue, queue[i] # u PROVE queue[i] \in Waiting'
    <3>1. CASE i < k
      <4>1. i \in DOMAIN queue' /\ queue'[i] = queue[i]
        BY <1>1, <1>2, <1>3, <3>1
      <4> QED
        BY <4>1 DEF Waiting
    <3>2. CASE ~(i < k)
      <4>1. i - 1 \in DOMAIN queue' /\ queue'[i - 1] = queue[i]
        BY <1>1, <1>2, <1>3, <2>2, <3>2
      <4> QED
        BY <4>1 DEF Waiting
    <3> QED
      BY <3>1, <3>2
  <2>3. u \in Waiting
    BY <1>1 DEF Waiting
  <2> QED
    BY <2>1, <2>2, <2>3 DEF Waiting
<1>6. \A i, j \in DOMAIN queue' : queue'[i] = queue'[j] => i = j
  BY <1>2, <1>3
<1>7. queue' # <<>> => queue # <<>>
  BY <1>2, <1>4
<1> QED
  BY <1>1, <1>4, <1>5, <1>6, <1>7
-----------------------------------------------------------------------------
(* Everything but the pool: types, and which rows have an execution.       *)

\* The types of the variables outside the pool.
RestOK ==
    /\ disp \in Dispatch
    /\ exec \in [Tasks -> ExecStates]
    /\ poll \in [pc : {"idle", "connect", "next", "insert"}, left : Nat]
    /\ row \in [Tasks -> Statuses]
    /\ plan \in SUBSET Merchants
    /\ cache \in [Merchants -> Answers]
    /\ misread \in SUBSET Merchants
    /\ changes \in Nat

\* The rows of an open dispatch are PENDING; a row has an execution only if this
\* dispatch started it or an earlier one committed it as PROCESSING; a dispatch
\* asks about one row at a time, one of a merchant.
RowInv ==
    /\ disp.todo \subseteq disp.batch /\ disp.started \subseteq disp.batch
    /\ disp.refused \subseteq disp.batch
    /\ disp.todo \cap disp.started = {} /\ disp.todo \cap disp.refused = {}
    /\ disp.started \cap disp.refused = {}
    /\ disp.pc \in {"idle", "connect"} => disp.batch = {}
    /\ disp.pc \in {"reading", "decide"} => \E t \in disp.todo : disp.task = {t}
    /\ disp.pc \notin {"reading", "decide"} => disp.task = {}
    /\ disp.pc = "reading" => \A t \in disp.task : MerchantOf[t] \in Merchants
    /\ \A t \in disp.batch : row[t] = "PENDING"
    /\ \A t \in Tasks : exec[t] # "none" => row[t] = "PROCESSING" \/ t \in disp.started
    /\ poll.pc = "insert" => poll.left > 0

\* Initially.
LEMMA InitRest == Init => RestOK /\ RowInv
  BY SizesAssumption
  DEF Init, RestOK, RowInv, Dispatch, NoDispatch, ExecStates, PollIdle, Statuses, Answers

\* A step of the dispatcher.
LEMMA DispatchRest ==
  ASSUME RestOK, RowInv, DispatchBegin \/ DispatchStep
  PROVE  RestOK' /\ RowInv'
<1> USE DEF RestOK, RowInv, Dispatch, planVars
<1>1. CASE DispatchBegin
  BY <1>1 DEF DispatchBegin
<1>2. CASE DispatchConnectTimeout
  BY <1>2 DEF DispatchConnectTimeout, NoDispatch, Answers
<1>3. CASE DispatchFetch
  <2>1. PICK rows \in SUBSET {t \in Tasks : row[t] = "PENDING"} : disp' = Over(rows)
    BY <1>3 DEF DispatchFetch
  <2>2. /\ disp'.pc = "next" /\ disp'.batch = rows /\ disp'.todo = rows
        /\ disp'.started = {} /\ disp'.refused = {} /\ disp'.task = {}
        /\ disp'.answer = "none" /\ disp' \in Dispatch
    BY <2>1 DEF Over, NoDispatch, Answers
  <2>3. disp.started = {} /\ UNCHANGED <<row, exec, poll, plan, cache, misread, changes>>
    BY <1>3 DEF DispatchFetch
  <2> QED
    BY <2>2, <2>3
<1>4. CASE DispatchFetchNone
  BY <1>4 DEF DispatchFetchNone, NoDispatch, Answers
<1>5. CASE DispatchCached
  <2>1. PICK t \in disp.todo :
           /\ disp.pc = "next" /\ Known(t) # "none"
           /\ disp' = [Answered(Known(t)) EXCEPT !.task = {t}]
    BY <1>5 DEF DispatchCached
  <2>2. Known(t) \in Answers
    BY DEF Known, Answers
  <2>3. /\ disp'.pc = "decide" /\ disp'.task = {t} /\ disp' \in Dispatch
        /\ disp'.batch = disp.batch /\ disp'.todo = disp.todo
        /\ disp'.started = disp.started /\ disp'.refused = disp.refused
    BY <2>1, <2>2 DEF Answered
  <2>4. UNCHANGED <<row, exec, poll, plan, cache, misread, changes>>
    BY <1>5 DEF DispatchCached
  <2> QED
    BY <2>1, <2>3, <2>4
<1>6. CASE DispatchRead
  <2>1. PICK t \in disp.todo :
           disp.pc = "next" /\ Known(t) = "none" /\ disp' = Asking(t)
    BY <1>6 DEF DispatchRead
  <2>2. MerchantOf[t] \in Merchants
    BY <2>1 DEF Known
  <2>3. /\ disp'.pc = "reading" /\ disp'.task = {t} /\ disp' \in Dispatch
        /\ disp'.batch = disp.batch /\ disp'.todo = disp.todo
        /\ disp'.started = disp.started /\ disp'.refused = disp.refused
    BY <2>1 DEF Asking
  <2>4. UNCHANGED <<row, exec, poll, plan, cache, misread, changes>>
    BY <1>6 DEF DispatchRead
  <2> QED
    BY <2>1, <2>2, <2>3, <2>4
<1>7. CASE DispatchReadDone \/ DispatchReadTimeout
  <2>1. PICK t \in disp.task, answer \in {"on", "off"} :
           /\ disp.pc = "reading"
           /\ disp' = Answered(answer)
           /\ cache' = [cache EXCEPT ![MerchantOf[t]] = answer]
           /\ misread' \in {misread \ {MerchantOf[t]}, misread \cup {MerchantOf[t]}}
    BY <1>7 DEF DispatchReadDone, DispatchReadTimeout
  <2>2. MerchantOf[t] \in Merchants
    BY <2>1
  <2>3. cache' \in [Merchants -> Answers] /\ misread' \in SUBSET Merchants
    BY <2>1, <2>2 DEF Answers
  <2>4. /\ disp'.pc = "decide" /\ disp'.task = disp.task /\ disp' \in Dispatch
        /\ disp'.batch = disp.batch /\ disp'.todo = disp.todo
        /\ disp'.started = disp.started /\ disp'.refused = disp.refused
    BY <2>1 DEF Answered, Answers
  <2>5. UNCHANGED <<row, exec, poll, plan, changes>>
    BY <1>7 DEF DispatchReadDone, DispatchReadTimeout
  <2> QED
    BY <2>1, <2>3, <2>4, <2>5
<1>9. CASE DispatchRefuse
  <2>1. /\ disp' = [disp EXCEPT !.pc = "next", !.todo = @ \ disp.task,
                                 !.refused = @ \cup disp.task,
                                 !.task = {}, !.answer = "none"]
        /\ disp.pc = "decide"
    BY <1>9 DEF DispatchRefuse
  <2>2. disp.task \subseteq disp.todo /\ disp.task \subseteq Tasks
    BY <2>1
  <2>3. /\ disp'.pc = "next" /\ disp'.task = {} /\ disp' \in Dispatch
        /\ disp'.batch = disp.batch /\ disp'.todo = disp.todo \ disp.task
        /\ disp'.started = disp.started /\ disp'.refused = disp.refused \cup disp.task
    BY <2>1, <2>2 DEF Answers
  <2>4. UNCHANGED <<row, exec, poll, plan, cache, misread, changes>>
    BY <1>9 DEF DispatchRefuse
  <2> QED
    BY <2>2, <2>3, <2>4
<1>10. CASE DispatchSkip
  <2>1. PICK t \in disp.todo :
           disp' = [disp EXCEPT !.pc = "next", !.todo = @ \ {t}, !.task = {},
                                !.answer = "none"]
    BY <1>10 DEF DispatchSkip
  <2>2. /\ disp'.pc = "next" /\ disp'.task = {} /\ disp' \in Dispatch
        /\ disp'.batch = disp.batch /\ disp'.todo \subseteq disp.todo
        /\ disp'.started = disp.started /\ disp'.refused = disp.refused
    BY <2>1 DEF Answers
  <2>3. UNCHANGED <<row, exec, poll, plan, cache, misread, changes>>
    BY <1>10 DEF DispatchSkip
  <2> QED
    BY <2>2, <2>3
<1>11. CASE DispatchStart
  <2>1. PICK t \in disp.task :
           /\ disp.pc = "decide"
           /\ disp' = [disp EXCEPT !.pc = "next", !.todo = @ \ {t}, !.started = @ \cup {t},
                                   !.task = {}, !.answer = "none"]
           /\ exec' = [exec EXCEPT ![t] = "mark"]
    BY <1>11 DEF DispatchStart
  <2>2. t \in disp.todo /\ t \in Tasks
    BY <2>1
  <2>3. /\ disp'.pc = "next" /\ disp'.task = {} /\ disp' \in Dispatch
        /\ disp'.batch = disp.batch /\ disp'.todo = disp.todo \ {t}
        /\ disp'.started = disp.started \cup {t} /\ disp'.refused = disp.refused
    <3>1. /\ disp'.pc = "next" /\ disp'.task = {} /\ disp'.answer = "none"
          /\ disp'.batch = disp.batch /\ disp'.todo = disp.todo \ {t}
          /\ disp'.started = disp.started \cup {t} /\ disp'.refused = disp.refused
      BY <2>1
    <3>2. disp.started \cup {t} \in SUBSET Tasks /\ disp.todo \ {t} \in SUBSET Tasks
      BY <2>2
    <3> QED
      BY <2>1, <3>1, <3>2 DEF Answers
  <2>4. exec' \in [Tasks -> ExecStates] /\ \A u \in Tasks \ {t} : exec'[u] = exec[u]
    BY <2>1, <2>2 DEF ExecStates, Waits
  <2>5. UNCHANGED <<row, poll, plan, cache, misread, changes>>
    BY <1>11 DEF DispatchStart
  <2> QED
    BY <2>2, <2>3, <2>4, <2>5
<1>12. CASE DispatchCommit
  <2>1. /\ disp'.pc = "idle" /\ disp'.task = {} /\ disp' \in Dispatch
        /\ disp'.batch = {} /\ disp'.todo = {} /\ disp'.started = {} /\ disp'.refused = {}
    BY <1>12 DEF DispatchCommit, NoDispatch, Answers
  <2>2. row' \in [Tasks -> Statuses]
    BY <1>12 DEF DispatchCommit, Statuses
  <2>3. UNCHANGED <<exec, poll, plan, cache, misread, changes>>
    BY <1>12 DEF DispatchCommit
  <2>4. ASSUME NEW t \in Tasks, exec[t] # "none" PROVE row'[t] = "PROCESSING"
    <3>1. CASE t \in disp.started
      BY <1>12, <3>1 DEF DispatchCommit
    <3>2. CASE t \notin disp.started
      <4>1. row[t] = "PROCESSING"
        BY <2>4, <3>2
      <4>2. t \notin disp.refused
        BY <4>1
      <4> QED
        BY <1>12, <3>2, <4>1, <4>2 DEF DispatchCommit
    <3> QED
      BY <3>1, <3>2
  <2> QED
    BY <2>1, <2>2, <2>3, <2>4
<1> QED
  BY <1>1, <1>2, <1>3, <1>4, <1>5, <1>6, <1>7, <1>9, <1>10, <1>11, <1>12
  DEF DispatchStep

\* A step of an execution or its agent.
LEMMA ExecRest ==
  ASSUME RestOK, RowInv, NEW t \in Tasks, ExecStep(t) \/ AgentStep(t)
  PROVE  RestOK' /\ RowInv'
<1> USE DEF RestOK, RowInv, Dispatch, planVars, ExecStates, Waits, Statuses
<1>1. CASE ExecMark(t)
  BY <1>1 DEF ExecMark, CanWrite
<1>2. CASE ExecComplete(t)
  BY <1>2 DEF ExecComplete, CanWrite
<1>3. CASE ExecSettle(t)
  <2>1. PICK status \in {"PENDING", "FAILED"} : row' = [row EXCEPT ![t] = status]
    BY <1>3 DEF ExecSettle
  <2> QED
    BY <1>3, <2>1 DEF ExecSettle, CanWrite
<1>4. CASE ExecAnswer(t) \/ ExecStore(t) \/ ExecTimeout(t) \/ ExecCatch(t) \/ ExecGiveUp(t)
  BY <1>4 DEF ExecAnswer, ExecStore, ExecTimeout, ExecCatch, ExecGiveUp
<1>6. CASE ExecInserted(t)
  <2>1. PICK next \in {"inserted", "failed"} : exec' = [exec EXCEPT ![t] = next]
    BY <1>6 DEF ExecInserted
  <2> QED
    BY <1>6, <2>1 DEF ExecInserted
<1>5. CASE AgentStep(t)
  BY <1>5 DEF AgentStep, AgentAsks, AgentReturns, AgentThrows
<1> QED
  BY <1>1, <1>2, <1>3, <1>4, <1>5, <1>6 DEF ExecStep

\* Every step keeps the types and the rows' invariant.
LEMMA NextRest == RestOK /\ RowInv /\ [Next]_vars => RestOK' /\ RowInv'
<1> SUFFICES ASSUME RestOK, RowInv, [Next]_vars PROVE RestOK' /\ RowInv'
  OBVIOUS
<1> USE DEF RestOK, RowInv, planVars
<1>1. ASSUME NEW t \in Tasks, Create(t) PROVE RestOK' /\ RowInv'
  BY <1>1 DEF Create, Statuses, Dispatch
<1>2. ASSUME NEW t \in Tasks, ExecStep(t) \/ AgentStep(t) PROVE RestOK' /\ RowInv'
  BY <1>2, ExecRest
<1>3. ASSUME NEW m \in Merchants, PlanChanges(m) \/ CacheExpires(m)
      PROVE  RestOK' /\ RowInv'
  BY <1>3 DEF PlanChanges, CacheExpires, Answers
<1>4. CASE DispatchBegin \/ DispatchStep
  BY <1>4, DispatchRest
<1>5. CASE PollBegin \/ PollStep
  BY <1>5, SizesAssumption
  DEF PollBegin, PollStep, PollConnectTimeout, PollFetch, PollInsert, PollInserted,
      PollInsertTimeout, PollCommit, PollIdle
<1>6. CASE Crash
  BY <1>6 DEF Crash, NoDispatch, Dispatch, PollIdle, ExecStates, Answers
<1>7. CASE UNCHANGED vars
  BY <1>7 DEF vars
<1> QED
  BY <1>1, <1>2, <1>3, <1>4, <1>5, <1>6, <1>7 DEF Next

-----------------------------------------------------------------------------
(* The pool and its users.                                                 *)

\* The users that are at a point where they have a connection or wait for one.
Using == {u \in Users : Uses(u)}
PoolMatches == PoolInv /\ InPool = Using

\* The dispatcher and the poller keep their connection from their first query to
\* their COMMIT.
KeepsTheirs ==
    /\ disp.pc \in {"next", "reading", "decide"} => "dispatch" \in held
    /\ poll.pc \in {"next", "insert"} => "poll" \in held

\* Two users are told apart; an execution is none of the process's own users.
LEMMA UsersApart ==
  /\ \A t \in Tasks : t \notin {"dispatch", "read", "poll", "insert"}
  /\ \A u \in Users : u \in {"dispatch", "read", "poll", "insert"} \/ u \in Tasks
  /\ {"dispatch", "read", "poll", "insert"} \subseteq Users
  /\ Tasks \subseteq Users
  BY UsersAssumption DEF Users, OwnUsers

\* A step in which u alone changes sides, by the matching operation of the pool.
LEMMA PoolStep ==
  ASSUME PoolMatches, NEW u \in Users,
         \/ Request(u) /\ ~Uses(u) /\ Uses(u)'
         \/ Return(u) /\ u \in held /\ ~Uses(u)'
         \/ Withdraw(u) /\ ~Uses(u)',
         \A v \in Users \ {u} : Uses(v)' <=> Uses(v)
  PROVE  PoolMatches'
<1> USE DEF PoolMatches
<1>1. CASE Request(u) /\ ~Uses(u) /\ Uses(u)'
  <2>1. u \notin InPool
    BY <1>1 DEF Using
  <2>2. PoolInv' /\ InPool' = InPool \cup {u}
    BY <1>1, <2>1, RequestEnters
  <2>3. Using' = Using \cup {u}
    BY <1>1 DEF Using
  <2> QED
    BY <2>2, <2>3
<1>2. ASSUME PoolInv', InPool' = InPool \ {u}, ~Uses(u)' PROVE PoolMatches'
  <2>1. Using' = Using \ {u}
    BY <1>2 DEF Using
  <2> QED
    BY <1>2, <2>1
<1>3. CASE Return(u) /\ u \in held /\ ~Uses(u)'
  BY <1>2, <1>3, ReturnLeaves
<1>4. CASE Withdraw(u) /\ ~Uses(u)'
  BY <1>2, <1>4, WithdrawLeaves
<1> QED
  BY <1>1, <1>3, <1>4

\* A step that leaves the pool alone changes nobody's side.
LEMMA PoolStays ==
  ASSUME PoolMatches, UNCHANGED poolVars, \A v \in Users : Uses(v)' <=> Uses(v)
  PROVE  PoolMatches'
  BY DEF PoolMatches, PoolInv, InPool, Using, Waiting, poolVars

\* A step of the dispatcher.
LEMMA DispatchPool ==
  ASSUME RestOK, RowInv, PoolMatches, KeepsTheirs, DispatchBegin \/ DispatchStep
  PROVE  PoolMatches'
<1> USE UsersApart DEF RestOK, Dispatch
<1>1. CASE DispatchBegin
  <2>1. ~Uses("dispatch") /\ Uses("dispatch")' /\ Request("dispatch")
    BY <1>1 DEF DispatchBegin, Uses
  <2>2. \A v \in Users \ {"dispatch"} : Uses(v)' <=> Uses(v)
    BY <1>1 DEF DispatchBegin, Uses
  <2> QED
    BY <2>1, <2>2, PoolStep
<1>2. ASSUME disp' = NoDispatch, UNCHANGED <<exec, poll>>, disp.pc # "reading",
             Withdraw("dispatch") \/ (Return("dispatch") /\ "dispatch" \in held)
      PROVE  PoolMatches'
  <2>1. ~Uses("dispatch")'
    BY <1>2 DEF Uses, NoDispatch
  <2>2. \A v \in Users \ {"dispatch"} : Uses(v)' <=> Uses(v)
    BY <1>2 DEF Uses, NoDispatch
  <2> QED
    BY <1>2, <2>1, <2>2, PoolStep
<1>3. CASE DispatchConnectTimeout
  BY <1>2, <1>3 DEF DispatchConnectTimeout
<1>4. CASE DispatchFetchNone
  BY <1>2, <1>4 DEF DispatchFetchNone
<1>5. CASE DispatchCommit
  <2>1. "dispatch" \in held
    BY <1>5 DEF DispatchCommit, KeepsTheirs
  <2> QED
    BY <1>2, <1>5, <2>1 DEF DispatchCommit
<1>6. CASE DispatchFetch \/ DispatchCached \/ DispatchRefuse \/ DispatchSkip
  <2>1. /\ UNCHANGED <<exec, poll, held, queue>>
        /\ disp.pc \notin {"idle", "reading"} /\ disp'.pc \notin {"idle", "reading"}
    BY <1>6 DEF DispatchFetch, DispatchCached, DispatchRefuse, DispatchSkip, Over,
                NoDispatch, Answered, poolVars
  <2>2. \A v \in Users : Uses(v)' <=> Uses(v)
    BY <2>1 DEF Uses
  <2> QED
    BY <2>1, <2>2, PoolStays DEF poolVars
<1>7. CASE DispatchRead
  <2>1. /\ UNCHANGED <<exec, poll>> /\ Request("read")
        /\ disp.pc = "next" /\ disp'.pc = "reading"
    BY <1>7 DEF DispatchRead, Asking
  <2>2. ~Uses("read") /\ Uses("read")' /\ \A v \in Users \ {"read"} : Uses(v)' <=> Uses(v)
    BY <2>1 DEF Uses
  <2> QED
    BY <2>1, <2>2, PoolStep
<1>8. CASE DispatchReadDone \/ DispatchReadTimeout
  <2>1. /\ UNCHANGED <<exec, poll>> /\ disp.pc = "reading" /\ disp'.pc = "decide"
        /\ Withdraw("read") \/ (Return("read") /\ "read" \in held)
    BY <1>8 DEF DispatchReadDone, DispatchReadTimeout, Answered
  <2>2. ~Uses("read")' /\ \A v \in Users \ {"read"} : Uses(v)' <=> Uses(v)
    BY <2>1 DEF Uses
  <2> QED
    BY <2>1, <2>2, PoolStep
<1>9. CASE DispatchStart
  <2>1. PICK t \in disp.task :
           /\ disp.pc = "decide" /\ disp'.pc = "next" /\ poll' = poll
           /\ exec' = [exec EXCEPT ![t] = "mark"]
           /\ Request(t)
    BY <1>9 DEF DispatchStart
  <2>2. t \in Tasks /\ exec[t] = "none"
    BY <2>1 DEF RowInv
  <2>3. ~Uses(t) /\ Uses(t)' /\ \A v \in Users \ {t} : Uses(v)' <=> Uses(v)
    BY <2>1, <2>2 DEF Uses, Waits
  <2> QED
    BY <2>1, <2>2, <2>3, PoolStep
<1> QED
  BY <1>1, <1>3, <1>4, <1>5, <1>6, <1>7, <1>8, <1>9 DEF DispatchStep

\* A step of an execution or its agent.
LEMMA ExecPool ==
  ASSUME RestOK, PoolMatches, NEW t \in Tasks, ExecStep(t) \/ AgentStep(t)
  PROVE  PoolMatches'
<1> USE UsersApart DEF RestOK, Waits
<1>1. ASSUME UNCHANGED <<disp, poll>>, NEW state, exec' = [exec EXCEPT ![t] = state]
      PROVE  /\ Uses(t) <=> exec[t] \in Waits
             /\ Uses(t)' <=> state \in Waits
             /\ \A v \in Users \ {t} : Uses(v)' <=> Uses(v)
  BY <1>1 DEF Uses
<1>2. CASE \/ ExecMark(t) \/ ExecComplete(t) \/ ExecSettle(t) \/ ExecAnswer(t)
           \/ ExecInserted(t)
  <2>1. PICK state \in {"agent", "none", "inserted", "failed"} :
           exec' = [exec EXCEPT ![t] = state]
    BY <1>2 DEF ExecMark, ExecComplete, ExecSettle, ExecAnswer, ExecInserted
  <2>2. UNCHANGED <<disp, poll>> /\ Return(t) /\ t \in held
    BY <1>2 DEF ExecMark, ExecComplete, ExecSettle, ExecAnswer, ExecInserted, CanWrite
  <2> QED
    BY <1>1, <2>1, <2>2, PoolStep
<1>3. CASE ExecTimeout(t) \/ ExecGiveUp(t)
  <2>1. PICK state \in {"failed", "none"} : exec' = [exec EXCEPT ![t] = state]
    BY <1>3 DEF ExecTimeout, ExecGiveUp
  <2>2. UNCHANGED <<disp, poll>> /\ Withdraw(t)
    BY <1>3 DEF ExecTimeout, ExecGiveUp
  <2> QED
    BY <1>1, <2>1, <2>2, PoolStep
<1>4. CASE ExecStore(t) \/ ExecCatch(t) \/ AgentAsks(t) \/ AgentReturns(t)
  <2>1. PICK state \in {"catch", "query", "insert", "store"} :
           exec' = [exec EXCEPT ![t] = state]
    BY <1>4 DEF ExecStore, ExecCatch, AgentAsks, AgentReturns
  <2>2. /\ UNCHANGED <<disp, poll>> /\ Request(t)
        /\ exec[t] \in {"failed", "agent", "inserted"}
    BY <1>4 DEF ExecStore, ExecCatch, AgentAsks, AgentReturns
  <2> QED
    BY <1>1, <2>1, <2>2, PoolStep
<1>5. CASE AgentThrows(t)
  <2>1. /\ exec' = [exec EXCEPT ![t] = "failed"] /\ exec[t] = "agent"
        /\ UNCHANGED <<disp, poll>> /\ UNCHANGED poolVars
    BY <1>5 DEF AgentThrows
  <2>2. exec'[t] = "failed" /\ \A u \in Tasks \ {t} : exec'[u] = exec[u]
    BY <2>1
  <2>3. \A v \in Users : Uses(v)' <=> Uses(v)
    BY <2>1, <2>2 DEF Uses
  <2> QED
    BY <2>1, <2>3, PoolStays
<1> QED
  BY <1>2, <1>3, <1>4, <1>5 DEF ExecStep, AgentStep

\* A step of the poller.
LEMMA PollPool ==
  ASSUME RestOK, PoolMatches, KeepsTheirs, PollBegin \/ PollStep
  PROVE  PoolMatches'
<1> USE UsersApart DEF RestOK
<1>1. CASE PollBegin
  <2>1. /\ UNCHANGED <<disp, exec>> /\ Request("poll")
        /\ poll.pc = "idle" /\ poll'.pc = "connect"
    BY <1>1 DEF PollBegin
  <2>2. ~Uses("poll") /\ Uses("poll")' /\ \A v \in Users \ {"poll"} : Uses(v)' <=> Uses(v)
    BY <2>1 DEF Uses
  <2> QED
    BY <2>1, <2>2, PoolStep
<1>2. CASE PollFetch
  <2>1. /\ UNCHANGED <<disp, exec>> /\ UNCHANGED poolVars
        /\ poll.pc = "connect" /\ poll'.pc = "next"
    BY <1>2 DEF PollFetch
  <2>2. \A v \in Users : Uses(v)' <=> Uses(v)
    BY <2>1 DEF Uses
  <2> QED
    BY <2>1, <2>2, PoolStays
<1>3. CASE PollInsert
  <2>1. /\ UNCHANGED <<disp, exec>> /\ Request("insert")
        /\ poll.pc = "next" /\ poll'.pc = "insert"
    BY <1>3 DEF PollInsert
  <2>2. /\ ~Uses("insert") /\ Uses("insert")'
        /\ \A v \in Users \ {"insert"} : Uses(v)' <=> Uses(v)
    BY <2>1 DEF Uses
  <2> QED
    BY <2>1, <2>2, PoolStep
<1>4. CASE PollInserted \/ PollInsertTimeout
  <2>1. /\ UNCHANGED <<disp, exec>> /\ poll.pc = "insert" /\ poll'.pc = "next"
        /\ Withdraw("insert") \/ (Return("insert") /\ "insert" \in held)
    BY <1>4 DEF PollInserted, PollInsertTimeout
  <2>2. ~Uses("insert")' /\ \A v \in Users \ {"insert"} : Uses(v)' <=> Uses(v)
    BY <2>1 DEF Uses
  <2> QED
    BY <2>1, <2>2, PoolStep
<1>5. CASE PollConnectTimeout \/ PollCommit
  <2>1. /\ UNCHANGED <<disp, exec>> /\ poll.pc \in {"connect", "next"} /\ poll'.pc = "idle"
        /\ Withdraw("poll") \/ (Return("poll") /\ "poll" \in held)
    BY <1>5 DEF PollConnectTimeout, PollCommit, PollIdle, KeepsTheirs
  <2>2. ~Uses("poll")' /\ \A v \in Users \ {"poll"} : Uses(v)' <=> Uses(v)
    BY <2>1 DEF Uses
  <2> QED
    BY <2>1, <2>2, PoolStep
<1> QED
  BY <1>1, <1>2, <1>3, <1>4, <1>5 DEF PollStep

\* Another user's operation takes no connection from u.
LEMMA PoolKeeps ==
  ASSUME NEW u, NEW v, u # v, u \in held, Request(v) \/ Return(v) \/ Withdraw(v)
  PROVE  u \in held'
  BY DEF Request, Return, Withdraw

\* Every step keeps the pool and its users in line.
LEMMA NextPool ==
  RestOK /\ RowInv /\ PoolMatches /\ KeepsTheirs /\ [Next]_vars => PoolMatches'
<1> SUFFICES ASSUME RestOK, RowInv, PoolMatches, KeepsTheirs, [Next]_vars
             PROVE  PoolMatches'
  OBVIOUS
<1>1. ASSUME UNCHANGED <<held, queue, disp, exec, poll>> PROVE PoolMatches'
  BY <1>1, PoolStays DEF Uses, poolVars
<1>2. ASSUME NEW t \in Tasks, ExecStep(t) \/ AgentStep(t) PROVE PoolMatches'
  BY <1>2, ExecPool
<1>3. ASSUME NEW t \in Tasks, Create(t) PROVE PoolMatches'
  BY <1>1, <1>3 DEF Create, poolVars
<1>4. ASSUME NEW m \in Merchants, PlanChanges(m) \/ CacheExpires(m) PROVE PoolMatches'
  BY <1>1, <1>4 DEF PlanChanges, CacheExpires, poolVars
<1>5. CASE DispatchBegin \/ DispatchStep
  BY <1>5, DispatchPool
<1>6. CASE PollBegin \/ PollStep
  BY <1>6, PollPool
<1>7. CASE Crash
  <2>1. held' = {} /\ queue' = <<>> /\ Waiting' = {}
    BY <1>7 DEF Crash, Waiting
  <2>2. \A v \in Users : ~Uses(v)'
    BY <1>7, UsersApart DEF Crash, Uses, NoDispatch, PollIdle, Waits
  <2>3. PoolInv'
    BY <2>1, FS_EmptySet, SizesAssumption DEF PoolInv
  <2> QED
    BY <2>1, <2>2, <2>3 DEF PoolMatches, InPool, Using
<1>8. CASE UNCHANGED vars
  BY <1>1, <1>8 DEF vars
<1> QED
  BY <1>2, <1>3, <1>4, <1>5, <1>6, <1>7, <1>8 DEF Next

\* Every step leaves the dispatcher and the poller what they hold.
LEMMA NextKeeps == RestOK /\ RowInv /\ KeepsTheirs /\ [Next]_vars => KeepsTheirs'
<1> SUFFICES ASSUME RestOK, RowInv, KeepsTheirs, [Next]_vars PROVE KeepsTheirs'
  OBVIOUS
<1> USE UsersApart DEF KeepsTheirs, RestOK, Dispatch
<1>1. ASSUME NEW v, v \notin {"dispatch", "poll"},
             \/ Request(v) \/ Return(v) \/ Withdraw(v)
             \/ UNCHANGED poolVars
      PROVE  /\ "dispatch" \in held => "dispatch" \in held'
             /\ "poll" \in held => "poll" \in held'
  BY <1>1, PoolKeeps DEF poolVars
<1>2. ASSUME NEW t \in Tasks, ExecStep(t) \/ AgentStep(t) PROVE KeepsTheirs'
  <2>1. /\ UNCHANGED <<disp, poll>>
        /\ Request(t) \/ Return(t) \/ Withdraw(t) \/ UNCHANGED poolVars
    BY <1>2
    DEF ExecStep, AgentStep, ExecMark, ExecAnswer, ExecInserted, ExecStore,
        ExecComplete, ExecTimeout, ExecCatch, ExecSettle, ExecGiveUp, AgentAsks,
        AgentReturns, AgentThrows
  <2> QED
    BY <1>1, <2>1
<1>3. ASSUME UNCHANGED <<held, disp, poll>> PROVE KeepsTheirs'
  BY <1>3
<1>4. ASSUME NEW t \in Tasks, Create(t) PROVE KeepsTheirs'
  BY <1>3, <1>4 DEF Create, poolVars
<1>5. ASSUME NEW m \in Merchants, PlanChanges(m) \/ CacheExpires(m) PROVE KeepsTheirs'
  BY <1>3, <1>5 DEF PlanChanges, CacheExpires, poolVars
<1>6. CASE DispatchBegin \/ DispatchConnectTimeout \/ DispatchFetchNone \/ DispatchCommit
  <2>1. /\ disp'.pc \in {"idle", "connect"} /\ poll' = poll
        /\ Request("dispatch") \/ Return("dispatch") \/ Withdraw("dispatch")
    BY <1>6 DEF DispatchBegin, DispatchConnectTimeout, DispatchFetchNone, DispatchCommit,
                NoDispatch
  <2> QED
    BY <2>1, PoolKeeps
<1>7. CASE \/ DispatchFetch \/ DispatchCached \/ DispatchRefuse \/ DispatchSkip
           \/ DispatchRead \/ DispatchReadDone \/ DispatchReadTimeout \/ DispatchStart
  <2>1. "dispatch" \in held /\ poll' = poll
    BY <1>7 DEF DispatchFetch, DispatchCached, DispatchRefuse, DispatchSkip, DispatchRead,
                DispatchReadDone, DispatchReadTimeout, DispatchStart
  <2>2. \E v : /\ v \notin {"dispatch", "poll"}
               /\ \/ Request(v) \/ Return(v) \/ Withdraw(v)
                  \/ UNCHANGED poolVars
    <3>1. CASE DispatchStart
      <4>1. PICK t \in disp.task : Request(t)
        BY <3>1 DEF DispatchStart
      <4> QED
        BY <4>1
    <3>2. CASE DispatchRead \/ DispatchReadDone \/ DispatchReadTimeout
      <4>1. Request("read") \/ Return("read") \/ Withdraw("read")
        BY <3>2 DEF DispatchRead, DispatchReadDone, DispatchReadTimeout
      <4> QED
        BY <4>1
    <3>3. CASE DispatchFetch \/ DispatchCached \/ DispatchRefuse \/ DispatchSkip
      <4>1. UNCHANGED poolVars
        BY <3>3 DEF DispatchFetch, DispatchCached, DispatchRefuse, DispatchSkip
      <4>2. "read" \notin {"dispatch", "poll"}
        OBVIOUS
      <4> QED
        BY <4>1, <4>2
    <3> QED
      BY <1>7, <3>1, <3>2, <3>3
  <2> QED
    BY <1>1, <2>1, <2>2
<1>8. CASE PollBegin \/ PollConnectTimeout \/ PollCommit
  <2>1. /\ poll'.pc \in {"idle", "connect"} /\ disp' = disp
        /\ Request("poll") \/ Return("poll") \/ Withdraw("poll")
    BY <1>8 DEF PollBegin, PollConnectTimeout, PollCommit, PollIdle
  <2> QED
    BY <2>1, PoolKeeps
<1>9. CASE PollFetch \/ PollInsert \/ PollInserted \/ PollInsertTimeout
  <2>1. "poll" \in held /\ disp' = disp
    BY <1>9 DEF PollFetch, PollInsert, PollInserted, PollInsertTimeout
  <2>2. \/ Request("insert") \/ Return("insert") \/ Withdraw("insert")
        \/ UNCHANGED poolVars
    BY <1>9 DEF PollFetch, PollInsert, PollInserted, PollInsertTimeout
  <2> QED
    BY <1>1, <2>1, <2>2
<1>10. CASE Crash
  BY <1>10 DEF Crash, NoDispatch, PollIdle
<1>11. CASE UNCHANGED vars
  BY <1>3, <1>11 DEF vars
<1> QED
  BY <1>2, <1>4, <1>5, <1>6, <1>7, <1>8, <1>9, <1>10, <1>11
  DEF Next, DispatchStep, PollStep

\* Initially nobody is in the pool.
LEMMA InitPool == Init => PoolMatches /\ KeepsTheirs
<1> SUFFICES ASSUME Init PROVE PoolMatches /\ KeepsTheirs
  OBVIOUS
<1>1. held = {} /\ queue = <<>> /\ Waiting = {}
  BY DEF Init, Waiting
<1>2. \A v \in Users : ~Uses(v)
  BY UsersApart DEF Init, Uses, NoDispatch, PollIdle, Waits
<1>3. PoolInv
  BY <1>1, FS_EmptySet, SizesAssumption DEF PoolInv
<1>4. KeepsTheirs
  BY DEF Init, KeepsTheirs, NoDispatch, PollIdle
<1> QED
  BY <1>1, <1>2, <1>3, <1>4 DEF PoolMatches, InPool, Using

\* All of it together.
WorkerPoolInv == RestOK /\ RowInv /\ PoolMatches /\ KeepsTheirs

\* The invariant holds in every reachable state.
LEMMA InvHolds == Spec => []WorkerPoolInv
<1>1. Init => WorkerPoolInv
  BY InitRest, InitPool DEF WorkerPoolInv
<1>2. WorkerPoolInv /\ [Next]_vars => WorkerPoolInv'
  BY NextRest, NextPool, NextKeeps DEF WorkerPoolInv
<1> QED
  BY <1>1, <1>2, PTL DEF Spec

\* Every variable always has its type.
THEOREM TypeCorrect == Spec => []TypeOK
<1>1. WorkerPoolInv => TypeOK
  BY DEF WorkerPoolInv, RestOK, PoolMatches, PoolInv, TypeOK
<1> QED
  BY <1>1, InvHolds, PTL

\* Whoever holds a connection or waits for one is at a point of the code where it
\* gives it back or leaves the queue: no path through dispatchTasks, executeTask
\* and pollOutbox loses a connection, for any number of tasks and any size of the
\* pool.
THEOREM PoolStaysSound == Spec => []PoolSound
<1>1. WorkerPoolInv => PoolSound
  BY DEF WorkerPoolInv, PoolMatches, PoolInv, InPool, Using, PoolSound
<1> QED
  BY <1>1, InvHolds, PTL

-----------------------------------------------------------------------------
(* What the dispatcher knows of the plans.                                 *)

\* A cached entry, or an answer in hand, of a merchant that was not misread is the
\* merchant's plan.
PlanInv ==
    /\ \A m \in Merchants \ misread :
          cache[m] # "none" => (cache[m] = "on" <=> m \in plan)
    /\ disp.pc = "decide" =>
          /\ disp.answer \in {"on", "off"}
          /\ \A t \in disp.task :
                MerchantOf[t] \in Merchants \ misread =>
                    (disp.answer = "on" <=> MerchantOf[t] \in plan)

\* Every step keeps it.
LEMMA NextPlan == RestOK /\ RowInv /\ PlanInv /\ [Next]_vars => PlanInv'
<1> SUFFICES ASSUME RestOK, RowInv, PlanInv, [Next]_vars PROVE PlanInv'
  OBVIOUS
<1> USE DEF PlanInv, RestOK, Dispatch
<1>1. ASSUME UNCHANGED <<disp, plan, cache, misread>> PROVE PlanInv'
  BY <1>1
<1>2. ASSUME UNCHANGED <<plan, cache, misread>>, disp'.pc # "decide" PROVE PlanInv'
  BY <1>2
<1>3. ASSUME NEW t \in Tasks, Create(t) \/ ExecStep(t) \/ AgentStep(t) PROVE PlanInv'
  BY <1>1, <1>3
  DEF Create, ExecStep, AgentStep, ExecMark, ExecAnswer, ExecInserted, ExecStore,
      ExecComplete, ExecTimeout, ExecCatch, ExecSettle, ExecGiveUp, AgentAsks,
      AgentReturns, AgentThrows, planVars
<1>4. ASSUME NEW m \in Merchants, PlanChanges(m) PROVE PlanInv'
  BY <1>4 DEF PlanChanges
<1>5. ASSUME NEW m \in Merchants, CacheExpires(m) PROVE PlanInv'
  BY <1>5 DEF CacheExpires
<1>6. CASE \/ DispatchBegin \/ DispatchConnectTimeout \/ DispatchFetch
           \/ DispatchFetchNone \/ DispatchRead \/ DispatchRefuse \/ DispatchSkip
           \/ DispatchStart \/ DispatchCommit
  <2>1. CASE DispatchFetch
    BY <1>2, <2>1 DEF DispatchFetch, Over, NoDispatch, planVars
  <2>2. CASE DispatchRead
    BY <1>2, <2>2 DEF DispatchRead, Asking, planVars
  <2>3. CASE DispatchRefuse \/ DispatchSkip
    BY <1>2, <2>3 DEF DispatchRefuse, DispatchSkip, planVars
  <2>4. CASE DispatchStart
    BY <1>2, <2>4 DEF DispatchStart, planVars
  <2>5. CASE \/ DispatchBegin \/ DispatchConnectTimeout \/ DispatchFetchNone
             \/ DispatchCommit
    BY <1>2, <2>5
    DEF DispatchBegin, DispatchConnectTimeout, DispatchFetchNone, DispatchCommit,
        NoDispatch, planVars
  <2> QED
    BY <1>6, <2>1, <2>2, <2>3, <2>4, <2>5
<1>7. CASE DispatchCached
  <2>1. PICK t \in disp.todo :
           Known(t) # "none" /\ disp' = [Answered(Known(t)) EXCEPT !.task = {t}]
    BY <1>7 DEF DispatchCached
  <2>2. UNCHANGED <<plan, cache, misread>>
    BY <1>7 DEF DispatchCached, planVars
  <2>3. disp'.answer = Known(t) /\ disp'.task = {t}
    BY <2>1 DEF Answered
  <2>4. Known(t) \in {"on", "off"}
    BY <2>1 DEF Known, Answers
  <2> QED
    BY <2>2, <2>3, <2>4 DEF Known
<1>8. CASE DispatchReadDone
  <2>1. PICK t \in disp.task, answer \in {"on", "off"} :
           /\ disp.pc = "reading"
           /\ answer = "on" <=> MerchantOf[t] \in plan
           /\ disp' = Answered(answer)
           /\ cache' = [cache EXCEPT ![MerchantOf[t]] = answer]
           /\ misread' = misread \ {MerchantOf[t]}
           /\ plan' = plan
    BY <1>8 DEF DispatchReadDone
  <2>2. disp.task = {t} /\ MerchantOf[t] \in Merchants
    BY <2>1 DEF RowInv
  <2>3. disp'.answer = answer /\ disp'.task = {t}
    BY <2>1, <2>2 DEF Answered
  <2> QED
    BY <2>1, <2>2, <2>3
<1>9. CASE DispatchReadTimeout
  <2>1. PICK t \in disp.task :
           /\ disp.pc = "reading"
           /\ disp' = Answered("off")
           /\ cache' = [cache EXCEPT ![MerchantOf[t]] = "off"]
           /\ misread' = misread \cup {MerchantOf[t]}
           /\ plan' = plan
    BY <1>9 DEF DispatchReadTimeout
  <2>2. disp.task = {t} /\ MerchantOf[t] \in Merchants
    BY <2>1 DEF RowInv
  <2>3. disp'.answer = "off" /\ disp'.task = {t}
    BY <2>1, <2>2 DEF Answered
  <2> QED
    BY <2>1, <2>2, <2>3
<1>10. CASE PollBegin \/ PollStep
  BY <1>1, <1>10
  DEF PollBegin, PollStep, PollConnectTimeout, PollFetch, PollInsert, PollInserted,
      PollInsertTimeout, PollCommit, planVars
<1>11. CASE Crash
  BY <1>11 DEF Crash, NoDispatch
<1>12. CASE UNCHANGED vars
  BY <1>1, <1>12 DEF vars
<1> QED
  BY <1>3, <1>4, <1>5, <1>6, <1>7, <1>8, <1>9, <1>10, <1>11, <1>12 DEF Next, DispatchStep

\* A step that refuses or starts a task decides by the merchant's plan.
Decides ==
    \A t \in Tasks : MerchantOf[t] \in Merchants \ misread =>
        /\ t \in disp'.refused \ disp.refused => MerchantOf[t] \notin plan
        /\ t \in disp'.started \ disp.started => MerchantOf[t] \in plan

\* Every step decides so.
LEMMA NextDecides == RestOK /\ PlanInv /\ [Next]_vars => [Decides]_vars
<1> SUFFICES ASSUME RestOK, PlanInv, [Next]_vars PROVE Decides
  BY DEF Decides
<1> USE DEF RestOK, Dispatch
<1>1. ASSUME disp'.refused \subseteq disp.refused, disp'.started \subseteq disp.started
      PROVE  Decides
  BY <1>1 DEF Decides
<1>2. CASE DispatchRefuse
  <2>1. /\ disp.pc = "decide" /\ disp.answer = "off"
        /\ disp'.refused = disp.refused \cup disp.task /\ disp'.started = disp.started
    BY <1>2 DEF DispatchRefuse
  <2> QED
    BY <2>1 DEF PlanInv, Decides
<1>3. CASE DispatchStart
  <2>1. PICK t \in disp.task :
           /\ disp.pc = "decide" /\ disp.answer = "on"
           /\ disp'.refused = disp.refused /\ disp'.started = disp.started \cup {t}
    BY <1>3 DEF DispatchStart
  <2> QED
    BY <2>1 DEF PlanInv, Decides
<1>4. CASE \/ DispatchBegin \/ DispatchConnectTimeout \/ DispatchFetch
           \/ DispatchFetchNone \/ DispatchCached \/ DispatchRead \/ DispatchReadDone
           \/ DispatchReadTimeout \/ DispatchSkip \/ DispatchCommit \/ Crash
  <2>1. /\ disp'.refused \in {{}, disp.refused}
        /\ disp'.started \in {{}, disp.started}
    <3>1. CASE DispatchFetch
      BY <3>1 DEF DispatchFetch, Over, NoDispatch
    <3>2. CASE DispatchCached
      BY <3>2 DEF DispatchCached, Answered
    <3>3. CASE DispatchRead
      BY <3>3 DEF DispatchRead, Asking
    <3>4. CASE DispatchReadDone \/ DispatchReadTimeout
      BY <3>4 DEF DispatchReadDone, DispatchReadTimeout, Answered
    <3>5. CASE DispatchSkip
      BY <3>5 DEF DispatchSkip
    <3>6. CASE \/ DispatchBegin \/ DispatchConnectTimeout \/ DispatchFetchNone
               \/ DispatchCommit \/ Crash
      BY <3>6 DEF DispatchBegin, DispatchConnectTimeout, DispatchFetchNone,
                  DispatchCommit, Crash, NoDispatch
    <3> QED
      BY <1>4, <3>1, <3>2, <3>3, <3>4, <3>5, <3>6
  <2> QED
    BY <1>1, <2>1
<1>5. ASSUME disp' = disp PROVE Decides
  BY <1>1, <1>5
<1>6. ASSUME NEW t \in Tasks, Create(t) \/ ExecStep(t) \/ AgentStep(t) PROVE disp' = disp
  BY <1>6
  DEF Create, ExecStep, AgentStep, ExecMark, ExecAnswer, ExecInserted, ExecStore,
      ExecComplete, ExecTimeout, ExecCatch, ExecSettle, ExecGiveUp, AgentAsks,
      AgentReturns, AgentThrows
<1>7. ASSUME NEW m \in Merchants, PlanChanges(m) \/ CacheExpires(m) PROVE disp' = disp
  BY <1>7 DEF PlanChanges, CacheExpires
<1>8. CASE PollBegin \/ PollStep
  BY <1>5, <1>8
  DEF PollBegin, PollStep, PollConnectTimeout, PollFetch, PollInsert, PollInserted,
      PollInsertTimeout, PollCommit
<1>9. CASE UNCHANGED vars
  BY <1>5, <1>9 DEF vars
<1> QED
  BY <1>2, <1>3, <1>4, <1>5, <1>6, <1>7, <1>8, <1>9 DEF Next, DispatchStep

\* No task is refused against its merchant's plan, or started without it, unless the
\* plan could not be read or has changed since it was.
THEOREM PlanDecides == Spec => DecidedByPlan
<1>1. Init => PlanInv
  BY DEF Init, PlanInv, NoDispatch
<1>2. WorkerPoolInv /\ PlanInv /\ [Next]_vars => PlanInv'
  BY NextPlan DEF WorkerPoolInv
<1>3. WorkerPoolInv /\ PlanInv /\ [Next]_vars => [Decides]_vars
  BY NextDecides DEF WorkerPoolInv
<1> QED
  BY <1>1, <1>2, <1>3, InvHolds, PTL DEF Spec, DecidedByPlan, Decides

=============================================================================
