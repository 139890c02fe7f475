----------------------- MODULE MessageDeliveryProofs -----------------------
(***************************************************************************)
(* Theorems about MessageDelivery, for any number of messages, replies and *)
(* API processes, any batch size, retry limit and number of faults. Only   *)
(* OneSenderSendsOnce assumes a single API process: it is the theorem      *)
(* ProcessesSendOnce with one of them.                                     *)
(***************************************************************************)
EXTENDS MessageDelivery, FiniteSetTheorems, TLAPS

-----------------------------------------------------------------------------
(* Types.                                                                  *)

\* Initially every variable has its type.
LEMMA InitTypeOK == Init => TypeOK
  BY DEF Init, TypeOK, Statuses, Origins, ApiStates, ApiIdle

\* A saturating counter keeps its type, never falls, grows by one at most, and
\* is positive once it was bumped.
LEMMA BumpCounter ==
  ASSUME NEW c \in [Messages -> Nat], NEW m \in Messages
  PROVE  /\ Bump(c, m) \in [Messages -> Nat]
         /\ Bump(c, m)[m] \in {c[m], c[m] + 1}
         /\ Bump(c, m)[m] > 0
         /\ c[m] < MaxCount => Bump(c, m)[m] = c[m] + 1
         /\ \A n \in Messages : n # m => Bump(c, m)[n] = c[n]
         /\ \A n \in Messages : Bump(c, m)[n] \in {c[n], c[n] + 1}
  BY NumbersAssumption DEF Bump

\* Two bumps are told apart from one.
LEMMA BumpTwice ==
  ASSUME NEW c \in [Messages -> Nat], NEW m \in Messages
  PROVE  /\ Bump(c, m)[m] >= 1 /\ Bump(c, m)[m] >= c[m]
         /\ c[m] >= 1 => Bump(c, m)[m] >= 2
         /\ \A n \in Messages : n # m => Bump(c, m)[n] = c[n]
  BY NumbersAssumption DEF Bump

\* A loss is counted for an operator's message only.
LEMMA LoseCounter ==
  ASSUME lost \in [Messages -> Nat], NEW m \in Messages
  PROVE  /\ Lose(m) \in [Messages -> Nat]
         /\ m \notin Replies => Lose(m) = Bump(lost, m)
         /\ \A n \in Messages : n # m => Lose(m)[n] = lost[n]
  BY BumpCounter DEF Lose

\* Where a process can be, and the batch it can have.
Api == [pc : ApiStates, batch : SUBSET Messages, count : Nat]

\* Moving a process within a message keeps its type.
LEMMA GotoType ==
  ASSUME api \in [Apis -> Api], NEW a \in Apis, NEW pc \in ApiStates, Goto(a, pc)
  PROVE  /\ api' \in [Apis -> Api]
         /\ api'[a].pc = pc
         /\ api'[a].batch = api[a].batch
         /\ api'[a].count = api[a].count
         /\ \A b \in Apis : b # a => api'[b] = api[b]
  BY DEF Goto, Api

\* Going on to the next message keeps the type as well.
LEMMA AdvanceType ==
  ASSUME api \in [Apis -> Api], NEW a \in Apis, NEW m \in Messages, Advance(a, m)
  PROVE  /\ api' \in [Apis -> Api]
         /\ api'[a].pc \in {"idle", "send"}
         /\ api'[a].batch \subseteq api[a].batch \ {m}
         /\ \A b \in Apis : b # a => api'[b] = api[b]
  BY DEF Advance, Api, ApiIdle, ApiStates

\* Every step of the system keeps every variable's type.
LEMMA NextTypeOK == TypeOK /\ [Next]_vars => TypeOK'
<1> SUFFICES ASSUME TypeOK, [Next]_vars PROVE TypeOK'
  OBVIOUS
<1> USE DEF TypeOK, rowVars, historyVars, Api
<1>a. api \in [Apis -> Api]
  OBVIOUS
<1>b. ApiIdle \in Api
  BY DEF ApiIdle, ApiStates
<1>1. ASSUME NEW m \in Messages, Insert(m) PROVE TypeOK'
  BY <1>1 DEF Insert, Statuses, Origins
<1>2. ASSUME NEW m \in Messages, Queue(m) PROVE TypeOK'
  BY <1>2 DEF Queue, Statuses, Origins
<1>3. ASSUME NEW m \in Messages, ReplyAccepted(m) PROVE TypeOK'
  <2>1. copies' \in [Messages -> Nat]
    BY <1>3, BumpCounter DEF ReplyAccepted
  <2> QED
    BY <1>3, <2>1 DEF ReplyAccepted, Origins
<1>4. ASSUME NEW m \in Messages, ReplyFailed(m) PROVE TypeOK'
  <2>1. copies' \in [Messages -> Nat] /\ lost' = lost
    BY <1>4, BumpCounter DEF ReplyFailed
  <2> QED
    BY <1>4, <2>1 DEF ReplyFailed, Origins
<1>5. ASSUME NEW m \in Messages, ReplyMark(m) PROVE TypeOK'
  BY <1>5 DEF ReplyMark, Undelivered, Statuses, Origins
<1>6. ASSUME NEW m \in Messages, ReplyMarkNone(m) PROVE TypeOK'
  BY <1>6 DEF ReplyMarkNone, Origins
<1>7. ASSUME NEW m \in Messages, RequestDies(m) PROVE TypeOK'
  BY <1>7 DEF RequestDies, Origins, Fault
<1>8. ASSUME NEW a \in Apis, Fetch(a) PROVE TypeOK'
  <2>1. PICK due \in SUBSET Selectable :
          api' = [api EXCEPT ![a] = [pc |-> "send", batch |-> Oldest(due), count |-> 0]]
    BY <1>8 DEF Fetch
  <2>2. Oldest(due) \subseteq Messages
    BY DEF Oldest, Selectable, Undelivered
  <2>3. [pc |-> "send", batch |-> Oldest(due), count |-> 0] \in Api
    BY <2>2 DEF ApiStates
  <2> QED
    BY <1>8, <2>1, <2>3 DEF Fetch
<1>9. ASSUME NEW a \in Apis, SendAccepted(a) PROVE TypeOK'
  <2>1. api' \in [Apis -> Api]
    BY <1>9, <1>a, GotoType DEF SendAccepted, ApiStates
  <2>2. copies' \in [Messages -> Nat]
    BY <1>9, BumpCounter DEF SendAccepted
  <2> QED
    BY <1>9, <2>1, <2>2 DEF SendAccepted
<1>10. ASSUME NEW a \in Apis, SendFailed(a) PROVE TypeOK'
  <2>1. api' \in [Apis -> Api]
    BY <1>10, <1>a, GotoType DEF SendFailed, ApiStates
  <2>2. copies' \in [Messages -> Nat] /\ lost' \in [Messages -> Nat]
    BY <1>10, BumpCounter, LoseCounter DEF SendFailed
  <2> QED
    BY <1>10, <2>1, <2>2 DEF SendFailed
<1>11. ASSUME NEW a \in Apis, SendRefused(a) PROVE TypeOK'
  <2>1. api' \in [Apis -> Api]
    BY <1>11, <1>a, GotoType DEF SendRefused, ApiStates
  <2> QED
    BY <1>11, <2>1 DEF SendRefused
<1>12. ASSUME NEW a \in Apis, RecordSent(a) PROVE TypeOK'
  <2>1. PICK m \in api[a].batch :
          /\ status' = [status EXCEPT ![m] = "SENT"]
          /\ acked' = acked \cup {m}
          /\ \/ Advance(a, m) /\ UNCHANGED faults
             \/ Goto(a, "threw") /\ Fault
    BY <1>12 DEF RecordSent
  <2>2. api' \in [Apis -> Api]
    BY <2>1, <1>a, GotoType, AdvanceType DEF ApiStates
  <2> QED
    BY <1>12, <2>1, <2>2 DEF RecordSent, Statuses, Fault
<1>13. ASSUME NEW a \in Apis, RecordFailed(a) PROVE TypeOK'
  <2>1. api' \in [Apis -> Api]
    BY <1>13, <1>a, GotoType DEF RecordFailed, ApiStates
  <2> QED
    BY <1>13, <2>1 DEF RecordFailed, Statuses
<1>14. ASSUME NEW a \in Apis, RecordRefused(a) PROVE TypeOK'
  <2>1. PICK m \in api[a].batch :
          /\ status' = [status EXCEPT ![m] = "FAILED"]
          /\ \/ Advance(a, m) /\ UNCHANGED faults
             \/ Goto(a, "threw") /\ Fault
    BY <1>14 DEF RecordRefused
  <2>2. api' \in [Apis -> Api]
    BY <2>1, <1>a, GotoType, AdvanceType DEF ApiStates
  <2> QED
    BY <1>14, <2>1, <2>2 DEF RecordRefused, Statuses, Fault
<1>15. ASSUME NEW a \in Apis, RecordError(a) PROVE TypeOK'
  <2>1. PICK m \in api[a].batch, pc \in {"accepted", "failed", "refused"} :
          /\ Fault
          /\ Goto(a, "threw")
          /\ lost' = IF pc = "accepted" THEN Lose(m) ELSE lost
          /\ UNCHANGED <<rowVars, origin, copies>>
    BY <1>15 DEF RecordError
  <2>2. api' \in [Apis -> Api]
    BY <2>1, <1>a, GotoType DEF ApiStates
  <2>3. lost' \in [Messages -> Nat]
    <3>1. m \in Messages
      OBVIOUS
    <3> QED
      BY <2>1, <3>1, LoseCounter
  <2>4. UNCHANGED <<rowVars, origin, copies>> /\ faults' \in Nat
    BY <2>1 DEF Fault
  <2> QED
    BY <2>2, <2>3, <2>4
<1>16. ASSUME NEW a \in Apis, ReadRetry(a) PROVE TypeOK'
  <2>1. PICK m \in api[a].batch :
          api' = [api EXCEPT ![a].pc = "retrying", ![a].count = retry[m]]
    BY <1>16 DEF ReadRetry
  <2>2. m \in Messages /\ retry[m] \in Nat
    OBVIOUS
  <2>3. api' \in [Apis -> Api]
    BY <2>1, <2>2 DEF ApiStates
  <2> QED
    BY <1>16, <2>3 DEF ReadRetry
<1>17. ASSUME NEW a \in Apis, Reschedule(a) PROVE TypeOK'
  <2>1. PICK m \in api[a].batch :
          /\ status' = [status EXCEPT ![m] = "PENDING"]
          /\ retry' = [retry EXCEPT ![m] = api[a].count + 1]
          /\ Advance(a, m)
    BY <1>17 DEF Reschedule
  <2>2. api' \in [Apis -> Api]
    BY <2>1, <1>a, AdvanceType
  <2> QED
    BY <1>17, <2>1, <2>2 DEF Reschedule, Statuses
<1>18. ASSUME NEW a \in Apis, GiveUp(a) PROVE TypeOK'
  <2>1. PICK m \in api[a].batch :
          /\ status' = [status EXCEPT ![m] = "FAILED"]
          /\ \/ Advance(a, m) /\ UNCHANGED faults
             \/ api' = [api EXCEPT ![a] = ApiIdle] /\ Fault
    BY <1>18 DEF GiveUp
  <2>2. api' \in [Apis -> Api]
    BY <2>1, <1>a, <1>b, AdvanceType
  <2> QED
    BY <1>18, <2>1, <2>2 DEF GiveUp, Statuses, Fault
<1>19. ASSUME NEW a \in Apis, RetryError(a) PROVE TypeOK'
  BY <1>19, <1>b DEF RetryError, Fault
<1>20. ASSUME NEW a \in Apis, Crash(a) PROVE TypeOK'
  <2>1. lost' \in [Messages -> Nat]
    BY <1>20, LoseCounter DEF Crash
  <2> QED
    BY <1>20, <1>b, <2>1 DEF Crash, Fault
<1>21. ASSUME UNCHANGED vars PROVE TypeOK'
  BY <1>21 DEF vars
<1> QED
  BY <1>1, <1>2, <1>3, <1>4, <1>5, <1>6, <1>7, <1>8, <1>9, <1>10, <1>11, <1>12,
     <1>13, <1>14, <1>15, <1>16, <1>17, <1>18, <1>19, <1>20, <1>21
     DEF Next, RequestStep, WorkerStep

\* Every reachable state of the messages and of their senders is well typed.
THEOREM TypeCorrect == Spec => []TypeOK
  BY InitTypeOK, NextTypeOK, PTL DEF Spec

-----------------------------------------------------------------------------
(* An operator's message shown as SENT was accepted.                       *)

\* A process that has the provider's acceptance of a message, or a row that says
\* SENT, stands for a copy.
SentInv ==
    /\ \A a \in Apis, m \in Messages : At(a, "accepted", m) => copies[m] > 0
    /\ SentWasAccepted

\* The history counters never fall.
CountersGrow == \A m \in Messages : copies[m] > 0 => copies'[m] > 0

\* No step takes back a copy.
LEMMA CopiesStay == TypeOK /\ [Next]_vars => CountersGrow
<1> SUFFICES ASSUME TypeOK, [Next]_vars PROVE CountersGrow
  OBVIOUS
<1>1. copies' = copies \/ \E m \in Messages : copies' = Bump(copies, m)
  <2> USE DEF rowVars, historyVars, TypeOK
  <2>1. CASE \E m \in Messages : Insert(m) \/ RequestStep(m) \/ RequestDies(m)
    BY <2>1 DEF Insert, RequestStep, Queue, ReplyAccepted, ReplyFailed, ReplyMark,
                ReplyMarkNone, RequestDies
  <2>2. CASE \E a \in Apis : WorkerStep(a) \/ RecordError(a) \/ RetryError(a) \/ Crash(a)
    BY <2>2 DEF WorkerStep, RecordError, RetryError, Crash, Fetch, SendAccepted,
                SendFailed, SendRefused, RecordSent, RecordFailed, RecordRefused,
                ReadRetry, Reschedule, GiveUp
  <2>3. CASE UNCHANGED vars
    BY <2>3 DEF vars
  <2> QED
    BY <2>1, <2>2, <2>3 DEF Next
<1> QED
  <2>1. ASSUME NEW m \in Messages, copies' = Bump(copies, m) PROVE CountersGrow
    BY <2>1, BumpCounter DEF CountersGrow, TypeOK
  <2> QED
    BY <1>1, <2>1 DEF CountersGrow

\* Where another process is, and where a process is that was sent elsewhere, is no
\* news about "accepted".
LEMMA NotAccepted ==
  ASSUME TypeOK, NEW a \in Apis,
         \/ \E pc \in ApiStates \ {"accepted"} : Goto(a, pc)
         \/ \E m \in Messages : Advance(a, m)
         \/ api' = [api EXCEPT ![a] = ApiIdle]
  PROVE  /\ ~\E n \in Messages : At(a, "accepted", n)'
         /\ \A b \in Apis, n \in Messages :
              At(b, "accepted", n)' => b # a /\ At(b, "accepted", n)
<1>1. api \in [Apis -> Api]
  BY DEF TypeOK, Api
<1>2. api'[a].pc # "accepted" /\ \A b \in Apis : b # a => api'[b] = api[b]
  <2>1. ASSUME NEW pc \in ApiStates \ {"accepted"}, Goto(a, pc)
        PROVE  api'[a].pc # "accepted" /\ \A b \in Apis : b # a => api'[b] = api[b]
    BY <1>1, <2>1, GotoType
  <2>2. ASSUME NEW m \in Messages, Advance(a, m)
        PROVE  api'[a].pc # "accepted" /\ \A b \in Apis : b # a => api'[b] = api[b]
    BY <1>1, <2>2, AdvanceType
  <2>3. ASSUME api' = [api EXCEPT ![a] = ApiIdle]
        PROVE  api'[a].pc # "accepted" /\ \A b \in Apis : b # a => api'[b] = api[b]
    BY <1>1, <2>3 DEF ApiIdle
  <2> QED
    BY <2>1, <2>2, <2>3
<1> QED
  BY <1>2 DEF At

\* A step of a process leaves the other processes where they are.
LEMMA OthersStay ==
  ASSUME TypeOK, NEW a \in Apis,
         WorkerStep(a) \/ RecordError(a) \/ RetryError(a) \/ Crash(a)
  PROVE  \A b \in Apis \ {a} : api'[b] = api[b]
<1>1. \E x : api' = [api EXCEPT ![a] = x]
  BY DEF WorkerStep, Fetch, SendAccepted, SendFailed, SendRefused, RecordSent,
         RecordFailed, RecordRefused, ReadRetry, Reschedule, GiveUp, RecordError,
         RetryError, Crash, Goto, Advance
<1> QED
  BY <1>1 DEF TypeOK

\* A process has an acceptance after a step only if the step got it.
LEMMA HoldsAfterAccepted ==
  ASSUME TypeOK, NEW a \in Apis, NEW n \in Messages, ~SendAccepted(a),
         WorkerStep(a) \/ RecordError(a) \/ RetryError(a) \/ Crash(a)
  PROVE  ~At(a, "accepted", n)'
<1> USE DEF ApiStates
<1>1. CASE Fetch(a)
  BY <1>1 DEF Fetch, At, TypeOK
<1>2. CASE SendFailed(a) \/ SendRefused(a)
  BY <1>2, NotAccepted DEF SendFailed, SendRefused
<1>3. CASE RecordSent(a) \/ RecordFailed(a) \/ RecordRefused(a) \/ RecordError(a)
  <2>1. PICK m \in Messages : Advance(a, m) \/ Goto(a, "threw")
    BY <1>3 DEF RecordSent, RecordFailed, RecordRefused, RecordError, TypeOK
  <2> QED
    BY <2>1, NotAccepted
<1>4. CASE ReadRetry(a)
  BY <1>4 DEF ReadRetry, At, TypeOK
<1>5. CASE Reschedule(a) \/ GiveUp(a)
  <2>1. PICK m \in Messages : Advance(a, m) \/ api' = [api EXCEPT ![a] = ApiIdle]
    BY <1>5 DEF Reschedule, GiveUp, TypeOK
  <2> QED
    BY <2>1, NotAccepted
<1>6. CASE RetryError(a) \/ Crash(a)
  BY <1>6, NotAccepted DEF RetryError, Crash
<1> QED
  BY <1>1, <1>2, <1>3, <1>4, <1>5, <1>6 DEF WorkerStep

\* A process gets to "accepted" by a copy of the message it is at.
LEMMA AcceptedIsNew ==
  TypeOK /\ [Next]_vars =>
    \/ \A a \in Apis, m \in Messages : At(a, "accepted", m)' => At(a, "accepted", m)
    \/ \E a \in Apis : SendAccepted(a)
<1> SUFFICES ASSUME TypeOK, [Next]_vars, ~\E a \in Apis : SendAccepted(a),
                    NEW b \in Apis, NEW n \in Messages, At(b, "accepted", n)'
             PROVE  At(b, "accepted", n)
  OBVIOUS
<1> USE DEF rowVars, historyVars, ApiStates
<1>1. CASE \E m \in Messages : Insert(m) \/ RequestStep(m) \/ RequestDies(m)
  <2>1. api' = api
    BY <1>1 DEF Insert, RequestStep, Queue, ReplyAccepted, ReplyFailed, ReplyMark,
                ReplyMarkNone, RequestDies
  <2> QED
    BY <2>1 DEF At
<1>2. ASSUME NEW a \in Apis, WorkerStep(a) \/ RecordError(a) \/ RetryError(a) \/ Crash(a)
      PROVE  At(b, "accepted", n)
  <2>1. b # a
    BY <1>2, HoldsAfterAccepted
  <2> QED
    BY <1>2, <2>1, OthersStay DEF At
<1>3. CASE UNCHANGED vars
  BY <1>3 DEF vars, At
<1> QED
  BY <1>1, <1>2, <1>3 DEF Next

\* A row becomes SENT when a process has its acceptance, or if it is a reply.
LEMMA SentIsNew ==
  ASSUME TypeOK, [Next]_vars, NEW n \in Messages \ Replies, status'[n] = "SENT"
  PROVE  status[n] = "SENT" \/ \E a \in Apis : At(a, "accepted", n)
<1> USE DEF rowVars, historyVars, TypeOK
<1>1. ASSUME NEW m \in Messages, Insert(m) \/ RequestStep(m) \/ RequestDies(m)
      PROVE  status[n] = "SENT"
  BY <1>1 DEF Insert, RequestStep, Queue, ReplyAccepted, ReplyFailed, ReplyMark,
              ReplyMarkNone, RequestDies
<1>2. ASSUME NEW a \in Apis, RecordSent(a)
      PROVE  status[n] = "SENT" \/ At(a, "accepted", n)
  BY <1>2 DEF RecordSent
<1>3. ASSUME NEW a \in Apis, WorkerStep(a) \/ RecordError(a) \/ RetryError(a) \/ Crash(a),
             ~RecordSent(a)
      PROVE  status[n] = "SENT"
  BY <1>3 DEF WorkerStep, Fetch, SendAccepted, SendFailed, SendRefused, RecordFailed,
              RecordRefused, ReadRetry, Reschedule, GiveUp, RecordError, RetryError, Crash
<1>4. CASE UNCHANGED vars
  BY <1>4 DEF vars
<1> QED
  BY <1>1, <1>2, <1>3, <1>4 DEF Next

\* That invariant is inductive.
LEMMA NextSentInv == TypeOK /\ SentInv /\ [Next]_vars => SentInv'
<1> SUFFICES ASSUME TypeOK, SentInv, [Next]_vars PROVE SentInv'
  OBVIOUS
<1>1. ASSUME NEW a \in Apis, NEW m \in Messages, At(a, "accepted", m)'
      PROVE  copies'[m] > 0
  <2>1. CASE At(a, "accepted", m)
    BY <2>1, CopiesStay DEF SentInv, CountersGrow
  <2>2. CASE \E b \in Apis : SendAccepted(b) /\ ~At(a, "accepted", m)
    <3>1. PICK b \in Apis, n \in Messages :
            At(b, "send", n) /\ Goto(b, "accepted") /\ copies' = Bump(copies, n)
      BY <2>2 DEF SendAccepted, TypeOK
    <3>2. /\ api'[b].batch = api[b].batch
          /\ \A c \in Apis : c # b => api'[c] = api[c]
      BY <3>1, GotoType DEF TypeOK, Api, ApiStates
    <3>3. a = b
      BY <1>1, <2>2, <3>2 DEF At
    <3>4. m = n
      BY <1>1, <3>1, <3>2, <3>3, MessagesAssumption DEF At
    <3> QED
      BY <3>1, <3>4, BumpCounter DEF TypeOK
  <2> QED
    BY <1>1, <2>1, <2>2, AcceptedIsNew
<1>2. SentWasAccepted'
  BY SentIsNew, CopiesStay DEF SentInv, SentWasAccepted, CountersGrow
<1> QED
  BY <1>1, <1>2 DEF SentInv

\* Whatever the processes, the webhook and the faults do, an operator's message
\* shown as SENT was accepted by the provider.
THEOREM SentMeansAccepted == Spec => []SentWasAccepted
  <1>1. Init => SentInv
    BY DEF Init, SentInv, SentWasAccepted, At, ApiIdle
  <1>2. SentInv => SentWasAccepted
    BY DEF SentInv
  <1> QED
    BY <1>1, <1>2, NextSentInv, TypeCorrect, PTL DEF Spec

-----------------------------------------------------------------------------
(* No more messages are shown as SENT than the provider accepted.          *)

\* A smaller set is not larger than a larger one.
LEMMA CountCarries ==
  ASSUME NEW S \in SUBSET Messages, NEW T \in SUBSET Messages,
         NEW S1 \in SUBSET S, NEW T1 \in SUBSET Messages, T \subseteq T1,
         Cardinality(S) <= Cardinality(T)
  PROVE  Cardinality(S1) <= Cardinality(T1)
<1>1. IsFiniteSet(S) /\ IsFiniteSet(T) /\ IsFiniteSet(T1)
  BY FinitenessAssumption, FS_Subset
<1>2. Cardinality(S1) <= Cardinality(S) /\ IsFiniteSet(S1)
  BY <1>1, FS_Subset
<1>3. Cardinality(T) <= Cardinality(T1)
  BY <1>1, FS_Subset
<1> QED
  BY <1>1, <1>2, <1>3, FS_CardinalityType

\* One more in the smaller is made up for by one more in the larger.
LEMMA CountGrows ==
  ASSUME NEW S \in SUBSET Messages, NEW T \in SUBSET Messages,
         NEW r \in Messages, NEW m \in Messages \ T,
         Cardinality(S) <= Cardinality(T)
  PROVE  Cardinality(S \cup {r}) <= Cardinality(T \cup {m})
<1>1. IsFiniteSet(S) /\ IsFiniteSet(T)
  BY FinitenessAssumption, FS_Subset
<1>2. Cardinality(S) \in Nat /\ Cardinality(T) \in Nat
  BY <1>1, FS_CardinalityType
<1>3. Cardinality(S \cup {r}) \in {Cardinality(S), Cardinality(S) + 1}
  BY <1>1, FS_AddElement
<1>4. Cardinality(T \cup {m}) = Cardinality(T) + 1
  BY <1>1, FS_AddElement
<1> QED
  BY <1>2, <1>3, <1>4

\* Two sets of accepted messages, with two copies of what is in both, are together
\* not more than the acceptances.
LEMMA AcceptedCount ==
  ASSUME TypeOK, NEW P \in SUBSET Messages, NEW Q \in SUBSET Messages,
         \A m \in P \cup Q : copies[m] >= 1, \A m \in P \cap Q : copies[m] >= 2
  PROVE  Cardinality(P) + Cardinality(Q) <= Cardinality(Accepted)
<1> DEFINE Once == P \cup Q
           Twice == P \cap Q
           First == Once \X {1}
           Second == Twice \X {2}
<1>1. IsFiniteSet(P) /\ IsFiniteSet(Q) /\ IsFiniteSet(Once) /\ IsFiniteSet(Twice)
  BY FinitenessAssumption, FS_Subset
<1>2. Cardinality(Once) = Cardinality(P) + Cardinality(Q) - Cardinality(Twice)
  BY <1>1, FS_Union
<1>3. IsFiniteSet(Accepted)
  <2>1. IsFiniteSet(1 .. MaxCount)
    BY FS_Interval, NumbersAssumption
  <2>2. IsFiniteSet(Messages \X (1 .. MaxCount))
    BY <2>1, FinitenessAssumption, FS_Product
  <2> QED
    BY <2>2, FS_Subset DEF Accepted
<1>4. First \cup Second \subseteq Accepted
  BY NumbersAssumption DEF Accepted, TypeOK
<1>5. First \cap Second = {}
  OBVIOUS
<1> HIDE DEF Once, Twice
<1>6. IsFiniteSet({1}) /\ Cardinality({1}) = 1 /\ IsFiniteSet({2}) /\ Cardinality({2}) = 1
  BY FS_Singleton
<1>7. /\ IsFiniteSet(First) /\ Cardinality(First) = Cardinality(Once) * 1
      /\ IsFiniteSet(Second) /\ Cardinality(Second) = Cardinality(Twice) * 1
  BY <1>1, <1>6, FS_Product
<1> HIDE DEF First, Second
<1>8. Cardinality(First \cup Second) = Cardinality(First) + Cardinality(Second)
  <2>1. Cardinality(First \cup Second) =
          Cardinality(First) + Cardinality(Second) - Cardinality(First \cap Second)
    BY <1>7, FS_Union
  <2>2. Cardinality(First \cap Second) = 0
    BY <1>5, FS_EmptySet
  <2>3. Cardinality(First) \in Nat /\ Cardinality(Second) \in Nat
    BY <1>7, FS_CardinalityType
  <2> QED
    BY <2>1, <2>2, <2>3
<1>9. Cardinality(First \cup Second) <= Cardinality(Accepted)
  BY <1>3, <1>4, FS_Subset
<1> QED
  <2>1. /\ Cardinality(P) \in Nat /\ Cardinality(Q) \in Nat /\ Cardinality(Accepted) \in Nat
        /\ Cardinality(Once) \in Nat /\ Cardinality(Twice) \in Nat
    BY <1>1, <1>3, FS_CardinalityType
  <2> QED
    BY <1>2, <1>7, <1>8, <1>9, <2>1

\* The rows shown as SENT, and the webhook's acceptances that are used up.
SentRows == {m \in Messages : status[m] = "SENT"}
Spent(P) == {m \in P : origin[m] # "sent"}

\* The webhook's messages P that the provider accepted, and the workers' Q. A worker
\* marks the row of a message it sent; what else is SENT was marked by the webhook,
\* once for each of its acceptances.
Accounted(P, Q) ==
    /\ \A m \in P \cup Q : copies[m] >= 1
    /\ \A m \in P \cap Q : copies[m] >= 2
    /\ \A a \in Apis, m \in Messages : At(a, "accepted", m) => m \in Q
    /\ \A m \in Messages : origin[m] = "sent" => m \in P
    /\ \A m \in P : origin[m] \in {"sent", "done"}
    /\ \A m \in Messages : status[m] = "none" => origin[m] = "none"
    /\ Cardinality(SentRows \ Q) <= Cardinality(Spent(P))

AccountInv == \E P, Q \in SUBSET Messages : Accounted(P, Q)

\* A step that adds no copy keeps the account, if it marks nothing but what a
\* worker has sent and takes no acceptance back.
LEMMA AccountStays ==
  ASSUME TypeOK, TypeOK', NEW P \in SUBSET Messages, NEW Q \in SUBSET Messages,
         Accounted(P, Q),
         \A m \in Messages : copies[m] <= copies'[m],
         \A a \in Apis, m \in Messages : At(a, "accepted", m)' => At(a, "accepted", m),
         \A m \in Messages : \/ origin'[m] = origin[m]
                             \/ origin[m] = "sent" /\ origin'[m] = "done"
                             \/ m \notin P /\ origin'[m] # "sent",
         \A m \in Messages :
           status'[m] = "none" => status[m] = "none" /\ origin'[m] = origin[m],
         \A m \in Messages \ Q : status'[m] = "SENT" => status[m] = "SENT"
  PROVE  AccountInv'
<1>1. \A m \in P \cup Q : copies'[m] >= 1
  BY DEF Accounted, TypeOK
<1>2. \A m \in P \cap Q : copies'[m] >= 2
  BY DEF Accounted, TypeOK
<1>3. \A a \in Apis, m \in Messages : At(a, "accepted", m)' => m \in Q
  BY DEF Accounted
<1>4. /\ \A m \in Messages : origin'[m] = "sent" => m \in P
      /\ \A m \in P : origin'[m] \in {"sent", "done"}
      /\ \A m \in Messages : status'[m] = "none" => origin'[m] = "none"
  BY DEF Accounted
<1>5. Cardinality((SentRows \ Q)') <= Cardinality(Spent(P)')
  <2>1. (SentRows \ Q)' \subseteq SentRows \ Q /\ Spent(P) \subseteq Spent(P)'
    BY DEF SentRows, Spent
  <2>2. /\ SentRows \ Q \subseteq Messages
        /\ Spent(P) \subseteq Messages /\ Spent(P)' \subseteq Messages
    BY DEF SentRows, Spent
  <2>3. Cardinality(SentRows \ Q) <= Cardinality(Spent(P))
    BY DEF Accounted
  <2> QED
    BY <2>1, <2>2, <2>3, CountCarries
<1>6. Accounted(P, Q)'
  BY <1>1, <1>2, <1>3, <1>4, <1>5 DEF Accounted
<1> QED
  BY <1>6 DEF AccountInv

\* The account stays true through the steps of the requests.
LEMMA RequestsKeepAccountInv ==
  ASSUME TypeOK, TypeOK', AccountInv,
         NEW m \in Messages, Insert(m) \/ RequestStep(m) \/ RequestDies(m)
  PROVE  AccountInv'
<1> USE DEF rowVars, historyVars, TypeOK
<1>0. PICK P \in SUBSET Messages, Q \in SUBSET Messages : Accounted(P, Q)
  BY DEF AccountInv
<1>a. api' = api
  BY DEF Insert, RequestStep, Queue, ReplyAccepted, ReplyFailed, ReplyMark,
         ReplyMarkNone, RequestDies
<1>b. \A a \in Apis, n \in Messages : At(a, "accepted", n)' <=> At(a, "accepted", n)
  BY <1>a DEF At
<1>c. Bump(copies, m) \in [Messages -> Nat]
  BY BumpCounter
<1>1. CASE Insert(m) \/ Queue(m) \/ ReplyFailed(m) \/ ReplyMarkNone(m) \/ RequestDies(m)
  <2>1. \A n \in Messages : copies[n] <= copies'[n]
    <3>1. copies' \in {copies, Bump(copies, m)}
      BY <1>1 DEF Insert, Queue, ReplyFailed, ReplyMarkNone, RequestDies
    <3>2. \A n \in Messages : Bump(copies, m)[n] \in {copies[n], copies[n] + 1}
      BY BumpCounter
    <3> QED
      BY <3>1, <3>2
  <2>2. \A n \in Messages : n # m => status'[n] = status[n] /\ origin'[n] = origin[n]
    BY <1>1 DEF Insert, Queue, ReplyFailed, ReplyMarkNone, RequestDies
  <2>3. \/ origin[m] = "sent" /\ origin'[m] = "done"
        \/ m \notin P /\ origin'[m] # "sent"
    BY <1>0, <1>1 DEF Insert, Queue, ReplyFailed, ReplyMarkNone, RequestDies, Accounted
  <2>4. status'[m] # "none"
    BY <1>0, <1>1 DEF Insert, Queue, ReplyFailed, ReplyMarkNone, RequestDies, Accounted
  <2>5. status'[m] = "SENT" => status[m] = "SENT"
    BY <1>1 DEF Insert, Queue, ReplyFailed, ReplyMarkNone, RequestDies
  <2> QED
    BY <1>0, <1>b, <2>1, <2>2, <2>3, <2>4, <2>5, AccountStays
<1>2. CASE ReplyAccepted(m)
  <2>1. /\ origin[m] = "sending" /\ origin' = [origin EXCEPT ![m] = "sent"]
        /\ copies' = Bump(copies, m) /\ status' = status
    BY <1>2 DEF ReplyAccepted
  <2>2. m \notin P
    BY <1>0, <2>1 DEF Accounted
  <2>3. /\ \A n \in Messages : n # m => copies'[n] = copies[n]
        /\ copies'[m] >= 1 /\ copies'[m] >= copies[m]
        /\ copies[m] >= 1 => copies'[m] >= 2
    <3>1. copies \in [Messages -> Nat]
      BY DEF TypeOK
    <3> QED
      BY <2>1, <3>1, BumpTwice
  <2>4. \A n \in (P \cup {m}) \cup Q : copies'[n] >= 1
    BY <1>0, <2>3 DEF Accounted
  <2>5. \A n \in (P \cup {m}) \cap Q : copies'[n] >= 2
    BY <1>0, <2>3 DEF Accounted
  <2>6. \A a \in Apis, n \in Messages : At(a, "accepted", n)' => n \in Q
    BY <1>0, <1>b DEF Accounted
  <2>7. /\ \A n \in Messages : origin'[n] = "sent" => n \in P \cup {m}
        /\ \A n \in P \cup {m} : origin'[n] \in {"sent", "done"}
        /\ \A n \in Messages : status'[n] = "none" => origin'[n] = "none"
    BY <1>0, <2>1 DEF Accounted
  <2>8. (SentRows \ Q)' = SentRows \ Q /\ Spent(P \cup {m})' = Spent(P)
    BY <2>1, <2>2 DEF SentRows, Spent
  <2>9. Accounted(P \cup {m}, Q)'
    BY <1>0, <2>4, <2>5, <2>6, <2>7, <2>8 DEF Accounted
  <2> QED
    BY <2>9 DEF AccountInv
<1>3. CASE ReplyMark(m)
  <2>1. PICK r \in Messages :
          /\ status[r] \in {"PENDING", "QUEUED"}
          /\ status' = [status EXCEPT ![r] = "SENT"]
          /\ origin[m] = "sent" /\ origin' = [origin EXCEPT ![m] = "done"]
          /\ copies' = copies
    BY <1>3 DEF ReplyMark, Undelivered
  <2>2. m \in P
    BY <1>0, <2>1 DEF Accounted
  <2>3. (SentRows \ Q)' \subseteq (SentRows \ Q) \cup {r}
    BY <2>1 DEF SentRows
  <2>4. Spent(P)' = Spent(P) \cup {m} /\ m \notin Spent(P)
    BY <2>1, <2>2 DEF Spent
  <2>5. Cardinality((SentRows \ Q)') <= Cardinality(Spent(P)')
    <3>1. SentRows \ Q \subseteq Messages /\ Spent(P) \subseteq Messages
      BY DEF SentRows, Spent
    <3>2. Cardinality(SentRows \ Q) <= Cardinality(Spent(P))
      BY <1>0 DEF Accounted
    <3>3. Cardinality((SentRows \ Q) \cup {r}) <= Cardinality(Spent(P) \cup {m})
      BY <2>4, <3>1, <3>2, CountGrows
    <3>4. (SentRows \ Q) \cup {r} \subseteq Messages /\ Spent(P) \cup {m} \subseteq Messages
      BY <3>1
    <3> QED
      BY <2>3, <2>4, <3>3, <3>4, CountCarries
  <2>6. /\ \A n \in P \cup Q : copies'[n] >= 1
        /\ \A n \in P \cap Q : copies'[n] >= 2
    BY <1>0, <2>1 DEF Accounted
  <2>7. \A a \in Apis, n \in Messages : At(a, "accepted", n)' => n \in Q
    BY <1>0, <1>b DEF Accounted
  <2>8. /\ \A n \in Messages : origin'[n] = "sent" => n \in P
        /\ \A n \in P : origin'[n] \in {"sent", "done"}
        /\ \A n \in Messages : status'[n] = "none" => origin'[n] = "none"
    BY <1>0, <2>1 DEF Accounted
  <2>9. Accounted(P, Q)'
    BY <2>5, <2>6, <2>7, <2>8 DEF Accounted
  <2> QED
    BY <2>9 DEF AccountInv
<1> QED
  BY <1>1, <1>2, <1>3 DEF RequestStep

\* And through the steps of the workers.
LEMMA WorkersKeepAccountInv ==
  ASSUME TypeOK, TypeOK', AccountInv, NEW a \in Apis,
         WorkerStep(a) \/ RecordError(a) \/ RetryError(a) \/ Crash(a)
  PROVE  AccountInv'
<1> USE DEF rowVars, historyVars
<1>0. PICK P \in SUBSET Messages, Q \in SUBSET Messages : Accounted(P, Q)
  BY DEF AccountInv
<1>a. origin' = origin
  BY DEF WorkerStep, Fetch, SendAccepted, SendFailed, SendRefused, RecordSent, RecordFailed,
         RecordRefused, ReadRetry, Reschedule, GiveUp, RecordError, RetryError, Crash
<1>1. CASE SendAccepted(a)
  <2>1. PICK m \in Messages :
          /\ At(a, "send", m) /\ Goto(a, "accepted")
          /\ copies' = Bump(copies, m) /\ status' = status
    BY <1>1 DEF SendAccepted, TypeOK
  <2>2. /\ api'[a].pc = "accepted" /\ api'[a].batch = api[a].batch
        /\ \A b \in Apis : b # a => api'[b] = api[b]
    BY <2>1, GotoType DEF TypeOK, Api, ApiStates
  <2>3. \A b \in Apis, n \in Messages : At(b, "accepted", n)' => n \in Q \cup {m}
    <3>1. ASSUME NEW n \in Messages, At(a, "accepted", n)' PROVE n = m
      BY <2>1, <2>2, <3>1, MessagesAssumption DEF At
    <3>2. ASSUME NEW b \in Apis, NEW n \in Messages, b # a, At(b, "accepted", n)'
          PROVE  n \in Q
      BY <1>0, <2>2, <3>2 DEF At, Accounted
    <3> QED
      BY <3>1, <3>2
  <2>4. /\ \A n \in Messages : n # m => copies'[n] = copies[n]
        /\ copies'[m] >= 1 /\ copies'[m] >= copies[m]
        /\ copies[m] >= 1 => copies'[m] >= 2
    <3>1. copies \in [Messages -> Nat]
      BY DEF TypeOK
    <3> QED
      BY <2>1, <3>1, BumpTwice
  <2>5. \A n \in P \cup (Q \cup {m}) : copies'[n] >= 1
    BY <1>0, <2>4 DEF Accounted
  <2>6. \A n \in P \cap (Q \cup {m}) : copies'[n] >= 2
    BY <1>0, <2>4 DEF Accounted
  <2>7. /\ \A n \in Messages : origin'[n] = "sent" => n \in P
        /\ \A n \in P : origin'[n] \in {"sent", "done"}
        /\ \A n \in Messages : status'[n] = "none" => origin'[n] = "none"
    BY <1>0, <1>a, <2>1 DEF Accounted
  <2>8. Cardinality((SentRows \ (Q \cup {m}))') <= Cardinality(Spent(P)')
    <3>1. (SentRows \ (Q \cup {m}))' \subseteq SentRows \ Q /\ Spent(P)' = Spent(P)
      BY <1>a, <2>1 DEF SentRows, Spent
    <3>2. SentRows \ Q \subseteq Messages /\ Spent(P) \subseteq Messages
      BY DEF SentRows, Spent
    <3>3. Cardinality(SentRows \ Q) <= Cardinality(Spent(P))
      BY <1>0 DEF Accounted
    <3> QED
      BY <3>1, <3>2, <3>3, CountCarries
  <2>9. Accounted(P, Q \cup {m})'
    BY <2>3, <2>5, <2>6, <2>7, <2>8 DEF Accounted
  <2> QED
    BY <2>9 DEF AccountInv
<1>2. CASE ~SendAccepted(a)
  <2>1. \A n \in Messages : copies[n] <= copies'[n]
    <3>1. copies' = copies \/ \E m \in Messages : copies' = Bump(copies, m)
      BY DEF WorkerStep, Fetch, SendAccepted, SendFailed, SendRefused, RecordSent,
             RecordFailed, RecordRefused, ReadRetry, Reschedule, GiveUp, RecordError,
             RetryError, Crash, TypeOK
    <3>2. ASSUME NEW m \in Messages, copies' = Bump(copies, m)
          PROVE  \A n \in Messages : copies[n] <= copies'[n]
      <4>1. \A n \in Messages : copies'[n] \in {copies[n], copies[n] + 1}
        BY <3>2, BumpCounter DEF TypeOK
      <4> QED
        BY <4>1 DEF TypeOK
    <3> QED
      BY <3>1, <3>2 DEF TypeOK
  <2>2. \A b \in Apis, n \in Messages : At(b, "accepted", n)' => At(b, "accepted", n)
    <3>1. \A n \in Messages : ~At(a, "accepted", n)'
      BY <1>2, HoldsAfterAccepted
    <3> QED
      BY <3>1, OthersStay DEF At
  <2>3. \A n \in Messages : status'[n] = "none" => status[n] = "none"
    BY DEF WorkerStep, Fetch, SendAccepted, SendFailed, SendRefused, RecordSent,
           RecordFailed, RecordRefused, ReadRetry, Reschedule, GiveUp, RecordError,
           RetryError, Crash, TypeOK
  <2>4. \A n \in Messages \ Q : status'[n] = "SENT" => status[n] = "SENT"
    <3>1. CASE RecordSent(a)
      <4>1. PICK m \in Messages :
              At(a, "accepted", m) /\ status' = [status EXCEPT ![m] = "SENT"]
        BY <3>1 DEF RecordSent, TypeOK
      <4>2. m \in Q
        BY <1>0, <4>1 DEF Accounted
      <4> QED
        BY <4>1, <4>2 DEF TypeOK
    <3>2. CASE ~RecordSent(a)
      BY <3>2 DEF WorkerStep, Fetch, SendAccepted, SendFailed, SendRefused, RecordFailed,
                  RecordRefused, ReadRetry, Reschedule, GiveUp, RecordError, RetryError,
                  Crash, TypeOK
    <3> QED
      BY <3>1, <3>2
  <2> QED
    BY <1>0, <1>a, <2>1, <2>2, <2>3, <2>4, AccountStays
<1> QED
  BY <1>1, <1>2

\* The account stays true.
LEMMA NextAccountInv == TypeOK /\ TypeOK' /\ AccountInv /\ [Next]_vars => AccountInv'
<1> SUFFICES ASSUME TypeOK, TypeOK', AccountInv, [Next]_vars PROVE AccountInv'
  OBVIOUS
<1>1. CASE UNCHANGED vars
  <2>1. PICK P \in SUBSET Messages, Q \in SUBSET Messages : Accounted(P, Q)
    BY DEF AccountInv
  <2>2. Accounted(P, Q)'
    BY <1>1, <2>1 DEF vars, Accounted, At, SentRows, Spent
  <2> QED
    BY <2>2 DEF AccountInv
<1> QED
  BY <1>1, RequestsKeepAccountInv, WorkersKeepAccountInv DEF Next

\* Whatever the processes, the webhook and the faults do, and whichever reply the
\* webhook marks, no more messages are shown as SENT than the provider accepted.
THEOREM NoMoreSentThanAccepted == Spec => []SentNoMoreThanAccepted
<1>1. Init => AccountInv
  <2> SUFFICES ASSUME Init PROVE Accounted({}, {})
    BY DEF AccountInv
  <2>1. SentRows \ {} = {} /\ Spent({}) = {}
    BY DEF Init, SentRows, Spent
  <2> QED
    BY <2>1, FS_EmptySet DEF Init, Accounted, At, ApiIdle
<1>2. TypeOK /\ AccountInv => SentNoMoreThanAccepted
  <2> SUFFICES ASSUME TypeOK, NEW P \in SUBSET Messages, NEW Q \in SUBSET Messages,
                      Accounted(P, Q)
               PROVE  Cardinality(SentRows) <= Cardinality(Accepted)
    BY DEF AccountInv, SentNoMoreThanAccepted, SentRows
  <2>1. IsFiniteSet(SentRows) /\ IsFiniteSet(SentRows \ Q) /\ IsFiniteSet(P) /\ IsFiniteSet(Q)
    BY FinitenessAssumption, FS_Subset DEF SentRows
  <2>2. Cardinality(SentRows) <= Cardinality(SentRows \ Q) + Cardinality(Q)
    <3>1. SentRows \in SUBSET ((SentRows \ Q) \cup Q)
      OBVIOUS
    <3>2. /\ IsFiniteSet((SentRows \ Q) \cup Q)
          /\ Cardinality((SentRows \ Q) \cup Q) =
               Cardinality(SentRows \ Q) + Cardinality(Q) - Cardinality((SentRows \ Q) \cap Q)
      BY <2>1, FS_Union
    <3>3. Cardinality((SentRows \ Q) \cap Q) = 0
      BY FS_EmptySet
    <3>4. Cardinality(SentRows) <= Cardinality((SentRows \ Q) \cup Q)
      BY <3>1, <3>2, FS_Subset
    <3>5. Cardinality(SentRows \ Q) \in Nat /\ Cardinality(Q) \in Nat
      BY <2>1, FS_CardinalityType
    <3> QED
      BY <3>2, <3>3, <3>4, <3>5
  <2>3. Cardinality(SentRows \ Q) <= Cardinality(P)
    <3>1. Cardinality(SentRows \ Q) <= Cardinality(Spent(P))
      BY DEF Accounted
    <3>2. Spent(P) \subseteq P /\ SentRows \ Q \subseteq Messages
      BY DEF Spent, SentRows
    <3> QED
      BY <3>1, <3>2, CountCarries
  <2>4. Cardinality(P) + Cardinality(Q) <= Cardinality(Accepted)
    BY AcceptedCount DEF Accounted
  <2>5. /\ Cardinality(SentRows) \in Nat /\ Cardinality(SentRows \ Q) \in Nat
        /\ Cardinality(P) \in Nat /\ Cardinality(Q) \in Nat
    BY <2>1, FS_CardinalityType
  <2>6. IsFiniteSet(Accepted)
    <3>1. IsFiniteSet(1 .. MaxCount)
      BY NumbersAssumption, FS_Interval
    <3>2. IsFiniteSet(Messages \X (1 .. MaxCount))
      BY <3>1, FinitenessAssumption, FS_Product
    <3> QED
      BY <3>2, FS_Subset DEF Accepted
  <2>7. Cardinality(Accepted) \in Nat
    BY <2>6, FS_CardinalityType
  <2> QED
    BY <2>2, <2>3, <2>4, <2>5, <2>7
<1> QED
  BY <1>1, <1>2, NextAccountInv, TypeCorrect, PTL DEF Spec

-----------------------------------------------------------------------------
(* Each API process sends an operator's message once, and once more for    *)
(* each acceptance that was lost.                                          *)

\* However many API processes select the same rows, each of them sends an
\* operator's message once; beyond that there is one copy at most for each
\* acceptance that no sender learned or could record.
OncePerProcess ==
    \A m \in Messages \ Replies : lost[m] < MaxCount => copies[m] <= Cardinality(Apis) + lost[m]

\* Only replies are sent by the request that inserted them.
OriginInv == \A m \in Messages : origin[m] \in {"sending", "sent"} => m \in Replies

\* The processes with an acceptance to record, and those that will still send the
\* message from the batch they have.
Holding(m) == {a \in Apis : At(a, "accepted", m)}
Ready(m) ==
    {a \in Apis : /\ m \in api[a].batch
                  /\ api[a].pc = "send" \/ \E n \in api[a].batch : n < m}

\* Until a copy is recorded, each is lost or held by a process. From then on the row
\* is not selected any more: only the processes that have it may still send it.
CopiesInv ==
    \A m \in Messages \ Replies : lost[m] < MaxCount =>
        IF m \in acked THEN copies[m] + Cardinality(Ready(m)) <= lost[m] + Cardinality(Apis)
        ELSE copies[m] <= lost[m] + Cardinality(Holding(m))

OnceInv == OriginInv /\ CopiesInv

\* Sets of processes that differ in one of them at most.
LEMMA ProcessCount ==
  ASSUME NEW S \in SUBSET Apis, NEW T \in SUBSET Apis, NEW a \in Apis, S \ {a} = T \ {a}
  PROVE  /\ Cardinality(S) \in Nat /\ Cardinality(T) \in Nat
         /\ (a \in S <=> a \in T) => Cardinality(S) = Cardinality(T)
         /\ a \in S /\ a \notin T => Cardinality(S) = Cardinality(T) + 1
<1>1. IsFiniteSet(S) /\ IsFiniteSet(T)
  BY FinitenessAssumption, FS_Subset
<1>2. Cardinality(S) \in Nat /\ Cardinality(T) \in Nat
  BY <1>1, FS_CardinalityType
<1>3. CASE a \in S <=> a \in T
  <2>1. S = T
    BY <1>3
  <2> QED
    BY <1>2, <1>3, <2>1
<1>4. CASE a \in S /\ a \notin T
  <2>1. T = S \ {a}
    BY <1>4
  <2>2. Cardinality(T) = Cardinality(S) - 1
    BY <1>1, <1>4, <2>1, FS_RemoveElement
  <2> QED
    BY <1>2, <1>4, <2>2
<1> QED
  BY <1>2, <1>3, <1>4

\* Fewer processes, and processes apart.
LEMMA ProcessesWithin ==
  ASSUME NEW S \in SUBSET Apis, NEW T \in SUBSET Apis
  PROVE  /\ S \subseteq T => Cardinality(S) <= Cardinality(T)
         /\ S \cap T = {} => Cardinality(S) + Cardinality(T) <= Cardinality(Apis)
         /\ Cardinality(S) \in Nat /\ Cardinality(T) \in Nat /\ Cardinality(Apis) \in Nat
<1>1. IsFiniteSet(S) /\ IsFiniteSet(T)
  BY FinitenessAssumption, FS_Subset
<1>2. Cardinality(S) \in Nat /\ Cardinality(T) \in Nat /\ Cardinality(Apis) \in Nat
  BY <1>1, FinitenessAssumption, FS_CardinalityType
<1>3. S \subseteq T => Cardinality(S) <= Cardinality(T)
  BY <1>1, FS_Subset
<1>4. ASSUME S \cap T = {} PROVE Cardinality(S) + Cardinality(T) <= Cardinality(Apis)
  <2>1. Cardinality(S \cup T) = Cardinality(S) + Cardinality(T) - Cardinality(S \cap T)
    BY <1>1, FS_Union
  <2>2. Cardinality(S \cap T) = 0
    BY <1>4, FS_EmptySet
  <2>3. Cardinality(S \cup T) <= Cardinality(Apis)
    <3>1. S \cup T \in SUBSET Apis
      OBVIOUS
    <3> QED
      BY <3>1, FinitenessAssumption, FS_Subset
  <2> QED
    BY <1>2, <2>1, <2>2, <2>3
<1> QED
  BY <1>2, <1>3, <1>4

\* A step of a request changes none of it for an operator's message.
LEMMA RequestsKeepOnceInv ==
  ASSUME TypeOK, OnceInv, NEW m \in Messages, Insert(m) \/ RequestStep(m) \/ RequestDies(m)
  PROVE  OnceInv'
<1> USE DEF rowVars, historyVars, TypeOK
<1>1. OriginInv'
  BY DEF OnceInv, OriginInv, Insert, RequestStep, Queue, ReplyAccepted, ReplyFailed,
         ReplyMark, ReplyMarkNone, RequestDies
<1>2. api' = api /\ \A n \in Messages \ Replies : n \in acked' <=> n \in acked
  BY DEF Insert, RequestStep, Queue, ReplyAccepted, ReplyFailed, ReplyMark,
         ReplyMarkNone, RequestDies
<1>3. \A n \in Messages \ Replies : copies'[n] = copies[n] /\ lost'[n] = lost[n]
  <2>1. CASE ReplyAccepted(m) \/ ReplyFailed(m) \/ RequestDies(m)
    <3>1. copies' \in {copies, Bump(copies, m)} /\ lost' = lost
      BY <2>1 DEF ReplyAccepted, ReplyFailed, RequestDies
    <3>2. CASE m \in Replies
      <4>1. \A n \in Messages : n # m => Bump(copies, m)[n] = copies[n]
        BY BumpTwice
      <4> QED
        BY <3>1, <3>2, <4>1
    <3>3. CASE m \notin Replies
      <4>1. origin[m] \notin {"sending", "sent"}
        BY <3>3 DEF OnceInv, OriginInv
      <4>2. copies' = copies /\ lost' = lost
        BY <2>1, <4>1 DEF ReplyAccepted, ReplyFailed, RequestDies
      <4> QED
        BY <4>2
    <3> QED
      BY <3>2, <3>3
  <2>2. CASE Insert(m) \/ Queue(m) \/ ReplyMark(m) \/ ReplyMarkNone(m)
    BY <2>2 DEF Insert, Queue, ReplyMark, ReplyMarkNone
  <2> QED
    BY <2>1, <2>2 DEF RequestStep
<1>4. \A n \in Messages \ Replies : Holding(n)' = Holding(n) /\ Ready(n)' = Ready(n)
  BY <1>2 DEF Holding, Ready, At
<1>5. CopiesInv'
  BY <1>2, <1>3, <1>4 DEF OnceInv, CopiesInv
<1> QED
  BY <1>1, <1>5 DEF OnceInv

\* What is first in a batch is unique.
LEMMA FirstIsUnique ==
  ASSUME TypeOK, NEW a \in Apis, NEW m \in Messages, NEW n \in Messages,
         NEW pc, NEW qc, At(a, pc, m), At(a, qc, n)
  PROVE  m = n
  BY MessagesAssumption DEF At

\* Only a SELECT brings a message into a batch.
LEMMA ReadyBefore ==
  ASSUME TypeOK, NEW a \in Apis, NEW n \in Messages, ~Fetch(a) \/ n \in acked,
         WorkerStep(a) \/ RecordError(a) \/ RetryError(a) \/ Crash(a), a \in Ready(n)'
  PROVE  a \in Ready(n) /\ \E m \in Messages : m # n /\ At(a, api[a].pc, m)
<1> USE DEF ApiStates
<1>0. api \in [Apis -> Api] /\ n \in api'[a].batch
  BY DEF TypeOK, Api, Ready
<1>1. ASSUME NEW pc \in ApiStates \ {"send"}, Goto(a, pc), NEW m \in Messages,
             At(a, api[a].pc, m)
      PROVE  a \in Ready(n) /\ m # n
  <2>1. api'[a].pc = pc /\ api'[a].batch = api[a].batch
    BY <1>0, <1>1, GotoType
  <2>2. PICK k \in api[a].batch : k < n
    BY <2>1 DEF Ready
  <2>3. m <= k
    BY <1>1, <2>2 DEF At
  <2>4. m # n
    BY <2>2, <2>3, MessagesAssumption DEF TypeOK
  <2> QED
    BY <1>0, <2>1, <2>2, <2>4 DEF Ready
<1>2. ASSUME NEW m \in Messages, Advance(a, m), At(a, api[a].pc, m)
      PROVE  a \in Ready(n) /\ m # n
  <2>1. n \in api[a].batch /\ n # m
    BY <1>0, <1>2, AdvanceType
  <2>2. m < n /\ m \in api[a].batch
    BY <1>2, <2>1, MessagesAssumption DEF At
  <2> QED
    BY <2>1, <2>2 DEF Ready
<1>3. api' # [api EXCEPT ![a] = ApiIdle]
  BY <1>0 DEF ApiIdle
<1>4. ~Fetch(a)
  <2> SUFFICES ASSUME Fetch(a) PROVE FALSE
    OBVIOUS
  <2>1. n \in acked
    OBVIOUS
  <2>2. PICK due \in SUBSET Selectable :
          api' = [api EXCEPT ![a] = [pc |-> "send", batch |-> Oldest(due), count |-> 0]]
    BY DEF Fetch
  <2>3. n \in Oldest(due)
    BY <1>0, <2>2
  <2> QED
    BY <2>1, <2>2, <2>3 DEF Oldest, Selectable
<1>5. ~RetryError(a) /\ ~Crash(a)
  BY <1>3 DEF RetryError, Crash
<1>6. CASE ReadRetry(a)
  <2>1. PICK m \in Messages :
          /\ At(a, api[a].pc, m)
          /\ api' = [api EXCEPT ![a].pc = "retrying", ![a].count = retry[m]]
    BY <1>6 DEF ReadRetry, At, TypeOK
  <2>2. api'[a].pc = "retrying" /\ api'[a].batch = api[a].batch
    BY <1>0, <2>1 DEF Api
  <2>3. PICK k \in api[a].batch : k < n
    BY <2>2 DEF Ready
  <2>4. m <= k
    BY <2>1, <2>3 DEF At
  <2>5. m # n
    BY <2>3, <2>4, MessagesAssumption DEF TypeOK
  <2> QED
    BY <1>0, <2>1, <2>2, <2>3, <2>5 DEF Ready
<1>7. CASE \/ SendAccepted(a) \/ SendFailed(a) \/ SendRefused(a)
           \/ RecordFailed(a) \/ RecordError(a)
  <2>1. \E m \in Messages, pc \in ApiStates \ {"send"} : At(a, api[a].pc, m) /\ Goto(a, pc)
    BY <1>7 DEF SendAccepted, SendFailed, SendRefused, RecordFailed, RecordError, At, TypeOK
  <2> QED
    BY <1>1, <2>1
<1>8. CASE RecordSent(a) \/ RecordRefused(a) \/ Reschedule(a) \/ GiveUp(a)
  <2>1. PICK m \in Messages : At(a, api[a].pc, m) /\ (Advance(a, m) \/ Goto(a, "threw"))
    BY <1>3, <1>8 DEF RecordSent, RecordRefused, Reschedule, GiveUp, At, TypeOK
  <2> QED
    BY <1>1, <1>2, <2>1
<1> QED
  BY <1>4, <1>5, <1>6, <1>7, <1>8 DEF WorkerStep

\* A step of a process changes nothing of another's place in a message.
LEMMA OthersKeepTheirPlace ==
  ASSUME TypeOK, NEW a \in Apis, NEW n \in Messages,
         WorkerStep(a) \/ RecordError(a) \/ RetryError(a) \/ Crash(a)
  PROVE  Holding(n)' \ {a} = Holding(n) \ {a} /\ Ready(n)' \ {a} = Ready(n) \ {a}
  BY OthersStay DEF Holding, Ready, At

\* What one more copy and one more loss do to the bound of a message.
LEMMA CountersStep ==
  ASSUME TypeOK, NEW m \in Messages \ Replies, Lose(m)[m] < MaxCount
  PROVE  lost[m] < MaxCount /\ Lose(m)[m] = lost[m] + 1
<1>1. Lose(m) = Bump(lost, m)
  BY LoseCounter DEF TypeOK
<1>2. Bump(lost, m)[m] \in {lost[m], lost[m] + 1} /\ lost[m] \in Nat
  BY BumpCounter DEF TypeOK
<1>3. lost[m] < MaxCount
  BY <1>1, <1>2, NumbersAssumption
<1> QED
  BY <1>1, <1>3, BumpCounter DEF TypeOK

\* A step that neither copies nor loses the message, does not record it and does not
\* take an acceptance of it away, keeps its bound.
LEMMA QuietStep ==
  ASSUME TypeOK, TypeOK', CopiesInv, NEW a \in Apis, NEW n \in Messages \ Replies,
         WorkerStep(a) \/ RecordError(a) \/ RetryError(a) \/ Crash(a),
         lost'[n] < MaxCount, copies'[n] = copies[n], lost'[n] = lost[n],
         n \in acked' <=> n \in acked,
         n \notin acked => (a \in Holding(n)' <=> a \in Holding(n)),
         n \in acked /\ a \in Ready(n)' => a \in Ready(n)
  PROVE  IF n \in acked'
         THEN copies'[n] + Cardinality(Ready(n)') <= lost'[n] + Cardinality(Apis)
         ELSE copies'[n] <= lost'[n] + Cardinality(Holding(n)')
<1>1. /\ Holding(n)' \ {a} = Holding(n) \ {a}
      /\ Ready(n)' \ {a} = Ready(n) \ {a}
  BY OthersKeepTheirPlace
<1>2. /\ Holding(n) \in SUBSET Apis /\ Holding(n)' \in SUBSET Apis
      /\ Ready(n) \in SUBSET Apis /\ Ready(n)' \in SUBSET Apis
  BY DEF Holding, Ready
<1>3. copies[n] \in Nat /\ lost[n] \in Nat
  BY DEF TypeOK
<1>4. CASE n \in acked
  <2>1. copies[n] + Cardinality(Ready(n)) <= lost[n] + Cardinality(Apis)
    BY <1>4 DEF CopiesInv
  <2>2. Ready(n)' \subseteq Ready(n)
    BY <1>1, <1>4
  <2>3. Cardinality(Ready(n)') <= Cardinality(Ready(n))
    BY <1>2, <2>2, ProcessesWithin
  <2>4. /\ Cardinality(Ready(n)') \in Nat /\ Cardinality(Ready(n)) \in Nat
        /\ Cardinality(Apis) \in Nat
    BY <1>2, ProcessesWithin
  <2> QED
    BY <1>3, <1>4, <2>1, <2>3, <2>4
<1>5. CASE n \notin acked
  <2>1. copies[n] <= lost[n] + Cardinality(Holding(n))
    BY <1>5 DEF CopiesInv
  <2>2. Holding(n)' = Holding(n)
    BY <1>1, <1>5
  <2> QED
    BY <1>5, <2>1, <2>2
<1> QED
  BY <1>4, <1>5

\* A step of any of the processes keeps the bound of every operator's message.
LEMMA WorkersKeepCopiesInv ==
  ASSUME TypeOK, TypeOK', CopiesInv, NEW a \in Apis,
         WorkerStep(a) \/ RecordError(a) \/ RetryError(a) \/ Crash(a)
  PROVE  CopiesInv'
<1> DEFINE Bound(n) ==
      IF n \in acked THEN copies[n] + Cardinality(Ready(n)) <= lost[n] + Cardinality(Apis)
      ELSE copies[n] <= lost[n] + Cardinality(Holding(n))
<1> SUFFICES ASSUME NEW n \in Messages \ Replies, lost'[n] < MaxCount PROVE Bound(n)'
  BY DEF CopiesInv
<1> USE DEF rowVars, historyVars
<1>a. lost[n] < MaxCount => Bound(n)
  BY DEF CopiesInv
<1>b. copies[n] \in Nat /\ lost[n] \in Nat /\ copies'[n] \in Nat /\ lost'[n] \in Nat
  BY DEF TypeOK
<1>c. /\ Holding(n) \in SUBSET Apis /\ Holding(n)' \in SUBSET Apis
      /\ Ready(n) \in SUBSET Apis /\ Ready(n)' \in SUBSET Apis
  BY DEF Holding, Ready
<1>d. /\ Holding(n)' \ {a} = Holding(n) \ {a}
      /\ Ready(n)' \ {a} = Ready(n) \ {a}
  BY OthersKeepTheirPlace
<1>e. /\ Cardinality(Holding(n)) \in Nat /\ Cardinality(Holding(n)') \in Nat
      /\ Cardinality(Ready(n)) \in Nat /\ Cardinality(Ready(n)') \in Nat
      /\ Cardinality(Apis) \in Nat
  BY <1>c, ProcessesWithin
<1>f. a \in Holding(n) <=> At(a, "accepted", n)
  BY DEF Holding
<1>g. a \in Holding(n)' <=> At(a, "accepted", n)'
  BY DEF Holding
<1>h. ~SendAccepted(a) => a \notin Holding(n)'
  BY <1>g, HoldsAfterAccepted
<1>i. n \in acked /\ a \in Ready(n)' => a \in Ready(n)
  BY ReadyBefore
<1>1. CASE SendAccepted(a)
  <2>1. PICK m \in Messages :
          /\ At(a, "send", m) /\ Goto(a, "accepted")
          /\ copies' = Bump(copies, m) /\ lost' = lost /\ acked' = acked
    BY <1>1 DEF SendAccepted, TypeOK
  <2>2. api'[a].pc = "accepted" /\ api'[a].batch = api[a].batch
    BY <2>1, GotoType DEF TypeOK, Api, ApiStates
  <2>3. ASSUME n # m PROVE Bound(n)'
    <3>1. copies'[n] = copies[n]
      BY <2>1, <2>3, BumpCounter DEF TypeOK
    <3>2. ~At(a, "accepted", n)' /\ ~At(a, "accepted", n)
      BY <2>1, <2>2, <2>3, MessagesAssumption DEF At
    <3> QED
      BY <1>f, <1>g, <1>i, <2>1, <3>1, <3>2, QuietStep
  <2>4. ASSUME n = m PROVE Bound(n)'
    <3>1. copies'[n] \in {copies[n], copies[n] + 1}
      BY <2>1, <2>4, BumpCounter DEF TypeOK
    <3>2. lost[n] < MaxCount /\ Bound(n)
      BY <1>a, <2>1
    <3>3. CASE n \in acked
      <4>1. a \in Ready(n)
        BY <2>1, <2>4 DEF Ready, At
      <4>2. ~\E k \in Messages : k # n /\ At(a, api[a].pc, k)
        BY <2>1, <2>4, FirstIsUnique
      <4>3. a \notin Ready(n)'
        BY <3>3, <4>2, ReadyBefore
      <4>4. Cardinality(Ready(n)) = Cardinality(Ready(n)') + 1
        BY <1>c, <1>d, <4>1, <4>3, ProcessCount
      <4> QED
        BY <1>b, <1>e, <2>1, <3>1, <3>2, <3>3, <4>4
    <3>4. CASE n \notin acked
      <4>1. a \in Holding(n)' /\ a \notin Holding(n)
        BY <1>f, <1>g, <2>1, <2>2, <2>4 DEF At
      <4>2. Cardinality(Holding(n)') = Cardinality(Holding(n)) + 1
        BY <1>c, <1>d, <4>1, ProcessCount
      <4> QED
        BY <1>b, <1>e, <2>1, <3>1, <3>2, <3>4, <4>2
    <3> QED
      BY <3>3, <3>4
  <2> QED
    BY <2>3, <2>4
<1>2. CASE SendFailed(a)
  <2>1. PICK m \in Messages :
          /\ At(a, "send", m) /\ acked' = acked
          /\ \/ UNCHANGED historyVars
             \/ copies' = Bump(copies, m) /\ lost' = Lose(m)
    BY <1>2 DEF SendFailed, TypeOK
  <2>2. a \notin Holding(n) /\ a \notin Holding(n)'
    BY <1>2, <1>f, <1>h, <2>1 DEF At, SendFailed, SendAccepted, Goto, TypeOK
  <2>3. ASSUME copies'[n] = copies[n], lost'[n] = lost[n] PROVE Bound(n)'
    BY <1>i, <2>1, <2>2, <2>3, QuietStep
  <2>4. ASSUME n = m, copies' = Bump(copies, m), lost' = Lose(m) PROVE Bound(n)'
    <3>1. copies'[n] \in {copies[n], copies[n] + 1}
      BY <2>4, BumpCounter DEF TypeOK
    <3>2. lost[n] < MaxCount /\ lost'[n] = lost[n] + 1
      BY <2>4, CountersStep
    <3>3. Bound(n)
      BY <1>a, <3>2
    <3>4. Holding(n)' = Holding(n)
      BY <1>d, <2>2
    <3>5. n \in acked => Cardinality(Ready(n)') <= Cardinality(Ready(n))
      BY <1>c, <1>d, <1>i, ProcessesWithin
    <3> QED
      BY <1>b, <1>e, <2>1, <3>1, <3>2, <3>3, <3>4, <3>5
  <2>5. ASSUME n # m, copies' = Bump(copies, m), lost' = Lose(m)
        PROVE  copies'[n] = copies[n] /\ lost'[n] = lost[n]
    BY <2>5, BumpCounter, LoseCounter DEF TypeOK
  <2> QED
    BY <2>1, <2>3, <2>4, <2>5
<1>3. CASE RecordSent(a)
  <2>1. PICK m \in Messages :
          At(a, "accepted", m) /\ acked' = acked \cup {m} /\ UNCHANGED historyVars
    BY <1>3 DEF RecordSent, TypeOK
  <2>2. ~SendAccepted(a)
    BY <2>1 DEF SendAccepted, At
  <2>3. ASSUME n # m PROVE Bound(n)'
    <3>1. a \notin Holding(n) /\ a \notin Holding(n)'
      BY <1>f, <1>h, <2>1, <2>2, <2>3, FirstIsUnique
    <3> QED
      BY <1>i, <2>1, <2>3, <3>1, QuietStep
  <2>4. ASSUME n = m, n \in acked PROVE Bound(n)'
    BY <1>i, <2>1, <2>4, QuietStep
  <2>5. ASSUME n = m, n \notin acked PROVE Bound(n)'
    <3>1. a \notin Ready(n)'
      <4>1. ~Fetch(a)
        BY <2>1 DEF Fetch, At
      <4>2. ~\E k \in Messages : k # n /\ At(a, api[a].pc, k)
        BY <2>1, <2>5, FirstIsUnique
      <4> QED
        BY <4>1, <4>2, ReadyBefore
    <3>2. Ready(n)' \cap Holding(n) = {}
      <4> SUFFICES ASSUME NEW b \in Apis \ {a}, b \in Ready(n), b \in Holding(n) PROVE FALSE
        BY <1>c, <1>d, <3>1
      <4>1. api[b].pc = "accepted" /\ \A k \in api[b].batch : n <= k
        BY DEF Holding, At
      <4>2. PICK k \in api[b].batch : k < n
        BY <4>1 DEF Ready
      <4>3. k \in Nat /\ n \in Nat
        BY MessagesAssumption DEF TypeOK
      <4> QED
        BY <4>1, <4>2, <4>3
    <3>3. Cardinality(Ready(n)') + Cardinality(Holding(n)) <= Cardinality(Apis)
      BY <1>c, <3>2, ProcessesWithin
    <3>4. copies[n] <= lost[n] + Cardinality(Holding(n))
      BY <1>a, <2>1, <2>5
    <3>5. n \in acked' /\ copies'[n] = copies[n] /\ lost'[n] = lost[n]
      BY <2>1, <2>5
    <3> QED
      BY <1>b, <1>e, <3>3, <3>4, <3>5
  <2> QED
    BY <2>3, <2>4, <2>5
<1>4. CASE RecordError(a) \/ Crash(a)
  <2>1. acked' = acked /\ copies' = copies /\ ~SendAccepted(a)
    BY <1>4 DEF RecordError, Crash, SendAccepted, At, Goto, ApiIdle, TypeOK
  <2>2. ASSUME At(a, "accepted", n) PROVE Bound(n)'
    <3>1. lost'[n] = Lose(n)[n]
      <4>1. CASE RecordError(a)
        <5>1. PICK m \in Messages, pc \in {"accepted", "failed", "refused"} :
                At(a, pc, m) /\ lost' = IF pc = "accepted" THEN Lose(m) ELSE lost
          BY <4>1 DEF RecordError, TypeOK
        <5>2. m = n /\ pc = "accepted"
          BY <2>2, <5>1, FirstIsUnique DEF At
        <5> QED
          BY <5>1, <5>2
      <4>2. CASE Crash(a)
        BY <2>2, <4>2 DEF Crash
      <4> QED
        BY <1>4, <4>1, <4>2
    <3>2. lost[n] < MaxCount /\ lost'[n] = lost[n] + 1
      BY <3>1, CountersStep
    <3>3. Bound(n)
      BY <1>a, <3>2
    <3>4. Cardinality(Holding(n)) = Cardinality(Holding(n)') + 1
      <4>1. a \in Holding(n) /\ a \notin Holding(n)'
        BY <1>f, <1>h, <2>1, <2>2
      <4> QED
        BY <1>c, <1>d, <4>1, ProcessCount
    <3>5. n \in acked => Cardinality(Ready(n)') <= Cardinality(Ready(n))
      BY <1>c, <1>d, <1>i, ProcessesWithin
    <3> QED
      BY <1>b, <1>e, <2>1, <3>2, <3>3, <3>4, <3>5
  <2>3. ASSUME ~At(a, "accepted", n) PROVE Bound(n)'
    <3>1. lost'[n] = lost[n]
      <4>1. CASE RecordError(a)
        <5>1. PICK m \in Messages, pc \in {"accepted", "failed", "refused"} :
                At(a, pc, m) /\ lost' = IF pc = "accepted" THEN Lose(m) ELSE lost
          BY <4>1 DEF RecordError, TypeOK
        <5>2. pc = "accepted" => m # n
          BY <2>3, <5>1
        <5> QED
          BY <5>1, <5>2, LoseCounter DEF TypeOK
      <4>2. CASE Crash(a)
        BY <2>3, <4>2 DEF Crash, TypeOK
      <4> QED
        BY <1>4, <4>1, <4>2
    <3>2. a \notin Holding(n) /\ a \notin Holding(n)'
      BY <1>f, <1>h, <2>1, <2>3
    <3> QED
      BY <1>i, <2>1, <3>1, <3>2, QuietStep
  <2> QED
    BY <2>2, <2>3
<1>5. CASE \/ Fetch(a) \/ SendRefused(a) \/ RecordFailed(a) \/ RecordRefused(a)
           \/ ReadRetry(a) \/ Reschedule(a) \/ GiveUp(a) \/ RetryError(a)
  <2>1. UNCHANGED <<acked, historyVars>>
    BY <1>5 DEF Fetch, SendRefused, RecordFailed, RecordRefused, ReadRetry, Reschedule,
                GiveUp, RetryError
  <2>2. api[a].pc # "accepted"
    BY <1>5 DEF Fetch, SendRefused, RecordFailed, RecordRefused, ReadRetry, Reschedule,
                GiveUp, RetryError, At
  <2>3. a \notin Holding(n)
    BY <1>f, <2>2 DEF At
  <2>4. a \notin Holding(n)'
    <3>1. CASE SendAccepted(a)
      <4>1. copies' # copies => FALSE
        BY <2>1
      <4>2. api'[a].pc = "accepted" /\ api[a].pc = "send"
        BY <3>1 DEF SendAccepted, Goto, At, TypeOK
      <4>3. SendRefused(a)
        BY <1>5, <4>2 DEF Fetch, RecordFailed, RecordRefused, ReadRetry, Reschedule,
                          GiveUp, RetryError, At
      <4>4. api'[a].pc = "refused"
        BY <4>3 DEF SendRefused, Goto, TypeOK
      <4> QED
        BY <4>2, <4>4
    <3> QED
      BY <1>h, <3>1
  <2> QED
    BY <1>i, <2>1, <2>3, <2>4, QuietStep
<1> QED
  BY <1>1, <1>2, <1>3, <1>4, <1>5 DEF WorkerStep

\* OnceInv is inductive.
LEMMA NextOnceInv == TypeOK /\ TypeOK' /\ OnceInv /\ [Next]_vars => OnceInv'
<1> SUFFICES ASSUME TypeOK, TypeOK', OnceInv, [Next]_vars PROVE OnceInv'
  OBVIOUS
<1>1. ASSUME NEW m \in Messages, Insert(m) \/ RequestStep(m) \/ RequestDies(m) PROVE OnceInv'
  BY <1>1, RequestsKeepOnceInv
<1>2. ASSUME NEW a \in Apis, WorkerStep(a) \/ RecordError(a) \/ RetryError(a) \/ Crash(a)
      PROVE  OnceInv'
  <2>1. origin' = origin
    BY <1>2 DEF WorkerStep, Fetch, SendAccepted, SendFailed, SendRefused, RecordSent,
                RecordFailed, RecordRefused, ReadRetry, Reschedule, GiveUp, RecordError,
                RetryError, Crash
  <2>2. OriginInv'
    BY <2>1 DEF OnceInv, OriginInv
  <2>3. CopiesInv'
    BY <1>2, WorkersKeepCopiesInv DEF OnceInv
  <2> QED
    BY <2>2, <2>3 DEF OnceInv
<1>3. CASE UNCHANGED vars
  BY <1>3 DEF vars, OnceInv, OriginInv, CopiesInv, Holding, Ready, At
<1> QED
  BY <1>1, <1>2, <1>3 DEF Next

\* Whatever fails, each process that selects an operator's message sends it once, and
\* there is one copy more at most for each acceptance that was not learned or not
\* recorded: rows that were recorded are not selected again, even when the events
\* written after the row failed and scheduleRetry made the row PENDING.
THEOREM ProcessesSendOnce == Spec => []OncePerProcess
<1>1. Init => OnceInv
  <2> SUFFICES ASSUME Init PROVE OnceInv
    OBVIOUS
  <2>1. OriginInv
    BY DEF Init, OriginInv
  <2>2. \A m \in Messages : Holding(m) = {}
    BY DEF Init, Holding, At, ApiIdle
  <2>3. CopiesInv
    BY <2>2, FS_EmptySet DEF Init, CopiesInv
  <2> QED
    BY <2>1, <2>3 DEF OnceInv
<1>2. TypeOK /\ OnceInv => OncePerProcess
  <2> SUFFICES ASSUME TypeOK, OnceInv, NEW m \in Messages \ Replies, lost[m] < MaxCount
               PROVE  copies[m] <= Cardinality(Apis) + lost[m]
    BY DEF OncePerProcess
  <2>1. copies[m] \in Nat /\ lost[m] \in Nat
    BY DEF TypeOK
  <2>2. Holding(m) \in SUBSET Apis /\ Ready(m) \in SUBSET Apis
    BY DEF Holding, Ready
  <2>3. /\ Cardinality(Holding(m)) \in Nat /\ Cardinality(Ready(m)) \in Nat
        /\ Cardinality(Apis) \in Nat
    BY <2>2, ProcessesWithin
  <2>4. Cardinality(Holding(m)) <= Cardinality(Apis)
    <3>1. Apis \in SUBSET Apis
      OBVIOUS
    <3> QED
      BY <2>2, <3>1, ProcessesWithin
  <2>5. IF m \in acked THEN copies[m] + Cardinality(Ready(m)) <= lost[m] + Cardinality(Apis)
        ELSE copies[m] <= lost[m] + Cardinality(Holding(m))
    BY DEF OnceInv, CopiesInv
  <2> QED
    BY <2>1, <2>3, <2>4, <2>5
<1> QED
  BY <1>1, <1>2, NextOnceInv, TypeCorrect, PTL DEF Spec

\* With a single API process an operator's message is sent once, and once more at most
\* for each acceptance that was lost.
THEOREM OneSenderSendsOnce ==
  ASSUME NEW a \in Apis, \A b \in Apis : b = a
  PROVE  Spec => []TwiceOnlyIfLost
<1>1. Cardinality(Apis) = 1
  <2>1. Apis = {a}
    OBVIOUS
  <2> QED
    BY <2>1, FS_Singleton
<1>2. OncePerProcess => TwiceOnlyIfLost
  BY <1>1 DEF OncePerProcess, TwiceOnlyIfLost
<1> QED
  BY <1>2, ProcessesSendOnce, PTL
=============================================================================
