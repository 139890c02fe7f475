--------------------------- MODULE ConnectorProofs ---------------------------
(***************************************************************************)
(* Theorems about Connector, for any number of events and requests.        *)
(***************************************************************************)
EXTENDS Connector, FiniteSetTheorems, TLAPS

CallType ==
    [pc : {"idle", "next", "applied", "failed", "letter"},
     batch : SUBSET Events, now : SUBSET Events, taken : [Events -> Nat]]

-----------------------------------------------------------------------------
(* Types.                                                                  *)

LEMMA IdleCall ==
  /\ CallIdle \in CallType
  /\ CallIdle.pc = "idle" /\ CallIdle.batch = {} /\ CallIdle.now = {}
  BY DEF CallIdle, CallType

\* What moving on to an event, or being through with it, makes of a request.
LEMMA GoToCall ==
  ASSUME call \in [Calls -> CallType], NEW c \in Calls, NEW e \in Events,
         NEW pc \in {"idle", "next", "applied", "failed", "letter"}, GoTo(c, pc, e)
  PROVE  /\ call' \in [Calls -> CallType]
         /\ \A d \in Calls \ {c} : call'[d] = call[d]
         /\ call'[c].pc = pc /\ call'[c].now = {e}
         /\ call'[c].batch = call[c].batch /\ call'[c].taken = call[c].taken
  BY DEF GoTo, CallType

LEMMA DoneCall ==
  ASSUME call \in [Calls -> CallType], NEW c \in Calls, NEW e \in Events, Done(c, e)
  PROVE  /\ call' \in [Calls -> CallType]
         /\ \A d \in Calls \ {c} : call'[d] = call[d]
         /\ call'[c].pc \in {"idle", "next"} /\ call'[c].now = {}
         /\ call'[c].pc = "idle" => call'[c].batch = {}
         /\ call'[c].batch = call[c].batch \ {e}
         /\ call'[c].batch # {} => call'[c].taken = call[c].taken
<1>1. CASE call[c].batch \ {e} = {}
  <2>1. call' = [call EXCEPT ![c] = CallIdle]
    BY <1>1 DEF Done
  <2> QED
    BY <1>1, <2>1, IdleCall
<1>2. CASE call[c].batch \ {e} # {}
  <2>1. call' = [call EXCEPT ![c].pc = "next", ![c].batch = call[c].batch \ {e},
                             ![c].now = {}]
    BY <1>2 DEF Done
  <2> QED
    BY <1>2, <2>1 DEF CallType
<1> QED
  BY <1>1, <1>2

LEMMA InitConnectorTypeOK == CInit => ConnectorTypeOK
<1> SUFFICES ASSUME CInit PROVE ConnectorTypeOK
  OBVIOUS
<1>1. call \in [Calls -> CallType]
  BY IdleCall DEF CInit
<1> QED
  BY <1>1, AttemptsAssumption DEF CInit, ConnectorTypeOK, CallType

\* Every step keeps the types.
LEMMA NextConnectorTypeOK == ConnectorTypeOK /\ [CNext]_connectorVars => ConnectorTypeOK'
<1> SUFFICES ASSUME ConnectorTypeOK, [CNext]_connectorVars PROVE ConnectorTypeOK'
  OBVIOUS
<1>0. call \in [Calls -> CallType]
  BY DEF ConnectorTypeOK, CallType
<1>a. call' \in [Calls -> CallType] =>
         call' \in [Calls -> [pc : {"idle", "next", "applied", "failed", "letter"},
                              batch : SUBSET Events, now : SUBSET Events,
                              taken : [Events -> Nat]]]
  BY DEF CallType
<1> USE AttemptsAssumption
<1>1. ASSUME NEW e \in Events, EnqueueEvent(e) PROVE ConnectorTypeOK'
  BY <1>1 DEF EnqueueEvent, ConnectorTypeOK, history
<1>2. ASSUME NEW c \in Calls, Claim(c) PROVE ConnectorTypeOK'
  <2>1. PICK batch \in SUBSET Claimable :
           /\ state' = [e \in Events |-> IF e \in batch THEN "PROCESSING" ELSE state[e]]
           /\ call' = [call EXCEPT ![c] =
                          [pc |-> "next", batch |-> batch, now |-> {}, taken |-> attempts]]
    BY <1>2 DEF Claim
  <2>2. batch \subseteq Events
    BY DEF Claimable
  <2>3. call' \in [Calls -> CallType]
    BY <1>0, <2>1, <2>2 DEF CallType, ConnectorTypeOK
  <2> QED
    BY <1>2, <1>a, <2>1, <2>2, <2>3 DEF Claim, ConnectorTypeOK, history
<1>3. ASSUME NEW c \in Calls, NEW e \in Events,
             \/ NoEndpoint(c, e) \/ Apply(c, e) \/ ApplyFails(c, e) \/ MarkFails(c, e)
             \/ MarkDead(c, e)
      PROVE  ConnectorTypeOK'
  <2>1. call' \in [Calls -> CallType]
    BY <1>0, <1>3, GoToCall DEF NoEndpoint, Apply, ApplyFails, MarkFails, MarkDead
  <2>2. call[c].taken[e] + 1 \in Nat
    BY <1>0 DEF CallType
  <2>3. CASE NoEndpoint(c, e)
    BY <2>3, <1>a, <2>1 DEF NoEndpoint, ConnectorTypeOK, history
  <2>4. CASE MarkDead(c, e)
    BY <2>4, <1>a, <2>1, <2>2 DEF MarkDead, ConnectorTypeOK, history
  <2>5. CASE Apply(c, e)
    BY <2>5, <1>a, <2>1 DEF Apply, ConnectorTypeOK, rows
  <2>6. CASE ApplyFails(c, e)
    BY <2>6, <1>a, <2>1 DEF ApplyFails, ConnectorTypeOK, rows
  <2>7. CASE MarkFails(c, e)
    <3>1. state' \in [Events -> {"none", "PENDING", "PROCESSING", "RETRY", "PROCESSED",
                                 "DEAD_LETTER"}]
      BY <2>7 DEF MarkFails, ConnectorTypeOK
    <3> QED
      BY <2>7, <1>a, <2>1, <3>1 DEF MarkFails, DatabaseError, ConnectorTypeOK
  <2> QED
    BY <1>3, <2>3, <2>4, <2>5, <2>6, <2>7
<1>4. ASSUME NEW c \in Calls, NEW e \in Events,
             MarkProcessed(c, e) \/ MarkRetry(c, e) \/ WriteLetter(c, e)
      PROVE  ConnectorTypeOK'
  <2>1. call' \in [Calls -> CallType]
    BY <1>0, <1>4, DoneCall DEF MarkProcessed, MarkRetry, WriteLetter
  <2>2. call[c].taken[e] + 1 \in Nat
    BY <1>0 DEF CallType
  <2>3. CASE MarkProcessed(c, e)
    BY <2>3, <1>a, <2>1 DEF MarkProcessed, ConnectorTypeOK, history
  <2>4. CASE MarkRetry(c, e)
    BY <2>4, <1>a, <2>1, <2>2 DEF MarkRetry, ConnectorTypeOK, history
  <2>5. CASE WriteLetter(c, e)
    BY <2>5, <1>a, <2>1 DEF WriteLetter, LetterWritten, ConnectorTypeOK, history
  <2> QED
    BY <1>4, <2>3, <2>4, <2>5
<1>5. ASSUME NEW c \in Calls, CallDies(c) PROVE ConnectorTypeOK'
  <2>1. call' \in [Calls -> CallType]
    BY <1>0, <1>5, IdleCall DEF CallDies
  <2>2. call[c].batch \subseteq Events /\ call[c].now \subseteq Events
    BY <1>0 DEF CallType
  <2> QED
    BY <1>5, <1>a, <2>1, <2>2 DEF CallDies, DatabaseError, ConnectorTypeOK, rows
<1>6. ASSUME NEW q \in Retries, RetryEvent(q) \/ RetryLetter(q) \/ RetryDies(q)
      PROVE  ConnectorTypeOK'
  <2>1. CASE RetryEvent(q)
    <3>1. retrying' \in [Retries -> [pc : {"idle", "read", "moved"}, now : SUBSET Events]]
      BY <2>1 DEF RetryEvent, ConnectorTypeOK
    <3>2. retrying[q].now \subseteq Events
      BY DEF ConnectorTypeOK
    <3>3. late' \subseteq Events
      BY <2>1, <3>2 DEF RetryEvent, PutBack, ConnectorTypeOK
    <3> QED
      BY <2>1, <3>1, <3>3 DEF RetryEvent, PutBack, ConnectorTypeOK
  <2>2. CASE RetryLetter(q)
    BY <2>2 DEF RetryLetter, ConnectorTypeOK, history
  <2>3. CASE RetryDies(q)
    BY <2>3 DEF RetryDies, DatabaseError, ConnectorTypeOK, rows, history
  <2> QED
    BY <1>6, <2>1, <2>2, <2>3
<1>7. ASSUME NEW q \in Retries, NEW e \in Events, RetryRead(q, e) PROVE ConnectorTypeOK'
  BY <1>7 DEF RetryRead, ConnectorTypeOK, rows, history
<1>8. CASE RetryBatch
  BY <1>8 DEF RetryBatch, PutBack, Open, ConnectorTypeOK
<1>9. CASE UNCHANGED connectorVars
  BY <1>9 DEF connectorVars, ConnectorTypeOK, rows, history
<1> QED
  BY <1>1, <1>2, <1>3, <1>4, <1>5, <1>6, <1>7, <1>8, <1>9 DEF CNext, CallStep

\* Every variable has its type, whatever the requests do.
THEOREM ConnectorTypes == CSpec => []ConnectorTypeOK
  BY InitConnectorTypeOK, NextConnectorTypeOK, PTL DEF CSpec

-----------------------------------------------------------------------------
(* The inductive invariant.                                                *)

\* A request holds an event of its batch, or none.
CallInv ==
    \A c \in Calls :
        /\ call[c].pc = "idle" => call[c].batch = {}
        /\ call[c].pc \in {"idle", "next"} => call[c].now = {}
        /\ call[c].now \subseteq call[c].batch

\* The event of a request is PROCESSING until it is dead and has to get its letter, or
\* until it is PROCESSED and the request has not heard of that.
WorkInv ==
    \A c \in Calls : \A e \in Events \ late :
        Works(c, e) => IF At(c, "letter", e) THEN state[e] = "DEAD_LETTER"
                       ELSE \/ state[e] = "PROCESSING"
                            \/ state[e] = "PROCESSED" /\ At(c, "failed", e) /\ e \in unsure

\* A request that is about to write the letter has no PROCESSING event at hand.
StuckInv ==
    \A e \in Events :
        state[e] = "PROCESSING" =>
            e \in abandoned \/ \E c \in Calls : Works(c, e) /\ ~At(c, "letter", e)

\* What was applied is PROCESSED, or its request is about to say so.
AppliedInv ==
    \A e \in Events \ (unsure \cup late) :
        \/ applied[e] = 0
        \/ /\ applied[e] = 1
           /\ state[e] = "PROCESSED" \/ \E c \in Calls : At(c, "applied", e)

\* An attempt is left to an event that waits, and to one at work.
AttemptInv ==
    \A e \in Events :
        /\ attempts[e] <= MaxAttempts + replays[e]
        /\ state[e] \in {"none", "PENDING", "RETRY"} => attempts[e] < MaxAttempts + replays[e]
        /\ \A c \in Calls : Works(c, e) => call[c].taken[e] < MaxAttempts + replays[e]

ConnectorInv ==
    /\ ConnectorTypeOK /\ CallInv /\ WorkInv /\ ClaimIsExclusive /\ StuckInv
    /\ DeadHasLetter /\ AppliedInv /\ AttemptInv

-----------------------------------------------------------------------------
(* Every step keeps it.                                                    *)

\* What is compared is numbers.
LEMMA Numbers ==
  ASSUME ConnectorTypeOK
  PROVE  /\ \A e \in Events : attempts[e] \in Nat /\ replays[e] \in Nat /\ applied[e] \in Nat
         /\ \A c \in Calls : \A e \in Events : call[c].taken[e] \in Nat
  BY DEF ConnectorTypeOK

\* A new event has all its attempts.
LEMMA EnqueueInv ==
  ASSUME ConnectorInv, ConnectorTypeOK', NEW e \in Events, EnqueueEvent(e)
  PROVE  ConnectorInv'
<1>0. ConnectorTypeOK /\ call \in [Calls -> CallType]
  BY DEF ConnectorInv, ConnectorTypeOK, CallType
<1>1. /\ state[e] = "none" /\ state'[e] = "PENDING"
      /\ \A f \in Events \ {e} : state'[f] = state[f]
      /\ UNCHANGED <<attempts, letter, call, applied, unsure, abandoned, late, replays>>
  BY <1>0 DEF ConnectorTypeOK, EnqueueEvent, history
<1>2. /\ CallInv /\ WorkInv /\ ClaimIsExclusive /\ StuckInv
      /\ DeadHasLetter /\ AppliedInv /\ AttemptInv
  BY DEF ConnectorInv
<1>3. CallInv'
  BY <1>1, <1>2 DEF CallInv
<1>4. WorkInv'
  BY <1>1, <1>2 DEF WorkInv, ClaimIsExclusive, CallInv, Works, At
<1>5. ClaimIsExclusive'
  BY <1>1, <1>2 DEF ClaimIsExclusive, WorkInv, Works, At
<1>6. StuckInv'
  BY <1>1, <1>2 DEF StuckInv, CallInv, Works, At
<1>7. DeadHasLetter'
  BY <1>1, <1>2 DEF DeadHasLetter, CallInv, At
<1>8. AppliedInv'
  BY <1>1, <1>2 DEF AppliedInv, WorkInv, ClaimIsExclusive, CallInv, Works, At
<1>9. AttemptInv'
  BY <1>1, <1>2, <1>0, Numbers, AttemptsAssumption DEF AttemptInv, Works
<1> QED
  BY <1>3, <1>4, <1>5, <1>6, <1>7, <1>8, <1>9 DEF ConnectorInv

\* What is claimed nobody works on, unless it was put back late.
LEMMA ClaimInv ==
  ASSUME ConnectorInv, ConnectorTypeOK', NEW c \in Calls, Claim(c)
  PROVE  ConnectorInv'
<1>0. ConnectorTypeOK /\ call \in [Calls -> CallType]
  BY DEF ConnectorInv, ConnectorTypeOK, CallType
<1>1. PICK batch \in SUBSET Claimable :
         /\ state' = [e \in Events |-> IF e \in batch THEN "PROCESSING" ELSE state[e]]
         /\ call' = [call EXCEPT ![c] =
                        [pc |-> "next", batch |-> batch, now |-> {}, taken |-> attempts]]
  BY DEF Claim
<1>2. /\ call'[c].pc = "next" /\ call'[c].batch = batch /\ call'[c].now = {}
      /\ call'[c].taken = attempts
      /\ \A d \in Calls \ {c} : call'[d] = call[d]
      /\ call[c].pc = "idle" /\ call[c].batch = {} /\ call[c].now = {}
  BY <1>0, <1>1 DEF Claim, ConnectorInv, CallInv
<1>3. /\ \A e \in batch : e \in Events /\ state[e] \in {"PENDING", "RETRY"}
      /\ \A e \in batch : state'[e] = "PROCESSING"
      /\ \A e \in Events \ batch : state'[e] = state[e]
  BY <1>1 DEF Claimable
<1>4. UNCHANGED <<attempts, letter, applied, unsure, abandoned, late, replays>>
  BY DEF Claim, history
<1>5. /\ CallInv /\ WorkInv /\ ClaimIsExclusive /\ StuckInv
      /\ DeadHasLetter /\ AppliedInv /\ AttemptInv
  BY DEF ConnectorInv
<1>6. CallInv'
  BY <1>1, <1>2, <1>3, <1>4, <1>5 DEF CallInv
<1>7. WorkInv'
  BY <1>1, <1>2, <1>3, <1>4, <1>5 DEF WorkInv, ClaimIsExclusive, CallInv, Works, At
<1>8. ClaimIsExclusive'
  BY <1>1, <1>2, <1>3, <1>4, <1>5 DEF ClaimIsExclusive, WorkInv, Works, At
<1>9. StuckInv'
  BY <1>1, <1>2, <1>3, <1>4, <1>5 DEF StuckInv, CallInv, Works, At
<1>10. DeadHasLetter'
  BY <1>1, <1>2, <1>3, <1>4, <1>5 DEF DeadHasLetter, CallInv, At
<1>11. AppliedInv'
  BY <1>1, <1>2, <1>3, <1>4, <1>5
     DEF AppliedInv, WorkInv, ClaimIsExclusive, CallInv, Works, At
<1>12. AttemptInv'
  BY <1>1, <1>2, <1>3, <1>4, <1>5, <1>0, Numbers, AttemptsAssumption DEF AttemptInv, Works
<1> QED
  BY <1>6, <1>7, <1>8, <1>9, <1>10, <1>11, <1>12 DEF ConnectorInv

\* A dead event has yet to get its letter from the request that found it so.
LEMMA NoEndpointInv ==
  ASSUME ConnectorInv, ConnectorTypeOK', NEW c \in Calls, NEW e \in Events, NoEndpoint(c, e)
  PROVE  ConnectorInv'
<1>0. ConnectorTypeOK /\ call \in [Calls -> CallType]
  BY DEF ConnectorInv, ConnectorTypeOK, CallType
<1>1. /\ \A d \in Calls \ {c} : call'[d] = call[d]
      /\ call'[c].pc = "letter" /\ call'[c].now = {e}
      /\ call'[c].batch = call[c].batch /\ call'[c].taken = call[c].taken
  BY <1>0, GoToCall DEF NoEndpoint
<1>2. /\ call[c].pc = "next" /\ e \in call[c].batch
      /\ state'[e] = "DEAD_LETTER" /\ (\A f \in Events \ {e} : state'[f] = state[f])
      /\ attempts'[e] = MaxAttempts /\ (\A f \in Events \ {e} : attempts'[f] = attempts[f])
      /\ UNCHANGED <<letter, applied, unsure, abandoned, late, replays>>
  BY <1>0 DEF ConnectorTypeOK, NoEndpoint, Works, history
<1>3. MaxAttempts \in Nat
  BY AttemptsAssumption
<1>4. /\ CallInv /\ WorkInv /\ ClaimIsExclusive /\ StuckInv
      /\ DeadHasLetter /\ AppliedInv /\ AttemptInv
  BY DEF ConnectorInv
<1>5. CallInv'
  BY <1>1, <1>2, <1>3, <1>4 DEF CallInv
<1>6. WorkInv'
  BY <1>1, <1>2, <1>3, <1>4 DEF WorkInv, ClaimIsExclusive, CallInv, Works, At
<1>7. ClaimIsExclusive'
  BY <1>1, <1>2, <1>3, <1>4 DEF ClaimIsExclusive, WorkInv, Works, At
<1>8. StuckInv'
  BY <1>1, <1>2, <1>3, <1>4 DEF StuckInv, CallInv, Works, At
<1>9. DeadHasLetter'
  BY <1>1, <1>2, <1>3, <1>4 DEF DeadHasLetter, CallInv, At
<1>10. AppliedInv'
  BY <1>1, <1>2, <1>3, <1>4 DEF AppliedInv, WorkInv, ClaimIsExclusive, CallInv, Works, At
<1>11. AttemptInv'
  BY <1>1, <1>2, <1>3, <1>4, <1>0, Numbers, AttemptsAssumption DEF AttemptInv, Works
<1> QED
  BY <1>5, <1>6, <1>7, <1>8, <1>9, <1>10, <1>11 DEF ConnectorInv

\* An event at work that is not late was not applied before.
LEMMA ApplyInv ==
  ASSUME ConnectorInv, ConnectorTypeOK', NEW c \in Calls, NEW e \in Events, Apply(c, e)
  PROVE  ConnectorInv'
<1>0. ConnectorTypeOK /\ call \in [Calls -> CallType]
  BY DEF ConnectorInv, ConnectorTypeOK, CallType
<1>1. /\ \A d \in Calls \ {c} : call'[d] = call[d]
      /\ call'[c].pc = "applied" /\ call'[c].now = {e}
      /\ call'[c].batch = call[c].batch /\ call'[c].taken = call[c].taken
  BY <1>0, GoToCall DEF Apply
<1>2. /\ call[c].pc = "next" /\ e \in call[c].batch
      /\ applied'[e] = applied[e] + 1 /\ (\A f \in Events \ {e} : applied'[f] = applied[f])
      /\ UNCHANGED <<state, attempts, letter, unsure, abandoned, late, replays>>
  BY <1>0 DEF ConnectorTypeOK, Apply, Works, rows
<1>3. /\ CallInv /\ WorkInv /\ ClaimIsExclusive /\ StuckInv
      /\ DeadHasLetter /\ AppliedInv /\ AttemptInv
  BY DEF ConnectorInv
<1>4. CallInv'
  BY <1>1, <1>2, <1>3 DEF CallInv
<1>5. WorkInv'
  BY <1>1, <1>2, <1>3 DEF WorkInv, ClaimIsExclusive, CallInv, Works, At
<1>6. ClaimIsExclusive'
  BY <1>1, <1>2, <1>3 DEF ClaimIsExclusive, WorkInv, Works, At
<1>7. StuckInv'
  BY <1>1, <1>2, <1>3 DEF StuckInv, CallInv, Works, At
<1>8. DeadHasLetter'
  BY <1>1, <1>2, <1>3 DEF DeadHasLetter, CallInv, At
<1>9. AppliedInv'
  BY <1>1, <1>2, <1>3 DEF AppliedInv, WorkInv, ClaimIsExclusive, CallInv, Works, At
<1>10. AttemptInv'
  BY <1>1, <1>2, <1>3, <1>0, Numbers, AttemptsAssumption DEF AttemptInv, Works
<1> QED
  BY <1>4, <1>5, <1>6, <1>7, <1>8, <1>9, <1>10 DEF ConnectorInv

\* What failed in part is unsure.
LEMMA ApplyFailsInv ==
  ASSUME ConnectorInv, ConnectorTypeOK', NEW c \in Calls, NEW e \in Events, ApplyFails(c, e)
  PROVE  ConnectorInv'
<1>0. ConnectorTypeOK /\ call \in [Calls -> CallType]
  BY DEF ConnectorInv, ConnectorTypeOK, CallType
<1>1. /\ \A d \in Calls \ {c} : call'[d] = call[d]
      /\ call'[c].pc = "failed" /\ call'[c].now = {e}
      /\ call'[c].batch = call[c].batch /\ call'[c].taken = call[c].taken
  BY <1>0, GoToCall DEF ApplyFails
<1>2. /\ call[c].pc = "next" /\ e \in call[c].batch /\ unsure \subseteq unsure'
      /\ UNCHANGED <<state, attempts, letter, applied, abandoned, late, replays>>
  BY DEF ApplyFails, Works, rows
<1>3. /\ CallInv /\ WorkInv /\ ClaimIsExclusive /\ StuckInv
      /\ DeadHasLetter /\ AppliedInv /\ AttemptInv
  BY DEF ConnectorInv
<1>4. CallInv'
  BY <1>1, <1>2, <1>3 DEF CallInv
<1>5. WorkInv'
  BY <1>1, <1>2, <1>3 DEF WorkInv, ClaimIsExclusive, CallInv, Works, At
<1>6. ClaimIsExclusive'
  BY <1>1, <1>2, <1>3 DEF ClaimIsExclusive, WorkInv, Works, At
<1>7. StuckInv'
  BY <1>1, <1>2, <1>3 DEF StuckInv, CallInv, Works, At
<1>8. DeadHasLetter'
  BY <1>1, <1>2, <1>3 DEF DeadHasLetter, CallInv, At
<1>9. AppliedInv'
  BY <1>1, <1>2, <1>3 DEF AppliedInv, WorkInv, ClaimIsExclusive, CallInv, Works, At
<1>10. AttemptInv'
  BY <1>1, <1>2, <1>3, <1>0, Numbers, AttemptsAssumption DEF AttemptInv, Works
<1> QED
  BY <1>4, <1>5, <1>6, <1>7, <1>8, <1>9, <1>10 DEF ConnectorInv

\* What was applied and could not be marked is unsure.
LEMMA MarkFailsInv ==
  ASSUME ConnectorInv, ConnectorTypeOK', NEW c \in Calls, NEW e \in Events, MarkFails(c, e)
  PROVE  ConnectorInv'
<1>0. ConnectorTypeOK /\ call \in [Calls -> CallType]
  BY DEF ConnectorInv, ConnectorTypeOK, CallType
<1>1. /\ \A d \in Calls \ {c} : call'[d] = call[d]
      /\ call'[c].pc = "failed" /\ call'[c].now = {e}
      /\ call'[c].batch = call[c].batch /\ call'[c].taken = call[c].taken
  BY <1>0, GoToCall DEF MarkFails
<1>2. /\ call[c].pc = "applied" /\ call[c].now = {e} /\ unsure' = unsure \cup {e}
      /\ state'[e] \in {state[e], "PROCESSED"} /\ \A f \in Events \ {e} : state'[f] = state[f]
      /\ UNCHANGED <<attempts, letter, applied, abandoned, late, replays>>
  BY <1>0 DEF ConnectorTypeOK, MarkFails, At
<1>3. /\ CallInv /\ WorkInv /\ ClaimIsExclusive /\ StuckInv
      /\ DeadHasLetter /\ AppliedInv /\ AttemptInv
  BY DEF ConnectorInv
<1>4. CallInv'
  BY <1>1, <1>2, <1>3 DEF CallInv
<1>5. WorkInv'
  BY <1>1, <1>2, <1>3 DEF WorkInv, ClaimIsExclusive, CallInv, Works, At
<1>6. ClaimIsExclusive'
  BY <1>1, <1>2, <1>3 DEF ClaimIsExclusive, WorkInv, Works, At
<1>7. StuckInv'
  BY <1>1, <1>2, <1>3 DEF StuckInv, CallInv, Works, At
<1>8. DeadHasLetter'
  BY <1>1, <1>2, <1>3 DEF DeadHasLetter, CallInv, At
<1>9. AppliedInv'
  BY <1>1, <1>2, <1>3 DEF AppliedInv, WorkInv, ClaimIsExclusive, CallInv, Works, At
<1>10. AttemptInv'
  BY <1>1, <1>2, <1>3, <1>0, Numbers, AttemptsAssumption DEF AttemptInv, Works
<1> QED
  BY <1>4, <1>5, <1>6, <1>7, <1>8, <1>9, <1>10 DEF ConnectorInv

\* The last attempt ends in the letter.
LEMMA MarkDeadInv ==
  ASSUME ConnectorInv, ConnectorTypeOK', NEW c \in Calls, NEW e \in Events, MarkDead(c, e)
  PROVE  ConnectorInv'
<1>0. ConnectorTypeOK /\ call \in [Calls -> CallType]
  BY DEF ConnectorInv, ConnectorTypeOK, CallType
<1>1. /\ \A d \in Calls \ {c} : call'[d] = call[d]
      /\ call'[c].pc = "letter" /\ call'[c].now = {e}
      /\ call'[c].batch = call[c].batch /\ call'[c].taken = call[c].taken
  BY <1>0, GoToCall DEF MarkDead
<1>2. /\ call[c].pc = "failed" /\ call[c].now = {e}
      /\ state'[e] = "DEAD_LETTER" /\ (\A f \in Events \ {e} : state'[f] = state[f])
      /\ UNCHANGED <<letter, applied, unsure, abandoned, late, replays>>
      /\ At(c, "letter", e)'
  BY <1>0, <1>1 DEF ConnectorTypeOK, MarkDead, At, history
<1>3. /\ attempts'[e] = call[c].taken[e] + 1
      /\ \A f \in Events \ {e} : attempts'[f] = attempts[f]
  BY <1>0 DEF ConnectorTypeOK, MarkDead
<1>4. MaxAttempts \in Nat /\ e \in call[c].batch /\ call[c].taken[e] \in Nat
  BY <1>0, <1>2, AttemptsAssumption DEF ConnectorInv, CallInv, CallType
<1>5. /\ CallInv /\ WorkInv /\ ClaimIsExclusive /\ StuckInv
      /\ DeadHasLetter /\ AppliedInv /\ AttemptInv
  BY DEF ConnectorInv
<1>6. CallInv'
  BY <1>1, <1>2, <1>3, <1>4, <1>5 DEF CallInv
<1>7. WorkInv'
  BY <1>1, <1>2, <1>3, <1>4, <1>5 DEF WorkInv, ClaimIsExclusive, CallInv, Works, At
<1>8. ClaimIsExclusive'
  BY <1>1, <1>2, <1>3, <1>4, <1>5 DEF ClaimIsExclusive, WorkInv, Works, At
<1>9. StuckInv'
  BY <1>1, <1>2, <1>3, <1>4, <1>5 DEF StuckInv, CallInv, Works, At
<1>10. DeadHasLetter'
  BY <1>1, <1>2, <1>5 DEF DeadHasLetter, CallInv, At
<1>11. AppliedInv'
  BY <1>1, <1>2, <1>5 DEF AppliedInv, WorkInv, ClaimIsExclusive, CallInv, Works, At
<1>12. AttemptInv'
  BY <1>1, <1>2, <1>3, <1>4, <1>5, <1>0, Numbers, AttemptsAssumption DEF AttemptInv, Works
<1> QED
  BY <1>6, <1>7, <1>8, <1>9, <1>10, <1>11, <1>12 DEF ConnectorInv

\* An outcome is recorded by the one request that has the event.
LEMMA MarkProcessedInv ==
  ASSUME ConnectorInv, ConnectorTypeOK', NEW c \in Calls, NEW e \in Events, MarkProcessed(c, e)
  PROVE  ConnectorInv'
<1>0. ConnectorTypeOK /\ call \in [Calls -> CallType]
  BY DEF ConnectorInv, ConnectorTypeOK, CallType
<1>1. /\ \A d \in Calls \ {c} : call'[d] = call[d]
      /\ call'[c].pc \in {"idle", "next"} /\ call'[c].now = {}
      /\ call'[c].pc = "idle" => call'[c].batch = {}
      /\ call'[c].batch = call[c].batch \ {e}
      /\ call'[c].batch # {} => call'[c].taken = call[c].taken
  BY <1>0, DoneCall DEF MarkProcessed
<1>2. /\ call[c].pc = "applied" /\ call[c].now = {e}
      /\ state'[e] = "PROCESSED" /\ (\A f \in Events \ {e} : state'[f] = state[f])
      /\ UNCHANGED <<attempts, letter, applied, unsure, abandoned, late, replays>>
  BY <1>0 DEF ConnectorTypeOK, MarkProcessed, At, history
<1>3. /\ CallInv /\ WorkInv /\ ClaimIsExclusive /\ StuckInv
      /\ DeadHasLetter /\ AppliedInv /\ AttemptInv
  BY DEF ConnectorInv
<1>4. CallInv'
  BY <1>1, <1>2, <1>3 DEF CallInv
<1>5. WorkInv'
  BY <1>1, <1>2, <1>3 DEF WorkInv, ClaimIsExclusive, CallInv, Works, At
<1>6. ClaimIsExclusive'
  BY <1>1, <1>2, <1>3 DEF ClaimIsExclusive, WorkInv, Works, At
<1>7. StuckInv'
  BY <1>1, <1>2, <1>3 DEF StuckInv, CallInv, Works, At
<1>8. DeadHasLetter'
  BY <1>1, <1>2, <1>3 DEF DeadHasLetter, CallInv, At
<1>9. AppliedInv'
  BY <1>1, <1>2, <1>3 DEF AppliedInv, WorkInv, ClaimIsExclusive, CallInv, Works, At
<1>10. AttemptInv'
  BY <1>1, <1>2, <1>3, <1>0, Numbers, AttemptsAssumption DEF AttemptInv, Works
<1> QED
  BY <1>4, <1>5, <1>6, <1>7, <1>8, <1>9, <1>10 DEF ConnectorInv

\* An event that waits again has an attempt left.
LEMMA MarkRetryInv ==
  ASSUME ConnectorInv, ConnectorTypeOK', NEW c \in Calls, NEW e \in Events, MarkRetry(c, e)
  PROVE  ConnectorInv'
<1>0. ConnectorTypeOK /\ call \in [Calls -> CallType]
  BY DEF ConnectorInv, ConnectorTypeOK, CallType
<1>1. /\ \A d \in Calls \ {c} : call'[d] = call[d]
      /\ call'[c].pc \in {"idle", "next"} /\ call'[c].now = {}
      /\ call'[c].pc = "idle" => call'[c].batch = {}
      /\ call'[c].batch = call[c].batch \ {e}
      /\ call'[c].batch # {} => call'[c].taken = call[c].taken
  BY <1>0, DoneCall DEF MarkRetry
<1>2. /\ call[c].pc = "failed" /\ call[c].now = {e}
      /\ state'[e] = "RETRY" /\ (\A f \in Events \ {e} : state'[f] = state[f])
      /\ attempts'[e] = call[c].taken[e] + 1
      /\ \A f \in Events \ {e} : attempts'[f] = attempts[f]
      /\ UNCHANGED <<letter, applied, unsure, abandoned, late, replays>>
  BY <1>0 DEF ConnectorTypeOK, MarkRetry, At, history
<1>3. call[c].taken[e] + 1 < MaxAttempts /\ call[c].taken[e] \in Nat /\ MaxAttempts \in Nat
  BY <1>0, AttemptsAssumption DEF MarkRetry, Last, CallType
<1>4. /\ CallInv /\ WorkInv /\ ClaimIsExclusive /\ StuckInv
      /\ DeadHasLetter /\ AppliedInv /\ AttemptInv
  BY DEF ConnectorInv
<1>5. CallInv'
  BY <1>1, <1>2, <1>3, <1>4 DEF CallInv
<1>6. WorkInv'
  BY <1>1, <1>2, <1>3, <1>4 DEF WorkInv, ClaimIsExclusive, CallInv, Works, At
<1>7. ClaimIsExclusive'
  BY <1>1, <1>2, <1>3, <1>4 DEF ClaimIsExclusive, WorkInv, Works, At
<1>8. StuckInv'
  BY <1>1, <1>2, <1>3, <1>4 DEF StuckInv, CallInv, Works, At
<1>9. DeadHasLetter'
  BY <1>1, <1>2, <1>3, <1>4 DEF DeadHasLetter, CallInv, At
<1>10. AppliedInv'
  BY <1>1, <1>2, <1>3, <1>4 DEF AppliedInv, WorkInv, ClaimIsExclusive, CallInv, Works, At
<1>11. AttemptInv'
  BY <1>1, <1>2, <1>3, <1>4, <1>0, Numbers, AttemptsAssumption DEF AttemptInv, Works
<1> QED
  BY <1>5, <1>6, <1>7, <1>8, <1>9, <1>10, <1>11 DEF ConnectorInv

\* The letter ends the work on a dead event.
LEMMA WriteLetterInv ==
  ASSUME ConnectorInv, ConnectorTypeOK', NEW c \in Calls, NEW e \in Events, WriteLetter(c, e)
  PROVE  ConnectorInv'
<1>0. ConnectorTypeOK /\ call \in [Calls -> CallType]
  BY DEF ConnectorInv, ConnectorTypeOK, CallType
<1>1. /\ \A d \in Calls \ {c} : call'[d] = call[d]
      /\ call'[c].pc \in {"idle", "next"} /\ call'[c].now = {}
      /\ call'[c].pc = "idle" => call'[c].batch = {}
      /\ call'[c].batch = call[c].batch \ {e}
      /\ call'[c].batch # {} => call'[c].taken = call[c].taken
  BY <1>0, DoneCall DEF WriteLetter
<1>2. /\ call[c].pc = "letter" /\ call[c].now = {e}
      /\ letter'[e] # "none" /\ (\A f \in Events \ {e} : letter'[f] = letter[f])
      /\ UNCHANGED <<state, attempts, applied, unsure, abandoned, late, replays>>
  BY <1>0 DEF ConnectorTypeOK, WriteLetter, LetterWritten, At, history
<1>3. /\ CallInv /\ WorkInv /\ ClaimIsExclusive /\ StuckInv
      /\ DeadHasLetter /\ AppliedInv /\ AttemptInv
  BY DEF ConnectorInv
<1>4. CallInv'
  BY <1>1, <1>2, <1>3 DEF CallInv
<1>5. WorkInv'
  BY <1>1, <1>2, <1>3 DEF WorkInv, ClaimIsExclusive, CallInv, Works, At
<1>6. ClaimIsExclusive'
  BY <1>1, <1>2, <1>3 DEF ClaimIsExclusive, WorkInv, Works, At
<1>7. StuckInv'
  BY <1>1, <1>2, <1>3 DEF StuckInv, CallInv, Works, At
<1>8. DeadHasLetter'
  BY <1>1, <1>2, <1>3 DEF DeadHasLetter, CallInv, At
<1>9. AppliedInv'
  BY <1>1, <1>2, <1>3 DEF AppliedInv, WorkInv, ClaimIsExclusive, CallInv, Works, At
<1>10. AttemptInv'
  BY <1>1, <1>2, <1>3, <1>0, Numbers, AttemptsAssumption DEF AttemptInv, Works
<1> QED
  BY <1>4, <1>5, <1>6, <1>7, <1>8, <1>9, <1>10 DEF ConnectorInv

\* What a request leaves behind is abandoned, and unsure if it was applied.
LEMMA CallDiesInv ==
  ASSUME ConnectorInv, ConnectorTypeOK', NEW c \in Calls, CallDies(c)
  PROVE  ConnectorInv'
<1>0. ConnectorTypeOK /\ call \in [Calls -> CallType]
  BY DEF ConnectorInv, ConnectorTypeOK, CallType
<1>1. call' = [call EXCEPT ![c] = CallIdle]
  BY DEF CallDies
<1>2. /\ \A d \in Calls \ {c} : call'[d] = call[d]
      /\ call'[c].pc = "idle" /\ call'[c].batch = {} /\ call'[c].now = {}
  BY <1>0, <1>1, IdleCall
<1>3. /\ abandoned' = abandoned \cup call[c].batch
      /\ unsure' = IF call[c].pc = "applied" THEN unsure \cup call[c].now ELSE unsure
      /\ UNCHANGED <<state, attempts, letter, applied, late, replays>>
  BY DEF CallDies, rows
<1>4. /\ CallInv /\ WorkInv /\ ClaimIsExclusive /\ StuckInv
      /\ DeadHasLetter /\ AppliedInv /\ AttemptInv
  BY DEF ConnectorInv
<1>5. CallInv'
  BY <1>1, <1>2, <1>3, <1>4 DEF CallInv
<1>6. WorkInv'
  BY <1>1, <1>2, <1>3, <1>4 DEF WorkInv, ClaimIsExclusive, CallInv, Works, At
<1>7. ClaimIsExclusive'
  BY <1>1, <1>2, <1>3, <1>4 DEF ClaimIsExclusive, WorkInv, Works, At
<1>8. StuckInv'
  BY <1>1, <1>2, <1>3, <1>4 DEF StuckInv, CallInv, Works, At
<1>9. DeadHasLetter'
  BY <1>1, <1>2, <1>3, <1>4 DEF DeadHasLetter, CallInv, At
<1>10. AppliedInv'
  BY <1>1, <1>2, <1>3, <1>4 DEF AppliedInv, WorkInv, ClaimIsExclusive, CallInv, Works, At
<1>11. AttemptInv'
  BY <1>1, <1>2, <1>3, <1>4, <1>0, Numbers, AttemptsAssumption DEF AttemptInv, Works
<1> QED
  BY <1>5, <1>6, <1>7, <1>8, <1>9, <1>10, <1>11 DEF ConnectorInv

\* A retry that comes late takes its event out of what the invariant says.
LEMMA PutBackInv ==
  ASSUME ConnectorInv, ConnectorTypeOK', NEW S \in SUBSET Events, PutBack(S),
         UNCHANGED <<attempts, call, applied, unsure, abandoned>>,
         \A e \in Events : letter'[e] = letter[e] \/ letter'[e] # "none"
  PROVE  ConnectorInv'
<1>0. ConnectorTypeOK /\ call \in [Calls -> CallType]
  BY DEF ConnectorInv, ConnectorTypeOK, CallType
<1>1. /\ \A e \in S : state'[e] = "RETRY" /\ replays'[e] = replays[e] + 1
      /\ \A e \in Events \ S : state'[e] = state[e] /\ replays'[e] = replays[e]
      /\ late \subseteq late'
      /\ \A e \in S \ late' : state[e] = "DEAD_LETTER" /\ \A c \in Calls : ~Works(c, e)
  BY DEF PutBack
<1>2. MaxAttempts \in Nat
  BY AttemptsAssumption
<1>3. /\ CallInv /\ WorkInv /\ ClaimIsExclusive /\ StuckInv
      /\ DeadHasLetter /\ AppliedInv /\ AttemptInv
  BY DEF ConnectorInv
<1>4. CallInv'
  BY <1>1, <1>2, <1>3 DEF CallInv
<1>5. WorkInv'
  BY <1>1, <1>2, <1>3 DEF WorkInv, ClaimIsExclusive, CallInv, Works, At
<1>6. ClaimIsExclusive'
  BY <1>1, <1>2, <1>3 DEF ClaimIsExclusive, WorkInv, Works, At
<1>7. StuckInv'
  BY <1>1, <1>2, <1>3 DEF StuckInv, CallInv, Works, At
<1>8. DeadHasLetter'
  BY <1>1, <1>2, <1>3 DEF DeadHasLetter, CallInv, At
<1>9. AppliedInv'
  BY <1>1, <1>2, <1>3 DEF AppliedInv, WorkInv, ClaimIsExclusive, CallInv, Works, At
<1>10. AttemptInv'
  BY <1>1, <1>2, <1>3, <1>0, Numbers, AttemptsAssumption DEF AttemptInv, Works
<1> QED
  BY <1>4, <1>5, <1>6, <1>7, <1>8, <1>9, <1>10 DEF ConnectorInv

\* What only marks a letter disturbs nothing.
LEMMA LetterInv ==
  ASSUME ConnectorInv, ConnectorTypeOK',
         UNCHANGED <<state, attempts, call, applied, unsure, abandoned, late, replays>>,
         \A e \in Events : letter'[e] = letter[e] \/ letter'[e] # "none"
  PROVE  ConnectorInv'
<1>0. ConnectorTypeOK /\ call \in [Calls -> CallType]
  BY DEF ConnectorInv, ConnectorTypeOK, CallType
<1>1. /\ CallInv /\ WorkInv /\ ClaimIsExclusive /\ StuckInv
      /\ DeadHasLetter /\ AppliedInv /\ AttemptInv
  BY DEF ConnectorInv
<1>2. CallInv'
  BY <1>1 DEF CallInv
<1>3. WorkInv'
  BY <1>1 DEF WorkInv, ClaimIsExclusive, CallInv, Works, At
<1>4. ClaimIsExclusive'
  BY <1>1 DEF ClaimIsExclusive, WorkInv, Works, At
<1>5. StuckInv'
  BY <1>1 DEF StuckInv, CallInv, Works, At
<1>6. DeadHasLetter'
  BY <1>1 DEF DeadHasLetter, CallInv, At
<1>7. AppliedInv'
  BY <1>1 DEF AppliedInv, WorkInv, ClaimIsExclusive, CallInv, Works, At
<1>8. AttemptInv'
  BY <1>1, <1>0, Numbers, AttemptsAssumption DEF AttemptInv, Works
<1> QED
  BY <1>2, <1>3, <1>4, <1>5, <1>6, <1>7, <1>8 DEF ConnectorInv

\* Every step keeps the invariant.
LEMMA NextConnectorInv == ConnectorInv /\ [CNext]_connectorVars => ConnectorInv'
<1> SUFFICES ASSUME ConnectorInv, [CNext]_connectorVars PROVE ConnectorInv'
  OBVIOUS
<1>0. ConnectorTypeOK'
  BY NextConnectorTypeOK DEF ConnectorInv
<1>1. ASSUME NEW e \in Events, EnqueueEvent(e) PROVE ConnectorInv'
  BY <1>0, <1>1, EnqueueInv
<1>2. ASSUME NEW c \in Calls, Claim(c) \/ CallDies(c) PROVE ConnectorInv'
  BY <1>0, <1>2, ClaimInv, CallDiesInv
<1>3. ASSUME NEW c \in Calls, CallStep(c) PROVE ConnectorInv'
  BY <1>0, <1>3, NoEndpointInv, ApplyInv, ApplyFailsInv, MarkProcessedInv, MarkRetryInv,
     MarkDeadInv, WriteLetterInv DEF CallStep
<1>4. ASSUME NEW c \in Calls, NEW e \in Events, MarkFails(c, e) PROVE ConnectorInv'
  BY <1>0, <1>4, MarkFailsInv
<1>5. ASSUME NEW q \in Retries, RetryEvent(q) PROVE ConnectorInv'
  <2>1. retrying[q].now \in SUBSET Events
    BY DEF ConnectorInv, ConnectorTypeOK
  <2>2. PutBack(retrying[q].now) /\ UNCHANGED <<attempts, letter, call, applied, unsure, abandoned>>
    BY <1>5 DEF RetryEvent
  <2> QED
    BY <1>0, <2>1, <2>2, PutBackInv
<1>6. ASSUME NEW q \in Retries, RetryLetter(q) \/ RetryDies(q) PROVE ConnectorInv'
  <2>1. UNCHANGED <<state, attempts, call, applied, unsure, abandoned, late, replays>>
    BY <1>6 DEF RetryLetter, RetryDies, rows, history
  <2>2. \A e \in Events : letter'[e] = letter[e] \/ letter'[e] # "none"
    BY <1>6 DEF RetryLetter, RetryDies, rows
  <2> QED
    BY <1>0, <2>1, <2>2, LetterInv
<1>7. ASSUME NEW q \in Retries, NEW e \in Events, RetryRead(q, e) PROVE ConnectorInv'
  <2>1. UNCHANGED <<rows, call, history>>
    BY <1>7 DEF RetryRead
  <2> QED
    BY <1>0, <2>1, LetterInv DEF rows, history
<1>8. CASE RetryBatch
  <2>1. PICK S \in SUBSET Open :
           /\ PutBack(S)
           /\ letter' = [e \in Events |-> IF e \in S THEN "REPLAYED" ELSE letter[e]]
    BY <1>8 DEF RetryBatch
  <2>2. S \in SUBSET Events /\ \A e \in Events : letter'[e] = letter[e] \/ letter'[e] # "none"
    BY <2>1 DEF Open
  <2>3. UNCHANGED <<attempts, call, applied, unsure, abandoned>>
    BY <1>8 DEF RetryBatch
  <2> QED
    BY <1>0, <2>1, <2>2, <2>3, PutBackInv
<1>9. CASE UNCHANGED connectorVars
  BY <1>0, <1>9, LetterInv DEF connectorVars, rows, history
<1> QED
  BY <1>1, <1>2, <1>3, <1>4, <1>5, <1>6, <1>7, <1>8, <1>9 DEF CNext

LEMMA InitConnectorInv == CInit => ConnectorInv
<1> SUFFICES ASSUME CInit PROVE ConnectorInv
  OBVIOUS
<1>0. ConnectorTypeOK
  BY InitConnectorTypeOK
<1>1. \A c \in Calls : call[c].pc = "idle" /\ call[c].batch = {} /\ call[c].now = {}
  BY IdleCall DEF CInit
<1>2. AttemptInv
  BY <1>1, AttemptsAssumption DEF CInit, AttemptInv, Works
<1> QED
  BY <1>0, <1>1, <1>2 DEF CInit, ConnectorInv, CallInv, WorkInv, ClaimIsExclusive, StuckInv,
                          DeadHasLetter, AppliedInv, Works, At

LEMMA ConnectorInvHolds == CSpec => []ConnectorInv
  BY InitConnectorInv, NextConnectorInv, PTL DEF CSpec

-----------------------------------------------------------------------------
(* How often an event can still be applied.                                *)

\* The requests that have an event and have not applied it.
Holding(e) == {c \in Calls : Works(c, e) /\ ~At(c, "applied", e)}

\* An event that can be claimed stands for one application more.
Waits(e) == IF state[e] \in {"none", "PENDING", "RETRY"} THEN 1 ELSE 0

\* An event has one chance until it has a letter, and one for each time it is put back.
Chances(e) == replays[e] + IF letter[e] = "none" THEN 1 ELSE 0

ChanceInv ==
    \A e \in Events \ unsure :
        applied[e] + Cardinality(Holding(e)) + Waits(e) <= Chances(e)

\* Only an event with a letter is put back.
LettersInv ==
    /\ \A e \in late : letter[e] # "none"
    /\ \A q \in Retries : \A e \in retrying[q].now : letter[e] # "none"

\* A letter is never withdrawn.
LEMMA LettersStay ==
  ASSUME ConnectorTypeOK, [CNext]_connectorVars, NEW e \in Events, letter[e] # "none"
  PROVE  letter'[e] # "none"
<1> USE DEF ConnectorTypeOK, rows, history
<1>1. ASSUME NEW f \in Events, EnqueueEvent(f) PROVE letter' = letter
  BY <1>1 DEF EnqueueEvent
<1>2. ASSUME NEW c \in Calls, Claim(c) \/ CallDies(c) PROVE letter' = letter
  BY <1>2 DEF Claim, CallDies
<1>3. ASSUME NEW c \in Calls, NEW f \in Events,
             \/ NoEndpoint(c, f) \/ Apply(c, f) \/ ApplyFails(c, f) \/ MarkFails(c, f)
             \/ MarkProcessed(c, f) \/ MarkRetry(c, f) \/ MarkDead(c, f)
      PROVE  letter' = letter
  BY <1>3 DEF NoEndpoint, Apply, ApplyFails, MarkFails, MarkProcessed, MarkRetry, MarkDead
<1>4. ASSUME NEW c \in Calls, NEW f \in Events, WriteLetter(c, f) PROVE letter'[e] # "none"
  BY <1>4 DEF WriteLetter, LetterWritten
<1>5. ASSUME NEW q \in Retries,
             \/ RetryEvent(q) \/ RetryLetter(q) \/ RetryDies(q)
             \/ \E f \in Events : RetryRead(q, f)
      PROVE  letter'[e] # "none"
  BY <1>5 DEF RetryEvent, RetryLetter, RetryDies, RetryRead
<1>6. CASE RetryBatch
  BY <1>6 DEF RetryBatch
<1>7. CASE UNCHANGED connectorVars
  BY <1>7 DEF connectorVars
<1> QED
  BY <1>1, <1>2, <1>3, <1>4, <1>5, <1>6, <1>7 DEF CNext, CallStep

\* What comes late had a letter when it was read.
LEMMA NextLettersInv ==
  ASSUME ConnectorTypeOK, LettersInv, [CNext]_connectorVars PROVE LettersInv'
<1> USE DEF ConnectorTypeOK, rows, history
<1>1. CASE UNCHANGED <<late, retrying>>
  BY <1>1, LettersStay DEF LettersInv
<1>2. ASSUME NEW q \in Retries, RetryEvent(q) PROVE LettersInv'
  <2>1. late' \subseteq late \cup retrying[q].now /\ letter' = letter
    BY <1>2 DEF RetryEvent, PutBack
  <2>2. \A p \in Retries : retrying'[p].now = retrying[p].now
    BY <1>2 DEF RetryEvent
  <2> QED
    BY <2>1, <2>2 DEF LettersInv
<1>3. ASSUME NEW q \in Retries, RetryLetter(q) \/ RetryDies(q) PROVE LettersInv'
  <2>1. late' = late /\ \A p \in Retries : retrying'[p].now \subseteq retrying[p].now
    BY <1>3 DEF RetryLetter, RetryDies
  <2>2. \A p \in Retries : retrying[p].now \subseteq Events
    OBVIOUS
  <2> QED
    BY <2>1, <2>2, LettersStay DEF LettersInv
<1>4. ASSUME NEW q \in Retries, NEW e \in Events, RetryRead(q, e) PROVE LettersInv'
  <2>1. late' = late /\ letter' = letter /\ letter[e] = "OPEN"
    BY <1>4 DEF RetryRead, Open
  <2>2. \A p \in Retries : retrying'[p].now \in {retrying[p].now, {e}}
    BY <1>4 DEF RetryRead
  <2> QED
    BY <2>1, <2>2 DEF LettersInv
<1>5. CASE RetryBatch
  <2>1. PICK S \in SUBSET Open : PutBack(S)
    BY <1>5 DEF RetryBatch
  <2>2. late' \subseteq late \cup S /\ retrying' = retrying
    BY <1>5, <2>1 DEF RetryBatch, PutBack
  <2>3. \A e \in S : e \in Events /\ letter[e] # "none"
    BY DEF Open
  <2> QED
    BY <2>2, <2>3, LettersStay DEF LettersInv
<1>6. ASSUME NEW e \in Events, EnqueueEvent(e) PROVE UNCHANGED <<late, retrying>>
  BY <1>6 DEF EnqueueEvent
<1>7. ASSUME NEW c \in Calls, Claim(c) \/ CallDies(c) PROVE UNCHANGED <<late, retrying>>
  BY <1>7 DEF Claim, CallDies
<1>8. ASSUME NEW c \in Calls, NEW e \in Events,
             \/ NoEndpoint(c, e) \/ Apply(c, e) \/ ApplyFails(c, e) \/ MarkFails(c, e)
             \/ MarkProcessed(c, e) \/ MarkRetry(c, e) \/ MarkDead(c, e) \/ WriteLetter(c, e)
      PROVE  UNCHANGED <<late, retrying>>
  BY <1>8 DEF NoEndpoint, Apply, ApplyFails, MarkFails, MarkProcessed, MarkRetry, MarkDead,
              WriteLetter
<1>9. CASE UNCHANGED connectorVars
  BY <1>1, <1>9 DEF connectorVars
<1> QED
  BY <1>1, <1>2, <1>3, <1>4, <1>5, <1>6, <1>7, <1>8, <1>9 DEF CNext, CallStep

LEMMA HoldingIsFinite ==
  \A e \in Events : IsFiniteSet(Holding(e)) /\ Cardinality(Holding(e)) \in Nat
<1> SUFFICES ASSUME NEW e \in Events
             PROVE  IsFiniteSet(Holding(e)) /\ Cardinality(Holding(e)) \in Nat
  OBVIOUS
<1>1. Holding(e) \subseteq Calls
  BY DEF Holding
<1> QED
  BY <1>1, CallsAssumption, FS_Subset, FS_CardinalityType

LEMMA HoldingIsFiniteNext ==
  \A e \in Events : IsFiniteSet(Holding(e)') /\ Cardinality(Holding(e)') \in Nat
<1> SUFFICES ASSUME NEW e \in Events
             PROVE  IsFiniteSet(Holding(e)') /\ Cardinality(Holding(e)') \in Nat
  OBVIOUS
<1>1. Holding(e)' \subseteq Calls
  BY DEF Holding
<1> QED
  BY <1>1, CallsAssumption, FS_Subset, FS_CardinalityType

\* Requests that come to an event, or leave it, change the number of its holders.
LEMMA HoldersGrow ==
  ASSUME NEW e \in Events, NEW c, Holding(e)' \subseteq Holding(e) \cup {c}
  PROVE  Cardinality(Holding(e)') <= Cardinality(Holding(e)) + 1
<1>1. IsFiniteSet(Holding(e)) /\ Cardinality(Holding(e)) \in Nat
  BY HoldingIsFinite
<1>2. /\ IsFiniteSet(Holding(e) \cup {c})
      /\ Cardinality(Holding(e) \cup {c}) <= Cardinality(Holding(e)) + 1
  <2> DEFINE H == Holding(e)
  <2>1. IsFiniteSet(H) /\ Cardinality(H) \in Nat
    BY <1>1
  <2> HIDE DEF H
  <2>2. /\ IsFiniteSet(H \cup {c})
        /\ Cardinality(H \cup {c}) = IF c \in H THEN Cardinality(H) ELSE Cardinality(H) + 1
    BY <2>1, FS_AddElement
  <2>3. Cardinality(H \cup {c}) <= Cardinality(H) + 1
    BY <2>1, <2>2
  <2> QED
    BY <2>2, <2>3 DEF H
<1>3. Cardinality(Holding(e)') <= Cardinality(Holding(e) \cup {c})
  BY <1>2, FS_Subset
<1>4. Cardinality(Holding(e) \cup {c}) \in Nat /\ Cardinality(Holding(e)') \in Nat
  BY <1>2, FS_CardinalityType, HoldingIsFiniteNext
<1> QED
  BY <1>1, <1>2, <1>3, <1>4

LEMMA HoldersStay ==
  ASSUME NEW e \in Events, Holding(e)' \subseteq Holding(e)
  PROVE  Cardinality(Holding(e)') <= Cardinality(Holding(e))
  BY HoldingIsFinite, FS_Subset

LEMMA HoldersShrink ==
  ASSUME NEW e \in Events, NEW c \in Holding(e), Holding(e)' \subseteq Holding(e) \ {c}
  PROVE  Cardinality(Holding(e)') + 1 <= Cardinality(Holding(e))
<1>1. IsFiniteSet(Holding(e)) /\ Cardinality(Holding(e)) \in Nat
  BY HoldingIsFinite
<1>2. /\ IsFiniteSet(Holding(e) \ {c})
      /\ Cardinality(Holding(e) \ {c}) = Cardinality(Holding(e)) - 1
  BY <1>1, FS_RemoveElement
<1>3. Cardinality(Holding(e)') <= Cardinality(Holding(e) \ {c})
  BY <1>2, FS_Subset
<1>4. Cardinality(Holding(e)') \in Nat
  BY HoldingIsFiniteNext
<1> QED
  BY <1>1, <1>2, <1>3, <1>4

\* An event keeps the balance when nothing is added, and when what is added is paid for.
LEMMA ChanceKept ==
  ASSUME ConnectorTypeOK, ConnectorTypeOK', ChanceInv, NEW e \in Events \ unsure,
         \/ /\ applied'[e] = applied[e] /\ Holding(e)' \subseteq Holding(e)
            /\ Waits(e)' <= Waits(e) /\ Chances(e) <= Chances(e)'
         \/ /\ applied'[e] = applied[e] /\ Holding(e)' \subseteq Holding(e)
            /\ Chances(e) + 1 <= Chances(e)'
  PROVE  applied'[e] + Cardinality(Holding(e)') + Waits(e)' <= Chances(e)'
<1>1. Cardinality(Holding(e)') <= Cardinality(Holding(e))
  BY HoldersStay
<1>2. /\ Cardinality(Holding(e)) \in Nat /\ Cardinality(Holding(e)') \in Nat
      /\ Waits(e) \in {0, 1} /\ Waits(e)' \in {0, 1}
      /\ applied[e] \in Nat /\ applied'[e] \in Nat
      /\ Chances(e) \in Nat /\ Chances(e)' \in Nat
  BY HoldingIsFinite, HoldingIsFiniteNext DEF Waits, Chances, ConnectorTypeOK
<1>3. applied[e] + Cardinality(Holding(e)) + Waits(e) <= Chances(e)
  BY DEF ChanceInv
<1> QED
  BY <1>1, <1>2, <1>3

\* A request that leaves its event makes room for one application, or one claim.
LEMMA ChancePassedOn ==
  ASSUME ConnectorTypeOK, ConnectorTypeOK', ChanceInv, NEW e \in Events \ unsure,
         NEW c \in Holding(e), Holding(e)' \subseteq Holding(e) \ {c},
         \/ applied'[e] = applied[e] /\ Chances(e)' = Chances(e)
         \/ applied'[e] = applied[e] + 1 /\ Waits(e)' = Waits(e) /\ Chances(e)' = Chances(e)
         \/ applied'[e] = applied[e] /\ Waits(e)' = Waits(e) /\ Chances(e) <= Chances(e)' + 1
  PROVE  applied'[e] + Cardinality(Holding(e)') + Waits(e)' <= Chances(e)'
<1>1. Cardinality(Holding(e)') + 1 <= Cardinality(Holding(e))
  BY HoldersShrink
<1>2. /\ Cardinality(Holding(e)) \in Nat /\ Cardinality(Holding(e)') \in Nat
      /\ Waits(e) \in {0, 1} /\ Waits(e)' \in {0, 1}
      /\ applied[e] \in Nat /\ applied'[e] \in Nat
      /\ Chances(e) \in Nat /\ Chances(e)' \in Nat
  BY HoldingIsFinite, HoldingIsFiniteNext DEF Waits, Chances, ConnectorTypeOK
<1>3. applied[e] + Cardinality(Holding(e)) + Waits(e) <= Chances(e)
  BY DEF ChanceInv
<1> QED
  BY <1>1, <1>2, <1>3

\* A new event has its one chance before it.
LEMMA InitChanceInv == CInit => LettersInv /\ ChanceInv
<1> SUFFICES ASSUME CInit, NEW e \in Events
             PROVE  applied[e] + Cardinality(Holding(e)) + Waits(e) <= Chances(e)
  BY DEF CInit, LettersInv, ChanceInv
<1>1. Holding(e) = {}
  BY IdleCall DEF CInit, Holding, Works
<1>2. Cardinality(Holding(e)) = 0
  BY <1>1, FS_EmptySet
<1>3. applied[e] = 0 /\ Waits(e) = 1 /\ Chances(e) = 1
  BY DEF CInit, Waits, Chances
<1> QED
  BY <1>2, <1>3

\* An event that is put back gets its chance with it.
LEMMA PutBackChance ==
  ASSUME ConnectorTypeOK, ConnectorTypeOK', ChanceInv, NEW S \in SUBSET Events, PutBack(S),
         UNCHANGED <<call, applied, unsure>>, \A e \in S : letter[e] # "none",
         \A e \in Events : letter'[e] = "none" <=> letter[e] = "none"
  PROVE  ChanceInv'
<1> SUFFICES ASSUME NEW e \in Events \ unsure
             PROVE  applied'[e] + Cardinality(Holding(e)') + Waits(e)' <= Chances(e)'
  BY DEF ChanceInv
<1>1. Holding(e)' \subseteq Holding(e) /\ applied'[e] = applied[e]
  BY DEF Holding, Works, At
<1>2. CASE e \in S
  <2>1. replays'[e] = replays[e] + 1 /\ replays[e] \in Nat
    BY <1>2 DEF PutBack, ConnectorTypeOK
  <2>2. Chances(e) + 1 <= Chances(e)'
    BY <1>2, <2>1 DEF Chances
  <2> QED
    BY <1>1, <2>2, ChanceKept
<1>3. CASE e \notin S
  <2>1. state'[e] = state[e] /\ replays'[e] = replays[e] /\ replays[e] \in Nat
    BY <1>3 DEF PutBack, ConnectorTypeOK
  <2>2. Waits(e)' <= Waits(e) /\ Chances(e) <= Chances(e)'
    BY <2>1 DEF Waits, Chances
  <2> QED
    BY <1>1, <2>2, ChanceKept
<1> QED
  BY <1>2, <1>3

\* What only marks letters changes no chance.
LEMMA QuietChance ==
  ASSUME ConnectorTypeOK, ConnectorTypeOK', ChanceInv,
         UNCHANGED <<state, call, applied, unsure, replays>>,
         \A e \in Events : letter'[e] = "none" <=> letter[e] = "none"
  PROVE  ChanceInv'
<1> SUFFICES ASSUME NEW e \in Events \ unsure
             PROVE  applied'[e] + Cardinality(Holding(e)') + Waits(e)' <= Chances(e)'
  BY DEF ChanceInv
<1>1. Holding(e)' \subseteq Holding(e) /\ applied'[e] = applied[e]
  BY DEF Holding, Works, At
<1>2. Waits(e)' <= Waits(e) /\ Chances(e) <= Chances(e)'
  BY DEF Waits, Chances, ConnectorTypeOK
<1> QED
  BY <1>1, <1>2, ChanceKept

\* A claim turns what waits into work.
LEMMA ClaimChance ==
  ASSUME ConnectorTypeOK, ConnectorTypeOK', ChanceInv, NEW c \in Calls, Claim(c)
  PROVE  ChanceInv'
<1>0. call \in [Calls -> CallType]
  BY DEF ConnectorTypeOK, CallType
<1>1. PICK batch \in SUBSET Claimable :
         /\ state' = [e \in Events |-> IF e \in batch THEN "PROCESSING" ELSE state[e]]
         /\ call' = [call EXCEPT ![c] =
                        [pc |-> "next", batch |-> batch, now |-> {}, taken |-> attempts]]
  BY DEF Claim
<1>2. UNCHANGED <<letter, applied, unsure, replays>>
  BY DEF Claim, history
<1> SUFFICES ASSUME NEW e \in Events \ unsure
             PROVE  applied'[e] + Cardinality(Holding(e)') + Waits(e)' <= Chances(e)'
  BY <1>2 DEF ChanceInv
<1>3. /\ call'[c].batch = batch /\ call'[c].pc = "next"
      /\ \A d \in Calls \ {c} : call'[d] = call[d]
  BY <1>0, <1>1
<1>4. CASE e \in batch
  <2>1. Waits(e) = 1 /\ Waits(e)' = 0 /\ Chances(e)' = Chances(e)
    BY <1>1, <1>2, <1>4 DEF Waits, Chances, Claimable
  <2>2. Holding(e)' \subseteq Holding(e) \cup {c}
    BY <1>3 DEF Holding, Works, At
  <2>3. Cardinality(Holding(e)') <= Cardinality(Holding(e)) + 1
    BY <2>2, HoldersGrow
  <2>4. /\ Cardinality(Holding(e)) \in Nat /\ Cardinality(Holding(e)') \in Nat
        /\ applied[e] \in Nat /\ Chances(e) \in Nat
    BY HoldingIsFinite, HoldingIsFiniteNext DEF ConnectorTypeOK, Chances
  <2>5. applied[e] + Cardinality(Holding(e)) + Waits(e) <= Chances(e)
    BY DEF ChanceInv
  <2> QED
    BY <1>2, <2>1, <2>3, <2>4, <2>5
<1>5. CASE e \notin batch
  <2>1. Waits(e)' <= Waits(e) /\ Chances(e) <= Chances(e)'
    BY <1>1, <1>2, <1>5 DEF Waits, Chances, ConnectorTypeOK
  <2>2. Holding(e)' \subseteq Holding(e)
    BY <1>3, <1>5 DEF Holding, Works, At
  <2> QED
    BY <1>2, <2>1, <2>2, ChanceKept
<1> QED
  BY <1>4, <1>5

\* Work that fails, or ends in the letter, adds nothing.
LEMMA WorkChance ==
  ASSUME ConnectorInv, ConnectorTypeOK', ChanceInv, NEW c \in Calls, NEW e \in Events,
         NoEndpoint(c, e) \/ ApplyFails(c, e) \/ MarkFails(c, e) \/ MarkDead(c, e)
  PROVE  ChanceInv'
<1>0. ConnectorTypeOK /\ call \in [Calls -> CallType]
  BY DEF ConnectorInv, ConnectorTypeOK, CallType
<1>1. /\ \A d \in Calls \ {c} : call'[d] = call[d]
      /\ call'[c].pc \in {"failed", "letter"} /\ call'[c].batch = call[c].batch
  BY <1>0, GoToCall DEF NoEndpoint, ApplyFails, MarkFails, MarkDead
<1>2. /\ UNCHANGED <<letter, applied, replays>> /\ unsure \subseteq unsure'
      /\ \A f \in Events : state'[f] \in {state[f], "DEAD_LETTER", "PROCESSED"}
  BY <1>0 DEF NoEndpoint, ApplyFails, MarkFails, MarkDead, rows, history, ConnectorTypeOK
<1>3. \/ call[c].pc \in {"next", "failed"}
      \/ call[c].now = {e} /\ e \in unsure'
  BY DEF NoEndpoint, ApplyFails, MarkFails, MarkDead, At
<1> SUFFICES ASSUME NEW f \in Events \ unsure'
             PROVE  applied'[f] + Cardinality(Holding(f)') + Waits(f)' <= Chances(f)'
  BY DEF ChanceInv
<1>4. ~At(c, "applied", f)
  BY <1>3 DEF At
<1>5. Holding(f)' \subseteq Holding(f)
  BY <1>1, <1>4 DEF Holding, Works, At
<1>6. Waits(f)' <= Waits(f)
  <2>1. state'[f] \in {state[f], "DEAD_LETTER", "PROCESSED"}
    BY <1>2
  <2> QED
    BY <2>1 DEF Waits
<1>7. Chances(f)' = Chances(f) /\ Chances(f) \in Nat
  BY <1>0, <1>2 DEF Chances, ConnectorTypeOK
<1> QED
  BY <1>0, <1>2, <1>5, <1>6, <1>7, ChanceKept

\* The application is the chance its request had.
LEMMA ApplyChance ==
  ASSUME ConnectorInv, ConnectorTypeOK', ChanceInv, NEW c \in Calls, NEW e \in Events,
         Apply(c, e)
  PROVE  ChanceInv'
<1>0. ConnectorTypeOK /\ call \in [Calls -> CallType]
  BY DEF ConnectorInv, ConnectorTypeOK, CallType
<1>1. /\ \A d \in Calls \ {c} : call'[d] = call[d]
      /\ call'[c].pc = "applied" /\ call'[c].now = {e} /\ call'[c].batch = call[c].batch
  BY <1>0, GoToCall DEF Apply
<1>2. /\ UNCHANGED <<state, letter, replays, unsure>>
      /\ applied'[e] = applied[e] + 1 /\ \A f \in Events \ {e} : applied'[f] = applied[f]
      /\ call[c].pc = "next" /\ e \in call[c].batch
  BY <1>0 DEF Apply, Works, rows, ConnectorTypeOK
<1> SUFFICES ASSUME NEW f \in Events \ unsure
             PROVE  applied'[f] + Cardinality(Holding(f)') + Waits(f)' <= Chances(f)'
  BY <1>2 DEF ChanceInv
<1>3. Waits(f)' = Waits(f) /\ Chances(f)' = Chances(f) /\ Waits(f) \in Nat /\ Chances(f) \in Nat
  BY <1>0, <1>2 DEF Waits, Chances, ConnectorTypeOK
<1>4. CASE f = e
  <2>1. c \in Holding(e)
    BY <1>2 DEF Holding, Works, At
  <2>2. Holding(e)' \subseteq Holding(e) \ {c}
    BY <1>1 DEF Holding, Works, At
  <2> QED
    BY <1>0, <1>2, <1>3, <1>4, <2>1, <2>2, ChancePassedOn
<1>5. CASE f # e
  <2>1. Holding(f)' \subseteq Holding(f)
    BY <1>1, <1>2 DEF Holding, Works, At
  <2> QED
    BY <1>0, <1>2, <1>3, <1>5, <2>1, ChanceKept
<1> QED
  BY <1>4, <1>5

\* A request that is through with its event gives back what it had of it.
LEMMA DoneChance ==
  ASSUME ConnectorInv, ConnectorTypeOK', ChanceInv, NEW c \in Calls, NEW e \in Events,
         MarkProcessed(c, e) \/ MarkRetry(c, e) \/ WriteLetter(c, e)
  PROVE  ChanceInv'
<1>0. ConnectorTypeOK /\ call \in [Calls -> CallType]
  BY DEF ConnectorInv, ConnectorTypeOK, CallType
<1>1. /\ \A d \in Calls \ {c} : call'[d] = call[d]
      /\ call'[c].pc \in {"idle", "next"} /\ call'[c].batch = call[c].batch \ {e}
  BY <1>0, DoneCall DEF MarkProcessed, MarkRetry, WriteLetter
<1>2. call[c].now = {e} /\ e \in call[c].batch
  BY DEF MarkProcessed, MarkRetry, WriteLetter, At, ConnectorInv, CallInv
<1>3. /\ UNCHANGED <<applied, replays, unsure>>
      /\ \A f \in Events \ {e} : state'[f] = state[f] /\ letter'[f] = letter[f]
  BY <1>0 DEF MarkProcessed, MarkRetry, WriteLetter, history, ConnectorTypeOK
<1> SUFFICES ASSUME NEW f \in Events \ unsure
             PROVE  applied'[f] + Cardinality(Holding(f)') + Waits(f)' <= Chances(f)'
  BY <1>3 DEF ChanceInv
<1>4. CASE f # e
  <2>1. Holding(f)' \subseteq Holding(f)
    BY <1>1, <1>2, <1>4 DEF Holding, Works, At
  <2>2. Waits(f)' <= Waits(f) /\ Chances(f) <= Chances(f)'
    BY <1>0, <1>3, <1>4 DEF Waits, Chances, ConnectorTypeOK
  <2> QED
    BY <1>0, <1>3, <2>1, <2>2, ChanceKept
<1>5. CASE f = e
  <2>1. Holding(e)' \subseteq Holding(e) \ {c}
    BY <1>1 DEF Holding, Works, At
  <2>2. CASE MarkProcessed(c, e)
    <3>1. state'[e] = "PROCESSED" /\ letter' = letter
      BY <1>0, <2>2 DEF MarkProcessed, ConnectorTypeOK
    <3>2. Waits(e)' <= Waits(e) /\ Chances(e) <= Chances(e)'
      BY <1>0, <1>3, <3>1 DEF Waits, Chances, ConnectorTypeOK
    <3> QED
      BY <1>0, <1>3, <1>5, <2>1, <3>2, ChanceKept
  <2>3. CASE MarkRetry(c, e)
    <3>1. c \in Holding(e)
      BY <1>2, <2>3 DEF MarkRetry, Holding, Works, At
    <3>2. Chances(e)' = Chances(e)
      BY <1>3, <2>3 DEF MarkRetry, Chances
    <3> QED
      BY <1>0, <1>3, <1>5, <2>1, <3>1, <3>2, ChancePassedOn
  <2>4. CASE WriteLetter(c, e)
    <3>1. c \in Holding(e)
      BY <1>2, <2>4 DEF WriteLetter, Holding, Works, At
    <3>2. state' = state
      BY <2>4 DEF WriteLetter
    <3>3. Waits(e)' = Waits(e) /\ Chances(e) <= Chances(e)' + 1
      BY <1>0, <1>3, <3>2 DEF Waits, Chances, ConnectorTypeOK
    <3> QED
      BY <1>0, <1>3, <1>5, <2>1, <3>1, <3>3, ChancePassedOn
  <2> QED
    BY <2>2, <2>3, <2>4
<1> QED
  BY <1>4, <1>5

\* A request that dies takes its chances along.
LEMMA DeathChance ==
  ASSUME ConnectorTypeOK, ConnectorTypeOK', ChanceInv, NEW c \in Calls, CallDies(c)
  PROVE  ChanceInv'
<1>0. call \in [Calls -> CallType]
  BY DEF ConnectorTypeOK, CallType
<1>1. /\ call' = [call EXCEPT ![c] = CallIdle]
      /\ UNCHANGED <<state, letter, applied, replays>> /\ unsure \subseteq unsure'
  BY DEF CallDies, rows
<1>2. call'[c].batch = {} /\ \A d \in Calls \ {c} : call'[d] = call[d]
  BY <1>0, <1>1, IdleCall
<1> SUFFICES ASSUME NEW e \in Events \ unsure'
             PROVE  applied'[e] + Cardinality(Holding(e)') + Waits(e)' <= Chances(e)'
  BY DEF ChanceInv
<1>3. Holding(e)' \subseteq Holding(e)
  BY <1>2 DEF Holding, Works, At
<1>4. Waits(e)' <= Waits(e) /\ Chances(e) <= Chances(e)'
  BY <1>1 DEF Waits, Chances, ConnectorTypeOK
<1> QED
  BY <1>1, <1>3, <1>4, ChanceKept

\* Every step keeps the balance of applications, work, claims and chances.
LEMMA NextChanceInv ==
  ASSUME ConnectorInv, LettersInv, ChanceInv, [CNext]_connectorVars PROVE ChanceInv'
<1>0. ConnectorTypeOK /\ ConnectorTypeOK'
  BY NextConnectorTypeOK DEF ConnectorInv
<1>1. ASSUME NEW e \in Events, EnqueueEvent(e) PROVE ChanceInv'
  <2> SUFFICES ASSUME NEW f \in Events \ unsure
               PROVE  applied'[f] + Cardinality(Holding(f)') + Waits(f)' <= Chances(f)'
    BY <1>1 DEF EnqueueEvent, history, ChanceInv
  <2>1. applied'[f] = applied[f] /\ Holding(f)' \subseteq Holding(f)
    BY <1>1 DEF EnqueueEvent, history, Holding, Works, At
  <2>2. Waits(f)' <= Waits(f) /\ Chances(f) <= Chances(f)'
    BY <1>0, <1>1 DEF EnqueueEvent, history, Waits, Chances, ConnectorTypeOK
  <2> QED
    BY <1>0, <2>1, <2>2, ChanceKept
<1>2. ASSUME NEW c \in Calls, Claim(c) \/ CallDies(c) PROVE ChanceInv'
  BY <1>0, <1>2, ClaimChance, DeathChance
<1>3. ASSUME NEW c \in Calls, CallStep(c) PROVE ChanceInv'
  BY <1>0, <1>3, WorkChance, ApplyChance, DoneChance DEF CallStep
<1>4. ASSUME NEW c \in Calls, NEW e \in Events, MarkFails(c, e) PROVE ChanceInv'
  BY <1>0, <1>4, WorkChance
<1>5. ASSUME NEW q \in Retries, RetryEvent(q) PROVE ChanceInv'
  <2>1. retrying[q].now \in SUBSET Events /\ \A e \in retrying[q].now : letter[e] # "none"
    BY <1>0 DEF ConnectorTypeOK, LettersInv
  <2>2. PutBack(retrying[q].now) /\ UNCHANGED <<call, applied, unsure, letter>>
    BY <1>5 DEF RetryEvent
  <2> QED
    BY <1>0, <2>1, <2>2, PutBackChance
<1>6. ASSUME NEW q \in Retries, RetryLetter(q) PROVE ChanceInv'
  <2>1. UNCHANGED <<state, call, applied, unsure, replays>>
    BY <1>6 DEF RetryLetter, history
  <2>2. \A e \in Events : letter'[e] = "none" <=> letter[e] = "none"
    BY <1>6 DEF RetryLetter, LettersInv
  <2> QED
    BY <1>0, <2>1, <2>2, QuietChance
<1>7. ASSUME NEW q \in Retries, RetryDies(q) \/ \E e \in Events : RetryRead(q, e)
      PROVE  ChanceInv'
  BY <1>0, <1>7, QuietChance DEF RetryDies, RetryRead, rows, history
<1>8. CASE RetryBatch
  <2>1. PICK S \in SUBSET Open :
           /\ PutBack(S)
           /\ letter' = [e \in Events |-> IF e \in S THEN "REPLAYED" ELSE letter[e]]
    BY <1>8 DEF RetryBatch
  <2>2. S \in SUBSET Events /\ \A e \in S : letter[e] # "none"
    BY DEF Open
  <2>3. \A e \in Events : letter'[e] = "none" <=> letter[e] = "none"
    BY <2>1, <2>2
  <2>4. UNCHANGED <<call, applied, unsure>>
    BY <1>8 DEF RetryBatch
  <2> QED
    BY <1>0, <2>1, <2>2, <2>3, <2>4, PutBackChance
<1>9. CASE UNCHANGED connectorVars
  BY <1>0, <1>9, QuietChance DEF connectorVars, rows, history
<1> QED
  BY <1>1, <1>2, <1>3, <1>4, <1>5, <1>6, <1>7, <1>8, <1>9 DEF CNext

-----------------------------------------------------------------------------
(* What follows from it.                                                   *)

\* Two requests never work on one event, but after a late retry.
THEOREM ClaimsExclusive == CSpec => []ClaimIsExclusive
<1>1. ConnectorInv => ClaimIsExclusive
  BY DEF ConnectorInv
<1> QED
  BY <1>1, ConnectorInvHolds, PTL

\* Nothing but the end of its request leaves an event PROCESSING.
THEOREM OnlyAbandonedStuck == CSpec => []StuckOnlyIfAbandoned
<1>1. ConnectorInv => StuckOnlyIfAbandoned
  BY DEF ConnectorInv, StuckInv, StuckOnlyIfAbandoned
<1> QED
  BY <1>1, ConnectorInvHolds, PTL

\* A dead event has a letter, or its request is about to write it or has died.
THEOREM DeadHaveLetters == CSpec => []DeadHasLetter
<1>1. ConnectorInv => DeadHasLetter
  BY DEF ConnectorInv
<1> QED
  BY <1>1, ConnectorInvHolds, PTL

\* However often an event is claimed, retried and revived, it is applied once, but for
\* lost outcomes; after late retries, once for each time it was put back.
THEOREM AppliedAtMostOnce == CSpec => []AppliedOnce
<1>1. ConnectorInv /\ LettersInv /\ ChanceInv => AppliedOnce
  <2> SUFFICES ASSUME ConnectorInv, LettersInv, ChanceInv, NEW e \in Events \ unsure
               PROVE  applied[e] <= IF e \in late THEN replays[e] ELSE 1
    BY DEF AppliedOnce
  <2>1. applied[e] \in Nat /\ replays[e] \in Nat
    BY Numbers DEF ConnectorInv
  <2>2. CASE e \in late
    <3>1. Chances(e) = replays[e]
      BY <2>1, <2>2 DEF Chances, LettersInv
    <3>2. applied[e] + Cardinality(Holding(e)) + Waits(e) <= replays[e]
      BY <3>1 DEF ChanceInv
    <3>3. Cardinality(Holding(e)) \in Nat /\ Waits(e) \in Nat
      BY HoldingIsFinite DEF Waits
    <3> QED
      BY <2>1, <2>2, <3>2, <3>3
  <2>3. CASE e \notin late
    BY <2>1, <2>3 DEF ConnectorInv, AppliedInv
  <2> QED
    BY <2>2, <2>3
<1>2. CInit => ConnectorInv /\ LettersInv /\ ChanceInv
  BY InitConnectorInv, InitChanceInv
<1>3. ConnectorInv /\ LettersInv /\ ChanceInv /\ [CNext]_connectorVars
          => (ConnectorInv /\ LettersInv /\ ChanceInv)'
  <2> SUFFICES ASSUME ConnectorInv, LettersInv, ChanceInv, [CNext]_connectorVars
               PROVE  ConnectorInv' /\ LettersInv' /\ ChanceInv'
    OBVIOUS
  <2>1. ConnectorTypeOK
    BY DEF ConnectorInv
  <2> QED
    BY <2>1, NextConnectorInv, NextLettersInv, NextChanceInv
<1> QED
  BY <1>1, <1>2, <1>3, PTL DEF CSpec

\* An event gets max_attempts attempts and one more each time it is put back.
THEOREM AttemptsAreBounded == CSpec => []AttemptsBounded
<1>1. ConnectorInv => AttemptsBounded
  BY DEF ConnectorInv, AttemptInv, AttemptsBounded
<1> QED
  BY <1>1, ConnectorInvHolds, PTL

\* An applied event stays PROCESSED, but for a late retry and for a request that did
\* not hear that it had marked it.
THEOREM ProcessedIsFinal == CSpec => ProcessedStays
<1> DEFINE Stays == \A e \in Events :
               state[e] = "PROCESSED" /\ e \notin late' =>
                   state'[e] = "PROCESSED" \/ \E c \in Calls : Unheard(c, e)
<1>1. ConnectorInv /\ [CNext]_connectorVars => Stays
  <2> SUFFICES ASSUME ConnectorInv, [CNext]_connectorVars,
                      NEW e \in Events, state[e] = "PROCESSED", e \notin late'
               PROVE  state'[e] = "PROCESSED" \/ \E c \in Calls : Unheard(c, e)
    OBVIOUS
  <2>0. /\ state \in [Events -> {"none", "PENDING", "PROCESSING", "RETRY", "PROCESSED",
                                 "DEAD_LETTER"}]
        /\ call \in [Calls -> CallType]
    BY DEF ConnectorInv, ConnectorTypeOK, CallType
  <2>1. ASSUME NEW f \in Events, EnqueueEvent(f) PROVE state'[e] = "PROCESSED"
    BY <2>0, <2>1 DEF EnqueueEvent
  <2>2. ASSUME NEW c \in Calls, Claim(c) \/ CallDies(c) PROVE state'[e] = "PROCESSED"
    BY <2>2 DEF Claim, CallDies, Claimable, rows
  <2>3. ASSUME NEW c \in Calls, NEW f \in Events,
               NoEndpoint(c, f) \/ MarkRetry(c, f) \/ MarkDead(c, f)
        PROVE  state'[e] = "PROCESSED" \/ Unheard(c, e)
    <3>1. late' = late /\ \A g \in Events \ {f} : state'[g] = state[g]
      BY <2>0, <2>3 DEF NoEndpoint, MarkRetry, MarkDead, history
    <3>2. Works(c, f)
      BY <2>3 DEF NoEndpoint, MarkRetry, MarkDead, At, Works, ConnectorInv, CallInv
    <3>3. CASE f # e
      BY <3>1, <3>3
    <3>4. CASE f = e
      <4>1. At(c, "failed", e) /\ e \in unsure
        BY <3>1, <3>2, <3>4 DEF ConnectorInv, WorkInv
      <4>2. MarkRetry(c, e) \/ MarkDead(c, e)
        BY <2>3, <3>4, <4>1 DEF NoEndpoint, At
      <4>3. call'[c].pc \in {"idle", "next", "letter"}
        BY <2>0, <4>2, DoneCall, GoToCall DEF MarkRetry, MarkDead
      <4> QED
        BY <4>1, <4>3 DEF Unheard, At
    <3> QED
      BY <3>3, <3>4
  <2>4. ASSUME NEW c \in Calls, NEW f \in Events,
               \/ Apply(c, f) \/ ApplyFails(c, f) \/ MarkFails(c, f) \/ WriteLetter(c, f)
               \/ MarkProcessed(c, f)
        PROVE  state'[e] = "PROCESSED"
    BY <2>0, <2>4 DEF Apply, ApplyFails, MarkFails, WriteLetter, MarkProcessed, rows
  <2>5. ASSUME NEW S \in SUBSET Events, PutBack(S) PROVE state'[e] = "PROCESSED"
    BY <2>5 DEF PutBack
  <2>6. ASSUME NEW q \in Retries,
               \/ RetryEvent(q) \/ RetryLetter(q) \/ RetryDies(q)
               \/ \E f \in Events : RetryRead(q, f)
        PROVE  state'[e] = "PROCESSED"
    <3>1. retrying[q].now \in SUBSET Events
      BY DEF ConnectorInv, ConnectorTypeOK
    <3> QED
      BY <2>5, <2>6, <3>1 DEF RetryEvent, RetryLetter, RetryDies, RetryRead, rows
  <2>7. CASE RetryBatch
    BY <2>5, <2>7 DEF RetryBatch, Open
  <2>8. CASE UNCHANGED connectorVars
    BY <2>8 DEF connectorVars, rows
  <2> QED
    BY <2>1, <2>2, <2>3, <2>4, <2>6, <2>7, <2>8 DEF CNext, CallStep
<1> QED
  BY <1>1, ConnectorInvHolds, PTL DEF CSpec, ProcessedStays

-----------------------------------------------------------------------------
(* The requests implement the work queue of WorkQueue.                     *)

\* An event is always somewhere in that queue.
LEMMA StandingType ==
  ASSUME ConnectorTypeOK, NEW e \in Events
  PROVE  /\ Standing(e) \in Queue!States
         /\ Standing(e) = "loose" => e \in late
  BY DEF ConnectorTypeOK, Standing, Resting, Queue!States

\* What a step leaves alone keeps its place.
LEMMA SamePlace ==
  ASSUME NEW e \in Events, e \in late' <=> e \in late, state'[e] = state[e],
         \A c \in Calls : Works(c, e)' <=> Works(c, e)
  PROVE  Standing(e)' = Standing(e) /\ Holders(e)' = Holders(e)
  BY DEF Standing, Holders

\* A request that keeps an event keeps its place, whatever it writes about it.
LEMMA SameWork ==
  ASSUME NEW e \in Events, e \in late' <=> e \in late,
         \A c \in Calls : Works(c, e)' <=> Works(c, e), \E c \in Calls : Works(c, e)
  PROVE  Standing(e)' = Standing(e) /\ Holders(e)' = Holders(e)
  BY DEF Standing, Holders

\* A step without a change of place is a stuttering step of the queue.
LEMMA QuietInQueue ==
  ASSUME \A e \in Events : Standing(e)' = Standing(e) /\ Holders(e)' = Holders(e)
  PROVE  UNCHANGED Queue!vars
<1>1. [e \in Events |-> Standing(e)]' = [e \in Events |-> Standing(e)]
  OBVIOUS
<1>2. [e \in Events |-> Holders(e)]' = [e \in Events |-> Holders(e)]
  OBVIOUS
<1> QED
  BY <1>1, <1>2 DEF Queue!vars

\* Events that go to the same place.
LEMMA SendInQueue ==
  ASSUME NEW S \in SUBSET Events, NEW to, NEW who,
         \A e \in S : Standing(e)' = to /\ Holders(e)' = who,
         \A e \in Events \ S : Standing(e)' = Standing(e) /\ Holders(e)' = Holders(e)
  PROVE  Queue!Send(S, to, who)
<1>1. [e \in Events |-> Standing(e)]' =
        [i \in Events |-> IF i \in S THEN to ELSE [e \in Events |-> Standing(e)][i]]
  OBVIOUS
<1>2. [e \in Events |-> Holders(e)]' =
        [i \in Events |-> IF i \in S THEN who ELSE [e \in Events |-> Holders(e)][i]]
  OBVIOUS
<1> QED
  BY <1>1, <1>2 DEF Queue!Send

\* An event that waits or is new is in no batch.
LEMMA FreeEvent ==
  ASSUME ConnectorInv, NEW e \in Events \ late,
         state[e] \notin {"PROCESSING", "PROCESSED", "DEAD_LETTER"}
  PROVE  \A c \in Calls : ~Works(c, e)
  BY DEF ConnectorInv, WorkInv

\* A new event waits.
LEMMA EnqueueIsAdd ==
  ASSUME ConnectorInv, NEW e \in Events, EnqueueEvent(e)
  PROVE  [Queue!Next]_(Queue!vars)
<1>1. /\ state[e] = "none" /\ state'[e] = "PENDING" /\ late' = late /\ call' = call
      /\ \A f \in Events \ {e} : state'[f] = state[f]
  BY DEF EnqueueEvent, history, ConnectorInv, ConnectorTypeOK
<1>2. \A f \in Events \ {e} : Standing(f)' = Standing(f) /\ Holders(f)' = Holders(f)
  BY <1>1, SamePlace DEF Works
<1>3. CASE e \in late
  <2>1. Standing(e)' = Standing(e) /\ Holders(e)' = Holders(e)
    BY <1>1, <1>3 DEF Standing, Holders
  <2> QED
    BY <1>2, <2>1, QuietInQueue
<1>4. CASE e \notin late
  <2>1. \A c \in Calls : ~Works(c, e) /\ ~Works(c, e)'
    BY <1>1, <1>4, FreeEvent DEF Works
  <2>2. Standing(e) = "absent" /\ Standing(e)' = "waiting" /\ Holders(e)' = {}
    BY <1>1, <1>4, <2>1 DEF Standing, Resting, Holders
  <2>3. Queue!Send({e}, "waiting", {})
    BY <1>2, <2>2, SendInQueue
  <2>4. Queue!Add(e)
    BY <2>2, <2>3 DEF Queue!Add
  <2> QED
    BY <2>4 DEF Queue!Next
<1> QED
  BY <1>3, <1>4

\* A claim takes events that wait, but for late ones.
LEMMA ClaimIsTake ==
  ASSUME ConnectorInv, NEW c \in Calls, Claim(c)
  PROVE  [Queue!Next]_(Queue!vars)
<1>0. call \in [Calls -> CallType]
  BY DEF ConnectorInv, ConnectorTypeOK, CallType
<1>1. PICK batch \in SUBSET Claimable :
        /\ state' = [e \in Events |-> IF e \in batch THEN "PROCESSING" ELSE state[e]]
        /\ call' = [call EXCEPT ![c] =
                       [pc |-> "next", batch |-> batch, now |-> {}, taken |-> attempts]]
        /\ late' = late
  BY DEF Claim, history
<1>2. call[c].batch = {} /\ call'[c].batch = batch
  BY <1>0, <1>1 DEF Claim, ConnectorInv, CallInv
<1>3. \A d \in Calls \ {c} : call'[d] = call[d]
  BY <1>0, <1>1
<1>4. batch \subseteq Events
  BY DEF Claimable
<1> DEFINE S == batch \ late
<1>5. \A e \in S : Standing(e) = "waiting"
  <2> SUFFICES ASSUME NEW e \in S PROVE Standing(e) = "waiting"
    OBVIOUS
  <2>1. state[e] \in {"PENDING", "RETRY"} /\ e \in Events \ late
    BY DEF Claimable
  <2>2. \A d \in Calls : ~Works(d, e)
    BY <2>1, FreeEvent
  <2> QED
    BY <2>1, <2>2 DEF Standing, Resting
<1>6. \A e \in S : Standing(e)' = "held" /\ Holders(e)' = {c}
  <2> SUFFICES ASSUME NEW e \in S PROVE Standing(e)' = "held" /\ Holders(e)' = {c}
    OBVIOUS
  <2>1. state[e] \in {"PENDING", "RETRY"} /\ e \in Events \ late
    BY DEF Claimable
  <2>2. \A d \in Calls : ~Works(d, e)
    BY <2>1, FreeEvent
  <2>3. \A d \in Calls : Works(d, e)' <=> d = c
    BY <1>2, <1>3, <2>2 DEF Works
  <2> QED
    BY <1>1, <2>1, <2>3 DEF Standing, Holders
<1>7. \A e \in Events \ S : Standing(e)' = Standing(e) /\ Holders(e)' = Holders(e)
  <2> SUFFICES ASSUME NEW e \in Events \ S
               PROVE  Standing(e)' = Standing(e) /\ Holders(e)' = Holders(e)
    OBVIOUS
  <2>1. CASE e \in late
    BY <1>1, <2>1 DEF Standing, Holders
  <2>2. CASE e \notin batch
    <3>1. \A d \in Calls : Works(d, e)' <=> Works(d, e)
      BY <1>2, <1>3, <2>2 DEF Works
    <3> QED
      BY <1>1, <2>2, <3>1, SamePlace
  <2> QED
    BY <2>1, <2>2
<1>8. S \in SUBSET Events
  BY <1>4
<1> HIDE DEF S
<1>9. Queue!Send(S, "held", {c})
  BY <1>6, <1>7, <1>8, SendInQueue
<1>10. Queue!Take(c, S)
  BY <1>5, <1>8, <1>9 DEF Queue!Take
<1> QED
  BY <1>8, <1>10 DEF Queue!Next

\* What a request does with its event, until it is through with it, is its own affair.
LEMMA WorkIsQuiet ==
  ASSUME ConnectorInv, NEW c \in Calls, NEW e \in Events,
         \/ NoEndpoint(c, e) \/ Apply(c, e) \/ ApplyFails(c, e) \/ MarkFails(c, e)
         \/ MarkDead(c, e)
  PROVE  UNCHANGED Queue!vars
<1>0. call \in [Calls -> CallType]
  BY DEF ConnectorInv, ConnectorTypeOK, CallType
<1>1. Works(c, e)
  BY DEF NoEndpoint, Apply, ApplyFails, MarkFails, MarkDead, At, Works, ConnectorInv, CallInv
<1>2. /\ \A d \in Calls : call'[d].batch = call[d].batch
      /\ late' = late
      /\ \A f \in Events \ {e} : state'[f] = state[f]
  <2>1. \E pc \in {"applied", "failed", "letter"} : GoTo(c, pc, e)
    BY DEF NoEndpoint, Apply, ApplyFails, MarkFails, MarkDead
  <2>2. \A d \in Calls : call'[d].batch = call[d].batch
    BY <1>0, <2>1, GoToCall
  <2>3. late' = late /\ \A f \in Events \ {e} : state'[f] = state[f]
    BY DEF NoEndpoint, Apply, ApplyFails, MarkFails, MarkDead, rows, history, ConnectorInv,
           ConnectorTypeOK
  <2> QED
    BY <2>2, <2>3
<1>3. \A d \in Calls : \A f \in Events : Works(d, f)' <=> Works(d, f)
  BY <1>2 DEF Works
<1>4. \A f \in Events \ {e} : Standing(f)' = Standing(f) /\ Holders(f)' = Holders(f)
  BY <1>2, <1>3, SamePlace
<1>5. Standing(e)' = Standing(e) /\ Holders(e)' = Holders(e)
  BY <1>1, <1>2, <1>3, SameWork
<1> QED
  BY <1>4, <1>5, QuietInQueue

\* A request that is through with an event has settled it.
LEMMA DoneIsSettle ==
  ASSUME ConnectorInv, NEW c \in Calls, NEW e \in Events,
         MarkProcessed(c, e) \/ MarkRetry(c, e) \/ WriteLetter(c, e)
  PROVE  [Queue!Next]_(Queue!vars)
<1>0. call \in [Calls -> CallType]
  BY DEF ConnectorInv, ConnectorTypeOK, CallType
<1>1. Works(c, e)
  BY DEF MarkProcessed, MarkRetry, WriteLetter, At, Works, ConnectorInv, CallInv
<1>2. /\ late' = late
      /\ \A f \in Events \ {e} : state'[f] = state[f]
  BY DEF MarkProcessed, MarkRetry, WriteLetter, rows, history, ConnectorInv, ConnectorTypeOK
<1>3. /\ call'[c].batch = call[c].batch \ {e}
      /\ \A d \in Calls \ {c} : call'[d] = call[d]
  <2>1. Done(c, e)
    BY DEF MarkProcessed, MarkRetry, WriteLetter
  <2> QED
    BY <1>0, <2>1, DoneCall
<1>4. \A f \in Events \ {e} : Standing(f)' = Standing(f) /\ Holders(f)' = Holders(f)
  <2> SUFFICES ASSUME NEW f \in Events \ {e}
               PROVE  Standing(f)' = Standing(f) /\ Holders(f)' = Holders(f)
    OBVIOUS
  <2>1. \A d \in Calls : Works(d, f)' <=> Works(d, f)
    BY <1>3 DEF Works
  <2> QED
    BY <1>2, <2>1, SamePlace
<1>5. CASE e \in late
  <2>1. Standing(e)' = Standing(e) /\ Holders(e)' = Holders(e)
    BY <1>2, <1>5 DEF Standing, Holders
  <2> QED
    BY <1>4, <2>1, QuietInQueue
<1>6. CASE e \notin late
  <2>1. \A d \in Calls : Works(d, e) <=> d = c
    BY <1>1, <1>6 DEF ConnectorInv, ClaimIsExclusive
  <2>2. \A d \in Calls : ~Works(d, e)'
    BY <1>3, <2>1 DEF Works
  <2>3. Standing(e) = "held" /\ Holders(e) = {c}
    BY <1>6, <2>1 DEF Standing, Holders
  <2>4. state'[e] \in {"PROCESSED", "RETRY", "DEAD_LETTER"}
    <3>1. CASE MarkProcessed(c, e) \/ MarkRetry(c, e)
      BY <3>1 DEF MarkProcessed, MarkRetry, ConnectorInv, ConnectorTypeOK
    <3>2. CASE WriteLetter(c, e)
      <4>1. state[e] = "DEAD_LETTER" /\ state' = state
        BY <1>1, <1>6, <3>2 DEF WriteLetter, ConnectorInv, WorkInv
      <4> QED
        BY <4>1
    <3> QED
      BY <3>1, <3>2
  <2>5. PICK to \in {"done", "waiting", "dead"} : Standing(e)' = to
    BY <1>2, <1>6, <2>2, <2>4 DEF Standing, Resting
  <2>6. Holders(e)' = {}
    BY <2>2 DEF Holders
  <2>7. Queue!Send({e}, to, {})
    BY <1>4, <2>5, <2>6, SendInQueue
  <2>8. Queue!Settle(c, e, to)
    BY <2>3, <2>7 DEF Queue!Settle
  <2> QED
    BY <2>8 DEF Queue!Next
<1> QED
  BY <1>5, <1>6

\* A request that dies leaves its events PROCESSING, or dead, or PROCESSED unheard.
LEMMA DeathIsLose ==
  ASSUME ConnectorInv, ConnectorTypeOK', NEW c \in Calls, CallDies(c)
  PROVE  [Queue!Next]_(Queue!vars)
<1>0. call \in [Calls -> CallType]
  BY DEF ConnectorInv, ConnectorTypeOK, CallType
<1>1. /\ call' = [call EXCEPT ![c] = CallIdle]
      /\ state' = state /\ late' = late
  BY DEF CallDies, rows
<1>2. call'[c].batch = {} /\ \A d \in Calls \ {c} : call'[d] = call[d]
  BY <1>0, <1>1, IdleCall
<1>3. \A e \in Events : Holders(e)' = Holders(e) \ {c}
  BY <1>1, <1>2 DEF Holders, Works
<1>4. \A e \in Events :
        CASE Standing(e) = "stuck" -> Standing(e)' \in {"stuck", "waiting", "dead"}
          [] Standing(e) = "held" /\ Holders(e) \subseteq {c} ->
                 Standing(e)' \in {"stuck", "waiting", "dead", "done"}
          [] OTHER -> Standing(e)' = Standing(e)
  <2> SUFFICES ASSUME NEW e \in Events
               PROVE  CASE Standing(e) = "stuck" ->
                               Standing(e)' \in {"stuck", "waiting", "dead"}
                        [] Standing(e) = "held" /\ Holders(e) \subseteq {c} ->
                               Standing(e)' \in {"stuck", "waiting", "dead", "done"}
                        [] OTHER -> Standing(e)' = Standing(e)
    OBVIOUS
  <2>1. CASE Works(c, e) /\ e \notin late
    <3>1. \A d \in Calls : Works(d, e) <=> d = c
      BY <2>1 DEF ConnectorInv, ClaimIsExclusive
    <3>2. \A d \in Calls : ~Works(d, e)'
      BY <1>2, <3>1 DEF Works
    <3>3. Standing(e) = "held" /\ Holders(e) \subseteq {c}
      BY <2>1, <3>1 DEF Standing, Holders
    <3>4. state'[e] \in {"PROCESSING", "PROCESSED", "DEAD_LETTER"} /\ e \notin late'
      BY <1>1, <2>1 DEF ConnectorInv, WorkInv
    <3>5. Standing(e)' \in {"stuck", "done", "dead"}
      BY <3>2, <3>4 DEF Standing, Resting
    <3> QED
      BY <3>3, <3>5
  <2>2. CASE ~Works(c, e) \/ e \in late
    <3>1. Standing(e)' = Standing(e)
      <4>1. CASE e \in late
        BY <1>1, <4>1 DEF Standing
      <4>2. CASE ~Works(c, e)
        <5>1. \A d \in Calls : Works(d, e)' <=> Works(d, e)
          BY <1>2, <4>2 DEF Works
        <5> QED
          BY <1>1, <5>1, SamePlace
      <4> QED
        BY <2>2, <4>1, <4>2
    <3>2. ASSUME Standing(e) = "held" PROVE ~(Holders(e) \subseteq {c})
      <4>1. PICK d \in Calls : Works(d, e) /\ e \notin late
        BY <3>2 DEF Standing, Resting, ConnectorInv, ConnectorTypeOK
      <4> QED
        BY <2>2, <4>1 DEF Holders
    <3> QED
      BY <3>1, <3>2
  <2> QED
    BY <2>1, <2>2
<1>5. \A e \in Events : Standing(e)' \in Queue!States
  BY StandingType DEF ConnectorTypeOK, Standing, Resting, Queue!States
<1>6. [e \in Events |-> Standing(e)]' \in [Events -> Queue!States]
  BY <1>5
<1>7. [e \in Events |-> Holders(e)]' =
        [i \in Events |-> [e \in Events |-> Holders(e)][i] \ {c}]
  BY <1>3
<1>8. Queue!Lose({c})
  BY <1>4, <1>6, <1>7 DEF Queue!Lose
<1> QED
  BY <1>8 DEF Queue!Next

\* A dead event that is put back waits; another comes loose.
LEMMA PutBackIsReturn ==
  ASSUME ConnectorInv, ConnectorTypeOK', NEW S \in SUBSET Events, PutBack(S), call' = call
  PROVE  [Queue!Next]_(Queue!vars)
<1>1. /\ state' = [e \in Events |-> IF e \in S THEN "RETRY" ELSE state[e]]
      /\ late' = late \cup
             {e \in S : state[e] # "DEAD_LETTER" \/ \E c \in Calls : Works(c, e)}
  BY DEF PutBack
<1>2. \A d \in Calls, e \in Events : Works(d, e)' <=> Works(d, e)
  BY DEF Works
<1>3. ASSUME NEW e \in Events
      PROVE  /\ Standing(e)' # Standing(e) =>
                    \/ Standing(e)' = "loose"
                    \/ Standing(e) = "dead" /\ Standing(e)' = "waiting"
             /\ Holders(e)' = IF Standing(e)' = "loose" THEN {} ELSE Holders(e)
  <2>1. CASE e \in late'
    BY <2>1 DEF Standing, Holders
  <2>2. CASE e \notin late' /\ e \in S
    <3>1. /\ e \notin late /\ state[e] = "DEAD_LETTER" /\ state'[e] = "RETRY"
          /\ \A c \in Calls : ~Works(c, e)
      BY <1>1, <2>2
    <3>2. Standing(e) = "dead" /\ Standing(e)' = "waiting"
      BY <1>2, <2>2, <3>1 DEF Standing, Resting
    <3>3. Holders(e)' = {} /\ Holders(e) = {}
      BY <1>2, <3>1 DEF Holders
    <3> QED
      BY <3>2, <3>3
  <2>3. CASE e \notin late' /\ e \notin S
    <3>1. state'[e] = state[e] /\ e \notin late
      BY <1>1, <2>3
    <3>2. Standing(e)' = Standing(e) /\ Holders(e)' = Holders(e)
      BY <1>2, <2>3, <3>1, SamePlace
    <3>3. Standing(e) # "loose"
      BY <3>1, StandingType DEF ConnectorInv
    <3> QED
      BY <3>2, <3>3
  <2> QED
    BY <2>1, <2>2, <2>3
<1>4. \A e \in Events : Standing(e)' \in Queue!States
  BY StandingType DEF ConnectorTypeOK, Standing, Resting, Queue!States
<1>5. [e \in Events |-> Standing(e)]' \in [Events -> Queue!States]
  BY <1>4
<1>6. [e \in Events |-> Holders(e)]' =
        [i \in Events |-> IF [e \in Events |-> Standing(e)]'[i] = "loose" THEN {}
                          ELSE [e \in Events |-> Holders(e)][i]]
  BY <1>3
<1>7. Queue!Return
  BY <1>3, <1>5, <1>6 DEF Queue!Return
<1> QED
  BY <1>7 DEF Queue!Next

\* Every step of the requests is a step of the queue, or changes nothing there.
LEMMA QueueStep ==
  ConnectorInv /\ ConnectorTypeOK' /\ [CNext]_connectorVars => [Queue!Next]_(Queue!vars)
<1> SUFFICES ASSUME ConnectorInv, ConnectorTypeOK', [CNext]_connectorVars
             PROVE  [Queue!Next]_(Queue!vars)
  OBVIOUS
<1>0. ASSUME UNCHANGED <<state, call, late>> PROVE UNCHANGED Queue!vars
  <2>1. \A e \in Events : Standing(e)' = Standing(e) /\ Holders(e)' = Holders(e)
    BY <1>0, SamePlace DEF Works
  <2> QED
    BY <2>1, QuietInQueue
<1>1. ASSUME NEW e \in Events, EnqueueEvent(e) PROVE [Queue!Next]_(Queue!vars)
  BY <1>1, EnqueueIsAdd
<1>2. ASSUME NEW c \in Calls, Claim(c) \/ CallDies(c) PROVE [Queue!Next]_(Queue!vars)
  BY <1>2, ClaimIsTake, DeathIsLose
<1>3. ASSUME NEW c \in Calls, NEW e \in Events, MarkFails(c, e) \/ CallStep(c)
      PROVE  [Queue!Next]_(Queue!vars)
  BY <1>3, WorkIsQuiet, DoneIsSettle DEF CallStep
<1>4. ASSUME NEW q \in Retries, RetryEvent(q) PROVE [Queue!Next]_(Queue!vars)
  <2>1. retrying[q].now \in SUBSET Events
    BY DEF ConnectorInv, ConnectorTypeOK
  <2> QED
    BY <1>4, <2>1, PutBackIsReturn DEF RetryEvent
<1>5. ASSUME NEW q \in Retries,
             RetryLetter(q) \/ RetryDies(q) \/ \E e \in Events : RetryRead(q, e)
      PROVE  UNCHANGED Queue!vars
  BY <1>0, <1>5 DEF RetryLetter, RetryDies, RetryRead, rows, history
<1>6. CASE RetryBatch
  BY <1>6, PutBackIsReturn DEF RetryBatch, Open
<1>7. CASE UNCHANGED connectorVars
  BY <1>0, <1>7 DEF connectorVars, rows, history
<1>8. ASSUME NEW c \in Calls, CallStep(c) PROVE [Queue!Next]_(Queue!vars)
  BY <1>8, WorkIsQuiet, DoneIsSettle DEF CallStep
<1> QED
  BY <1>1, <1>2, <1>3, <1>4, <1>5, <1>6, <1>7, <1>8 DEF CNext

\* The queue of ERP events implements the work queue of WorkQueue, for any number of
\* events, of requests to process them and of requests to retry them.
THEOREM ConnectorIsWorkQueue == CSpec => ImplementsWorkQueue
<1>1. CInit => Queue!Init
  <2> SUFFICES ASSUME CInit PROVE Queue!Init
    OBVIOUS
  <2>1. \A e \in Events : Standing(e) = "absent" /\ Holders(e) = {}
    BY IdleCall DEF CInit, Standing, Resting, Holders, Works
  <2> QED
    BY <2>1 DEF Queue!Init
<1>2. ConnectorInv /\ ConnectorTypeOK' /\ [CNext]_connectorVars => [Queue!Next]_(Queue!vars)
  BY QueueStep
<1> QED
  BY <1>1, <1>2, ConnectorInvHolds, ConnectorTypes, PTL
  DEF CSpec, ImplementsWorkQueue, Queue!Spec
=============================================================================
