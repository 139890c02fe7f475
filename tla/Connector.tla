------------------------------ MODULE Connector ------------------------------
(***************************************************************************)
(* The queue of ERP events (ConnectorRuntimeService): the tables           *)
(* connector_runtime_events and connector_runtime_dlq, and the requests    *)
(* that work on them:                                                      *)
(*   - processQueue claims a batch in one statement, then applies one      *)
(*     event after the other and records each outcome by id;               *)
(*   - retryDlq reads a dead letter, puts its event back and marks the     *)
(*     letter, three statements without a transaction; retryDlqBatch does  *)
(*     the same in one.                                                    *)
(* No cron works on the queue: the worker's cycle is a stub. A delay until *)
(* next_retry_at is the time that passes before the next claim.            *)
(***************************************************************************)
EXTENDS Naturals, FiniteSets

CONSTANTS
    Events,         \* rows of connector_runtime_events ever inserted
    Bare,           \* those without an endpoint_id (its endpoint was deleted)
    Calls,          \* requests to processQueue, one after the other each
    Retries,        \* requests to retryDlq, one after the other each
    BatchSize,      \* LIMIT of the claim
    MaxAttempts,    \* connector_runtime_events.max_attempts (3)
    MaxReplays,     \* bound: times an event is put back by a retry
    MaxErrors       \* bound: deaths of requests and database errors

ASSUME EventsAssumption == Bare \subseteq Events
ASSUME CallsAssumption == IsFiniteSet(Calls)
ASSUME AttemptsAssumption ==
    MaxAttempts \in Nat \ {0} /\ MaxReplays \in Nat /\ MaxErrors \in Nat /\ BatchSize \in Nat

VARIABLES
    state,      \* connector_runtime_events.status; "none" before the INSERT
    attempts,   \* connector_runtime_events.attempt_count
    letter,     \* connector_runtime_dlq.status; "none" without a row
    call,       \* per processQueue request: its batch and where it is
    retrying,   \* per retryDlq request: where it is and with which event
    applied,    \* history: times processErpEvent applied an event as a whole
    unsure,     \* history: events applied, or in part, with no outcome recorded
    abandoned,  \* history: events whose request ended before their outcome
    late,       \* history: events put back while alive or in a request's batch
    replays,    \* history: times an event was put back
    errors      \* deaths of requests and database errors so far

rows == <<state, attempts, letter>>
history == <<applied, unsure, abandoned, late, replays>>
connectorVars == <<rows, call, retrying, history, errors>>

-----------------------------------------------------------------------------
\* A request with no event at hand is about to take the next of its batch. taken
\* is attempt_count as the claim returned it.
CallIdle == [pc |-> "idle", batch |-> {}, now |-> {}, taken |-> [e \in Events |-> 0]]
At(c, pc, e) == call[c].pc = pc /\ call[c].now = {e}
Works(c, e) == e \in call[c].batch

\* Mutant: a claim that takes what another has claimed.
ClaimableUnfinished == {e \in Events : state[e] \in {"PENDING", "RETRY", "PROCESSING"}}
Claimable == {e \in Events : state[e] \in {"PENDING", "RETRY"}}
Open == {e \in Events : letter[e] = "OPEN"}

GoTo(c, pc, e) == call' = [call EXCEPT ![c].pc = pc, ![c].now = {e}]

\* Mutant: the loop ends with its first event.
DoneWithAll(c, e) == e \in Events /\ call' = [call EXCEPT ![c] = CallIdle]
Done(c, e) ==
    LET left == call[c].batch \ {e} IN
    call' = IF left = {} THEN [call EXCEPT ![c] = CallIdle]
            ELSE [call EXCEPT ![c].pc = "next", ![c].batch = left, ![c].now = {}]

DatabaseError == errors < MaxErrors /\ errors' = errors + 1

CInit ==
    /\ state = [e \in Events |-> "none"]
    /\ attempts = [e \in Events |-> 0]
    /\ letter = [e \in Events |-> "none"]
    /\ call = [c \in Calls |-> CallIdle]
    /\ retrying = [q \in Retries |-> [pc |-> "idle", now |-> {}]]
    /\ applied = [e \in Events |-> 0]
    /\ unsure = {} /\ abandoned = {} /\ late = {}
    /\ replays = [e \in Events |-> 0]
    /\ errors = 0

-----------------------------------------------------------------------------
(* processQueue, one action per await.                                     *)

EnqueueEvent(e) ==
    /\ state[e] = "none"
    /\ state' = [state EXCEPT ![e] = "PENDING"]
    /\ UNCHANGED <<attempts, letter, call, retrying, history, errors>>

\* claimQueueEvents, over the events whose next_retry_at has come.
Claim(c) ==
    /\ call[c].pc = "idle"
    /\ \E batch \in SUBSET Claimable :
           /\ batch # {} /\ Cardinality(batch) <= BatchSize
           /\ state' = [e \in Events |-> IF e \in batch THEN "PROCESSING" ELSE state[e]]
           /\ call' = [call EXCEPT ![c] =
                          [pc |-> "next", batch |-> batch, now |-> {}, taken |-> attempts]]
    /\ UNCHANGED <<attempts, letter, retrying, history, errors>>

\* An event without an endpoint is dead at once.
NoEndpoint(c, e) ==
    /\ call[c].pc = "next" /\ Works(c, e) /\ e \in Bare
    /\ state' = [state EXCEPT ![e] = "DEAD_LETTER"]
    /\ attempts' = [attempts EXCEPT ![e] = MaxAttempts]
    /\ GoTo(c, "letter", e)
    /\ UNCHANGED <<letter, retrying, history, errors>>

\* processErpEvent applies the event...
Apply(c, e) ==
    /\ call[c].pc = "next" /\ Works(c, e) /\ e \notin Bare
    /\ applied' = [applied EXCEPT ![e] = @ + 1]
    /\ GoTo(c, "applied", e)
    /\ UNCHANGED <<rows, retrying, unsure, abandoned, late, replays, errors>>

\* ... or fails, perhaps after some of its statements.
ApplyFails(c, e) ==
    /\ call[c].pc = "next" /\ Works(c, e) /\ e \notin Bare
    /\ unsure' \in {unsure, unsure \cup {e}}
    /\ GoTo(c, "failed", e)
    /\ UNCHANGED <<rows, retrying, applied, abandoned, late, replays, errors>>

MarkProcessed(c, e) ==
    /\ At(c, "applied", e)
    /\ state' = [state EXCEPT ![e] = "PROCESSED"]
    /\ Done(c, e)
    /\ UNCHANGED <<attempts, letter, retrying, history, errors>>

\* The UPDATE is inside the try block: when it fails, or takes effect and its answer
\* is lost, that counts as a failure of the event.
MarkFails(c, e) ==
    /\ At(c, "applied", e)
    /\ DatabaseError
    /\ state' \in {state, [state EXCEPT ![e] = "PROCESSED"]}
    /\ unsure' = unsure \cup {e}
    /\ GoTo(c, "failed", e)
    /\ UNCHANGED <<attempts, letter, retrying, applied, abandoned, late, replays>>

\* Mutant: one attempt more.
LastLater(next) == next > MaxAttempts
Last(next) == next >= MaxAttempts

MarkRetry(c, e) ==
    LET next == call[c].taken[e] + 1 IN
    /\ At(c, "failed", e) /\ ~Last(next)
    /\ state' = [state EXCEPT ![e] = "RETRY"]
    /\ attempts' = [attempts EXCEPT ![e] = next]
    /\ Done(c, e)
    /\ UNCHANGED <<letter, retrying, history, errors>>

MarkDead(c, e) ==
    LET next == call[c].taken[e] + 1 IN
    /\ At(c, "failed", e) /\ Last(next)
    /\ state' = [state EXCEPT ![e] = "DEAD_LETTER"]
    /\ attempts' = [attempts EXCEPT ![e] = next]
    /\ GoTo(c, "letter", e)
    /\ UNCHANGED <<letter, retrying, history, errors>>

\* INSERT ... ON CONFLICT DO UPDATE, which leaves the status of a letter alone.
\* Mutants: an UPDATE alone; the event's status copied into the letter.
LetterUpdated(e) == letter[e]
LetterCopied(e) == state[e]
LetterWritten(e) == IF letter[e] = "none" THEN "OPEN" ELSE letter[e]

WriteLetter(c, e) ==
    /\ At(c, "letter", e)
    /\ letter' = [letter EXCEPT ![e] = LetterWritten(e)]
    /\ Done(c, e)
    /\ UNCHANGED <<state, attempts, retrying, history, errors>>

\* The process dies, or a statement outside the try block fails: the rest of the
\* batch goes with it.
CallDies(c) ==
    /\ call[c].pc # "idle"
    /\ DatabaseError
    /\ abandoned' = abandoned \cup call[c].batch
    /\ unsure' = IF call[c].pc = "applied" THEN unsure \cup call[c].now ELSE unsure
    /\ call' = [call EXCEPT ![c] = CallIdle]
    /\ UNCHANGED <<rows, retrying, applied, late, replays>>

-----------------------------------------------------------------------------
(* Dead letters.                                                           *)

\* The events of some letters become RETRY, whatever they are.
PutBack(S) ==
    /\ \A e \in S : replays[e] < MaxReplays
    /\ state' = [e \in Events |-> IF e \in S THEN "RETRY" ELSE state[e]]
    /\ replays' = [e \in Events |-> IF e \in S THEN replays[e] + 1 ELSE replays[e]]
    /\ late' = late \cup
           {e \in S : state[e] # "DEAD_LETTER" \/ \E c \in Calls : Works(c, e)}

\* retryDlq reads an OPEN letter...
RetryRead(q, e) ==
    /\ retrying[q].pc = "idle" /\ e \in Open
    /\ retrying' = [retrying EXCEPT ![q] = [pc |-> "read", now |-> {e}]]
    /\ UNCHANGED <<rows, call, history, errors>>

\* ... puts the event back by id...
RetryEvent(q) ==
    /\ retrying[q].pc = "read"
    /\ PutBack(retrying[q].now)
    /\ retrying' = [retrying EXCEPT ![q].pc = "moved"]
    /\ UNCHANGED <<attempts, letter, call, applied, unsure, abandoned, errors>>

\* ... and then marks the letter.
RetryLetter(q) ==
    /\ retrying[q].pc = "moved"
    /\ letter' = [e \in Events |-> IF e \in retrying[q].now THEN "REPLAYED" ELSE letter[e]]
    /\ retrying' = [retrying EXCEPT ![q] = [pc |-> "idle", now |-> {}]]
    /\ UNCHANGED <<state, attempts, call, history, errors>>

RetryDies(q) ==
    /\ retrying[q].pc # "idle"
    /\ DatabaseError
    /\ retrying' = [retrying EXCEPT ![q] = [pc |-> "idle", now |-> {}]]
    /\ UNCHANGED <<rows, call, history>>

\* retryDlqBatch, of one endpoint's letters or of all.
RetryBatch ==
    \E S \in SUBSET Open :
        /\ S # {}
        /\ PutBack(S)
        /\ letter' = [e \in Events |-> IF e \in S THEN "REPLAYED" ELSE letter[e]]
        /\ UNCHANGED <<attempts, call, retrying, applied, unsure, abandoned, errors>>

-----------------------------------------------------------------------------
CallStep(c) ==
    \E e \in Events :
        \/ NoEndpoint(c, e) \/ Apply(c, e) \/ ApplyFails(c, e) \/ MarkProcessed(c, e)
        \/ MarkRetry(c, e) \/ MarkDead(c, e) \/ WriteLetter(c, e)

CNext ==
    \/ \E e \in Events : EnqueueEvent(e)
    \/ \E c \in Calls : Claim(c) \/ CallStep(c) \/ CallDies(c)
    \/ \E c \in Calls : \E e \in Events : MarkFails(c, e)
    \/ \E q \in Retries : RetryEvent(q) \/ RetryLetter(q) \/ RetryDies(q)
    \/ \E q \in Retries : \E e \in Events : RetryRead(q, e)
    \/ RetryBatch

CSpec == CInit /\ [][CNext]_connectorVars

\* A request that was received is worked on until it ends or dies; nothing makes
\* anybody send one.
CFairSpec == CSpec /\ \A c \in Calls : WF_connectorVars(CallStep(c))

-----------------------------------------------------------------------------
(* Properties.                                                             *)

\* Every variable has its type.
ConnectorTypeOK ==
    /\ state \in [Events -> {"none", "PENDING", "PROCESSING", "RETRY", "PROCESSED",
                             "DEAD_LETTER"}]
    /\ attempts \in [Events -> Nat]
    /\ letter \in [Events -> {"none", "OPEN", "REPLAYED"}]
    /\ call \in [Calls -> [pc : {"idle", "next", "applied", "failed", "letter"},
                           batch : SUBSET Events, now : SUBSET Events,
                           taken : [Events -> Nat]]]
    /\ retrying \in [Retries -> [pc : {"idle", "read", "moved"}, now : SUBSET Events]]
    /\ applied \in [Events -> Nat]
    /\ unsure \subseteq Events /\ abandoned \subseteq Events /\ late \subseteq Events
    /\ replays \in [Events -> Nat]
    /\ errors \in 0 .. MaxErrors

\* A claim is exclusive: two requests work on one event only after a retryDlq put
\* back an event that was not dead any more, or whose request was not through.
ClaimIsExclusive ==
    \A e \in Events \ late : \A c, d \in Calls : Works(c, e) /\ Works(d, e) => c = d

\* An event stays PROCESSING after its request only when that request died; nothing
\* recovers those.
StuckOnlyIfAbandoned ==
    \A e \in Events :
        state[e] = "PROCESSING" => e \in abandoned \/ \E c \in Calls : Works(c, e)

\* A dead event has a letter, once its request is through with it.
DeadHasLetter ==
    \A e \in Events :
        state[e] = "DEAD_LETTER" /\ letter[e] = "none" =>
            e \in abandoned \/ \E c \in Calls : At(c, "letter", e)

\* An ERP event is applied once, retried, revived or not, unless an outcome was not
\* recorded. One that a late retry let several requests have is applied at most once
\* for each time it was put back.
AppliedOnce ==
    \A e \in Events \ unsure : applied[e] <= IF e \in late THEN replays[e] ELSE 1

\* An event is tried max_attempts times, and once more each time it is put back.
AttemptsBounded == \A e \in Events : attempts[e] <= MaxAttempts + replays[e]

\* A request that marked its event and did not hear of it leaves its catch block.
Unheard(c, e) == e \in unsure /\ At(c, "failed", e) /\ ~At(c, "failed", e)'

\* What is PROCESSED is not touched again, but by a late retry, or by the request that
\* marked it and writes a failure over it because the answer was lost.
ProcessedStays ==
    [][\A e \in Events :
           state[e] = "PROCESSED" /\ e \notin late' =>
               state'[e] = "PROCESSED" \/ \E c \in Calls : Unheard(c, e)]_connectorVars

\* Where an event is for those who work on the queue: one in a batch is held, even
\* when it is dead and only its letter is still to be written.
Resting(status) ==
    CASE status = "none" -> "absent"
      [] status \in {"PENDING", "RETRY"} -> "waiting"
      [] status = "PROCESSING" -> "stuck"
      [] status = "PROCESSED" -> "done"
      [] status = "DEAD_LETTER" -> "dead"
Standing(e) ==
    IF e \in late THEN "loose"
    ELSE IF \E c \in Calls : Works(c, e) THEN "held"
    ELSE Resting(state[e])
Holders(e) == IF e \in late THEN {} ELSE {c \in Calls : Works(c, e)}
Queue == INSTANCE WorkQueue WITH
    Items <- Events,
    Owners <- Calls,
    state <- [e \in Events |-> Standing(e)],
    owners <- [e \in Events |-> Holders(e)]

\* Every step of the requests is a step of the work queue: an event is claimed by one
\* request, which alone settles it; an applied event is not claimed again, a dead one
\* is put back with its attempts or not at all; but for late retries.
ImplementsWorkQueue == Queue!Spec

\* A claimed event gets an outcome, unless its request dies.
ClaimSettles ==
    \A e \in Events : state[e] = "PROCESSING" ~> state[e] # "PROCESSING" \/ e \in abandoned
=============================================================================
