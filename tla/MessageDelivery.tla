-------------------------- MODULE MessageDelivery --------------------------
(***************************************************************************)
(* Outbound WhatsApp messages: the table messages and everybody who sends  *)
(* from it or writes its delivery status:                                  *)
(*   - MessageDeliveryWorker in every API process: a cron that selects     *)
(*     PENDING and QUEUED rows, claims none of them, sends them one by one *)
(*     and records the outcome by id;                                      *)
(*   - the portal, which inserts an operator's message and then queues it; *)
(*   - the webhook, which inserts a bot's reply and sends it itself.       *)
(* A row is abstracted to its delivery_status, its retry_count and whether *)
(* it has a provider_message_id_outbound. Receipts change no row: nothing  *)
(* fills in the message_id of whatsapp_message_log that they join on.      *)
(***************************************************************************)
EXTENDS Naturals, FiniteSets

CONSTANTS
    Messages,       \* the outbound rows ever inserted, in created_at order
    Replies,        \* those the webhook sends; the others come from the portal
    Apis,           \* API processes (production runs two)
    BatchSize,      \* LIMIT of the SELECT (20)
    MaxRetries,     \* messages.max_retries (3)
    MaxFaults,      \* bound: process deaths and database errors in a behaviour
    MaxCount        \* bound: where the counters of copies saturate; a copy of the
                    \* webhook and one of the worker are told apart

ASSUME MessagesAssumption == Messages \subseteq Nat /\ Replies \subseteq Messages
ASSUME FinitenessAssumption == IsFiniteSet(Messages) /\ IsFiniteSet(Apis)
ASSUME NumbersAssumption ==
    /\ BatchSize \in Nat
    /\ MaxRetries \in Nat \ {0}
    /\ MaxFaults \in Nat
    /\ MaxCount \in Nat \ {0, 1}

VARIABLES
    status,     \* messages.delivery_status; "none" before the INSERT
    retry,      \* messages.retry_count
    acked,      \* rows with a provider_message_id_outbound
    origin,     \* where the request that inserted a row is with it
    api,        \* per API process: where processMessageQueue is, and its batch
    copies,     \* history: times the provider accepted the message
    lost,       \* history: those of operators' messages the worker did not learn or record
    faults      \* process deaths and database errors so far

rowVars == <<status, retry, acked>>
historyVars == <<copies, lost>>
vars == <<status, retry, acked, origin, api, copies, lost, faults>>

-----------------------------------------------------------------------------
Statuses == {"none", "PENDING", "QUEUED", "SENT", "FAILED"}

\* The request that inserted the row: about to queue it, about to send it, with
\* the provider's answer, or done with it.
Origins == {"none", "queueing", "sending", "sent", "done"}

\* Where the worker is with the first message of its batch: about to send it,
\* with the provider's answer (accepted, failed, refused for good), in the catch
\* block, or between the SELECT and the UPDATE of scheduleRetry, which has read
\* count.
ApiStates == {"idle", "send", "accepted", "failed", "refused", "threw", "retrying"}
ApiIdle == [pc |-> "idle", batch |-> {}, count |-> 0]
At(a, pc, m) == api[a].pc = pc /\ m \in api[a].batch /\ \A n \in api[a].batch : m <= n

Undelivered == {m \in Messages : status[m] \in {"PENDING", "QUEUED"}}
SelectableAcked == {m \in Undelivered : retry[m] < MaxRetries}
Selectable == {m \in Undelivered : m \notin acked /\ retry[m] < MaxRetries}
Oldest(S) == {m \in S : Cardinality({n \in S : n < m}) < BatchSize}

Bump(counter, m) ==
    [counter EXCEPT ![m] = IF @ < MaxCount THEN @ + 1 ELSE @]
\* Only operators' messages are counted as lost.
Lose(m) == IF m \in Replies THEN lost ELSE Bump(lost, m)
Fault == faults < MaxFaults /\ faults' = faults + 1

-----------------------------------------------------------------------------
Init ==
    /\ status = [m \in Messages |-> "none"]
    /\ retry = [m \in Messages |-> 0]
    /\ acked = {}
    /\ origin = [m \in Messages |-> "none"]
    /\ api = [a \in Apis |-> ApiIdle]
    /\ copies = [m \in Messages |-> 0]
    /\ lost = [m \in Messages |-> 0]
    /\ faults = 0

-----------------------------------------------------------------------------
(* The requests that insert a message.                                     *)

\* The INSERT leaves delivery_status at its default, which the worker selects.
Insert(m) ==
    /\ status[m] = "none"
    /\ status' = [status EXCEPT ![m] = "PENDING"]
    /\ origin' = [origin EXCEPT ![m] = IF m \in Replies THEN "sending" ELSE "queueing"]
    /\ UNCHANGED <<retry, acked, api, historyVars, faults>>

\* queueMessage: QUEUED by id, whatever the row has become.
Queue(m) ==
    /\ origin[m] = "queueing"
    /\ status' = [status EXCEPT ![m] = "QUEUED"]
    /\ origin' = [origin EXCEPT ![m] = "done"]
    /\ UNCHANGED <<retry, acked, api, historyVars, faults>>

\* The webhook sends the reply and gets an answer.
ReplyAccepted(m) ==
    /\ origin[m] = "sending"
    /\ origin' = [origin EXCEPT ![m] = "sent"]
    /\ copies' = Bump(copies, m)
    /\ UNCHANGED <<rowVars, api, lost, faults>>

\* A failure is logged only; the provider may have accepted it all the same.
ReplyFailed(m) ==
    /\ origin[m] = "sending"
    /\ origin' = [origin EXCEPT ![m] = "done"]
    /\ copies' \in {copies, Bump(copies, m)}
    /\ UNCHANGED <<rowVars, api, lost, faults>>

ReplyMarkAll(m) ==
    /\ origin[m] = "sent"
    /\ status' = [r \in Messages |-> IF r \in Undelivered \cap Replies THEN "SENT" ELSE status[r]]
    /\ acked' = acked \cup (Undelivered \cap Replies)
    /\ origin' = [origin EXCEPT ![m] = "done"]
    /\ UNCHANGED <<retry, api, historyVars, faults>>

\* markConversationReplyAsSent: the newest undelivered reply of the conversation
\* becomes SENT, with the provider's id of the one that was sent.
ReplyMark(m) ==
    \E r \in Undelivered \cap Replies :
        /\ origin[m] = "sent"
        /\ \A s \in Undelivered \cap Replies : s <= r
        /\ status' = [status EXCEPT ![r] = "SENT"]
        /\ acked' = acked \cup {r}
        /\ origin' = [origin EXCEPT ![m] = "done"]
        /\ UNCHANGED <<retry, api, historyVars, faults>>

\* No reply of the last ten minutes is undelivered.
ReplyMarkNone(m) ==
    /\ origin[m] = "sent"
    /\ \A r \in Undelivered \cap Replies : r < m
    /\ origin' = [origin EXCEPT ![m] = "done"]
    /\ UNCHANGED <<rowVars, api, historyVars, faults>>

\* The request fails or its process dies before it is through.
RequestDies(m) ==
    /\ origin[m] \in {"queueing", "sending", "sent"}
    /\ Fault
    /\ origin' = [origin EXCEPT ![m] = "done"]
    /\ UNCHANGED <<rowVars, api, historyVars>>

-----------------------------------------------------------------------------
(* MessageDeliveryWorker.processMessageQueue, one action per await.        *)

\* getMessagesForDelivery over the rows whose next_retry_at has come.
Fetch(a) ==
    \E due \in SUBSET Selectable \ {{}} :
        /\ api[a].pc = "idle"
        /\ api' = [api EXCEPT ![a] = [pc |-> "send", batch |-> Oldest(due), count |-> 0]]
        /\ UNCHANGED <<rowVars, origin, historyVars, faults>>

Goto(a, pc) == api' = [api EXCEPT ![a].pc = pc]

SendAccepted(a) ==
    \E m \in api[a].batch :
        /\ At(a, "send", m)
        /\ Goto(a, "accepted")
        /\ copies' = Bump(copies, m)
        /\ UNCHANGED <<rowVars, origin, lost, faults>>

SendFailedUnchecked(a) ==
    \E m \in api[a].batch :
        /\ At(a, "send", m)
        /\ Goto(a, "accepted")
        /\ \/ UNCHANGED historyVars
           \/ copies' = Bump(copies, m) /\ lost' = Lose(m)
        /\ UNCHANGED <<rowVars, origin, faults>>

\* An error of the network, of the provider, or of the log written after it
\* accepted the message.
SendFailed(a) ==
    \E m \in api[a].batch :
        /\ At(a, "send", m)
        /\ Goto(a, "failed")
        /\ \/ UNCHANGED historyVars
           \/ copies' = Bump(copies, m) /\ lost' = Lose(m)
        /\ UNCHANGED <<rowVars, origin, faults>>

\* isNonRetryableMetaError.
SendRefused(a) ==
    \E m \in api[a].batch :
        /\ At(a, "send", m)
        /\ Goto(a, "refused")
        /\ UNCHANGED <<rowVars, origin, historyVars, faults>>

\* On to the next message of the batch.
Advance(a, m) ==
    api' = [api EXCEPT ![a] =
               IF @.batch = {m} THEN ApiIdle
               ELSE [pc |-> "send", batch |-> @.batch \ {m}, count |-> 0]]

\* updateDeliveryStatus: the row, then its events, whose failure is thrown.
RecordSent(a) ==
    \E m \in api[a].batch :
        /\ At(a, "accepted", m)
        /\ status' = [status EXCEPT ![m] = "SENT"]
        /\ acked' = acked \cup {m}
        /\ \/ Advance(a, m) /\ UNCHANGED faults
           \/ Goto(a, "threw") /\ Fault
        /\ UNCHANGED <<retry, origin, historyVars>>

\* A failure that may be retried is recorded and thrown.
RecordFailed(a) ==
    \E m \in api[a].batch :
        /\ At(a, "failed", m)
        /\ status' = [status EXCEPT ![m] = "FAILED"]
        /\ Goto(a, "threw")
        /\ UNCHANGED <<retry, acked, origin, historyVars, faults>>

RecordRefused(a) ==
    \E m \in api[a].batch :
        /\ At(a, "refused", m)
        /\ status' = [status EXCEPT ![m] = "FAILED"]
        /\ \/ Advance(a, m) /\ UNCHANGED faults
           \/ Goto(a, "threw") /\ Fault
        /\ UNCHANGED <<retry, acked, origin, historyVars>>

\* The UPDATE of updateDeliveryStatus fails.
RecordError(a) ==
    \E m \in api[a].batch, pc \in {"accepted", "failed", "refused"} :
        /\ At(a, pc, m)
        /\ Fault
        /\ Goto(a, "threw")
        /\ lost' = IF pc = "accepted" THEN Lose(m) ELSE lost
        /\ UNCHANGED <<rowVars, origin, copies>>

\* scheduleRetry reads the row.
ReadRetry(a) ==
    \E m \in api[a].batch :
        /\ At(a, "threw", m)
        /\ api' = [api EXCEPT ![a].pc = "retrying", ![a].count = retry[m]]
        /\ UNCHANGED <<rowVars, origin, historyVars, faults>>

GivesUpLate(a) == api[a].count + 1 > MaxRetries
GivesUp(a) == api[a].count + 1 >= MaxRetries

RescheduleDown(a) ==
    \E m \in api[a].batch :
        /\ At(a, "retrying", m)
        /\ ~GivesUp(a)
        /\ status' = [status EXCEPT ![m] = "PENDING"]
        /\ retry' = [retry EXCEPT ![m] = api[a].count - 1]
        /\ Advance(a, m)
        /\ UNCHANGED <<acked, origin, historyVars, faults>>

\* scheduleRetry writes what it read plus one, and PENDING.
Reschedule(a) ==
    \E m \in api[a].batch :
        /\ At(a, "retrying", m)
        /\ ~GivesUp(a)
        /\ status' = [status EXCEPT ![m] = "PENDING"]
        /\ retry' = [retry EXCEPT ![m] = api[a].count + 1]
        /\ Advance(a, m)
        /\ UNCHANGED <<acked, origin, historyVars, faults>>

\* Or FAILED for good; an error of its events ends the batch.
GiveUp(a) ==
    \E m \in api[a].batch :
        /\ At(a, "retrying", m)
        /\ GivesUp(a)
        /\ status' = [status EXCEPT ![m] = "FAILED"]
        /\ \/ Advance(a, m) /\ UNCHANGED faults
           \/ api' = [api EXCEPT ![a] = ApiIdle] /\ Fault
        /\ UNCHANGED <<retry, acked, origin, historyVars>>

\* A statement of scheduleRetry fails: the outer catch ends the batch.
RetryError(a) ==
    /\ api[a].pc \in {"threw", "retrying"}
    /\ Fault
    /\ api' = [api EXCEPT ![a] = ApiIdle]
    /\ UNCHANGED <<rowVars, origin, historyVars>>

\* The process dies, or shuts down between two messages.
Crash(a) ==
    /\ api[a].pc # "idle"
    /\ Fault
    /\ api' = [api EXCEPT ![a] = ApiIdle]
    /\ lost' = [m \in Messages |-> IF At(a, "accepted", m) THEN Lose(m)[m] ELSE lost[m]]
    /\ UNCHANGED <<rowVars, origin, copies>>

-----------------------------------------------------------------------------
WorkerStep(a) ==
    \/ Fetch(a) \/ SendAccepted(a) \/ SendFailed(a) \/ SendRefused(a)
    \/ RecordSent(a) \/ RecordFailed(a) \/ RecordRefused(a)
    \/ ReadRetry(a) \/ Reschedule(a) \/ GiveUp(a)

RequestStep(m) ==
    \/ Queue(m) \/ ReplyAccepted(m) \/ ReplyFailed(m)
    \/ ReplyMark(m) \/ ReplyMarkNone(m)

Next ==
    \/ \E m \in Messages : Insert(m) \/ RequestStep(m) \/ RequestDies(m)
    \/ \E a \in Apis : WorkerStep(a) \/ RecordError(a) \/ RetryError(a) \/ Crash(a)

Spec == Init /\ [][Next]_vars

\* The cron keeps firing, every call it awaits returns, and a row's next_retry_at
\* comes. Nothing is assumed of the requests.
Fairness == \A a \in Apis : WF_vars(WorkerStep(a))

FairSpec == Spec /\ Fairness
-----------------------------------------------------------------------------
(* Properties.                                                             *)

\* Every variable has its type.
TypeOK ==
    /\ status \in [Messages -> Statuses]
    /\ retry \in [Messages -> Nat]
    /\ acked \in SUBSET Messages
    /\ origin \in [Messages -> Origins]
    /\ api \in [Apis -> [pc : ApiStates, batch : SUBSET Messages, count : Nat]]
    /\ copies \in [Messages -> Nat]
    /\ lost \in [Messages -> Nat]
    /\ faults \in Nat

\* A customer gets an operator's message twice only if a sender did not learn, or
\* could not record, that the provider had accepted it (one API process only).
TwiceOnlyIfLost ==
    \A m \in Messages \ Replies : lost[m] < MaxCount => copies[m] <= 1 + lost[m]

\* An operator's message shown as SENT was accepted by the provider.
SentWasAccepted == \A m \in Messages \ Replies : status[m] = "SENT" => copies[m] > 0

\* The acceptances of the provider, one for each copy of a message.
Accepted == {c \in Messages \X (1 .. MaxCount) : c[2] <= copies[c[1]]}

\* A reply may be shown as SENT for another that was sent; but no more messages
\* are shown as SENT than were accepted.
SentNoMoreThanAccepted ==
    Cardinality({m \in Messages : status[m] = "SENT"}) <= Cardinality(Accepted)

\* Every operator's message is accepted by the provider or fails in the end,
\* through retries, crashes and errors.
Attempted ==
    \A m \in Messages \ Replies :
        status[m] = "PENDING" ~> (copies[m] > 0 \/ status[m] = "FAILED")
=============================================================================
