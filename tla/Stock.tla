-------------------------------- MODULE Stock --------------------------------
(***************************************************************************)
(* The stock of a merchant's variants and everybody who changes it:        *)
(*   - reservations, made, confirmed, released and expired by the worker's *)
(*     inventory handlers and by the API's inventory controller;           *)
(*   - the reconciliation cron of every API process, one transaction of    *)
(*     several statements, which expires reservations and overwrites       *)
(*     quantity_reserved with what the reservations sum to;                *)
(*   - orders, which take stock when they become active and give it back   *)
(*     when they are cancelled, and writers of their status who do neither;*)
(*   - stock updates, the listing that overwrites on-hand quantities with  *)
(*     the totals by location, and the agent that reserves by itself.      *)
(* A reservation and an order are for one unit. A transaction that locks   *)
(* its rows before it reads them is one action; it waits for the rows that *)
(* a reconciliation, or a connection left in a transaction, has locked.    *)
(***************************************************************************)
EXTENDS Integers, FiniteSets

CONSTANTS
    Variants,       \* rows of inventory_variants
    Reservations,   \* rows of stock_reservations ever inserted
    VariantOf,      \* the variant of each reservation
    Orders,         \* orders ever created
    Candidates,     \* the variants of the item that each order is for
    Apis,           \* API processes, whose reconciliations nothing but Redis excludes
    Initial,        \* quantity_on_hand of each variant at the start
    NoRow,          \* no row of inventory_stock_by_location, no total read from it
    MaxRequests,    \* bound: stock updates, listings, refusals, automatic reservations
    MaxFaults       \* bound: failed reconciliations and restarts

ASSUME RowsAssumption ==
    /\ IsFiniteSet(Reservations) /\ VariantOf \in [Reservations -> Variants]
    /\ IsFiniteSet(Orders) /\ Candidates \in [Orders -> SUBSET Variants]
    /\ Initial \in [Variants -> Nat] /\ NoRow \notin Int
ASSUME BoundsAssumption == MaxRequests \in Nat /\ MaxFaults \in Nat

VARIABLES
    onHand,     \* inventory_variants.quantity_on_hand
    reserved,   \* inventory_variants.quantity_reserved
    located,    \* quantity_on_hand at the default location, NoRow without one
    resv,       \* stock_reservations.status; "none" before the INSERT
    lapsed,     \* active reservations whose expires_at is past
    order,      \* orders.status: active ("open") or "cancelled"
    held,       \* orders with stock_deducted
    rec,        \* per API process: its reconciliation
    leaked,     \* variants locked by a connection released inside its transaction
    hung,       \* variants locked by a request that waits for itself
    listing,    \* the totals a listing has read and not yet written
    seen,       \* variants the agent is about to reserve
    heldFrom,   \* history: the variant that the stock of an order came from
    other,      \* history: units that came and went by other ways
    drifted,    \* history: variants that the agent has reserved
    lowered,    \* history: variants that something but a confirmation took from
    settled,    \* history: orders last written by a request that moves stock
    requests,   \* stock updates, listings, refusals and automatic reservations so far
    faults      \* failed reconciliations and restarts so far

quantityVars == <<onHand, reserved, located>>
reservationVars == <<resv, lapsed>>
orderVars == <<order, held, heldFrom, settled>>
historyVars == <<other, drifted, lowered>>
lockVars == <<leaked, hung>>
boundVars == <<requests, faults>>
vars == <<quantityVars, reservationVars, orderVars, rec, lockVars, listing, seen,
          historyVars, boundVars>>

-----------------------------------------------------------------------------
\* Mutant: no clamp.
LargerUnclamped(m, n) == m
Larger(m, n) == IF m >= n THEN m ELSE n

Of(v, S) == {r \in S : VariantOf[r] = v}
InStatus(s) == {r \in Reservations : resv[r] = s}
Active(v) == Of(v, InStatus("active"))
HeldFrom(v) == {o \in held : heldFrom[o] = v}

RecIdle == [pc |-> "idle", asOf |-> {}, due |-> {}, marked |-> {}, rows |-> {},
            value |-> [v \in Variants |-> 0], expect |-> [v \in Variants |-> 0],
            todo |-> {}]

\* No reconciliation of another process (of any, for the other transactions) has
\* locked the row.
FreeOf(p, v) == v \notin leaked \cup hung /\ \A q \in Apis \ {p} : v \notin rec[q].rows
\* Mutant: handlers that do not wait for the row.
FreeWithoutLock(v) == v \notin leaked
Free(v) == v \notin leaked \cup hung /\ \A p \in Apis : v \notin rec[p].rows
\* Mutant: handlers that read the reservation without FOR UPDATE.
FreeReservationWithoutLock(r) == r \in Reservations
FreeReservation(r) == \A p \in Apis : r \notin rec[p].marked

Request == requests < MaxRequests /\ requests' = requests + 1

-----------------------------------------------------------------------------
Init ==
    /\ onHand = Initial
    /\ reserved = [v \in Variants |-> 0]
    /\ located \in {[v \in Variants |-> NoRow], Initial}
    /\ resv = [r \in Reservations |-> "none"]
    /\ lapsed = {}
    /\ order = [o \in Orders |-> "none"]
    /\ held = {}
    /\ rec = [p \in Apis |-> RecIdle]
    /\ leaked = {} /\ hung = {}
    /\ listing = [v \in Variants |-> NoRow]
    /\ seen = {}
    /\ heldFrom \in [Orders -> Variants]
    /\ other = [v \in Variants |-> 0]
    /\ drifted = {}
    /\ lowered = {}
    /\ settled = {}
    /\ requests = 0
    /\ faults = 0

-----------------------------------------------------------------------------
(* Reservations. The API's handlers also keep the row of the location.     *)

\* Mutant: what is reserved counts as available.
AvailableOnHand(v) == onHand[v]
Available(v) == onHand[v] - reserved[v]

\* The worker's handler; the API's inserts a row for the location, with nothing
\* on hand, when there is none.
Reserve(r) ==
    LET v == VariantOf[r] IN
    /\ resv[r] = "none" /\ Free(v) /\ Available(v) >= 1
    /\ resv' = [resv EXCEPT ![r] = "active"]
    /\ reserved' = [reserved EXCEPT ![v] = @ + 1]
    /\ \/ UNCHANGED located
       \/ located' = [located EXCEPT ![v] = IF @ = NoRow THEN 0 ELSE @]
    /\ UNCHANGED <<onHand, lapsed, orderVars, rec, lockVars, listing, seen,
                   historyVars, boundVars>>

\* The API refuses and returns without ROLLBACK: the connection goes back to the
\* pool with the row locked (the worker rolls back, which changes nothing).
Refuse(v) ==
    /\ Free(v) /\ Available(v) < 1
    /\ Request
    /\ leaked' = leaked \cup {v}
    /\ UNCHANGED <<hung, quantityVars, reservationVars, orderVars, rec, listing, seen,
                   historyVars, faults>>

\* Until the next user of the connection commits, or it is closed as idle. Single
\* statements run on it in between join its open transaction: what is closed takes them
\* along, unseen by anybody, as if they had not run. The rows they lock are left out.
LeakEnds(v) ==
    /\ v \in leaked
    /\ leaked' = leaked \ {v}
    /\ UNCHANGED <<hung, quantityVars, reservationVars, orderVars, rec, listing, seen,
                   historyVars, boundVars>>

\* expires_at is not looked at.
Confirm(r) ==
    LET v == VariantOf[r] IN
    /\ resv[r] = "active" /\ FreeReservation(r) /\ Free(v)
    /\ resv' = [resv EXCEPT ![r] = "confirmed"]
    /\ onHand' = [onHand EXCEPT ![v] = @ - 1]
    /\ reserved' = [reserved EXCEPT ![v] = @ - 1]
    /\ \/ UNCHANGED located
       \/ located' = [located EXCEPT ![v] = IF @ = NoRow THEN @ ELSE Larger(@ - 1, 0)]
    /\ lapsed' = lapsed \ {r}
    /\ UNCHANGED <<orderVars, rec, lockVars, listing, seen, historyVars, boundVars>>

Release(r) ==
    LET v == VariantOf[r] IN
    /\ resv[r] = "active" /\ FreeReservation(r) /\ Free(v)
    /\ resv' = [resv EXCEPT ![r] = "released"]
    /\ reserved' = [reserved EXCEPT ![v] = @ - 1]
    /\ lapsed' = lapsed \ {r}
    /\ UNCHANGED <<onHand, located, orderVars, rec, lockVars, listing, seen,
                   historyVars, boundVars>>

Lapse(r) ==
    /\ resv[r] = "active" /\ r \notin lapsed
    /\ lapsed' = lapsed \cup {r}
    /\ UNCHANGED <<quantityVars, resv, orderVars, rec, lockVars, listing, seen,
                   historyVars, boundVars>>

\* The worker's task.
CleanupExpired ==
    /\ lapsed # {}
    /\ \A r \in lapsed : FreeReservation(r) /\ Free(VariantOf[r])
    /\ resv' = [r \in Reservations |-> IF r \in lapsed THEN "expired" ELSE resv[r]]
    /\ reserved' = [v \in Variants |-> reserved[v] - Cardinality(Of(v, lapsed))]
    /\ lapsed' = {}
    /\ UNCHANGED <<onHand, located, orderVars, rec, lockVars, listing, seen,
                   historyVars, boundVars>>

-----------------------------------------------------------------------------
(* The reconciliation cron, statement by statement. What it has written is *)
(* its own until it commits: marked, and value for the rows.               *)

RecAt(p, pc) == rec[p].pc = pc
Own(p, v) == IF v \in rec[p].rows THEN rec[p].value[v] ELSE reserved[v]

\* loadCandidateMerchants. Mutant: those with something left to reserve.
CandidateByAvailable == \E v \in Variants : Available(v) > 0
Candidate == InStatus("active") # {} \/ \E v \in Variants : reserved[v] > 0

RecStart(p) ==
    /\ RecAt(p, "idle") /\ Candidate
    /\ rec' = [rec EXCEPT ![p] = [RecIdle EXCEPT !.pc = "look", !.asOf = lapsed]]
    /\ UNCHANGED <<quantityVars, reservationVars, orderVars, lockVars, listing, seen,
                   historyVars, boundVars>>

\* Which reservations are due, without a lock.
RecLook(p) ==
    LET due == rec[p].asOf \cap lapsed IN
    /\ RecAt(p, "look")
    /\ rec' = [rec EXCEPT ![p].due = due,
                          ![p].pc = IF due = {} THEN "sync" ELSE "mark"]
    /\ UNCHANGED <<quantityVars, reservationVars, orderVars, lockVars, listing, seen,
                   historyVars, boundVars>>

\* markReservationsExpired: those that are still active once their locks are free.
RecMark(p) ==
    LET due == rec[p].due IN
    /\ RecAt(p, "mark")
    /\ \A r \in due : resv[r] = "active" => FreeReservation(r)
    /\ rec' = [rec EXCEPT ![p].marked = due \cap InStatus("active"),
                          ![p].todo = {VariantOf[r] : r \in due},
                          ![p].pc = "give"]
    /\ UNCHANGED <<quantityVars, reservationVars, orderVars, lockVars, listing, seen,
                   historyVars, boundVars>>

\* adjustVariantReservedQuantity: minus what was due, marked or not.
RecGive(p, v) ==
    LET given == Larger(Own(p, v) - Cardinality(Of(v, rec[p].due)), 0) IN
    /\ RecAt(p, "give") /\ v \in rec[p].todo /\ FreeOf(p, v)
    /\ rec' = [rec EXCEPT ![p].value[v] = given, ![p].rows = @ \cup {v},
                          ![p].todo = @ \ {v}]
    /\ UNCHANGED <<quantityVars, reservationVars, orderVars, lockVars, listing, seen,
                   historyVars, boundVars>>

\* The rows to correct. Mutant: a JOIN in place of the LEFT JOIN.
WrongInnerJoin(p, expect) ==
    {v \in Variants : expect[v] > 0 /\ Larger(Own(p, v), 0) # expect[v]}
Wrong(p, expect) == {v \in Variants : Larger(Own(p, v), 0) # expect[v]}

\* The snapshot of syncVariantReservedAgainstActiveReservations.
RecSync(p) ==
    LET counted == InStatus("active") \ (rec[p].marked \cup rec[p].asOf)
        expect == [v \in Variants |-> Cardinality(Of(v, counted))]
    IN
    /\ RecAt(p, "sync") \/ (RecAt(p, "give") /\ rec[p].todo = {})
    /\ rec' = [rec EXCEPT ![p].expect = expect,
                          ![p].todo = Wrong(p, expect),
                          ![p].pc = "write"]
    /\ UNCHANGED <<quantityVars, reservationVars, orderVars, lockVars, listing, seen,
                   historyVars, boundVars>>

\* Its UPDATE of one row: compared again once the lock is free.
RecWrite(p, v) ==
    /\ RecAt(p, "write") /\ v \in rec[p].todo /\ FreeOf(p, v)
    /\ rec' = IF Larger(Own(p, v), 0) = rec[p].expect[v]
              THEN [rec EXCEPT ![p].todo = @ \ {v}]
              ELSE [rec EXCEPT ![p].value[v] = rec[p].expect[v],
                               ![p].rows = @ \cup {v}, ![p].todo = @ \ {v}]
    /\ UNCHANGED <<quantityVars, reservationVars, orderVars, lockVars, listing, seen,
                   historyVars, boundVars>>

RecCommit(p) ==
    /\ RecAt(p, "write") /\ rec[p].todo = {}
    /\ resv' = [r \in Reservations |-> IF r \in rec[p].marked THEN "expired" ELSE resv[r]]
    /\ reserved' = [v \in Variants |-> Own(p, v)]
    /\ lapsed' = lapsed \ rec[p].marked
    /\ rec' = [rec EXCEPT ![p] = RecIdle]
    /\ UNCHANGED <<onHand, located, orderVars, lockVars, listing, seen,
                   historyVars, boundVars>>

\* lock_timeout, where the next statement waits for a row: all of it is undone.
RecTimeout(p) ==
    /\ \/ RecAt(p, "mark") /\ \E r \in rec[p].due : ~FreeReservation(r)
       \/ \E v \in rec[p].todo : ~FreeOf(p, v)
    /\ rec' = [rec EXCEPT ![p] = RecIdle]
    /\ UNCHANGED <<quantityVars, reservationVars, orderVars, lockVars, listing, seen,
                   historyVars, boundVars>>

\* A database error, or the death of the process.
RecRollback(p) ==
    /\ ~RecAt(p, "idle")
    /\ faults < MaxFaults /\ faults' = faults + 1
    /\ rec' = [rec EXCEPT ![p] = RecIdle]
    /\ UNCHANGED <<quantityVars, reservationVars, orderVars, lockVars, listing, seen,
                   historyVars, requests>>

RecStep(p) ==
    \/ RecStart(p) \/ RecLook(p) \/ RecMark(p) \/ RecSync(p) \/ RecCommit(p)
    \/ \E v \in Variants : RecGive(p, v) \/ RecWrite(p, v)

-----------------------------------------------------------------------------
(* Orders. The statement picks the candidate with most (to give back, with *)
(* least) on hand when it begins and writes it once its lock is free: any. *)

\* handleStockForOrder("DEDUCT"), clamped at zero, with stock_deducted = true.
Deduct(o, v) ==
    LET left == Larger(onHand[v] - 1, 0) IN
    /\ Free(v)
    /\ onHand' = [onHand EXCEPT ![v] = left]
    /\ other' = [other EXCEPT ![v] = @ + left - (onHand[v] - 1)]
    /\ lowered' = lowered \cup {v}
    /\ held' = held \cup {o}
    /\ heldFrom' = [heldFrom EXCEPT ![o] = v]

\* handleStockForOrder("RESTORE"), with stock_deducted = false. Mutant: the flag stays.
RestoreFlagged(o, v) ==
    /\ Free(v)
    /\ onHand' = [onHand EXCEPT ![v] = @ + 1]
    /\ other' = IF v = heldFrom[o] THEN other
                ELSE [other EXCEPT ![v] = @ + 1, ![heldFrom[o]] = @ - 1]
    /\ UNCHANGED <<held, heldFrom, lowered>>
Restore(o, v) ==
    /\ Free(v)
    /\ onHand' = [onHand EXCEPT ![v] = @ + 1]
    /\ other' = IF v = heldFrom[o] THEN other
                ELSE [other EXCEPT ![v] = @ + 1, ![heldFrom[o]] = @ - 1]
    /\ held' = held \ {o}
    /\ UNCHANGED <<heldFrom, lowered>>

\* A cashier's order or a reorder. The availability was checked before the
\* transaction and against catalog_items too, so nothing is known of it here.
OrderCreated(o, v) ==
    /\ order[o] = "none"
    /\ order' = [order EXCEPT ![o] = "open"]
    /\ settled' = settled \cup {o}
    /\ Deduct(o, v)
    /\ UNCHANGED <<reserved, located, reservationVars, rec, lockVars, listing, seen,
                   drifted, boundVars>>

\* updateOrderStatus to an active status, from any status.
OrderActive(o, v) ==
    /\ order[o] # "none" /\ o \notin held
    /\ order' = [order EXCEPT ![o] = "open"]
    /\ settled' = settled \cup {o}
    /\ Deduct(o, v)
    /\ UNCHANGED <<reserved, located, reservationVars, rec, lockVars, listing, seen,
                   drifted, boundVars>>

\* updateOrderStatus to CANCELLED.
OrderCancelled(o, v) ==
    /\ o \in held
    /\ order' = [order EXCEPT ![o] = "cancelled"]
    /\ settled' = settled \cup {o}
    /\ Restore(o, v)
    /\ UNCHANGED <<reserved, located, reservationVars, rec, lockVars, listing, seen,
                   drifted, boundVars>>

\* updateOrderStatus where the stock is already as it should be. Mutant: a status
\* that does not change is taken for that.
KeepsStockByStatus(o) == order[o]
KeepsStock(o) == IF o \in held THEN "open" ELSE "cancelled"

OrderUnmoved(o) ==
    /\ order[o] # "none"
    /\ order' = [order EXCEPT ![o] = KeepsStock(o)]
    /\ settled' = settled \cup {o}
    /\ UNCHANGED <<quantityVars, reservationVars, held, heldFrom, rec, lockVars, listing,
                   seen, historyVars, boundVars>>

\* The bot's and the portal's other orders, the courier's statuses, the agent
\* that confirms and books: by id, without a look at stock_deducted.
OrderOther(o) ==
    /\ \E s \in {"open", "cancelled"} :
           /\ order[o] = "none" => s = "open"
           /\ order' = [order EXCEPT ![o] = s]
    /\ settled' = settled \ {o}
    /\ UNCHANGED <<quantityVars, reservationVars, held, heldFrom, rec, lockVars, listing,
                   seen, historyVars, boundVars>>

-----------------------------------------------------------------------------
(* Stock updates, listings and the agent.                                  *)

\* updateStock of the worker (deductStock too: the check before it looks for
\* movements of a type it never writes), and of the API without a location.
UpdateStock(v, q) ==
    /\ Free(v) /\ onHand[v] + q >= 0
    /\ Request
    /\ onHand' = [onHand EXCEPT ![v] = @ + q]
    /\ other' = [other EXCEPT ![v] = @ + q]
    /\ lowered' = IF q < 0 THEN lowered \cup {v} ELSE lowered
    /\ UNCHANGED <<reserved, located, reservationVars, orderVars, rec, lockVars, listing,
                   seen, drifted, faults>>

\* The API's, with one: its transaction has written the row of the location when
\* ensureStockEntriesForVariant inserts the same row on a second connection, which
\* waits for the first. No timeout ends that, only a restart.
UpdateHangs(v) ==
    /\ Free(v)
    /\ Request
    /\ hung' = hung \cup {v}
    /\ UNCHANGED <<quantityVars, reservationVars, orderVars, rec, leaked, listing, seen,
                   historyVars, faults>>

HangEnds(v) ==
    /\ v \in hung
    /\ faults < MaxFaults /\ faults' = faults + 1
    /\ hung' = hung \ {v}
    /\ UNCHANGED <<quantityVars, reservationVars, orderVars, rec, leaked, listing, seen,
                   historyVars, requests>>

\* syncAllVariantTotals, the statement's snapshot of the totals by location...
ListRead(v) ==
    /\ listing[v] = NoRow /\ located[v] # NoRow
    /\ Request
    /\ listing' = [listing EXCEPT ![v] = located[v]]
    /\ UNCHANGED <<quantityVars, reservationVars, orderVars, rec, lockVars, seen,
                   historyVars, faults>>

\* ... and its write, once the lock is free.
ListWrite(v) ==
    /\ listing[v] # NoRow /\ Free(v)
    /\ onHand' = [onHand EXCEPT ![v] = listing[v]]
    /\ other' = [other EXCEPT ![v] = @ + listing[v] - onHand[v]]
    /\ lowered' = IF listing[v] < onHand[v] THEN lowered \cup {v} ELSE lowered
    /\ listing' = [listing EXCEPT ![v] = NoRow]
    /\ UNCHANGED <<reserved, located, reservationVars, orderVars, rec, lockVars, seen,
                   drifted, boundVars>>

\* invAutoReserveStockForPendingOrders selects a variant with nothing reserved...
AutoSelect(v) ==
    /\ v \notin seen /\ reserved[v] = 0 /\ onHand[v] >= 1
    /\ \E o \in Orders : order[o] = "open" /\ v \in Candidates[o]
    /\ Request
    /\ seen' = seen \cup {v}
    /\ UNCHANGED <<quantityVars, reservationVars, orderVars, rec, lockVars, listing,
                   historyVars, faults>>

\* ... and adds to it by id, without a row in stock_reservations.
AutoReserve(v) ==
    /\ v \in seen /\ Free(v)
    /\ reserved' = [reserved EXCEPT ![v] = @ + 1]
    /\ seen' = seen \ {v}
    /\ drifted' = drifted \cup {v}
    /\ UNCHANGED <<onHand, located, reservationVars, orderVars, rec, lockVars, listing,
                   other, lowered, boundVars>>

-----------------------------------------------------------------------------
Next ==
    \/ \E r \in Reservations : Reserve(r) \/ Confirm(r) \/ Release(r) \/ Lapse(r)
    \/ CleanupExpired
    \/ \E p \in Apis : RecStep(p) \/ RecTimeout(p) \/ RecRollback(p)
    \/ \E o \in Orders : OrderUnmoved(o) \/ OrderOther(o)
    \/ \E o \in Orders : \E v \in Candidates[o] :
           OrderCreated(o, v) \/ OrderActive(o, v) \/ OrderCancelled(o, v)
    \/ \E v \in Variants : \E q \in {-1, 1} : UpdateStock(v, q)
    \/ \E v \in Variants : Refuse(v) \/ LeakEnds(v) \/ UpdateHangs(v) \/ HangEnds(v)
                           \/ ListRead(v) \/ ListWrite(v) \/ AutoSelect(v) \/ AutoReserve(v)

Spec == Init /\ [][Next]_vars

\* The cron runs for ever, and an idle connection is closed after 30 seconds.
Fairness ==
    /\ \A p \in Apis : WF_vars(RecStep(p))
    /\ \A v \in Variants : WF_vars(LeakEnds(v))
FairSpec == Spec /\ Fairness

-----------------------------------------------------------------------------
(* Properties.                                                             *)

RecType ==
    [pc : {"idle", "look", "mark", "give", "sync", "write"},
     asOf : SUBSET Reservations, due : SUBSET Reservations,
     marked : SUBSET Reservations, rows : SUBSET Variants,
     value : [Variants -> Nat], expect : [Variants -> Nat], todo : SUBSET Variants]

\* Every variable has its type.
StockTypeOK ==
    /\ onHand \in [Variants -> Int] /\ reserved \in [Variants -> Int]
    /\ located \in [Variants -> Int \cup {NoRow}]
    /\ resv \in [Reservations -> {"none", "active", "confirmed", "released", "expired"}]
    /\ lapsed \subseteq Reservations
    /\ order \in [Orders -> {"none", "open", "cancelled"}]
    /\ held \subseteq Orders /\ heldFrom \in [Orders -> Variants] /\ settled \subseteq Orders
    /\ rec \in [Apis -> RecType]
    /\ leaked \subseteq Variants /\ hung \subseteq Variants /\ seen \subseteq Variants
    /\ listing \in [Variants -> Int \cup {NoRow}]
    /\ other \in [Variants -> Int]
    /\ drifted \subseteq Variants /\ lowered \subseteq Variants
    /\ requests \in 0 .. MaxRequests /\ faults \in 0 .. MaxFaults

\* quantity_reserved is the number of active reservations, whoever makes and ends
\* them, although a reconciliation subtracts reservations that it saw due and that
\* others may have ended since; but for what the agent reserves by itself.
ReservedMatchesActive ==
    \A v \in Variants \ drifted : reserved[v] = Cardinality(Active(v))

\* What is on hand is what was there, less one unit for each confirmed reservation
\* and for each order that stock_deducted says holds one, but for the stock that
\* updates, listings, clamped deductions and misplaced returns account for: no
\* order gives back twice, and no reservation takes twice.
StockAccounted ==
    \A v \in Variants :
        onHand[v] = Initial[v] + other[v]
                    - Cardinality(Of(v, InStatus("confirmed"))) - Cardinality(HeldFrom(v))

\* Reservations promise no more than what is on hand, unless an order, an update
\* or a listing took stock without a look at what is reserved.
PromisesCovered ==
    \A v \in Variants \ (drifted \cup lowered) : Cardinality(Active(v)) <= onHand[v]

\* An order that the portal wrote last holds stock while it is active and none
\* once it is cancelled, whatever others made of its status before.
HeldWhileOpen == \A o \in settled : o \in held <=> order[o] = "open"

\* Two reconciliations never work on the same row: what one has expired or changed
\* and not committed, no other has.
NoSharedRow ==
    \A p, q \in Apis :
        p # q => rec[p].marked \cap rec[q].marked = {} /\ rec[p].rows \cap rec[q].rows = {}

\* A reservation ends once: confirmed, released or expired, it stays so.
EndsOnce ==
    [][\A r \in Reservations :
           resv[r] \notin {"none", "active"} => resv'[r] = resv[r]]_vars

\* The stock is a ledger without a count of what is reserved: what handlers, orders,
\* the task and a reconciliation of many statements do to it is each one entry, or
\* none, and a unit is promised only if one is there that no reservation has, although
\* the handlers look at quantity_reserved; but for what the agent reserves by itself.
Books == INSTANCE Ledger WITH issued <- held, loose <- drifted
ImplementsLedger == Books!Spec

\* A reservation that lapses ends, unless a stock update hangs: the reconciliation
\* of the merchant then fails as a whole each time.
LapsedEnds ==
    \A r \in Reservations : r \in lapsed ~> resv[r] # "active" \/ hung # {}

\* What drifts apart, the cron brings together: quantity_reserved is again and
\* again the number of active reservations (a negative one counts as zero, so one
\* that the cron itself made negative stays so).
DriftCorrected ==
    \A v \in Variants : []<>(Larger(reserved[v], 0) = Cardinality(Active(v)) \/ hung # {})
=============================================================================
