----------------------------- MODULE StockProofs -----------------------------
(***************************************************************************)
(* Theorems about Stock, for any number of variants, reservations, orders  *)
(* and API processes.                                                      *)
(***************************************************************************)
EXTENDS Stock, FiniteSetTheorems, TLAPS

-----------------------------------------------------------------------------
(* Counting.                                                               *)

\* Sets of reservations and of orders are finite, and so their parts for a variant.
LEMMA CountReservations ==
  ASSUME NEW S \in SUBSET Reservations, NEW v
  PROVE  /\ IsFiniteSet(Of(v, S))
         /\ Cardinality(Of(v, S)) \in Nat
<1>1. IsFiniteSet(Of(v, S))
  BY RowsAssumption, FS_Subset DEF Of
<1> QED
  BY <1>1, FS_CardinalityType

LEMMA CountOrders ==
  ASSUME NEW S \in SUBSET Orders
  PROVE  IsFiniteSet(S) /\ Cardinality(S) \in Nat
<1>1. IsFiniteSet(S)
  BY RowsAssumption, FS_Subset
<1> QED
  BY <1>1, FS_CardinalityType

\* One reservation more, or less, counts for its variant only.
LEMMA CountOneMore ==
  ASSUME NEW S \in SUBSET Reservations, NEW r \in Reservations, r \notin S, NEW v
  PROVE  Cardinality(Of(v, S \cup {r})) =
            IF v = VariantOf[r] THEN Cardinality(Of(v, S)) + 1 ELSE Cardinality(Of(v, S))
<1>1. CASE v = VariantOf[r]
  <2>1. Of(v, S \cup {r}) = Of(v, S) \cup {r} /\ r \notin Of(v, S)
    BY <1>1 DEF Of
  <2>2. IsFiniteSet(Of(v, S))
    BY CountReservations
  <2>3. Cardinality(Of(v, S) \cup {r}) = Cardinality(Of(v, S)) + 1
    BY <2>1, <2>2, FS_AddElement
  <2> QED
    BY <1>1, <2>1, <2>3
<1>2. CASE v # VariantOf[r]
  BY <1>2, Of(v, S \cup {r}) = Of(v, S) DEF Of
<1> QED
  BY <1>1, <1>2

LEMMA CountOneLess ==
  ASSUME NEW S \in SUBSET Reservations, NEW r \in S, NEW v
  PROVE  Cardinality(Of(v, S \ {r})) =
            IF v = VariantOf[r] THEN Cardinality(Of(v, S)) - 1 ELSE Cardinality(Of(v, S))
<1>1. CASE v = VariantOf[r]
  <2>1. Of(v, S \ {r}) = Of(v, S) \ {r} /\ r \in Of(v, S)
    BY <1>1 DEF Of
  <2>2. IsFiniteSet(Of(v, S))
    BY CountReservations
  <2>3. Cardinality(Of(v, S) \ {r}) = Cardinality(Of(v, S)) - 1
    BY <2>1, <2>2, FS_RemoveElement
  <2> QED
    BY <1>1, <2>1, <2>3
<1>2. CASE v # VariantOf[r]
  BY <1>2, Of(v, S \ {r}) = Of(v, S) DEF Of
<1> QED
  BY <1>1, <1>2

\* What is left after taking a part away.
LEMMA CountRest ==
  ASSUME NEW S \in SUBSET Reservations, NEW T \in SUBSET S, NEW v
  PROVE  Cardinality(Of(v, S \ T)) = Cardinality(Of(v, S)) - Cardinality(Of(v, T))
<1>1. /\ Of(v, S \ T) = Of(v, S) \ Of(v, T)
      /\ Of(v, S) \cap Of(v, T) = Of(v, T)
  BY DEF Of
<1>2. IsFiniteSet(Of(v, S))
  BY CountReservations
<1> DEFINE A == Of(v, S)
           B == Of(v, T)
<1>3. Cardinality(A \ B) = Cardinality(A) - Cardinality(A \cap B)
  <2>1. IsFiniteSet(A)
    BY <1>2
  <2> HIDE DEF A, B
  <2> QED
    BY <2>1, FS_Difference
<1> QED
  BY <1>1, <1>3

-----------------------------------------------------------------------------
(* Types.                                                                  *)

LEMMA IdleType == RecIdle \in RecType /\ \A S \in SUBSET Reservations :
                     [RecIdle EXCEPT !.pc = "look", !.asOf = S] \in RecType
  BY DEF RecIdle, RecType

\* The larger of two integers.
LEMMA LargerType ==
  ASSUME NEW m \in Int, NEW n \in Int
  PROVE  Larger(m, n) \in Int /\ Larger(m, n) >= m /\ Larger(m, n) >= n
  BY DEF Larger

\* A step of a reconciliation that commits nothing keeps the type of its record.
LEMMA RecKeepsType ==
  ASSUME StockTypeOK, NEW p \in Apis,
         RecStart(p) \/ RecLook(p) \/ RecMark(p) \/ RecSync(p)
           \/ \E v \in Variants : RecGive(p, v) \/ RecWrite(p, v)
  PROVE  rec' \in [Apis -> RecType]
<1> USE DEF StockTypeOK
<1>0. rec[p] \in RecType
  OBVIOUS
<1>1. CASE RecStart(p)
  BY <1>1, IdleType DEF RecStart
<1>2. CASE RecLook(p)
  BY <1>0, <1>2 DEF RecLook, RecType, RecAt
<1>3. CASE RecMark(p)
  <2>1. {VariantOf[r] : r \in rec[p].due} \in SUBSET Variants
    BY <1>0, RowsAssumption DEF RecType
  <2>2. rec[p].due \cap InStatus("active") \in SUBSET Reservations
    BY <1>0 DEF RecType
  <2> QED
    BY <1>0, <1>3, <2>1, <2>2 DEF RecMark, RecType
<1>4. CASE RecSync(p)
  <2>1. \A v \in Variants :
           Cardinality(Of(v, InStatus("active") \ (rec[p].marked \cup rec[p].asOf))) \in Nat
    BY CountReservations DEF InStatus
  <2> QED
    BY <1>0, <1>4, <2>1 DEF RecSync, Wrong, RecType
<1>5. ASSUME NEW v \in Variants, RecGive(p, v) PROVE rec' \in [Apis -> RecType]
  <2>1. Cardinality(Of(v, rec[p].due)) \in Nat
    BY <1>0, CountReservations DEF RecType
  <2>2. Own(p, v) \in Int
    BY <1>0 DEF Own, RecType
  <2>3. Larger(Own(p, v) - Cardinality(Of(v, rec[p].due)), 0) \in Nat
    BY <2>1, <2>2 DEF Larger
  <2> QED
    BY <1>0, <1>5, <2>3 DEF RecGive, RecType
<1>6. ASSUME NEW v \in Variants, RecWrite(p, v) PROVE rec' \in [Apis -> RecType]
  BY <1>0, <1>6 DEF RecWrite, RecType
<1> QED
  BY <1>1, <1>2, <1>3, <1>4, <1>5, <1>6

LEMMA InitStockTypeOK == Init => StockTypeOK
<1> SUFFICES ASSUME Init PROVE StockTypeOK
  OBVIOUS
<1>1. Initial \in [Variants -> Int] /\ Initial \in [Variants -> Int \cup {NoRow}]
  BY RowsAssumption
<1>2. rec \in [Apis -> RecType]
  BY IdleType DEF Init
<1> QED
  BY <1>1, <1>2, BoundsAssumption DEF Init, StockTypeOK

\* Every step keeps the types.
LEMMA NextStockTypeOK == StockTypeOK /\ [Next]_vars => StockTypeOK'
<1> SUFFICES ASSUME StockTypeOK, [Next]_vars PROVE StockTypeOK'
  OBVIOUS
<1> USE RowsAssumption, BoundsAssumption
    DEF StockTypeOK, quantityVars, reservationVars, orderVars, lockVars, historyVars, boundVars
<1>1. ASSUME NEW r \in Reservations, Reserve(r) \/ Confirm(r) PROVE StockTypeOK'
  <2>1. located' \in [Variants -> Int \cup {NoRow}]
    <3>1. \A v \in Variants : located[v] # NoRow => Larger(located[v] - 1, 0) \in Int
      BY DEF Larger
    <3> QED
      BY <1>1, <3>1 DEF Reserve, Confirm
  <2>2. CASE Reserve(r)
    BY <2>1, <2>2 DEF Reserve
  <2>3. CASE Confirm(r)
    BY <2>1, <2>3 DEF Confirm
  <2> QED
    BY <1>1, <2>2, <2>3
<1>2. ASSUME NEW r \in Reservations, Release(r) \/ Lapse(r) PROVE StockTypeOK'
  BY <1>2 DEF Release, Lapse
<1>3. CASE CleanupExpired
  <2>1. \A v \in Variants : Cardinality(Of(v, lapsed)) \in Nat
    BY CountReservations
  <2> QED
    BY <1>3, <2>1 DEF CleanupExpired
<1>4. ASSUME NEW p \in Apis, RecStep(p) PROVE StockTypeOK'
  <2>1. CASE RecCommit(p)
    <3>1. \A v \in Variants : Own(p, v) \in Int
      BY DEF Own, RecType
    <3> QED
      BY <2>1, <3>1, IdleType DEF RecCommit
  <2>2. CASE ~RecCommit(p)
    <3>1. rec' \in [Apis -> RecType]
      BY <1>4, <2>2, RecKeepsType DEF RecStep
    <3> QED
      BY <1>4, <2>2, <3>1 DEF RecStep, RecStart, RecLook, RecMark, RecSync, RecGive, RecWrite
  <2> QED
    BY <2>1, <2>2
<1>5. ASSUME NEW p \in Apis, RecTimeout(p) \/ RecRollback(p) PROVE StockTypeOK'
  <2>1. RecIdle \in RecType
    BY IdleType
  <2>2. rec' \in [Apis -> RecType]
    BY <1>5, <2>1 DEF RecTimeout, RecRollback
  <2>3. faults' \in 0 .. MaxFaults
    BY <1>5 DEF RecTimeout, RecRollback
  <2> QED
    BY <1>5, <2>2, <2>3 DEF RecTimeout, RecRollback
<1>6. ASSUME NEW o \in Orders, OrderUnmoved(o) \/ OrderOther(o) PROVE StockTypeOK'
  BY <1>6 DEF OrderUnmoved, KeepsStock, OrderOther
<1>7. ASSUME NEW o \in Orders, NEW v \in Candidates[o],
             OrderCreated(o, v) \/ OrderActive(o, v) PROVE StockTypeOK'
  <2>1. v \in Variants /\ Larger(onHand[v] - 1, 0) \in Int
    BY <1>7, LargerType
  <2> QED
    BY <1>7, <2>1 DEF OrderCreated, OrderActive, Deduct
<1>8. ASSUME NEW o \in Orders, NEW v \in Candidates[o], OrderCancelled(o, v) PROVE StockTypeOK'
  <2>1. v \in Variants
    OBVIOUS
  <2> QED
    BY <1>8, <2>1 DEF OrderCancelled, Restore
<1>9. ASSUME NEW v \in Variants, NEW q \in {-1, 1}, UpdateStock(v, q) PROVE StockTypeOK'
  BY <1>9 DEF UpdateStock, Request
<1>10. ASSUME NEW v \in Variants, Refuse(v) \/ LeakEnds(v) \/ UpdateHangs(v) \/ HangEnds(v)
       PROVE StockTypeOK'
  BY <1>10 DEF Refuse, LeakEnds, UpdateHangs, HangEnds, Request
<1>11. ASSUME NEW v \in Variants, ListRead(v) \/ ListWrite(v) PROVE StockTypeOK'
  BY <1>11 DEF ListRead, ListWrite, Request
<1>12. ASSUME NEW v \in Variants, AutoSelect(v) \/ AutoReserve(v) PROVE StockTypeOK'
  BY <1>12 DEF AutoSelect, AutoReserve, Request
<1>13. CASE UNCHANGED vars
  BY <1>13 DEF vars
<1> QED
  BY <1>1, <1>2, <1>3, <1>4, <1>5, <1>6, <1>7, <1>8, <1>9, <1>10, <1>11, <1>12, <1>13 DEF Next

\* Every variable has its type, whatever the transactions do.
THEOREM StockTypes == Spec => []StockTypeOK
  BY InitStockTypeOK, NextStockTypeOK, PTL DEF Spec

-----------------------------------------------------------------------------
(* The inductive invariant: what a reconciliation knows at each statement. *)

\* The active reservations of a variant, once a reconciliation commits.
Left(p, v) == Of(v, InStatus("active") \ rec[p].marked)

\* It holds nothing before it marks, and marks what is active.
HoldsInv(p) ==
    /\ rec[p].pc \in {"idle", "look", "mark", "sync"} =>
           rec[p].rows = {} /\ rec[p].marked = {}
    /\ \A r \in rec[p].marked : r \in rec[p].due /\ resv[r] = "active"

\* Of what was due when it began, whatever is still active it has marked.
AsOfInv(p) ==
    \A r \in rec[p].asOf :
        /\ resv[r] # "none"
        /\ resv[r] = "active" =>
               /\ rec[p].pc = "look" => r \in lapsed
               /\ rec[p].pc = "mark" => r \in rec[p].due
               /\ rec[p].pc \in {"give", "sync", "write"} => r \in rec[p].marked

\* It holds the variants of what is due before it counts.
RowsInv(p) ==
    \A r \in rec[p].due :
        /\ rec[p].pc = "give" => VariantOf[r] \in rec[p].rows \cup rec[p].todo
        /\ rec[p].pc # "sync"
        /\ rec[p].pc = "write" => VariantOf[r] \in rec[p].rows

\* It writes only rows that it has held since before it counted, and what it
\* writes is what will be active.
ValueInv(p) ==
    rec[p].pc = "write" =>
        \A v \in Variants \ drifted :
            /\ v \in rec[p].todo =>
                   v \in rec[p].rows /\ rec[p].expect[v] = Cardinality(Left(p, v))
            /\ v \in rec[p].rows \ rec[p].todo => rec[p].value[v] = Cardinality(Left(p, v))

RecInv(p) == HoldsInv(p) /\ AsOfInv(p) /\ RowsInv(p) /\ ValueInv(p)

LapsedActive == \A r \in lapsed : resv[r] = "active"

StockInv ==
    /\ StockTypeOK
    /\ LapsedActive
    /\ NoSharedRow
    /\ \A p \in Apis : RecInv(p)
    /\ ReservedMatchesActive

\* A step that leaves the record of a reconciliation alone keeps what it knows, if
\* it ends no reservation that the reconciliation has marked and none of a variant
\* that it holds, and makes none of such a variant.
LEMMA RecInvKept ==
  ASSUME StockTypeOK, NEW p \in Apis, RecInv(p), rec'[p] = rec[p], drifted \subseteq drifted',
         resv' \in [Reservations -> {"none", "active", "confirmed", "released", "expired"}],
         \A r \in rec[p].marked : resv'[r] = resv[r],
         \A r \in Reservations : VariantOf[r] \in rec[p].rows => resv'[r] = resv[r],
         \A r \in Reservations : resv'[r] = "none" => resv[r] = "none",
         \A r \in Reservations : resv'[r] = "active" => resv[r] \in {"none", "active"},
         \A r \in lapsed : resv'[r] = "active" => r \in lapsed'
  PROVE  RecInv(p)'
<1>0. /\ rec[p] \in RecType
      /\ rec[p].asOf \subseteq Reservations /\ rec[p].marked \subseteq Reservations
  BY DEF StockTypeOK, RecType
<1>1. HoldsInv(p)'
  BY <1>0 DEF RecInv, HoldsInv
<1>2. AsOfInv(p)'
  BY <1>0 DEF RecInv, AsOfInv, StockTypeOK
<1>3. RowsInv(p)'
  BY DEF RecInv, RowsInv
<1>4. ValueInv(p)'
  <2>1. \A v \in rec[p].rows : Left(p, v)' = Left(p, v)
    BY <1>0 DEF Left, Of, InStatus
  <2>2. \A v \in rec[p].rows : Cardinality(Left(p, v))' = Cardinality(Left(p, v))
    BY <2>1
  <2> QED
    BY <2>2 DEF RecInv, ValueInv
<1> QED
  BY <1>1, <1>2, <1>3, <1>4 DEF RecInv

\* A reconciliation that is undone, or was committed, knows nothing.
LEMMA RecInvIdle ==
  ASSUME NEW p \in Apis, rec'[p] = RecIdle
  PROVE  RecInv(p)'
  BY DEF RecInv, HoldsInv, AsOfInv, RowsInv, ValueInv, RecIdle

\* What is locked by a reconciliation is free for nobody else.
LEMMA FreeRows ==
  ASSUME NEW v \in Variants, Free(v)
  PROVE  \A p \in Apis : v \notin rec[p].rows
  BY DEF Free

-----------------------------------------------------------------------------
(* The steps of a reconciliation that commit nothing.                      *)

LEMMA RecStartInv ==
  ASSUME StockInv, NEW p \in Apis, RecStart(p)
  PROVE  RecInv(p)'
<1>1. rec'[p] = [RecIdle EXCEPT !.pc = "look", !.asOf = lapsed]
  BY DEF StockInv, StockTypeOK, RecStart
<1>2. /\ rec'[p].pc = "look" /\ rec'[p].asOf = lapsed
      /\ rec'[p].due = {} /\ rec'[p].marked = {} /\ rec'[p].rows = {}
  BY <1>1 DEF RecIdle
<1>3. lapsed' = lapsed /\ resv' = resv
  BY DEF RecStart, reservationVars
<1> QED
  BY <1>2, <1>3 DEF StockInv, LapsedActive, RecInv, HoldsInv, AsOfInv, RowsInv, ValueInv

LEMMA RecLookInv ==
  ASSUME StockInv, NEW p \in Apis, RecLook(p)
  PROVE  RecInv(p)'
<1>1. /\ rec'[p].pc = IF rec[p].asOf \cap lapsed = {} THEN "sync" ELSE "mark"
      /\ rec'[p].due = rec[p].asOf \cap lapsed
      /\ rec'[p].asOf = rec[p].asOf
      /\ rec'[p].rows = rec[p].rows /\ rec'[p].marked = rec[p].marked
  BY DEF StockInv, StockTypeOK, RecType, RecLook
<1>2. lapsed' = lapsed /\ resv' = resv /\ rec[p].pc = "look"
  BY DEF RecLook, reservationVars, RecAt
<1>3. RecInv(p)
  BY DEF StockInv
<1>4. rec[p].rows = {} /\ rec[p].marked = {}
  BY <1>2, <1>3 DEF RecInv, HoldsInv
<1>5. AsOfInv(p)'
  BY <1>1, <1>2, <1>3 DEF RecInv, AsOfInv
<1> QED
  BY <1>1, <1>2, <1>4, <1>5 DEF RecInv, HoldsInv, RowsInv, ValueInv

LEMMA RecMarkInv ==
  ASSUME StockInv, NEW p \in Apis, RecMark(p)
  PROVE  RecInv(p)'
<1>1. /\ rec'[p].pc = "give"
      /\ rec'[p].due = rec[p].due /\ rec'[p].asOf = rec[p].asOf
      /\ rec'[p].marked = rec[p].due \cap InStatus("active")
      /\ rec'[p].todo = {VariantOf[r] : r \in rec[p].due}
  BY DEF StockInv, StockTypeOK, RecType, RecMark
<1>2. resv' = resv /\ rec[p].pc = "mark"
  BY DEF RecMark, reservationVars, RecAt
<1>3. RecInv(p) /\ rec[p].due \subseteq Reservations
  BY DEF StockInv, StockTypeOK, RecType
<1>4. HoldsInv(p)'
  BY <1>1, <1>2 DEF HoldsInv, InStatus
<1>5. AsOfInv(p)'
  BY <1>1, <1>2, <1>3 DEF RecInv, AsOfInv, InStatus
<1>6. RowsInv(p)'
  BY <1>1 DEF RowsInv
<1> QED
  BY <1>1, <1>4, <1>5, <1>6 DEF RecInv, ValueInv

LEMMA RecGiveInv ==
  ASSUME StockInv, NEW p \in Apis, NEW v \in Variants, RecGive(p, v)
  PROVE  RecInv(p)'
<1>1. /\ rec'[p].pc = "give"
      /\ rec'[p].due = rec[p].due /\ rec'[p].asOf = rec[p].asOf
      /\ rec'[p].marked = rec[p].marked
      /\ rec'[p].rows = rec[p].rows \cup {v} /\ rec'[p].todo = rec[p].todo \ {v}
  BY DEF StockInv, StockTypeOK, RecType, RecGive, RecAt
<1>2. resv' = resv /\ rec[p].pc = "give"
  BY DEF RecGive, reservationVars, RecAt
<1>3. RecInv(p)
  BY DEF StockInv
<1>4. HoldsInv(p)' /\ AsOfInv(p)' /\ RowsInv(p)'
  BY <1>1, <1>2, <1>3 DEF RecInv, HoldsInv, AsOfInv, RowsInv
<1> QED
  BY <1>1, <1>4 DEF RecInv, ValueInv

\* What it counts for a variant it holds, or finds different, is what will be active.
LEMMA RecSyncInv ==
  ASSUME StockInv, NEW p \in Apis, RecSync(p)
  PROVE  RecInv(p)'
<1> DEFINE counted == InStatus("active") \ (rec[p].marked \cup rec[p].asOf)
           expect == [v \in Variants |-> Cardinality(Of(v, counted))]
<1>1. /\ rec'[p].pc = "write"
      /\ rec'[p].due = rec[p].due /\ rec'[p].asOf = rec[p].asOf
      /\ rec'[p].marked = rec[p].marked /\ rec'[p].rows = rec[p].rows
      /\ rec'[p].value = rec[p].value /\ rec'[p].expect = expect
      /\ rec'[p].todo = {v \in Variants : Larger(Own(p, v), 0) # expect[v]}
  <2>1. rec' = [rec EXCEPT ![p].expect = expect,
                           ![p].todo = {v \in Variants : Larger(Own(p, v), 0) # expect[v]},
                           ![p].pc = "write"]
    BY DEF RecSync, Wrong
  <2>2. rec \in [Apis -> RecType]
    BY DEF StockInv, StockTypeOK
  <2> HIDE DEF expect
  <2> QED
    BY <2>1, <2>2 DEF RecType
<1>2. /\ resv' = resv /\ drifted' = drifted
      /\ rec[p].pc = "sync" \/ (rec[p].pc = "give" /\ rec[p].todo = {})
  BY DEF RecSync, reservationVars, historyVars, RecAt
<1>3. RecInv(p) /\ rec[p] \in RecType /\ StockTypeOK
  BY DEF StockInv, StockTypeOK
<1>4. counted = InStatus("active") \ rec[p].marked
  BY <1>2, <1>3 DEF RecInv, AsOfInv, InStatus
<1>5. \A v \in Variants : expect[v] = Cardinality(Left(p, v)) /\ expect[v] \in Nat
  <2>1. \A v \in Variants : Cardinality(Of(v, counted)) \in Nat
    BY CountReservations DEF InStatus
  <2> QED
    BY <1>4, <2>1 DEF Left
<1>6. \A v \in Variants : Left(p, v)' = Left(p, v)
  BY <1>1, <1>2 DEF Left, Of, InStatus
<1>7. HoldsInv(p)' /\ AsOfInv(p)' /\ RowsInv(p)'
  BY <1>1, <1>2, <1>3 DEF RecInv, HoldsInv, AsOfInv, RowsInv
<1>8. ASSUME NEW v \in Variants \ drifted, v \notin rec[p].rows
      PROVE  Larger(Own(p, v), 0) = expect[v]
  <2>1. \A r \in rec[p].marked : VariantOf[r] # v
    BY <1>2, <1>3, <1>8 DEF RecInv, HoldsInv, RowsInv
  <2>2. Left(p, v) = Active(v)
    BY <2>1 DEF Left, Active, Of
  <2>3. reserved[v] = Cardinality(Active(v))
    BY DEF StockInv, ReservedMatchesActive
  <2>4. Own(p, v) = expect[v]
    BY <1>5, <1>8, <2>2, <2>3 DEF Own
  <2> QED
    BY <1>5, <2>4 DEF Larger
<1>9. ASSUME NEW v \in Variants \ drifted, v \in rec[p].rows, v \notin rec'[p].todo
      PROVE  rec[p].value[v] = expect[v]
  <2>1. Own(p, v) = rec[p].value[v] /\ rec[p].value[v] \in Nat
    BY <1>3, <1>9 DEF Own, RecType
  <2> QED
    BY <1>1, <1>9, <2>1 DEF Larger
<1>10. ValueInv(p)'
  <2>1. \A v \in Variants : Cardinality(Left(p, v))' = expect[v]
    BY <1>5, <1>6
  <2> HIDE DEF expect
  <2> QED
    BY <1>1, <1>2, <1>8, <1>9, <2>1 DEF ValueInv
<1> QED
  BY <1>7, <1>10 DEF RecInv

LEMMA RecWriteInv ==
  ASSUME StockInv, NEW p \in Apis, NEW v \in Variants, RecWrite(p, v)
  PROVE  RecInv(p)'
<1>1. /\ rec'[p].pc = "write"
      /\ rec'[p].due = rec[p].due /\ rec'[p].asOf = rec[p].asOf
      /\ rec'[p].marked = rec[p].marked
      /\ rec'[p].expect = rec[p].expect /\ rec'[p].todo = rec[p].todo \ {v}
      /\ \/ /\ Larger(Own(p, v), 0) = rec[p].expect[v]
            /\ rec'[p].rows = rec[p].rows /\ rec'[p].value = rec[p].value
         \/ /\ rec'[p].rows = rec[p].rows \cup {v}
            /\ rec'[p].value = [rec[p].value EXCEPT ![v] = rec[p].expect[v]]
  BY DEF StockInv, StockTypeOK, RecType, RecWrite, RecAt
<1>2. resv' = resv /\ drifted' = drifted /\ rec[p].pc = "write" /\ v \in rec[p].todo
  BY DEF RecWrite, reservationVars, historyVars, RecAt
<1>3. RecInv(p) /\ rec[p] \in RecType
  BY DEF StockInv, StockTypeOK
<1>4. \A w \in Variants : Left(p, w)' = Left(p, w)
  BY <1>1, <1>2 DEF Left, Of, InStatus
<1>5. HoldsInv(p)' /\ AsOfInv(p)' /\ RowsInv(p)'
  BY <1>1, <1>2, <1>3 DEF RecInv, HoldsInv, AsOfInv, RowsInv
<1>6. ValueInv(p)'
  <2> SUFFICES ASSUME NEW w \in Variants \ drifted
               PROVE  /\ w \in rec'[p].todo => w \in rec'[p].rows
                            /\ rec'[p].expect[w] = Cardinality(Left(p, w))
                      /\ w \in rec'[p].rows \ rec'[p].todo =>
                            rec'[p].value[w] = Cardinality(Left(p, w))
    BY <1>2, <1>4 DEF ValueInv
  <2>1. /\ w \in rec[p].todo => w \in rec[p].rows /\ rec[p].expect[w] = Cardinality(Left(p, w))
        /\ w \in rec[p].rows \ rec[p].todo => rec[p].value[w] = Cardinality(Left(p, w))
    BY <1>2, <1>3 DEF RecInv, ValueInv
  <2>2. CASE w # v
    BY <1>1, <1>3, <2>1, <2>2 DEF RecType
  <2>3. CASE w = v
    <3>1. v \in rec[p].rows /\ rec[p].expect[v] = Cardinality(Left(p, v))
      BY <1>2, <2>1, <2>3
    <3>2. Own(p, v) = rec[p].value[v] /\ rec[p].value[v] \in Nat
      BY <1>3, <3>1 DEF Own, RecType
    <3>3. rec'[p].value[v] = rec[p].expect[v]
      BY <1>1, <1>3, <3>2 DEF Larger, RecType
    <3> QED
      BY <1>1, <2>3, <3>1, <3>3
  <2> QED
    BY <2>2, <2>3
<1> QED
  BY <1>5, <1>6 DEF RecInv

\* Such a step locks nothing that another reconciliation holds.
LEMMA RecStepShares ==
  ASSUME StockInv, NEW p \in Apis,
         RecStart(p) \/ RecLook(p) \/ RecMark(p) \/ RecSync(p)
           \/ \E v \in Variants : RecGive(p, v) \/ RecWrite(p, v)
  PROVE  NoSharedRow'
<1>1. rec \in [Apis -> RecType]
  BY DEF StockInv, StockTypeOK
<1>2. \A q \in Apis \ {p} : rec'[q] = rec[q]
  BY <1>1 DEF RecStart, RecLook, RecMark, RecSync, RecGive, RecWrite
<1>3. \A q \in Apis \ {p} : rec'[p].marked \cap rec[q].marked = {}
                            /\ rec'[p].rows \cap rec[q].rows = {}
  <2>0. \A q \in Apis \ {p} : rec[p].marked \cap rec[q].marked = {}
                             /\ rec[p].rows \cap rec[q].rows = {}
    BY DEF StockInv, NoSharedRow
  <2>1. CASE RecStart(p)
    BY <1>1, <2>1 DEF RecStart, RecIdle
  <2>2. CASE RecLook(p)
    BY <1>1, <2>0, <2>2 DEF RecLook, RecType
  <2>3. CASE RecMark(p)
    <3>1. \A r \in rec[p].due \cap InStatus("active") : FreeReservation(r)
      BY <2>3 DEF RecMark, InStatus
    <3>2. /\ rec'[p].marked = rec[p].due \cap InStatus("active")
          /\ rec'[p].rows = rec[p].rows
      BY <1>1, <2>3 DEF RecMark, RecType
    <3> QED
      BY <2>0, <3>1, <3>2 DEF FreeReservation
  <2>4. CASE RecSync(p)
    <3>1. rec'[p].marked = rec[p].marked /\ rec'[p].rows = rec[p].rows
      BY <1>1, <2>4 DEF RecSync, RecType
    <3> QED
      BY <2>0, <3>1
  <2>5. ASSUME NEW v \in Variants, RecGive(p, v) \/ RecWrite(p, v)
        PROVE  \A q \in Apis \ {p} : rec'[p].marked \cap rec[q].marked = {}
                                    /\ rec'[p].rows \cap rec[q].rows = {}
    <3>1. /\ rec'[p].marked = rec[p].marked
          /\ rec'[p].rows \subseteq rec[p].rows \cup {v}
      <4>1. CASE RecGive(p, v)
        BY <1>1, <4>1 DEF RecGive, RecType
      <4>2. CASE RecWrite(p, v)
        <5>1. CASE rec' = [rec EXCEPT ![p].todo = @ \ {v}]
          BY <1>1, <5>1 DEF RecType
        <5>2. CASE rec' = [rec EXCEPT ![p].value[v] = rec[p].expect[v],
                                      ![p].rows = @ \cup {v}, ![p].todo = @ \ {v}]
          BY <1>1, <5>2 DEF RecType
        <5> QED
          BY <4>2, <5>1, <5>2 DEF RecWrite
      <4> QED
        BY <2>5, <4>1, <4>2
    <3>2. \A q \in Apis \ {p} : v \notin rec[q].rows
      BY <2>5 DEF RecGive, RecWrite, FreeOf
    <3> QED
      BY <2>0, <3>1, <3>2
  <2> QED
    BY <2>1, <2>2, <2>3, <2>4, <2>5
<1> QED
  BY <1>2, <1>3 DEF StockInv, NoSharedRow

-----------------------------------------------------------------------------
(* The invariant holds.                                                    *)

LEMMA InitStockInv == Init => StockInv
<1> SUFFICES ASSUME Init PROVE StockInv
  OBVIOUS
<1>1. \A p \in Apis : rec[p] = RecIdle
  BY DEF Init
<1>2. NoSharedRow
  BY <1>1 DEF NoSharedRow, RecIdle
<1>3. \A p \in Apis : RecInv(p)
  BY <1>1 DEF RecInv, HoldsInv, AsOfInv, RowsInv, ValueInv, RecIdle
<1>4. ReservedMatchesActive
  <2>1. \A v \in Variants : Active(v) = {}
    BY DEF Init, Active, Of, InStatus
  <2> QED
    BY <2>1, FS_EmptySet DEF Init, ReservedMatchesActive
<1> QED
  BY <1>2, <1>3, <1>4, InitStockTypeOK DEF StockInv, LapsedActive, Init

\* Reserving, confirming and releasing one reservation.
LEMMA OneReservationInv ==
  ASSUME StockInv, StockTypeOK', NEW r \in Reservations, Reserve(r) \/ Confirm(r) \/ Release(r)
  PROVE  StockInv'
<1>0. StockTypeOK
  BY DEF StockInv
<1>1. /\ rec' = rec /\ drifted' = drifted
      /\ resv' \in [Reservations -> {"none", "active", "confirmed", "released", "expired"}]
      /\ \A s \in Reservations \ {r} : resv'[s] = resv[s]
      /\ Free(VariantOf[r])
      /\ \/ /\ resv[r] = "none" /\ resv'[r] = "active" /\ lapsed' = lapsed
            /\ reserved' = [reserved EXCEPT ![VariantOf[r]] = @ + 1]
         \/ /\ resv[r] = "active" /\ resv'[r] \in {"confirmed", "released"}
            /\ lapsed' = lapsed \ {r} /\ FreeReservation(r)
            /\ reserved' = [reserved EXCEPT ![VariantOf[r]] = @ - 1]
  BY <1>0 DEF Reserve, Confirm, Release, StockTypeOK, historyVars
<1>2. ASSUME NEW p \in Apis PROVE RecInv(p)'
  <2>1. VariantOf[r] \notin rec[p].rows
    BY <1>1 DEF Free
  <2>2. RecInv(p)
    BY DEF StockInv
  <2>3. r \in rec[p].marked => resv[r] = "active"
    BY <2>2 DEF RecInv, HoldsInv
  <2>4. r \notin rec[p].marked
    BY <1>1, <2>3 DEF FreeReservation
  <2>5. \A s \in rec[p].marked : s \in Reservations
    BY <1>0 DEF StockTypeOK, RecType
  <2> QED
    BY <1>0, <1>1, <2>1, <2>2, <2>4, <2>5, RecInvKept
<1>3. NoSharedRow'
  BY <1>1 DEF StockInv, NoSharedRow
<1>4. LapsedActive'
  BY <1>0, <1>1 DEF StockInv, LapsedActive, StockTypeOK
<1>5. ReservedMatchesActive'
  <2> SUFFICES ASSUME NEW v \in Variants \ drifted
               PROVE  reserved'[v] = Cardinality(Active(v)')
    BY <1>1 DEF ReservedMatchesActive
  <2>1. reserved[v] = Cardinality(Of(v, InStatus("active")))
    BY DEF StockInv, ReservedMatchesActive, Active
  <2>2. InStatus("active") \in SUBSET Reservations
    BY DEF InStatus
  <2>3. CASE resv[r] = "none"
    <3>1. InStatus("active")' = InStatus("active") \cup {r} /\ r \notin InStatus("active")
      BY <1>1, <2>3 DEF InStatus
    <3>2. Active(v)' = Of(v, InStatus("active") \cup {r})
      BY <3>1 DEF Active, Of
    <3>3. Cardinality(Active(v)') =
             IF v = VariantOf[r] THEN Cardinality(Of(v, InStatus("active"))) + 1
             ELSE Cardinality(Of(v, InStatus("active")))
      BY <2>2, <3>1, <3>2, CountOneMore
    <3> QED
      BY <1>0, <1>1, <2>1, <2>3, <3>3 DEF StockTypeOK
  <2>4. CASE resv[r] = "active"
    <3>1. InStatus("active")' = InStatus("active") \ {r} /\ r \in InStatus("active")
      BY <1>1, <2>4 DEF InStatus
    <3>2. Active(v)' = Of(v, InStatus("active") \ {r})
      BY <3>1 DEF Active, Of
    <3>3. Cardinality(Active(v)') =
             IF v = VariantOf[r] THEN Cardinality(Of(v, InStatus("active"))) - 1
             ELSE Cardinality(Of(v, InStatus("active")))
      BY <2>2, <3>1, <3>2, CountOneLess
    <3> QED
      BY <1>0, <1>1, <2>1, <2>4, <3>3 DEF StockTypeOK
  <2> QED
    BY <1>1, <2>3, <2>4
<1> QED
  BY <1>2, <1>3, <1>4, <1>5 DEF StockInv

LEMMA LapseInv ==
  ASSUME StockInv, StockTypeOK', NEW r \in Reservations, Lapse(r)
  PROVE  StockInv'
<1>1. /\ rec' = rec /\ drifted' = drifted /\ resv' = resv /\ reserved' = reserved
      /\ lapsed' = lapsed \cup {r} /\ resv[r] = "active"
  BY DEF Lapse, historyVars, quantityVars
<1>2. \A p \in Apis : RecInv(p)'
  BY <1>1, RecInvKept DEF StockInv, StockTypeOK
<1>3. NoSharedRow' /\ LapsedActive'
  BY <1>1 DEF StockInv, NoSharedRow, LapsedActive
<1>4. ReservedMatchesActive'
  BY <1>1 DEF StockInv, ReservedMatchesActive, Active, Of, InStatus
<1> QED
  BY <1>2, <1>3, <1>4 DEF StockInv

LEMMA CleanupInv ==
  ASSUME StockInv, StockTypeOK', CleanupExpired
  PROVE  StockInv'
<1>0. StockTypeOK /\ LapsedActive
  BY DEF StockInv
<1>1. /\ rec' = rec /\ drifted' = drifted /\ lapsed' = {}
      /\ resv' \in [Reservations -> {"none", "active", "confirmed", "released", "expired"}]
      /\ \A r \in lapsed : resv'[r] = "expired" /\ FreeReservation(r) /\ Free(VariantOf[r])
      /\ \A r \in Reservations \ lapsed : resv'[r] = resv[r]
      /\ reserved' = [v \in Variants |-> reserved[v] - Cardinality(Of(v, lapsed))]
  BY <1>0 DEF CleanupExpired, StockTypeOK, historyVars
<1>2. ASSUME NEW p \in Apis PROVE RecInv(p)'
  <2>1. \A r \in rec[p].marked : r \in Reservations /\ r \notin lapsed
    BY <1>0, <1>1 DEF FreeReservation, StockTypeOK, RecType
  <2>2. \A r \in Reservations : VariantOf[r] \in rec[p].rows => r \notin lapsed
    BY <1>1 DEF Free
  <2> QED
    BY <1>0, <1>1, <2>1, <2>2, RecInvKept DEF StockInv
<1>3. NoSharedRow' /\ LapsedActive'
  BY <1>1 DEF StockInv, NoSharedRow, LapsedActive
<1>4. ReservedMatchesActive'
  <2>1. lapsed \in SUBSET InStatus("active") /\ InStatus("active") \in SUBSET Reservations
    BY <1>0 DEF InStatus, LapsedActive, StockTypeOK
  <2>2. InStatus("active")' = InStatus("active") \ lapsed
    BY <1>1 DEF InStatus
  <2> SUFFICES ASSUME NEW v \in Variants \ drifted
               PROVE  reserved'[v] = Cardinality(Active(v)')
    BY <1>1 DEF ReservedMatchesActive
  <2>3. Active(v)' = Of(v, InStatus("active") \ lapsed)
    BY <2>2 DEF Active, Of
  <2>4. Cardinality(Active(v)') =
           Cardinality(Of(v, InStatus("active"))) - Cardinality(Of(v, lapsed))
    BY <2>1, <2>3, CountRest
  <2> QED
    BY <1>1, <2>4 DEF StockInv, ReservedMatchesActive, Active
<1> QED
  BY <1>2, <1>3, <1>4 DEF StockInv

\* Committing writes what is active after it, and to rows of its own.
LEMMA CommitInv ==
  ASSUME StockInv, StockTypeOK', NEW p \in Apis, RecCommit(p)
  PROVE  StockInv'
<1>0. StockTypeOK /\ rec[p] \in RecType
  BY DEF StockInv, StockTypeOK
<1>1. /\ rec' = [rec EXCEPT ![p] = RecIdle] /\ drifted' = drifted
      /\ rec[p].pc = "write" /\ rec[p].todo = {}
      /\ lapsed' = lapsed \ rec[p].marked
      /\ resv' \in [Reservations -> {"none", "active", "confirmed", "released", "expired"}]
      /\ \A r \in rec[p].marked : resv'[r] = "expired"
      /\ \A r \in Reservations \ rec[p].marked : resv'[r] = resv[r]
      /\ reserved' = [v \in Variants |-> Own(p, v)]
  BY <1>0 DEF RecCommit, RecAt, StockTypeOK, RecType, historyVars
<1>2. RecInv(p)
  BY DEF StockInv
<1>3. \A r \in rec[p].marked : /\ r \in Reservations /\ resv[r] = "active"
                              /\ VariantOf[r] \in rec[p].rows
  BY <1>0, <1>1, <1>2 DEF RecInv, HoldsInv, RowsInv, RecType
<1>4. ASSUME NEW q \in Apis PROVE RecInv(q)'
  <2>1. CASE q = p
    BY <1>0, <1>1, <2>1, RecInvIdle DEF StockTypeOK
  <2>2. CASE q # p
    <3>1. rec[p].marked \cap rec[q].marked = {} /\ rec[p].rows \cap rec[q].rows = {}
      BY <2>2 DEF StockInv, NoSharedRow
    <3>2. \A r \in rec[q].marked : r \in Reservations /\ r \notin rec[p].marked
      BY <1>0, <3>1 DEF StockTypeOK, RecType
    <3>3. \A r \in Reservations : VariantOf[r] \in rec[q].rows => r \notin rec[p].marked
      BY <1>3, <3>1
    <3>4. rec'[q] = rec[q] /\ RecInv(q)
      BY <1>1, <2>2 DEF StockInv
    <3>5. \A r \in lapsed : resv'[r] = "active" => r \in lapsed'
      BY <1>1
    <3> QED
      BY <1>0, <1>1, <3>2, <3>3, <3>4, <3>5, RecInvKept
  <2> QED
    BY <2>1, <2>2
<1>5. NoSharedRow'
  <2>1. RecIdle.marked = {} /\ RecIdle.rows = {}
    BY DEF RecIdle
  <2> QED
    BY <1>0, <1>1, <2>1 DEF StockInv, NoSharedRow, StockTypeOK
<1>6. LapsedActive'
  BY <1>0, <1>1 DEF StockInv, LapsedActive, StockTypeOK
<1>7. ReservedMatchesActive'
  <2> SUFFICES ASSUME NEW v \in Variants \ drifted
               PROVE  reserved'[v] = Cardinality(Active(v)')
    BY <1>1 DEF ReservedMatchesActive
  <2>1. InStatus("active")' = InStatus("active") \ rec[p].marked
    BY <1>1 DEF InStatus
  <2>2. Active(v)' = Left(p, v)
    BY <2>1 DEF Active, Left, Of
  <2>3. CASE v \in rec[p].rows
    BY <1>1, <1>2, <2>2, <2>3 DEF RecInv, ValueInv, Own
  <2>4. CASE v \notin rec[p].rows
    <3>1. Left(p, v) = Active(v)
      BY <1>3, <2>4 DEF Left, Active, Of
    <3>2. reserved'[v] = reserved[v]
      BY <1>1, <2>4 DEF Own
    <3> QED
      BY <2>2, <3>1, <3>2 DEF StockInv, ReservedMatchesActive
  <2> QED
    BY <2>3, <2>4
<1> QED
  BY <1>4, <1>5, <1>6, <1>7 DEF StockInv

\* The other steps of a reconciliation change only its record.
LEMMA RecordInv ==
  ASSUME StockInv, StockTypeOK', NEW p \in Apis, NoSharedRow', RecInv(p)',
         \A q \in Apis \ {p} : rec'[q] = rec[q],
         UNCHANGED <<resv, lapsed, reserved, drifted>>
  PROVE  StockInv'
<1>1. ASSUME NEW q \in Apis PROVE RecInv(q)'
  <2>1. CASE q # p
    BY <2>1, RecInvKept DEF StockInv, StockTypeOK
  <2> QED
    BY <2>1
<1>2. LapsedActive'
  BY DEF StockInv, LapsedActive
<1>3. ReservedMatchesActive'
  BY DEF StockInv, ReservedMatchesActive, Active, Of, InStatus
<1> QED
  BY <1>1, <1>2, <1>3 DEF StockInv

LEMMA RecStepInv ==
  ASSUME StockInv, StockTypeOK', NEW p \in Apis,
         RecStart(p) \/ RecLook(p) \/ RecMark(p) \/ RecSync(p)
           \/ \E v \in Variants : RecGive(p, v) \/ RecWrite(p, v)
  PROVE  StockInv'
<1>1. NoSharedRow'
  BY RecStepShares
<1>2. RecInv(p)'
  BY RecStartInv, RecLookInv, RecMarkInv, RecSyncInv, RecGiveInv, RecWriteInv
<1>3. \A q \in Apis \ {p} : rec'[q] = rec[q]
  BY DEF StockInv, StockTypeOK, RecStart, RecLook, RecMark, RecSync, RecGive, RecWrite
<1>4. UNCHANGED <<resv, lapsed, reserved, drifted>>
  BY DEF RecStart, RecLook, RecMark, RecSync, RecGive, RecWrite,
         quantityVars, reservationVars, historyVars
<1> QED
  BY <1>1, <1>2, <1>3, <1>4, RecordInv

LEMMA RecEndsInv ==
  ASSUME StockInv, StockTypeOK', NEW p \in Apis, RecTimeout(p) \/ RecRollback(p)
  PROVE  StockInv'
<1>1. rec' = [rec EXCEPT ![p] = RecIdle]
  BY DEF RecTimeout, RecRollback
<1>2. NoSharedRow'
  <2>1. RecIdle.marked = {} /\ RecIdle.rows = {}
    BY DEF RecIdle
  <2> QED
    BY <1>1, <2>1 DEF StockInv, NoSharedRow, StockTypeOK
<1>3. RecInv(p)'
  BY <1>1, RecInvIdle DEF StockInv, StockTypeOK
<1>4. UNCHANGED <<resv, lapsed, reserved, drifted>>
  BY DEF RecTimeout, RecRollback, quantityVars, reservationVars, historyVars
<1>5. \A q \in Apis \ {p} : rec'[q] = rec[q]
  BY <1>1 DEF StockInv, StockTypeOK
<1> QED
  BY <1>2, <1>3, <1>4, <1>5, RecordInv

\* So do the steps that are no business of the reservations.
LEMMA ElsewhereInv ==
  ASSUME StockInv, StockTypeOK', UNCHANGED <<resv, lapsed, reserved, rec, drifted>>
  PROVE  StockInv'
<1>1. \A p \in Apis : RecInv(p)'
  BY RecInvKept DEF StockInv, StockTypeOK
<1>2. NoSharedRow' /\ LapsedActive'
  BY DEF StockInv, NoSharedRow, LapsedActive
<1>3. ReservedMatchesActive'
  BY DEF StockInv, ReservedMatchesActive, Active, Of, InStatus
<1> QED
  BY <1>1, <1>2, <1>3 DEF StockInv

LEMMA AutoReserveInv ==
  ASSUME StockInv, StockTypeOK', NEW v \in Variants, AutoReserve(v)
  PROVE  StockInv'
<1>1. /\ resv' = resv /\ lapsed' = lapsed /\ rec' = rec
      /\ drifted' = drifted \cup {v}
      /\ reserved' = [reserved EXCEPT ![v] = @ + 1]
  BY DEF AutoReserve, reservationVars
<1>2. \A p \in Apis : RecInv(p)'
  BY <1>1, RecInvKept DEF StockInv, StockTypeOK
<1>3. NoSharedRow' /\ LapsedActive'
  BY <1>1 DEF StockInv, NoSharedRow, LapsedActive
<1>4. ReservedMatchesActive'
  BY <1>1 DEF StockInv, StockTypeOK, ReservedMatchesActive, Active, Of, InStatus
<1> QED
  BY <1>2, <1>3, <1>4 DEF StockInv

\* Every step keeps the invariant.
LEMMA NextStockInv == StockInv /\ [Next]_vars => StockInv'
<1> SUFFICES ASSUME StockInv, [Next]_vars PROVE StockInv'
  OBVIOUS
<1>0. StockTypeOK'
  BY NextStockTypeOK DEF StockInv
<1>1. ASSUME NEW r \in Reservations, Reserve(r) \/ Confirm(r) \/ Release(r) \/ Lapse(r)
      PROVE  StockInv'
  BY <1>0, <1>1, OneReservationInv, LapseInv
<1>2. CASE CleanupExpired
  BY <1>0, <1>2, CleanupInv
<1>3. ASSUME NEW p \in Apis, RecStep(p) \/ RecTimeout(p) \/ RecRollback(p) PROVE StockInv'
  BY <1>0, <1>3, RecStepInv, RecEndsInv, CommitInv DEF RecStep
<1>4. ASSUME NEW o \in Orders,
             \/ OrderUnmoved(o) \/ OrderOther(o)
             \/ \E v \in Candidates[o] :
                    OrderCreated(o, v) \/ OrderActive(o, v) \/ OrderCancelled(o, v)
      PROVE  StockInv'
  <2>1. UNCHANGED <<resv, lapsed, reserved, rec, drifted>>
    BY <1>4 DEF OrderUnmoved, OrderOther, OrderCreated, OrderActive, OrderCancelled,
                quantityVars, reservationVars, historyVars
  <2> QED
    BY <1>0, <2>1, ElsewhereInv
<1>5. ASSUME NEW v \in Variants,
             \/ \E q \in {-1, 1} : UpdateStock(v, q)
             \/ Refuse(v) \/ LeakEnds(v) \/ UpdateHangs(v) \/ HangEnds(v)
             \/ ListRead(v) \/ ListWrite(v) \/ AutoSelect(v)
      PROVE  StockInv'
  <2>1. UNCHANGED <<resv, lapsed, reserved, rec, drifted>>
    BY <1>5 DEF UpdateStock, Refuse, LeakEnds, UpdateHangs, HangEnds, ListRead, ListWrite,
                AutoSelect, quantityVars, reservationVars, historyVars
  <2> QED
    BY <1>0, <2>1, ElsewhereInv
<1>6. ASSUME NEW v \in Variants, AutoReserve(v) PROVE StockInv'
  BY <1>0, <1>6, AutoReserveInv
<1>7. CASE UNCHANGED vars
  <2>1. UNCHANGED <<resv, lapsed, reserved, rec, drifted>>
    BY <1>7 DEF vars, quantityVars, reservationVars, historyVars
  <2> QED
    BY <1>0, <2>1, ElsewhereInv
<1> QED
  BY <1>1, <1>2, <1>3, <1>4, <1>5, <1>6, <1>7 DEF Next

LEMMA StockInvHolds == Spec => []StockInv
  BY InitStockInv, NextStockInv, PTL DEF Spec

-----------------------------------------------------------------------------
(* What follows from it.                                                   *)

\* quantity_reserved is the number of active reservations, however many API
\* processes reconcile at once, and whoever ends what they saw due.
THEOREM ReservedIsActive == Spec => []ReservedMatchesActive
<1>1. StockInv => ReservedMatchesActive
  BY DEF StockInv
<1> QED
  BY <1>1, StockInvHolds, PTL

\* No two reconciliations change the same row.
THEOREM RowsNotShared == Spec => []NoSharedRow
<1>1. StockInv => NoSharedRow
  BY DEF StockInv
<1> QED
  BY <1>1, StockInvHolds, PTL

\* A reservation ends once.
THEOREM ReservationEndsOnce == Spec => EndsOnce
<1> DEFINE Stays == \A r \in Reservations :
                       resv[r] \notin {"none", "active"} => resv'[r] = resv[r]
<1>1. StockInv /\ [Next]_vars => Stays
  <2> SUFFICES ASSUME StockInv, [Next]_vars, NEW r \in Reservations,
                      resv[r] \notin {"none", "active"}
               PROVE  resv'[r] = resv[r]
    OBVIOUS
  <2>0. StockTypeOK
    BY DEF StockInv
  <2>1. ASSUME NEW s \in Reservations, Reserve(s) \/ Confirm(s) \/ Release(s) \/ Lapse(s)
        PROVE  resv'[r] = resv[r]
    BY <2>0, <2>1 DEF Reserve, Confirm, Release, Lapse, StockTypeOK
  <2>2. CASE CleanupExpired
    BY <2>2 DEF CleanupExpired, StockInv, LapsedActive
  <2>3. ASSUME NEW p \in Apis, RecStep(p) \/ RecTimeout(p) \/ RecRollback(p)
        PROVE  resv'[r] = resv[r]
    <3>1. CASE RecCommit(p)
      <4>1. r \notin rec[p].marked
        BY DEF StockInv, RecInv, HoldsInv
      <4> QED
        BY <3>1, <4>1 DEF RecCommit
    <3>2. CASE ~RecCommit(p)
      BY <2>3, <3>2 DEF RecStep, RecStart, RecLook, RecMark, RecSync, RecGive, RecWrite,
                        RecTimeout, RecRollback, reservationVars
    <3> QED
      BY <3>1, <3>2
  <2>4. ASSUME NEW o \in Orders,
               \/ OrderUnmoved(o) \/ OrderOther(o)
               \/ \E v \in Candidates[o] :
                      OrderCreated(o, v) \/ OrderActive(o, v) \/ OrderCancelled(o, v)
        PROVE  resv'[r] = resv[r]
    BY <2>4 DEF OrderUnmoved, OrderOther, OrderCreated, OrderActive, OrderCancelled,
                reservationVars
  <2>5. ASSUME NEW v \in Variants,
               \/ \E q \in {-1, 1} : UpdateStock(v, q)
               \/ Refuse(v) \/ LeakEnds(v) \/ UpdateHangs(v) \/ HangEnds(v)
               \/ ListRead(v) \/ ListWrite(v) \/ AutoSelect(v) \/ AutoReserve(v)
        PROVE  resv'[r] = resv[r]
    BY <2>5 DEF UpdateStock, Refuse, LeakEnds, UpdateHangs, HangEnds, ListRead, ListWrite,
                AutoSelect, AutoReserve, reservationVars
  <2>6. CASE UNCHANGED vars
    BY <2>6 DEF vars, reservationVars
  <2> QED
    BY <2>1, <2>2, <2>3, <2>4, <2>5, <2>6 DEF Next
<1>2. Stays => [Stays]_vars
  OBVIOUS
<1> QED
  BY <1>1, StockInvHolds, PTL DEF Spec, EndsOnce

-----------------------------------------------------------------------------
(* What is on hand.                                                        *)

\* An order that was not created holds nothing.
HeldCreated == \A o \in held : order[o] # "none"

\* Orders of one variant more, or less.
LEMMA HeldMore ==
  ASSUME NEW S \in SUBSET Orders, NEW o \in Orders, o \notin S
  PROVE  Cardinality(S \cup {o}) = Cardinality(S) + 1
<1>1. IsFiniteSet(S)
  BY CountOrders
<1> QED
  BY <1>1, FS_AddElement

LEMMA HeldLess ==
  ASSUME NEW S \in SUBSET Orders, NEW o \in S
  PROVE  Cardinality(S \ {o}) = Cardinality(S) - 1
<1>1. IsFiniteSet(S)
  BY CountOrders
<1> QED
  BY <1>1, FS_RemoveElement

\* Both counts are numbers.
LEMMA CountsType ==
  ASSUME StockTypeOK, NEW v \in Variants
  PROVE  /\ Cardinality(Of(v, InStatus("confirmed"))) \in Nat
         /\ Cardinality(HeldFrom(v)) \in Nat
         /\ HeldFrom(v) \in SUBSET Orders
<1>1. InStatus("confirmed") \in SUBSET Reservations
  BY DEF InStatus
<1>2. HeldFrom(v) \in SUBSET Orders
  BY DEF HeldFrom, StockTypeOK
<1> QED
  BY <1>1, <1>2, CountReservations, CountOrders

\* A step that neither confirms, nor moves the stock of an order, accounts for
\* what it changes on hand.
LEMMA AccountsUpdate ==
  ASSUME StockTypeOK, StockTypeOK', StockAccounted, held' = held, heldFrom' = heldFrom,
         InStatus("confirmed")' = InStatus("confirmed"),
         \A v \in Variants : onHand'[v] - onHand[v] = other'[v] - other[v]
  PROVE  StockAccounted'
<1> SUFFICES ASSUME NEW v \in Variants
             PROVE  onHand'[v] = Initial[v] + other'[v]
                        - Cardinality(Of(v, InStatus("confirmed"))') - Cardinality(HeldFrom(v)')
  BY DEF StockAccounted
<1>1. Of(v, InStatus("confirmed"))' = Of(v, InStatus("confirmed")) /\ HeldFrom(v)' = HeldFrom(v)
  BY DEF Of, HeldFrom
<1>2. onHand[v] = Initial[v] + other[v]
                  - Cardinality(Of(v, InStatus("confirmed"))) - Cardinality(HeldFrom(v))
  BY DEF StockAccounted
<1>3. Cardinality(Of(v, InStatus("confirmed"))) \in Nat /\ Cardinality(HeldFrom(v)) \in Nat
  BY CountsType
<1>4. Initial[v] \in Int /\ onHand[v] \in Int /\ other[v] \in Int
      /\ onHand'[v] \in Int /\ other'[v] \in Int
  BY RowsAssumption DEF StockTypeOK
<1> HIDE DEF Of, HeldFrom, InStatus
<1> QED
  BY <1>1, <1>2, <1>3, <1>4

\* A confirmation takes its unit.
LEMMA AccountsConfirm ==
  ASSUME StockTypeOK, StockAccounted, NEW r \in Reservations, Confirm(r)
  PROVE  StockAccounted'
<1> SUFFICES ASSUME NEW v \in Variants
             PROVE  onHand'[v] = Initial[v] + other'[v]
                        - Cardinality(Of(v, InStatus("confirmed"))') - Cardinality(HeldFrom(v)')
  BY DEF StockAccounted
<1>1. /\ InStatus("confirmed")' = InStatus("confirmed") \cup {r}
      /\ r \notin InStatus("confirmed") /\ InStatus("confirmed") \in SUBSET Reservations
  BY DEF Confirm, InStatus, StockTypeOK
<1>2. Of(v, InStatus("confirmed"))' = Of(v, InStatus("confirmed") \cup {r})
  BY <1>1 DEF Of
<1>3. Cardinality(Of(v, InStatus("confirmed"))') =
         IF v = VariantOf[r] THEN Cardinality(Of(v, InStatus("confirmed"))) + 1
         ELSE Cardinality(Of(v, InStatus("confirmed")))
  BY <1>1, <1>2, CountOneMore
<1>4. HeldFrom(v)' = HeldFrom(v) /\ other' = other
  BY DEF Confirm, HeldFrom, orderVars, historyVars
<1>5. onHand'[v] = IF v = VariantOf[r] THEN onHand[v] - 1 ELSE onHand[v]
  BY DEF Confirm, StockTypeOK
<1>6. Cardinality(Of(v, InStatus("confirmed"))) \in Nat /\ Cardinality(HeldFrom(v)) \in Nat
  BY CountsType
<1>7. onHand[v] = Initial[v] + other[v]
                  - Cardinality(Of(v, InStatus("confirmed"))) - Cardinality(HeldFrom(v))
  BY DEF StockAccounted
<1>8. Initial[v] \in Int /\ onHand[v] \in Int /\ other[v] \in Int
  BY RowsAssumption DEF StockTypeOK
<1> QED
  BY <1>3, <1>4, <1>5, <1>6, <1>7, <1>8

\* An order takes its unit, or what there is of it.
LEMMA AccountsDeduct ==
  ASSUME StockTypeOK, StockAccounted, NEW o \in Orders, o \notin held,
         NEW w \in Variants, Deduct(o, w), resv' = resv
  PROVE  StockAccounted'
<1> SUFFICES ASSUME NEW v \in Variants
             PROVE  onHand'[v] = Initial[v] + other'[v]
                        - Cardinality(Of(v, InStatus("confirmed"))') - Cardinality(HeldFrom(v)')
  BY DEF StockAccounted
<1>1. Of(v, InStatus("confirmed"))' = Of(v, InStatus("confirmed"))
  BY DEF Of, InStatus
<1>2. HeldFrom(v)' = IF v = w THEN HeldFrom(v) \cup {o} ELSE HeldFrom(v)
  BY DEF Deduct, HeldFrom, StockTypeOK
<1>3. o \notin HeldFrom(v) /\ HeldFrom(v) \in SUBSET Orders
  BY DEF HeldFrom, StockTypeOK
<1>4. Cardinality(HeldFrom(v)') =
         IF v = w THEN Cardinality(HeldFrom(v)) + 1 ELSE Cardinality(HeldFrom(v))
  BY <1>2, <1>3, HeldMore
<1>5. PICK left \in Int : /\ onHand' = [onHand EXCEPT ![w] = left]
                          /\ other' = [other EXCEPT ![w] = @ + left - (onHand[w] - 1)]
  <2>1. Larger(onHand[w] - 1, 0) \in Int
    BY DEF StockTypeOK, Larger
  <2> QED
    BY <2>1 DEF Deduct
<1>6. Cardinality(Of(v, InStatus("confirmed"))) \in Nat /\ Cardinality(HeldFrom(v)) \in Nat
  BY CountsType
<1>7. onHand[v] = Initial[v] + other[v]
                  - Cardinality(Of(v, InStatus("confirmed"))) - Cardinality(HeldFrom(v))
  BY DEF StockAccounted
<1>8. Initial[v] \in Int /\ onHand[v] \in Int /\ other[v] \in Int
  BY RowsAssumption DEF StockTypeOK
<1>9. CASE v = w
  BY <1>1, <1>4, <1>5, <1>6, <1>7, <1>8, <1>9 DEF StockTypeOK
<1>10. CASE v # w
  BY <1>1, <1>4, <1>5, <1>6, <1>7, <1>8, <1>10 DEF StockTypeOK
<1> QED
  BY <1>9, <1>10

\* A cancelled order gives its unit back, to its variant or to another.
LEMMA AccountsRestore ==
  ASSUME StockTypeOK, StockAccounted, NEW o \in held, NEW w \in Variants, Restore(o, w),
         resv' = resv
  PROVE  StockAccounted'
<1> SUFFICES ASSUME NEW v \in Variants
             PROVE  onHand'[v] = Initial[v] + other'[v]
                        - Cardinality(Of(v, InStatus("confirmed"))') - Cardinality(HeldFrom(v)')
  BY DEF StockAccounted
<1>1. Of(v, InStatus("confirmed"))' = Of(v, InStatus("confirmed"))
  BY DEF Of, InStatus
<1>2. HeldFrom(v)' = IF v = heldFrom[o] THEN HeldFrom(v) \ {o} ELSE HeldFrom(v)
  BY DEF Restore, HeldFrom
<1>3. v = heldFrom[o] => o \in HeldFrom(v)
  BY DEF HeldFrom
<1>4. HeldFrom(v) \in SUBSET Orders
  BY CountsType
<1>5. Cardinality(HeldFrom(v)') =
         IF v = heldFrom[o] THEN Cardinality(HeldFrom(v)) - 1 ELSE Cardinality(HeldFrom(v))
  BY <1>2, <1>3, <1>4, HeldLess
<1>6. Cardinality(Of(v, InStatus("confirmed"))) \in Nat /\ Cardinality(HeldFrom(v)) \in Nat
  BY CountsType
<1>7. onHand[v] = Initial[v] + other[v]
                  - Cardinality(Of(v, InStatus("confirmed"))) - Cardinality(HeldFrom(v))
  BY DEF StockAccounted
<1>8. Initial[v] \in Int /\ onHand[v] \in Int /\ other[v] \in Int /\ heldFrom[o] \in Variants
  BY RowsAssumption DEF StockTypeOK
<1>9. /\ onHand'[v] = IF v = w THEN onHand[v] + 1 ELSE onHand[v]
      /\ other'[v] = IF w = heldFrom[o] THEN other[v]
                     ELSE IF v = w THEN other[v] + 1
                     ELSE IF v = heldFrom[o] THEN other[v] - 1 ELSE other[v]
  <2>1. onHand' = [onHand EXCEPT ![w] = @ + 1]
    BY DEF Restore
  <2>2. CASE w = heldFrom[o]
    BY <2>1, <2>2 DEF Restore, StockTypeOK
  <2>3. CASE w # heldFrom[o]
    <3>1. other' = [other EXCEPT ![w] = @ + 1, ![heldFrom[o]] = @ - 1]
      BY <2>3 DEF Restore
    <3> QED
      BY <1>8, <2>1, <2>3, <3>1 DEF StockTypeOK
  <2> QED
    BY <2>2, <2>3
<1> QED
  BY <1>1, <1>5, <1>6, <1>7, <1>8, <1>9

\* Every step accounts for what it changes.
LEMMA NextAccounted ==
  ASSUME StockInv, StockTypeOK', HeldCreated, StockAccounted, [Next]_vars
  PROVE  StockAccounted'
<1>0. StockTypeOK
  BY DEF StockInv
<1>1. ASSUME NEW r \in Reservations, Confirm(r) PROVE StockAccounted'
  BY <1>0, <1>1, AccountsConfirm
<1>2. ASSUME NEW r \in Reservations, Reserve(r) \/ Release(r) \/ Lapse(r)
      PROVE  StockAccounted'
  <2>1. InStatus("confirmed")' = InStatus("confirmed")
    BY <1>0, <1>2 DEF Reserve, Release, Lapse, InStatus, StockTypeOK
  <2>2. UNCHANGED <<onHand, other, held, heldFrom>>
    BY <1>2 DEF Reserve, Release, Lapse, quantityVars, historyVars, orderVars
  <2> QED
    BY <1>0, <2>1, <2>2, AccountsUpdate DEF StockTypeOK
<1>3. CASE CleanupExpired
  <2>1. InStatus("confirmed")' = InStatus("confirmed")
    BY <1>3 DEF CleanupExpired, InStatus, StockInv, LapsedActive
  <2>2. UNCHANGED <<onHand, other, held, heldFrom>>
    BY <1>3 DEF CleanupExpired, historyVars, orderVars
  <2> QED
    BY <1>0, <2>1, <2>2, AccountsUpdate DEF StockTypeOK
<1>4. ASSUME NEW p \in Apis, RecStep(p) \/ RecTimeout(p) \/ RecRollback(p)
      PROVE  StockAccounted'
  <2>1. InStatus("confirmed")' = InStatus("confirmed")
    <3>1. CASE RecCommit(p)
      <4>1. \A r \in rec[p].marked : resv[r] = "active"
        BY DEF StockInv, RecInv, HoldsInv
      <4> QED
        BY <3>1, <4>1 DEF RecCommit, InStatus
    <3>2. CASE ~RecCommit(p)
      <4>1. resv' = resv
        BY <1>4, <3>2 DEF RecStep, RecStart, RecLook, RecMark, RecSync, RecGive, RecWrite,
                          RecTimeout, RecRollback, reservationVars
      <4> QED
        BY <4>1 DEF InStatus
    <3> QED
      BY <3>1, <3>2
  <2>2. UNCHANGED <<onHand, other, held, heldFrom>>
    BY <1>4 DEF RecStep, RecStart, RecLook, RecMark, RecSync, RecGive, RecWrite, RecCommit,
                RecTimeout, RecRollback, quantityVars, historyVars, orderVars
  <2> QED
    BY <1>0, <2>1, <2>2, AccountsUpdate DEF StockTypeOK
<1>5. ASSUME NEW o \in Orders, NEW w \in Candidates[o], OrderCreated(o, w) \/ OrderActive(o, w)
      PROVE  StockAccounted'
  <2>1. w \in Variants
    BY RowsAssumption
  <2>2. o \notin held /\ Deduct(o, w) /\ resv' = resv
    BY <1>5 DEF OrderCreated, OrderActive, HeldCreated, reservationVars
  <2> QED
    BY <1>0, <2>1, <2>2, AccountsDeduct
<1>6. ASSUME NEW o \in Orders, NEW w \in Candidates[o], OrderCancelled(o, w)
      PROVE  StockAccounted'
  <2>1. w \in Variants
    BY RowsAssumption
  <2>2. o \in held /\ Restore(o, w) /\ resv' = resv
    BY <1>6 DEF OrderCancelled, reservationVars
  <2> QED
    BY <1>0, <2>1, <2>2, AccountsRestore
<1>7. ASSUME NEW v \in Variants, NEW q \in {-1, 1}, UpdateStock(v, q) PROVE StockAccounted'
  <2>1. InStatus("confirmed")' = InStatus("confirmed") /\ held' = held /\ heldFrom' = heldFrom
    BY <1>7 DEF UpdateStock, InStatus, reservationVars, orderVars
  <2>2. \A w \in Variants : onHand'[w] - onHand[w] = other'[w] - other[w]
    BY <1>0, <1>7 DEF UpdateStock, StockTypeOK
  <2> QED
    BY <1>0, <2>1, <2>2, AccountsUpdate
<1>8. ASSUME NEW v \in Variants, ListWrite(v) PROVE StockAccounted'
  <2>1. InStatus("confirmed")' = InStatus("confirmed") /\ held' = held /\ heldFrom' = heldFrom
    BY <1>8 DEF ListWrite, InStatus, reservationVars, orderVars
  <2>2. listing[v] \in Int
    BY <1>0, <1>8 DEF ListWrite, StockTypeOK
  <2>3. \A w \in Variants : onHand'[w] - onHand[w] = other'[w] - other[w]
    BY <1>0, <1>8, <2>2 DEF ListWrite, StockTypeOK
  <2> QED
    BY <1>0, <2>1, <2>3, AccountsUpdate
<1>9. ASSUME \/ \E o \in Orders : OrderUnmoved(o) \/ OrderOther(o)
             \/ \E v \in Variants :
                    \/ Refuse(v) \/ LeakEnds(v) \/ UpdateHangs(v) \/ HangEnds(v)
                    \/ ListRead(v) \/ AutoSelect(v) \/ AutoReserve(v)
             \/ UNCHANGED vars
      PROVE  StockAccounted'
  <2>1. UNCHANGED <<resv, onHand, other, held, heldFrom>>
    BY <1>9 DEF OrderUnmoved, OrderOther, Refuse, LeakEnds, UpdateHangs, HangEnds, ListRead,
                AutoSelect, AutoReserve, vars, quantityVars, reservationVars, orderVars,
                historyVars
  <2>2. InStatus("confirmed")' = InStatus("confirmed")
    BY <2>1 DEF InStatus
  <2> QED
    BY <1>0, <2>1, <2>2, AccountsUpdate DEF StockTypeOK
<1> QED
  BY <1>1, <1>2, <1>3, <1>4, <1>5, <1>6, <1>7, <1>8, <1>9 DEF Next

\* A reconciliation changes nothing but reservations and quantity_reserved.
LEMMA RecLeaves ==
  ASSUME NEW p \in Apis, RecStep(p) \/ RecTimeout(p) \/ RecRollback(p)
  PROVE  UNCHANGED orderVars /\ UNCHANGED historyVars /\ onHand' = onHand
<1>1. CASE RecStart(p) \/ RecLook(p) \/ RecMark(p) \/ RecSync(p)
  BY <1>1 DEF RecStart, RecLook, RecMark, RecSync, quantityVars
<1>2. CASE RecCommit(p) \/ RecTimeout(p) \/ RecRollback(p)
  BY <1>2 DEF RecCommit, RecTimeout, RecRollback, quantityVars
<1>3. ASSUME NEW v \in Variants, RecGive(p, v) \/ RecWrite(p, v)
      PROVE  UNCHANGED orderVars /\ UNCHANGED historyVars /\ onHand' = onHand
  BY <1>3 DEF RecGive, RecWrite, quantityVars
<1> QED
  BY <1>1, <1>2, <1>3 DEF RecStep

\* Nor do the handlers of reservations touch orders.
LEMMA ReservationsLeave ==
  /\ \A r \in Reservations :
         Reserve(r) \/ Confirm(r) \/ Release(r) \/ Lapse(r) => UNCHANGED orderVars
  /\ CleanupExpired => UNCHANGED orderVars
  BY DEF Reserve, Confirm, Release, Lapse, CleanupExpired

LEMMA NextHeldCreated == StockTypeOK /\ HeldCreated /\ [Next]_vars => HeldCreated'
<1> SUFFICES ASSUME StockTypeOK, HeldCreated, [Next]_vars PROVE HeldCreated'
  OBVIOUS
<1>1. ASSUME NEW o \in Orders,
             \/ OrderUnmoved(o) \/ OrderOther(o)
             \/ \E v \in Candidates[o] :
                    OrderCreated(o, v) \/ OrderActive(o, v) \/ OrderCancelled(o, v)
      PROVE  HeldCreated'
  BY <1>1 DEF StockTypeOK, HeldCreated, OrderUnmoved, KeepsStock, OrderOther, OrderCreated, OrderActive,
              OrderCancelled, Deduct, Restore
<1>2. ASSUME \/ \E r \in Reservations : Reserve(r) \/ Confirm(r) \/ Release(r) \/ Lapse(r)
             \/ CleanupExpired
             \/ \E p \in Apis : RecStep(p) \/ RecTimeout(p) \/ RecRollback(p)
      PROVE  HeldCreated'
  <2>1. UNCHANGED orderVars
    BY <1>2, RecLeaves, ReservationsLeave
  <2> QED
    BY <2>1 DEF HeldCreated, orderVars
<1>3. ASSUME \/ \E v \in Variants :
                    \/ \E q \in {-1, 1} : UpdateStock(v, q)
                    \/ Refuse(v) \/ LeakEnds(v) \/ UpdateHangs(v) \/ HangEnds(v)
                    \/ ListRead(v) \/ ListWrite(v) \/ AutoSelect(v) \/ AutoReserve(v)
             \/ UNCHANGED vars
      PROVE  HeldCreated'
  <2>1. UNCHANGED orderVars
    BY <1>3 DEF UpdateStock, Refuse, LeakEnds, UpdateHangs, HangEnds, ListRead, ListWrite,
                AutoSelect, AutoReserve, vars
  <2> QED
    BY <2>1 DEF HeldCreated, orderVars
<1> QED
  BY <1>1, <1>2, <1>3 DEF Next

LEMMA InitAccounted == Init => StockAccounted /\ HeldCreated
<1> SUFFICES ASSUME Init PROVE StockAccounted
  BY DEF Init, HeldCreated
<1>1. \A v \in Variants : Of(v, InStatus("confirmed")) = {} /\ HeldFrom(v) = {}
  BY DEF Init, Of, InStatus, HeldFrom
<1>2. \A v \in Variants : Initial[v] \in Int
  BY RowsAssumption
<1>3. Cardinality({}) = 0
  BY FS_EmptySet
<1>4. onHand = Initial /\ other = [v \in Variants |-> 0]
  BY DEF Init
<1> QED
  BY <1>1, <1>2, <1>3, <1>4 DEF StockAccounted

\* What is on hand follows from the reservations confirmed, the orders that hold
\* stock and what came and went by other ways.
THEOREM StockIsAccounted == Spec => []StockAccounted
<1>1. Init => StockAccounted /\ HeldCreated
  BY InitAccounted
<1>2. StockInv /\ StockTypeOK' /\ StockAccounted /\ HeldCreated /\ [Next]_vars
         => (StockAccounted /\ HeldCreated)'
  BY NextAccounted, NextHeldCreated DEF StockInv
<1> QED
  BY <1>1, <1>2, StockInvHolds, StockTypes, PTL DEF Spec

-----------------------------------------------------------------------------
(* Orders and promises.                                                    *)

\* An order that the portal wrote last holds stock just while it is active.
LEMMA NextHeldWhileOpen == StockTypeOK /\ HeldWhileOpen /\ [Next]_vars => HeldWhileOpen'
<1> SUFFICES ASSUME StockTypeOK, HeldWhileOpen, [Next]_vars PROVE HeldWhileOpen'
  OBVIOUS
<1>1. ASSUME NEW o \in Orders,
             \/ OrderUnmoved(o) \/ OrderOther(o)
             \/ \E v \in Candidates[o] :
                    OrderCreated(o, v) \/ OrderActive(o, v) \/ OrderCancelled(o, v)
      PROVE  HeldWhileOpen'
  BY <1>1 DEF StockTypeOK, HeldWhileOpen, OrderUnmoved, KeepsStock, OrderOther, OrderCreated, OrderActive,
              OrderCancelled, Deduct, Restore
<1>2. ASSUME \/ \E r \in Reservations : Reserve(r) \/ Confirm(r) \/ Release(r) \/ Lapse(r)
             \/ CleanupExpired
             \/ \E p \in Apis : RecStep(p) \/ RecTimeout(p) \/ RecRollback(p)
      PROVE  HeldWhileOpen'
  <2>1. UNCHANGED orderVars
    BY <1>2, RecLeaves, ReservationsLeave
  <2> QED
    BY <2>1 DEF HeldWhileOpen, orderVars
<1>3. ASSUME \/ \E v \in Variants :
                    \/ \E q \in {-1, 1} : UpdateStock(v, q)
                    \/ Refuse(v) \/ LeakEnds(v) \/ UpdateHangs(v) \/ HangEnds(v)
                    \/ ListRead(v) \/ ListWrite(v) \/ AutoSelect(v) \/ AutoReserve(v)
             \/ UNCHANGED vars
      PROVE  HeldWhileOpen'
  <2>1. UNCHANGED orderVars
    BY <1>3 DEF UpdateStock, Refuse, LeakEnds, UpdateHangs, HangEnds, ListRead, ListWrite,
                AutoSelect, AutoReserve, vars
  <2> QED
    BY <2>1 DEF HeldWhileOpen, orderVars
<1> QED
  BY <1>1, <1>2, <1>3 DEF Next

\* Whatever the bot, the couriers and the agents made of an order's status before,
\* once the portal writes it the stock follows.
THEOREM StockFollowsOrder == Spec => []HeldWhileOpen
<1>1. Init => HeldWhileOpen
  BY DEF Init, HeldWhileOpen
<1> QED
  BY <1>1, NextHeldWhileOpen, StockTypes, PTL DEF Spec

\* Fewer reservations are no more to cover.
LEMMA FewerActive ==
  ASSUME StockTypeOK, NEW v \in Variants,
         \A r \in Reservations : resv'[r] = "active" => resv[r] = "active"
  PROVE  Cardinality(Active(v)') <= Cardinality(Active(v))
<1>1. Active(v)' \subseteq Active(v)
  BY DEF Active, Of, InStatus
<1>2. IsFiniteSet(Active(v))
  BY CountReservations DEF Active, InStatus
<1> QED
  BY <1>1, <1>2, FS_Subset

\* A step that takes nothing from a variant and makes no reservation covers what
\* was covered.
LEMMA PromisesKept ==
  ASSUME StockTypeOK, StockTypeOK', PromisesCovered,
         drifted \subseteq drifted', lowered \subseteq lowered',
         \A r \in Reservations : resv'[r] = "active" => resv[r] = "active",
         \A v \in Variants \ lowered' : onHand'[v] >= onHand[v]
  PROVE  PromisesCovered'
<1> SUFFICES ASSUME NEW v \in Variants \ (drifted' \cup lowered')
             PROVE  Cardinality(Active(v)') <= onHand'[v]
  BY DEF PromisesCovered
<1>1. Cardinality(Active(v)') <= Cardinality(Active(v))
  BY FewerActive
<1>2. Cardinality(Active(v)) <= onHand[v] /\ onHand'[v] >= onHand[v]
  BY DEF PromisesCovered
<1>3. Cardinality(Active(v)) \in Nat /\ Cardinality(Active(v)') \in Nat
  <2>1. InStatus("active") \in SUBSET Reservations /\ InStatus("active")' \in SUBSET Reservations
    BY DEF InStatus
  <2>2. Active(v) = Of(v, InStatus("active")) /\ Active(v)' = Of(v, InStatus("active")')
    BY DEF Active, Of
  <2> QED
    BY <2>1, <2>2, CountReservations
<1>4. onHand[v] \in Int /\ onHand'[v] \in Int
  BY DEF StockTypeOK
<1> QED
  BY <1>1, <1>2, <1>3, <1>4

LEMMA NextPromises ==
  ASSUME StockInv, StockInv', PromisesCovered, [Next]_vars
  PROVE  PromisesCovered'
<1>0. StockTypeOK /\ StockTypeOK'
  BY DEF StockInv
<1>1. ASSUME NEW r \in Reservations, Reserve(r) \/ Confirm(r) PROVE PromisesCovered'
  <2> SUFFICES ASSUME NEW v \in Variants \ (drifted' \cup lowered')
               PROVE  Cardinality(Active(v)') <= onHand'[v]
    BY DEF PromisesCovered
  <2>1. drifted' = drifted /\ lowered' = lowered
    BY <1>1 DEF Reserve, Confirm, historyVars
  <2>2. /\ reserved[v] = Cardinality(Active(v)) /\ reserved'[v] = Cardinality(Active(v)')
        /\ Cardinality(Active(v)) <= onHand[v]
    BY <2>1 DEF StockInv, ReservedMatchesActive, PromisesCovered
  <2>3. onHand[v] \in Int /\ reserved[v] \in Int
    BY <1>0 DEF StockTypeOK
  <2>4. CASE Reserve(r)
    BY <1>0, <2>2, <2>3, <2>4 DEF Reserve, Available, StockTypeOK
  <2>5. CASE Confirm(r)
    BY <1>0, <2>2, <2>3, <2>5 DEF Confirm, StockTypeOK
  <2> QED
    BY <1>1, <2>4, <2>5
<1>2. ASSUME \/ \E r \in Reservations : Release(r) \/ Lapse(r)
             \/ CleanupExpired
             \/ \E p \in Apis : RecStep(p) \/ RecTimeout(p) \/ RecRollback(p)
      PROVE  PromisesCovered'
  <2>1. UNCHANGED <<onHand, drifted, lowered>>
    <3>1. ASSUME NEW p \in Apis, RecStep(p) \/ RecTimeout(p) \/ RecRollback(p)
          PROVE  UNCHANGED <<onHand, drifted, lowered>>
      BY <3>1, RecLeaves DEF historyVars
    <3> QED
      BY <1>2, <3>1 DEF Release, Lapse, CleanupExpired, quantityVars, historyVars
  <2>2. \A r \in Reservations : resv'[r] = "active" => resv[r] = "active"
    <3>1. ASSUME NEW p \in Apis, RecStep(p) \/ RecTimeout(p) \/ RecRollback(p),
                 NEW r \in Reservations, resv'[r] = "active"
          PROVE  resv[r] = "active"
      <4>1. CASE RecCommit(p)
        BY <3>1, <4>1 DEF RecCommit
      <4>2. CASE ~RecCommit(p)
        BY <3>1, <4>2 DEF RecStep, RecStart, RecLook, RecMark, RecSync, RecGive, RecWrite,
                          RecTimeout, RecRollback, reservationVars
      <4> QED
        BY <4>1, <4>2
    <3>2. ASSUME NEW s \in Reservations, Release(s) \/ Lapse(s)
          PROVE  \A r \in Reservations : resv'[r] = "active" => resv[r] = "active"
      BY <1>0, <3>2 DEF Release, Lapse, StockTypeOK
    <3>3. CASE CleanupExpired
      BY <3>3 DEF CleanupExpired
    <3> QED
      BY <1>2, <3>1, <3>2, <3>3
  <2>3. \A v \in Variants : onHand'[v] >= onHand[v]
    BY <1>0, <2>1 DEF StockTypeOK
  <2> QED
    BY <1>0, <2>1, <2>2, <2>3, PromisesKept
<1>3. ASSUME NEW o \in Orders, NEW w \in Candidates[o],
             OrderCreated(o, w) \/ OrderActive(o, w) \/ OrderCancelled(o, w)
      PROVE  PromisesCovered'
  <2>1. resv' = resv /\ drifted' = drifted /\ lowered \subseteq lowered' /\ w \in Variants
    BY <1>3, RowsAssumption
       DEF OrderCreated, OrderActive, OrderCancelled, Deduct, Restore, reservationVars
  <2>2. \A v \in Variants \ lowered' : onHand'[v] >= onHand[v]
    BY <1>0, <1>3, <2>1
       DEF OrderCreated, OrderActive, OrderCancelled, Deduct, Restore, StockTypeOK
  <2> QED
    BY <1>0, <2>1, <2>2, PromisesKept
<1>4. ASSUME NEW w \in Variants, \/ \E q \in {-1, 1} : UpdateStock(w, q)
                                \/ ListWrite(w)
      PROVE  PromisesCovered'
  <2>1. resv' = resv /\ drifted' = drifted /\ lowered \subseteq lowered'
    BY <1>4 DEF UpdateStock, ListWrite, reservationVars
  <2>2. CASE \E q \in {-1, 1} : UpdateStock(w, q)
    <3>1. \A v \in Variants \ lowered' : onHand'[v] >= onHand[v]
      BY <1>0, <2>2 DEF UpdateStock, StockTypeOK
    <3> QED
      BY <1>0, <2>1, <3>1, PromisesKept
  <2>3. CASE ListWrite(w)
    <3>1. listing[w] \in Int
      BY <1>0, <2>3 DEF ListWrite, StockTypeOK
    <3>2. \A v \in Variants \ lowered' : onHand'[v] >= onHand[v]
      BY <1>0, <2>3, <3>1 DEF ListWrite, StockTypeOK
    <3> QED
      BY <1>0, <2>1, <3>2, PromisesKept
  <2> QED
    BY <1>4, <2>2, <2>3
<1>5. ASSUME \/ \E o \in Orders : OrderUnmoved(o) \/ OrderOther(o)
             \/ \E v \in Variants :
                    \/ Refuse(v) \/ LeakEnds(v) \/ UpdateHangs(v) \/ HangEnds(v)
                    \/ ListRead(v) \/ AutoSelect(v) \/ AutoReserve(v)
             \/ UNCHANGED vars
      PROVE  PromisesCovered'
  <2>1. resv' = resv /\ onHand' = onHand /\ lowered' = lowered /\ drifted \subseteq drifted'
    BY <1>5 DEF OrderUnmoved, OrderOther, Refuse, LeakEnds, UpdateHangs, HangEnds, ListRead,
                AutoSelect, AutoReserve, vars, quantityVars, reservationVars, historyVars
  <2>2. \A v \in Variants : onHand'[v] >= onHand[v]
    BY <1>0, <2>1 DEF StockTypeOK
  <2> QED
    BY <1>0, <2>1, <2>2, PromisesKept
<1> QED
  BY <1>1, <1>2, <1>3, <1>4, <1>5 DEF Next

\* Reservations promise what there is, unless somebody took without a look at them.
THEOREM PromisesAreCovered == Spec => []PromisesCovered
<1>1. Init => PromisesCovered
  <2> SUFFICES ASSUME Init PROVE PromisesCovered
    OBVIOUS
  <2>1. \A v \in Variants : Active(v) = {} /\ Initial[v] \in Nat
    BY RowsAssumption DEF Init, Active, Of, InStatus
  <2>2. Cardinality({}) = 0
    BY FS_EmptySet
  <2>3. onHand = Initial
    BY DEF Init
  <2> QED
    BY <2>1, <2>2, <2>3 DEF PromisesCovered
<1>2. StockInv /\ StockInv' /\ PromisesCovered /\ [Next]_vars => PromisesCovered'
  BY NextPromises
<1> QED
  BY <1>1, <1>2, StockInvHolds, PTL DEF Spec

-----------------------------------------------------------------------------
(* The stock implements the ledger of Ledger.                              *)

\* What a step leaves alone when the ledger has no entry for it.
QuietInBooks == UNCHANGED <<onHand, resv, held, drifted>>

\* Such a step is a stuttering step of the ledger.
LEMMA QuietStutters == QuietInBooks => UNCHANGED Books!vars
  BY DEF QuietInBooks, Books!vars

\* The ledger counts as the handlers do.
LEMMA SameCardinality == \A S : Books!Cardinality(S) = Cardinality(S)
  BY DEF Books!Cardinality, Cardinality

\* A handler that looks at quantity_reserved sees what the ledger promises.
LEMMA ReserveIsPromise ==
  ASSUME StockInv, NEW r \in Reservations, Reserve(r)
  PROVE  Books!Promise(r)
<1> DEFINE v == VariantOf[r]
<1>0. v \in Variants /\ StockTypeOK
  BY RowsAssumption DEF StockInv
<1>1. Active(v) = Books!Promised(v)
  BY DEF Active, Of, InStatus, Books!Promised
<1>2. ASSUME v \notin drifted PROVE Cardinality(Books!Promised(v)) < onHand[v]
  <2>1. reserved[v] = Cardinality(Books!Promised(v))
    BY <1>0, <1>1, <1>2 DEF StockInv, ReservedMatchesActive
  <2>2. onHand[v] \in Int /\ reserved[v] \in Int /\ onHand[v] - reserved[v] >= 1
    BY <1>0 DEF StockTypeOK, Reserve, Available
  <2>3. reserved[v] < onHand[v]
    BY <2>2
  <2> QED
    BY <2>1, <2>3
<1>3. resv[r] = "none"
  BY DEF Reserve
<1>4. resv' = [resv EXCEPT ![r] = "active"]
  BY DEF Reserve
<1>5. UNCHANGED <<onHand, held, drifted>>
  BY DEF Reserve, orderVars, historyVars
<1>6. v \notin drifted => Books!Cardinality(Books!Promised(v)) < onHand[v]
  BY <1>2, SameCardinality
<1> QED
  BY <1>3, <1>4, <1>5, <1>6, Zenon DEF Books!Promise

\* A confirmation takes the unit as it ends the promise.
LEMMA ConfirmIsTake ==
  ASSUME NEW r \in Reservations, Confirm(r)
  PROVE  Books!Take(r)
  BY DEF Confirm, orderVars, historyVars, Books!Take

\* A release ends one promise, the task those that have lapsed, the commit of a
\* reconciliation those it has marked and kept to itself until then.
LEMMA EndIsGiveBack ==
  ASSUME StockInv,
         \/ \E r \in Reservations : Release(r)
         \/ CleanupExpired
         \/ \E p \in Apis : RecCommit(p)
  PROVE  \E S \in SUBSET Reservations, how \in {"released", "expired"} :
             Books!GiveBack(S, how)
<1>0. StockTypeOK
  BY DEF StockInv
<1>1. ASSUME NEW r \in Reservations, Release(r) PROVE Books!GiveBack({r}, "released")
  BY <1>0, <1>1 DEF Release, StockTypeOK, orderVars, historyVars, Books!GiveBack
<1>2. CASE CleanupExpired
  <2>1. Books!GiveBack(lapsed, "expired")
    BY <1>2 DEF CleanupExpired, StockInv, LapsedActive, orderVars, historyVars, Books!GiveBack
  <2>2. lapsed \in SUBSET Reservations
    BY <1>0 DEF StockTypeOK
  <2> QED
    BY <2>1, <2>2
<1>3. ASSUME NEW p \in Apis, RecCommit(p)
      PROVE  Books!GiveBack(rec[p].marked, "expired") /\ rec[p].marked \in SUBSET Reservations
  <2>1. \A r \in rec[p].marked : resv[r] = "active"
    BY DEF StockInv, RecInv, HoldsInv
  <2>2. rec[p].marked \in SUBSET Reservations
    BY <1>0 DEF StockTypeOK, RecType
  <2>3. Books!GiveBack(rec[p].marked, "expired")
    BY <1>3, <2>1 DEF RecCommit, orderVars, historyVars, Books!GiveBack
  <2> QED
    BY <2>2, <2>3
<1>4. ASSUME NEW r \in Reservations, Release(r)
      PROVE  {r} \in SUBSET Reservations /\ Books!GiveBack({r}, "released")
  BY <1>1, <1>4
<1> QED
  BY <1>2, <1>3, <1>4

\* The other statements of a reconciliation are nothing to the ledger.
LEMMA RecIsQuiet ==
  ASSUME NEW p \in Apis, RecStep(p) \/ RecTimeout(p) \/ RecRollback(p), ~RecCommit(p)
  PROVE  QuietInBooks
<1>1. resv' = resv
  BY DEF RecStep, RecStart, RecLook, RecMark, RecSync, RecGive, RecWrite, RecTimeout,
         RecRollback, reservationVars
<1> QED
  BY <1>1, RecLeaves DEF QuietInBooks, orderVars, historyVars

\* An order is issued its unit when it holds none, and returns the one it holds.
LEMMA OrderIsEntry ==
  ASSUME StockTypeOK, HeldCreated, NEW o \in Orders, NEW v \in Candidates[o],
         OrderCreated(o, v) \/ OrderActive(o, v) \/ OrderCancelled(o, v)
  PROVE  v \in Variants /\ (Books!Issue(o, v) \/ Books!Return(o, v))
<1>0. v \in Variants /\ onHand[v] \in Int
  BY RowsAssumption DEF StockTypeOK
<1>1. CASE OrderCreated(o, v) \/ OrderActive(o, v)
  <2>1. o \notin held
    BY <1>1 DEF OrderCreated, OrderActive, HeldCreated
  <2>2. Larger(onHand[v] - 1, 0) = IF onHand[v] > 0 THEN onHand[v] - 1 ELSE 0
    BY <1>0 DEF Larger
  <2>3. /\ held' = held \cup {o}
        /\ onHand' = [onHand EXCEPT ![v] = Larger(onHand[v] - 1, 0)]
        /\ UNCHANGED <<resv, drifted>>
    BY <1>1 DEF OrderCreated, OrderActive, Deduct, reservationVars
  <2>4. onHand' = [onHand EXCEPT ![v] = IF onHand[v] > 0 THEN onHand[v] - 1 ELSE 0]
    BY <2>2, <2>3
  <2>5. Books!Issue(o, v)
    BY <2>1, <2>3, <2>4 DEF Books!Issue
  <2> QED
    BY <1>0, <2>5
<1>2. CASE OrderCancelled(o, v)
  <2>1. Books!Return(o, v)
    BY <1>2 DEF OrderCancelled, Restore, reservationVars, Books!Return
  <2> QED
    BY <1>0, <2>1
<1> QED
  BY <1>1, <1>2

\* A stock update and the write of a listing count a variant anew.
LEMMA UpdateIsAdjust ==
  ASSUME StockTypeOK, StockTypeOK', NEW v \in Variants,
         ListWrite(v) \/ \E q \in {-1, 1} : UpdateStock(v, q)
  PROVE  Books!Adjust(v)
<1>1. /\ \A u \in Variants \ {v} : onHand'[u] = onHand[u]
      /\ UNCHANGED <<resv, held, drifted>>
  BY DEF ListWrite, UpdateStock, StockTypeOK, reservationVars, orderVars
<1> QED
  BY <1>1 DEF StockTypeOK, Books!Adjust

\* Every step of the processes is one entry of the ledger, or none.
LEMMA BooksStep ==
  StockInv /\ StockTypeOK' /\ HeldCreated /\ [Next]_vars => [Books!Next]_(Books!vars)
<1> SUFFICES ASSUME StockInv, StockTypeOK', HeldCreated, [Next]_vars
             PROVE  [Books!Next]_(Books!vars)
  OBVIOUS
<1>0. StockTypeOK
  BY DEF StockInv
<1>1. ASSUME NEW r \in Reservations, Reserve(r) \/ Confirm(r) PROVE Books!Next
  BY <1>1, ReserveIsPromise, ConfirmIsTake DEF Books!Next
<1>2. ASSUME NEW r \in Reservations, Lapse(r) PROVE QuietInBooks
  BY <1>2 DEF Lapse, QuietInBooks, quantityVars, orderVars, historyVars
<1>3. ASSUME \/ \E r \in Reservations : Release(r)
             \/ CleanupExpired
             \/ \E p \in Apis : RecCommit(p)
      PROVE  Books!Next
  BY <1>3, EndIsGiveBack DEF Books!Next
<1>4. ASSUME NEW p \in Apis, RecStep(p) \/ RecTimeout(p) \/ RecRollback(p), ~RecCommit(p)
      PROVE  QuietInBooks
  BY <1>4, RecIsQuiet
<1>5. ASSUME NEW o \in Orders, NEW v \in Candidates[o],
             OrderCreated(o, v) \/ OrderActive(o, v) \/ OrderCancelled(o, v)
      PROVE  Books!Next
  BY <1>0, <1>5, OrderIsEntry DEF Books!Next
<1>6. ASSUME NEW o \in Orders, OrderUnmoved(o) \/ OrderOther(o) PROVE QuietInBooks
  BY <1>6 DEF OrderUnmoved, OrderOther, QuietInBooks, quantityVars, reservationVars,
              historyVars
<1>7. ASSUME NEW v \in Variants, ListWrite(v) \/ \E q \in {-1, 1} : UpdateStock(v, q)
      PROVE  Books!Next
  BY <1>0, <1>7, UpdateIsAdjust DEF Books!Next
<1>8. ASSUME NEW v \in Variants, AutoReserve(v) PROVE Books!Next
  <2>1. Books!Loosen(v)
    BY <1>8 DEF AutoReserve, reservationVars, orderVars, Books!Loosen
  <2> QED
    BY <2>1 DEF Books!Next
<1>9. ASSUME NEW v \in Variants, \/ Refuse(v) \/ LeakEnds(v) \/ UpdateHangs(v) \/ HangEnds(v)
                                 \/ ListRead(v) \/ AutoSelect(v)
      PROVE  QuietInBooks
  BY <1>9 DEF Refuse, LeakEnds, UpdateHangs, HangEnds, ListRead, AutoSelect, QuietInBooks,
              quantityVars, reservationVars, orderVars, historyVars
<1>10. ASSUME UNCHANGED vars PROVE QuietInBooks
  <2>1. /\ UNCHANGED quantityVars /\ UNCHANGED reservationVars
        /\ UNCHANGED orderVars /\ UNCHANGED historyVars
    BY <1>10 DEF vars
  <2> QED
    BY <2>1 DEF QuietInBooks, quantityVars, reservationVars, orderVars, historyVars
<1> QED
  BY <1>1, <1>2, <1>3, <1>4, <1>5, <1>6, <1>7, <1>8, <1>9, <1>10, QuietStutters DEF Next

\* The stock implements the ledger of Ledger, for any number of variants, reservations,
\* orders and API processes that reconcile.
THEOREM StockIsLedger == Spec => ImplementsLedger
<1>1. Init => Books!Init
  BY DEF Init, Books!Init
<1>2. Init => HeldCreated
  BY InitAccounted
<1>3. StockTypeOK /\ HeldCreated /\ [Next]_vars => HeldCreated'
  BY NextHeldCreated
<1>4. StockInv /\ StockTypeOK' /\ HeldCreated /\ [Next]_vars => [Books!Next]_(Books!vars)
  BY BooksStep
<1> QED
  BY <1>1, <1>2, <1>3, <1>4, StockInvHolds, StockTypes, PTL
  DEF Spec, ImplementsLedger, Books!Spec
=============================================================================
