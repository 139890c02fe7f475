------------------------------- MODULE Ledger -------------------------------
(***************************************************************************)
(* What the stock of a merchant promises to those who sell it: a ledger of *)
(* units on hand, of units promised to reservations, and of orders that    *)
(* have been issued a unit. Every entry is one step. There is no count of  *)
(* what is reserved, which could be wrong: whoever promises a unit looks   *)
(* at the promises. Nothing is promised of the variants that are loose.    *)
(***************************************************************************)
EXTENDS Integers, FiniteSets

CONSTANTS
    Variants,       \* what is sold
    Reservations,   \* the reservations ever made, each for one unit
    VariantOf,      \* of its variant
    Orders,         \* the orders ever created
    Initial         \* what is on hand at the start

VARIABLES
    onHand,     \* units of each variant
    resv,       \* what has become of each reservation
    issued,     \* orders that have a unit
    loose       \* variants promised without a look at the ledger

vars == <<onHand, resv, issued, loose>>

Promised(v) == {r \in Reservations : resv[r] = "active" /\ VariantOf[r] = v}

Init ==
    /\ onHand = Initial
    /\ resv = [r \in Reservations |-> "none"]
    /\ issued = {}
    /\ loose = {}

\* A unit is promised only when one is on hand that is not promised yet.
Promise(r) ==
    /\ resv[r] = "none"
    /\ VariantOf[r] \notin loose
           => Cardinality(Promised(VariantOf[r])) < onHand[VariantOf[r]]
    /\ resv' = [resv EXCEPT ![r] = "active"]
    /\ UNCHANGED <<onHand, issued, loose>>

\* A promised unit is taken: the promise ends as the unit leaves.
Take(r) ==
    /\ resv[r] = "active"
    /\ resv' = [resv EXCEPT ![r] = "confirmed"]
    /\ onHand' = [onHand EXCEPT ![VariantOf[r]] = @ - 1]
    /\ UNCHANGED <<issued, loose>>

\* Promises end without their units.
GiveBack(S, how) ==
    /\ \A r \in S : resv[r] = "active"
    /\ resv' = [r \in Reservations |-> IF r \in S THEN how ELSE resv[r]]
    /\ UNCHANGED <<onHand, issued, loose>>

\* An order gets a unit, if there is one left, and gives one back once.
Issue(o, v) ==
    /\ o \notin issued
    /\ issued' = issued \cup {o}
    /\ onHand' = [onHand EXCEPT ![v] = IF @ > 0 THEN @ - 1 ELSE 0]
    /\ UNCHANGED <<resv, loose>>
Return(o, v) ==
    /\ o \in issued
    /\ issued' = issued \ {o}
    /\ onHand' = [onHand EXCEPT ![v] = @ + 1]
    /\ UNCHANGED <<resv, loose>>

\* The units of a variant are counted anew.
Adjust(v) ==
    /\ onHand' \in [Variants -> Int]
    /\ \A u \in Variants \ {v} : onHand'[u] = onHand[u]
    /\ UNCHANGED <<resv, issued, loose>>

Loosen(v) ==
    /\ loose' = loose \cup {v}
    /\ UNCHANGED <<onHand, resv, issued>>

Next ==
    \/ \E r \in Reservations : Promise(r) \/ Take(r)
    \/ \E S \in SUBSET Reservations, how \in {"released", "expired"} : GiveBack(S, how)
    \/ \E o \in Orders, v \in Variants : Issue(o, v) \/ Return(o, v)
    \/ \E v \in Variants : Adjust(v) \/ Loosen(v)

Spec == Init /\ [][Next]_vars
=============================================================================
