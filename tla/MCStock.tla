------------------------------ MODULE MCStock ------------------------------
(* An instance of Stock for TLC. *)
EXTENDS Stock

CONSTANTS v1, r1, r2, o1, a1

\* Two reservations and an order for the one variant, of which one unit is there.
MCVariantOf == [r \in Reservations |-> v1]
MCCandidates == [o \in Orders |-> Variants]
MCInitial == [v \in Variants |-> 1]
=============================================================================
