----------------------------- MODULE EventQueue -----------------------------
(***************************************************************************)
(* What the event pipeline promises: an at-least-once queue.  An event is  *)
(* inserted once; its effects are applied while it is queued, any number   *)
(* of times; it leaves the queue for good, either delivered, and then its  *)
(* effects have been applied, or dead.                                     *)
(***************************************************************************)
CONSTANTS
    Events,     \* the events ever inserted
    Handled     \* those that have effects to apply

VARIABLES
    state,      \* where each event is
    applied     \* the events whose effects were applied at least once

vars == <<state, applied>>

States == {"absent", "queued", "delivered", "dead"}

Init ==
    /\ state = [e \in Events |-> "absent"]
    /\ applied = {}

Enqueue(e) ==
    /\ state[e] = "absent"
    /\ state' = [state EXCEPT ![e] = "queued"]
    /\ UNCHANGED applied

Apply(e) ==
    /\ state[e] = "queued"
    /\ applied' = applied \cup {e}
    /\ UNCHANGED state

\* Some queued events leave together: those of D delivered, those of X dead.
Settle(D, X) ==
    /\ \A e \in D \cup X : state[e] = "queued"
    /\ D \cap X = {}
    /\ D \cap Handled \subseteq applied
    /\ state' = [e \in Events |-> IF e \in D THEN "delivered"
                                  ELSE IF e \in X THEN "dead"
                                  ELSE state[e]]
    /\ UNCHANGED applied

Next ==
    \/ \E e \in Events : Enqueue(e) \/ Apply(e)
    \/ \E D, X \in SUBSET Events : Settle(D, X)

Spec == Init /\ [][Next]_vars
=============================================================================
