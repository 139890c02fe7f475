------------------------------ MODULE WorkQueue ------------------------------
(***************************************************************************)
(* What a queue of work promises whose rows several owners take and settle *)
(* on their own: an item has one owner at a time, and leaves it only when  *)
(* that owner settles it or is lost; what is done stays done; what is dead *)
(* comes back only when somebody returns it. An item that was taken from   *)
(* its owner from outside is loose, and nothing is promised of it.         *)
(***************************************************************************)
CONSTANTS
    Items,      \* the items ever added
    Owners      \* whoever can take items

VARIABLES
    state,      \* where each item is
    owners      \* the owners of each item

vars == <<state, owners>>

States == {"absent", "waiting", "held", "stuck", "done", "dead", "loose"}

Init ==
    /\ state = [i \in Items |-> "absent"]
    /\ owners = [i \in Items |-> {}]

\* The items of S all go to one state and get the same owners.
Send(S, to, who) ==
    /\ state' = [i \in Items |-> IF i \in S THEN to ELSE state[i]]
    /\ owners' = [i \in Items |-> IF i \in S THEN who ELSE owners[i]]

Add(i) == state[i] = "absent" /\ Send({i}, "waiting", {})

Take(o, S) == (\A i \in S : state[i] = "waiting") /\ Send(S, "held", {o})

\* The owner of an item is through with it: done, dead, or to be tried again.
Settle(o, i, to) ==
    /\ state[i] = "held" /\ owners[i] = {o}
    /\ Send({i}, to, {})

\* Some waiting items are settled without having been taken.
Refuse ==
    /\ state' \in [Items -> States]
    /\ \A i \in Items :
           state'[i] # state[i] => state[i] = "waiting" /\ state'[i] \in {"done", "dead"}
    /\ UNCHANGED owners

\* Some owners are lost, or none is: what they had, and what is stuck since others
\* were lost, may be stuck, wait again or be given up. Only what its owner had may
\* turn out to be done: the owner had not heard of it.
Lose(C) ==
    /\ owners' = [i \in Items |-> owners[i] \ C]
    /\ state' \in [Items -> States]
    /\ \A i \in Items :
           CASE state[i] = "stuck" -> state'[i] \in {"stuck", "waiting", "dead"}
             [] state[i] = "held" /\ owners[i] \subseteq C ->
                    state'[i] \in {"stuck", "waiting", "dead", "done"}
             [] OTHER -> state'[i] = state[i]

\* Some dead items are returned, and some items come loose.
Return ==
    /\ state' \in [Items -> States]
    /\ \A i \in Items :
           state'[i] # state[i] =>
               state'[i] = "loose" \/ (state[i] = "dead" /\ state'[i] = "waiting")
    /\ owners' = [i \in Items |-> IF state'[i] = "loose" THEN {} ELSE owners[i]]

Next ==
    \/ \E i \in Items : Add(i)
    \/ \E o \in Owners, S \in SUBSET Items : Take(o, S)
    \/ \E o \in Owners, i \in Items, to \in {"done", "waiting", "dead"} : Settle(o, i, to)
    \/ \E C \in SUBSET Owners : Lose(C)
    \/ Refuse \/ Return

Spec == Init /\ [][Next]_vars
=============================================================================
