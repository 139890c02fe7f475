------------------------------ MODULE MCOutbox ------------------------------
(* Instances of Outbox for TLC. *)
EXTENDS Outbox, TLC

CONSTANTS a1, a2, w1, w2

\* Event 1 has a handler in both consumers, event 2 in the worker only;
\* in two runs event 2 is an escalation or a daily report.
MCEvents == 1 .. 2
MCApiEvents == {1}
MCWorkerEvents == {1, 2}

\* Three events, the third of a type no consumer knows, for the poller alone.
MCThreeEvents == 1 .. 3
MCTwoWorkerEvents == {1, 2}
MCNoEvents == {}
MCNotices == {2}

\* Processes are interchangeable (for safety properties only).
MCSymmetry == Permutations({a1, a2}) \cup Permutations({w1, w2})
MCWorkerSymmetry == Permutations({w1, w2})
=============================================================================
