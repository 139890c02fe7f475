---------------------------- MODULE MCAgentTasks ----------------------------
(* Instances of AgentTasks for TLC. *)
EXTENDS AgentTasks

CONSTANTS w1, w2, r1, r2, r3, ops

\* One task that two processes compete for; three tasks of one process.
MCOneTask == 1 .. 1
MCThreeTasks == 1 .. 3

MCAgentOf == [t \in Tasks |-> ops]

MCLimitOne == [a \in Agents |-> 1]
MCLimitTwo == [a \in Agents |-> 2]
=============================================================================
