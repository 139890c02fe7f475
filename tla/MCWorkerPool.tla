---------------------------- MODULE MCWorkerPool ----------------------------
(* Instances of WorkerPool for TLC. *)
EXTENDS WorkerPool

CONSTANTS t1, t2, m1, m2

\* Two tasks of two merchants.
MCMerchantOf == [t \in Tasks |-> IF t = t1 THEN m1 ELSE m2]
=============================================================================
