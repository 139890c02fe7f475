---------------------------- MODULE MCConnector ----------------------------
(* An instance of Connector for TLC. *)
EXTENDS Connector

CONSTANTS e1, e2, c1, c2, q1
=============================================================================
