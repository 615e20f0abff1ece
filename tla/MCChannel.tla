----------------------------- MODULE MCChannel -----------------------------
(* A small instance of Channel for TLC. *)
EXTENDS Channel, TLC

CONSTANTS t1, t2, t3, v1, v2
=============================================================================
