---------------------------- MODULE MCTaskMutex ----------------------------
(* A small instance of TaskMutex for TLC. *)
EXTENDS TaskMutex, TLC

CONSTANTS t1, t2, t3, t4
=============================================================================
