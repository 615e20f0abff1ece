---------------------------- MODULE MCEventLoop ----------------------------
(* A small instance of EventLoop for TLC. *)
EXTENDS EventLoop, TLC

CONSTANTS t1, t2
=============================================================================
