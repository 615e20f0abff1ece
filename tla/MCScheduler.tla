---------------------------- MODULE MCScheduler ----------------------------
(* The scheduler on small sets of workers and Tasks. *)
EXTENDS Scheduler

CONSTANTS w0, w1, t1, t2
=============================================================================
