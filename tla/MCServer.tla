------------------------------ MODULE MCServer ------------------------------
(* A small instance of Server for TLC: two connections at a time and a stop, *)
(* or one at a time and all three calls beside each other.                  *)
EXTENDS Server, TLC

CONSTANTS c1, c2, t1, t2

MCPrograms ==
  {[ceiling |-> 2, makes |-> t1 :> {"stop"} @@ t2 :> {}],
   [ceiling |-> 1, makes |-> t1 :> {"stop", "wait"} @@ t2 :> {"free"}]}
=============================================================================
