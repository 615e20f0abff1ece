------------------------------- MODULE MCTcp --------------------------------
(* A small instance of Tcp for TLC: two writers, two readers or acceptors, and *)
(* a reader beside a writer, each beside a closer.                             *)
EXTENDS Tcp, TLC

CONSTANTS t1, t2, t3

Calling(a, b, c) == t1 :> a @@ t2 :> b @@ t3 :> c

MCPrograms ==
  {Calling({"write"}, {"write"}, {"close"}),
   Calling({"read", "accept"}, {"read", "accept"}, {"accept", "close"}),
   Calling({"read", "shutdown"}, {"write", "no_delay"}, {"close"})}
=============================================================================
