-------------------------- MODULE MCHandleRegistry --------------------------
(* A small instance of HandleRegistry for TLC. *)
EXTENDS HandleRegistry, TLC

CONSTANTS a1, a2, a3, s1, s2, k1, k2

\* One chunk of two slots: the first reserve leaves a slot on the free list.
OneChunk == <<<<s1, s2>>>>
=============================================================================
