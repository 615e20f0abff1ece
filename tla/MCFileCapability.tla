-------------------------- MODULE MCFileCapability --------------------------
(* A small instance of FileCapability for TLC. *)
EXTENDS FileCapability, TLC

CONSTANTS a1, a2, a3, h1, h2, h3
=============================================================================
