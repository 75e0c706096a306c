-------------------------- MODULE MCCommandResults --------------------------
(* CommandResults for TLC. *)
EXTENDS CommandResults, TLC
=============================================================================
