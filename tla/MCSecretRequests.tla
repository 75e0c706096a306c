-------------------------- MODULE MCSecretRequests --------------------------
(***************************************************************************)
(* Small instances of one secret request.                                  *)
(***************************************************************************)
EXTENDS SecretRequests, TLC

\* The saves of a run are interchangeable, and so are its submitters.
Symmetric == Permutations(Saves) \cup Permutations(Submitters)
=============================================================================
