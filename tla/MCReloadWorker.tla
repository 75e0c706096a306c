--------------------------- MODULE MCReloadWorker ---------------------------
(***************************************************************************)
(* Small instances of the reload worker.                                   *)
(***************************************************************************)
EXTENDS ReloadWorker, TLC
=============================================================================
