------------------------- MODULE MCBackupScheduler -------------------------
(***************************************************************************)
(* Small instances of the backup scheduler: one app with one backup, and   *)
(* at most one request.                                                    *)
(***************************************************************************)
EXTENDS BackupScheduler, TLC

CONSTANTS a1, b1, q1

OneApp      == {a1}
OneBackup   == {b1}
OnlyApp     == (b1 :> a1)
OneRequest  == {q1}
OneSlot     == 1 .. 1
TwoSlots    == 1 .. 2

Asked == {q \in Requests : reply[q] # "none"}

\* An edit of the backup, a lapsed tomb or an unreadable app beside the delete,
\* and requests only once a plan read left the app out.
OneDisturbance ==
  /\ saves + lapses + unreads <= 1
  /\ Asked # {} => unreads = 1 /\ ~stopping
=============================================================================
