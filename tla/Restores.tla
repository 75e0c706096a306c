------------------------------- MODULE Restores -------------------------------
(***************************************************************************)
(* One app of an agent while a backup of it is restored: the restore, the  *)
(* operations on the app that other commands, the source poller and the    *)
(* reload worker run beside it, the agent's update of itself and its       *)
(* restarts.                                                               *)
(*                                                                         *)
(* Operations exclude each other by the app's operation lock.  A restore   *)
(* never takes it: it registers itself, the operations that start          *)
(* containers register themselves, and each side refuses to begin while    *)
(* the other is registered.  A restore stops the app, saves its data,      *)
(* replaces it by a helper container and starts the app again, and leaves  *)
(* a mark on disk so that the next start of the agent can tell the user of *)
(* one that was cut short.                                                 *)
(*                                                                         *)
(* Abstractions: the download, its checks and the checks of the time left  *)
(* are steps that succeed or fail.  Compose commands are one step each,    *)
(* done when they end; one that fails may have started the app.  Writes    *)
(* of the mark do not fail.  A restore that the scheduler gives up on, a   *)
(* rename and a change of the backup settings without a redeploy are left  *)
(* out.  The app is not created again once deleted, and the ten minutes a  *)
(* delete keeps restores away outlast it.                                  *)
(***************************************************************************)
EXTENDS Naturals, FiniteSets

CONSTANTS
    Ops,        \* operations on the app that may wait for its lock at once
    MaxOps,     \* bound on the operations asked for
    MaxRuns,    \* bound on the restores
    MaxDeaths,  \* bound on the agent's exits and crashes
    MaxFaults,  \* bound on Docker's failures and restarts
    None

ASSUME Bounds == {MaxOps, MaxRuns, MaxDeaths, MaxFaults} \subseteq Nat

VARIABLES
    lock,       \* the operation that holds the app's lock
    op,         \* each operation's [kind, pc]
    restoring,  \* r.restores has the app
    updating,   \* r.updating: "no", "yes", "exits" once the binary is replaced
    deleting,   \* the scheduler starts no job of the app: Forget's tombstone
    rst,        \* the restore: see Restore below
    mark,       \* restoring.json: the mark's phase
    boot,       \* how far RunBackups is: "read", "note", "clean", "run"
    carried,    \* the mark InterruptedRestores read
    stopping,   \* the agent was asked to stop
    app,        \* the app's containers
    stray,      \* one the compose file no longer names runs
    draft,      \* HEAD is ahead of what runs
    helper,     \* the restore helper: what it does, or its exit
    data,       \* the app's data
    told,       \* the user was told how the last restore ended (history)
    lost,       \* the word of it was lost where the code keeps none (history)
    moved,      \* a poll committed while the restore was registered (history)
    starter,    \* what brought the app up on data in doubt (history)
    excused,    \* Docker or a dead agent broke the exclusion (history)
    used        \* bounds

host   == <<app, stray, draft>>
life   == <<mark, boot, carried, stopping>>
past   == <<told, lost, moved, starter, excused>>
opvars == <<lock, op, updating, deleting>>
vars   == <<opvars, restoring, rst, life, host, helper, data, past, used>>

Kinds  == {"start", "save_draft", "poll", "redeploy", "reload", "stop", "delete"}
Phases == {"stopping", "copy", "restoring"}

ASSUME Apart == None \notin Ops \cup Kinds \cup Phases

\* An operation: it waits for the lock, holds it, is past its first check,
\* is registered and may be bringing the app up, or removes the app.
OpPcs  == {"idle", "wait", "held", "checked", "up", "down", "sweep"}
RstPcs == {"none", "prepare", "look", "draft", "stop", "copy", "launch",
           "helper", "again", "leave", "clear", "end", "answer"}
Ends   == {"none", "deadline", "deleted", "stop"}

TypeOK ==
    /\ lock \in Ops \cup {None}
    /\ op \in [Ops -> [kind : Kinds \cup {None}, pc : OpPcs]]
    /\ \A o \in Ops : op[o].pc \notin {"idle", "wait"} <=> lock = o
    /\ restoring \in BOOLEAN /\ deleting \in BOOLEAN /\ stopping \in BOOLEAN
    /\ restoring <=> rst.pc \notin {"none", "prepare", "answer"}
    /\ updating \in {"no", "yes", "exits"}
    /\ rst \in [pc : RstPcs, running : BOOLEAN, halted : BOOLEAN, ends : Ends,
                doubt : BOOLEAN, failed : BOOLEAN, bare : BOOLEAN]
    /\ {mark, carried} \subseteq Phases \cup {None}
    /\ boot \in {"read", "note", "clean", "run"}
    /\ app \in {"running", "stopped", "down", "gone"}
    /\ stray \in BOOLEAN /\ draft \in BOOLEAN
    /\ helper \in {"off", "extract", "swap", "ok", "failed", "partial"}
    /\ data \in {"old", "new", "doubt"}
    /\ {told, lost, moved, excused} \subseteq BOOLEAN
    /\ starter \in Kinds \cup {None}

Rest == [kind |-> None, pc |-> "idle"]

\* The running restore: its step; whether the app had containers; whether it
\* tried to stop them (history); why its context ended; whether it believes the
\* data in doubt; whether Docker failed to put the app in the state it wanted;
\* whether it ended as one that only its answer tells of.
NoRestore == [pc |-> "none", running |-> FALSE, halted |-> FALSE, ends |-> "none",
              doubt |-> FALSE, failed |-> FALSE, bare |-> FALSE]

Init ==
    /\ lock = None /\ op = [o \in Ops |-> Rest]
    /\ restoring = FALSE /\ updating = "no" /\ deleting = FALSE
    /\ rst = NoRestore
    /\ mark = None /\ boot = "run" /\ carried = None /\ stopping = FALSE
    /\ app \in {"running", "down"} /\ stray = FALSE /\ draft = FALSE
    /\ helper = "off" /\ data = "old"
    /\ told = TRUE /\ lost = FALSE /\ moved = FALSE /\ starter = None /\ excused = FALSE
    /\ used = [ops |-> 0, runs |-> 0, deaths |-> 0, faults |-> 0]

Live      == helper \in {"extract", "swap"}
Exists    == app # "gone"
Ended     == rst.ends # "none"
Spend(b, max) == used[b] < max /\ used' = [used EXCEPT ![b] = @ + 1]
Fault     == Spend("faults", MaxFaults)
Goes(pc)  == rst' = [rst EXCEPT !.pc = pc]
Halts(pc) == rst' = [rst EXCEPT !.pc = pc, !.halted = TRUE]

\* The number of operations registered by beginOp.
Registered == Cardinality({o \in Ops : op[o].pc = "up"})

-----------------------------------------------------------------------------
(* Operations                                                              *)

Step(o, pc) == op' = [op EXCEPT ![o].pc = pc] /\ UNCHANGED lock
Over(o)     == op' = [op EXCEPT ![o] = Rest] /\ lock' = None

\* A restore that runs when its app is to be deleted is cancelled with
\* ErrAppDeleted, and none starts.
Forget ==
    /\ deleting' = TRUE
    /\ rst' = IF rst.pc # "none" /\ ~Ended THEN [rst EXCEPT !.ends = "deleted"]
              ELSE rst

\* A poll leaves out an app being restored; a storage's redeploy takes the
\* apps that have containers, are not being restored and have no draft.
Ask(o, kind) ==
    /\ op[o].pc = "idle"
    /\ kind = "poll" => Exists /\ ~restoring
    /\ kind = "redeploy" => app \in {"running", "stopped"} /\ ~restoring /\ ~draft
    /\ op' = [op EXCEPT ![o] = [kind |-> kind, pc |-> "wait"]]
    /\ IF kind = "delete" THEN Forget ELSE UNCHANGED <<deleting, rst>>
    /\ Spend("ops", MaxOps)
    /\ UNCHANGED <<lock, restoring, updating, life, host, helper, data, past>>

Acquire(o) ==
    /\ op[o].pc = "wait" /\ lock = None
    /\ lock' = o
    /\ op' = [op EXCEPT ![o].pc = "held"]
    /\ UNCHANGED <<restoring, updating, deleting, rst, life, host, helper, data,
                   past, used>>

\* ErrAppBusy after appBusyWait; a reload's own context bounds it.
Busy(o) ==
    /\ op[o].pc = "wait" /\ lock # None
    /\ op' = [op EXCEPT ![o] = Rest]
    /\ UNCHANGED <<lock, restoring, updating, deleting, rst, life, host, helper,
                   data, past, used>>

\* beginOp: refused while a restore is registered.
BeginOp(o) == IF restoring THEN Over(o) ELSE Step(o, "up")

\* Start, restart, update, save and rollback register at once.
Begins(o) ==
    /\ op[o].kind \in {"start", "save_draft"} /\ op[o].pc = "held"
    /\ IF Exists THEN BeginOp(o) ELSE Over(o)
    /\ UNCHANGED <<restoring, updating, deleting, rst, life, host, helper, data,
                   past, used>>

\* A poll fetches the upstream and commits it before it registers.
Polls(o) ==
    /\ op[o].kind = "poll" /\ op[o].pc = "held"
    /\ \/ /\ Exists /\ draft' = TRUE /\ moved' = (moved \/ restoring)
          /\ Step(o, "checked")
       \/ UNCHANGED <<draft, moved>> /\ Over(o)
    /\ UNCHANGED <<restoring, updating, deleting, rst, life, app, stray, helper,
                   data, told, lost, starter, excused, used>>

\* A storage's redeploy looks again, and a reload leaves a stopped app.
Checks(o) ==
    /\ op[o].pc = "held"
    /\ \/ /\ op[o].kind = "redeploy"
          /\ IF restoring \/ draft \/ ~Exists THEN Over(o) ELSE Step(o, "checked")
       \/ /\ op[o].kind = "reload"
          /\ IF app # "running" THEN Over(o) ELSE Step(o, "checked")
    /\ UNCHANGED <<restoring, updating, deleting, rst, life, host, helper, data,
                   past, used>>

Registers(o) ==
    /\ op[o].pc = "checked"
    /\ BeginOp(o)
    /\ UNCHANGED <<restoring, updating, deleting, rst, life, host, helper, data,
                   past, used>>

Starts(kind) == starter' = IF data = "doubt" THEN kind ELSE starter

\* compose up --remove-orphans, then the deployed mark; a reload refuses a
\* draft.
Ups(o) ==
    /\ op[o].pc = "up" /\ op[o].kind # "save_draft"
    /\ op[o].kind = "reload" => ~draft
    /\ app' = "running" /\ stray' = FALSE /\ draft' = FALSE
    /\ Starts(op[o].kind)
    /\ Over(o)
    /\ UNCHANGED <<restoring, updating, deleting, rst, life, helper, data, told,
                   lost, moved, excused, used>>

\* Nothing was brought up, where a save's commit stays; or a part was, or the
\* containers there are restarted.
UpFails(o) ==
    /\ op[o].pc = "up" /\ op[o].kind # "save_draft"
    /\ \/ /\ draft' \in {draft, draft \/ op[o].kind = "start"}
          /\ UNCHANGED <<app, starter>>
       \/ /\ app' = "running" /\ UNCHANGED draft
          /\ op[o].kind = "reload" => ~draft
          /\ Starts(op[o].kind)
    /\ Over(o)
    /\ UNCHANGED <<restoring, updating, deleting, rst, life, stray, helper, data,
                   told, lost, moved, excused, used>>

\* A save without a deploy is a commit.
SavesDraft(o) ==
    /\ op[o].pc = "up" /\ op[o].kind = "save_draft"
    /\ draft' = TRUE
    /\ Over(o)
    /\ UNCHANGED <<restoring, updating, deleting, rst, life, app, stray, helper,
                   data, past, used>>

StopChecks(o) ==
    /\ op[o].kind = "stop" /\ op[o].pc = "held"
    /\ IF restoring THEN Over(o) ELSE Step(o, "down")
    /\ UNCHANGED <<restoring, updating, deleting, rst, life, host, helper, data,
                   past, used>>

\* A restore may have begun since the check.
Downs(o) ==
    /\ op[o].pc = "down"
    /\ \/ Exists /\ app' = "down" /\ stray' = FALSE
       \/ UNCHANGED <<app, stray>>
    /\ Over(o)
    /\ UNCHANGED <<restoring, updating, deleting, rst, life, draft, helper, data,
                   past, used>>

\* waitForRestore: for a time, then the delete fails.
DeleteWaits(o) == IF restoring THEN Over(o) ELSE Step(o, "sweep")

\* Given the time, the delete sees the restore's end.
DeletePasses(o) ==
    /\ op[o].kind = "delete" /\ op[o].pc = "held"
    /\ DeleteWaits(o)
    /\ UNCHANGED <<restoring, updating, deleting, rst, life, host, helper, data,
                   past, used>>

\* Containers, volumes and the folder are removed, the scheduler forgets the
\* app again; or the folder could not be removed.
Sweeps(o) ==
    /\ op[o].pc = "sweep"
    /\ \/ app' = "gone" /\ stray' = FALSE
       \/ Exists /\ app' = "down" /\ stray' = FALSE
    /\ Forget
    /\ Over(o)
    /\ UNCHANGED <<restoring, updating, life, draft, helper, data, past, used>>

\* A delete that failed keeps restores away for tombstoneTTL.
TombLapses ==
    /\ deleting /\ \A o \in Ops : op[o].kind # "delete"
    /\ Exists
    /\ deleting' = FALSE
    /\ UNCHANGED <<lock, op, restoring, updating, rst, life, host, helper, data,
                   past, used>>

-----------------------------------------------------------------------------
(* The restore                                                             *)

\* The scheduler starts the job: the copy is downloaded and checked.
RestoreStarts ==
    /\ rst.pc = "none" /\ boot = "run" /\ ~stopping /\ ~deleting /\ Exists
    /\ rst' = [NoRestore EXCEPT !.pc = "prepare"]
    /\ Spend("runs", MaxRuns)
    /\ UNCHANGED <<opvars, restoring, life, host, helper, data, past>>

\* Nothing was changed: the answer says so.
PrepareFails ==
    /\ rst.pc = "prepare"
    /\ Goes("none")
    /\ UNCHANGED <<opvars, restoring, life, host, helper, data, past, used>>

Admits_Updating == ~restoring /\ Registered = 0

Admits_Ops == updating = "no" /\ ~restoring

\* beginRestore: refused by the agent's update and by a registered operation.
Admits == updating = "no" /\ ~restoring /\ Registered = 0

BeginRestore ==
    /\ rst.pc = "prepare"
    /\ IF Admits THEN restoring' = TRUE /\ Goes("look")
       ELSE UNCHANGED restoring /\ Goes("none")
    /\ moved' = FALSE
    /\ UNCHANGED <<opvars, life, host, helper, data, told, lost, starter, excused,
                   used>>

\* docker ps fails, at once when the restore was cancelled.
LookFails ==
    /\ rst.pc = "look"
    /\ Goes("end")
    /\ UNCHANGED <<opvars, restoring, life, host, helper, data, past, used>>

\* An app with containers counts as running; then the mark is written.
Looks ==
    /\ rst.pc = "look" /\ ~Ended
    /\ rst' = [rst EXCEPT !.pc = "draft", !.running = app \in {"running", "stopped"}]
    /\ mark' = "stopping"
    /\ told' = FALSE /\ lost' = FALSE
    /\ UNCHANGED <<opvars, restoring, boot, carried, stopping, host, helper, data,
                   moved, starter, excused, used>>

\* A running app with a draft is refused.
AfterDraftCheck == IF rst.running /\ draft THEN "clear" ELSE "stop"

ChecksDraft ==
    /\ rst.pc = "draft"
    /\ Goes(AfterDraftCheck)
    /\ UNCHANGED <<opvars, restoring, life, host, helper, data, past, used>>

\* compose stop stops the services of HEAD's files: with a draft committed
\* since the check, a container HEAD no longer names goes on.
Stops ==
    /\ rst.pc = "stop"
    /\ \/ /\ ~rst.running /\ UNCHANGED <<app, stray>>
          /\ Goes("copy") /\ mark' = "copy"
       \/ /\ rst.running /\ ~Ended
          /\ app' = IF app = "running" THEN "stopped" ELSE app
          /\ stray' \in {stray, stray \/ (draft /\ app = "running")}
          /\ Halts("copy") /\ mark' = "copy"
       \/ /\ rst.running
          /\ UNCHANGED <<app, stray, mark>>
          /\ Halts("again")
    /\ UNCHANGED <<opvars, restoring, boot, carried, stopping, draft, helper, data,
                   past, used>>

\* The pre-restore copy, and the look at the time left.
Copies ==
    /\ rst.pc = "copy"
    /\ \/ ~Ended /\ Goes("launch") /\ mark' = "restoring"
       \/ Goes("again") /\ UNCHANGED mark
    /\ UNCHANGED <<opvars, restoring, boot, carried, stopping, host, helper, data,
                   past, used>>

\* The helper's container starts, or docker does not.
Launches ==
    /\ rst.pc = "launch"
    /\ \/ helper' = "extract" /\ Goes("helper")
       \/ UNCHANGED helper /\ Goes("again")
    /\ UNCHANGED <<opvars, restoring, life, host, data, past, used>>

\* The helper alone: it works beside the data, swaps, and ends.
HelperSteps ==
    /\ \/ helper = "extract" /\ helper' = "swap" /\ data' = "doubt"
       \/ helper = "extract" /\ helper' = "failed" /\ UNCHANGED data
       \/ helper = "swap" /\ helper' = "ok" /\ data' = "new"
       \/ helper = "swap" /\ helper' = "partial" /\ UNCHANGED data
    /\ UNCHANGED <<opvars, restoring, rst, life, host, past, used>>

\* What the helper's exit says of the data, once it ended by itself.
Judges ==
    /\ rst.pc = "helper" /\ ~Live /\ ~Ended
    /\ rst' = [rst EXCEPT !.pc = IF helper = "partial" THEN "leave" ELSE "again",
                          !.doubt = helper = "partial"]
    /\ helper' = "off"
    /\ UNCHANGED <<opvars, restoring, life, host, data, past, used>>

\* A helper that stopped before its swap, when its container is known to be
\* gone and all of its output was read.
NotSwapped == helper \in {"extract", "failed"}

\* The restore's context ended: the helper's container is removed, which may
\* fail; only a files helper that is certain not to have swapped is trusted.
Kills ==
    /\ rst.pc = "helper" /\ Ended
    /\ \/ /\ NotSwapped
          /\ rst' = [rst EXCEPT !.pc = "again"]
          /\ helper' = "off" /\ UNCHANGED <<excused, used>>
       \/ /\ rst' = [rst EXCEPT !.pc = "leave", !.doubt = TRUE]
          /\ \/ helper' = "off" /\ UNCHANGED <<excused, used>>
             \/ Live /\ UNCHANGED helper /\ excused' = TRUE /\ Fault
    /\ UNCHANGED <<opvars, restoring, life, host, data, told, lost,
                   moved, starter>>

Again_Cancelled == ~Ended

\* startAgain runs on a context of its own, and leaves an app that is being
\* deleted alone.
Again == rst.ends # "deleted"

\* compose start: containers that were removed stay so.
StartsAgain ==
    /\ rst.pc = "again"
    /\ \/ /\ rst.running /\ Again
          /\ \/ /\ app' = IF app = "stopped" THEN "running" ELSE app
                /\ Goes("clear") /\ UNCHANGED used
             \/ /\ rst' = [rst EXCEPT !.pc = "clear", !.failed = TRUE]
                /\ UNCHANGED app /\ Fault
       \/ /\ ~(rst.running /\ Again)
          /\ UNCHANGED <<app, used>> /\ Goes("clear")
    /\ UNCHANGED <<opvars, restoring, life, stray, draft, helper, data, past>>

Removed_Stopped == app

\* compose down.
Removed == "down"

LeavesStopped ==
    /\ rst.pc = "leave"
    /\ \/ /\ rst.running
          /\ app' = Removed /\ stray' = FALSE
          /\ Goes("clear") /\ UNCHANGED <<excused, used>>
       \/ /\ rst.running /\ Fault
          /\ rst' = [rst EXCEPT !.pc = "clear", !.failed = TRUE]
          /\ excused' = TRUE /\ UNCHANGED <<app, stray>>
       \/ /\ ~rst.running /\ Goes("clear")
          /\ UNCHANGED <<app, stray, excused, used>>
    /\ UNCHANGED <<opvars, restoring, life, draft, helper, data, told, lost,
                   moved, starter>>

Keeps_Never == FALSE

\* The mark outlives a restore that the agent's stop left in doubt.
Keeps == rst.doubt /\ rst.ends = "stop"

ClearsMark ==
    /\ rst.pc = "clear"
    /\ mark' = IF Keeps THEN mark ELSE None
    /\ rst' = [rst EXCEPT !.pc = "end",
                          !.bare = ~(rst.doubt /\ rst.ends = "stop")]
    /\ UNCHANGED <<opvars, restoring, boot, carried, stopping, host, helper, data,
                   past, used>>

EndRestore ==
    /\ rst.pc = "end"
    /\ restoring' = FALSE
    /\ Goes("answer")
    /\ UNCHANGED <<opvars, life, host, helper, data, past, used>>

\* recordRestore: the reply of a stopping agent is lost, so the error is
\* stored, except for an app being deleted.
Answers ==
    /\ rst.pc = "answer"
    /\ IF stopping /\ rst.ends = "deleted" THEN lost' = TRUE /\ UNCHANGED told
       ELSE told' = TRUE /\ UNCHANGED lost
    /\ Goes("none")
    /\ UNCHANGED <<opvars, restoring, life, host, helper, data, moved, starter,
                   excused, used>>

TimesOut ==
    /\ rst.pc # "none" /\ ~Ended
    /\ rst' = [rst EXCEPT !.ends = "deadline"]
    /\ UNCHANGED <<opvars, restoring, life, host, helper, data, past, used>>

-----------------------------------------------------------------------------
(* The agent                                                               *)

\* beginUpdate: refused while a restore is registered.
UpdateAdmits == ~restoring

BeginUpdate ==
    /\ updating = "no" /\ UpdateAdmits
    /\ used.deaths < MaxDeaths
    /\ updating' = "yes"
    /\ UNCHANGED <<lock, op, deleting, restoring, rst, life, host, helper, data,
                   past, used>>

\* The binary is replaced and the exit scheduled, or nothing was done.
UpdateEnds ==
    /\ updating = "yes"
    /\ updating' \in {"no", "exits"}
    /\ UNCHANGED <<lock, op, deleting, restoring, rst, life, host, helper, data,
                   past, used>>

AskStop ==
    /\ ~stopping /\ used.deaths < MaxDeaths
    /\ stopping' = TRUE
    /\ rst' = IF rst.pc # "none" /\ ~Ended THEN [rst EXCEPT !.ends = "stop"]
              ELSE rst
    /\ UNCHANGED <<opvars, restoring, mark, boot, carried, host, helper, data,
                   past, used>>

\* The process ends, and its supervisor starts it again.  A restore that
\* had cleared its mark and not answered, or a mark read and not noted, is
\* forgotten; a helper that was at work goes on alone.
Dies ==
    /\ Spend("deaths", MaxDeaths)
    /\ lock' = None /\ op' = [o \in Ops |-> Rest]
    /\ restoring' = FALSE /\ updating' = "no" /\ deleting' = FALSE
    /\ rst' = NoRestore
    /\ stopping' = FALSE /\ boot' = "read" /\ carried' = None
    /\ lost' = (lost \/ carried # None \/ rst.bare)
    /\ excused' = (excused \/ rst.pc \notin {"none", "prepare", "look", "draft",
                                             "end", "answer"})
    /\ UNCHANGED <<mark, host, helper, data, told, moved, starter>>

UpdateExits == updating = "exits" /\ Dies

Crash == Dies

\* InterruptedRestores: the file is read and removed.
ReadsMarks ==
    /\ boot = "read"
    /\ carried' = IF Exists THEN mark ELSE None
    /\ mark' = None
    /\ boot' = "note"
    /\ UNCHANGED <<opvars, restoring, rst, stopping, host, helper, data, past,
                   used>>

\* NoteInterrupted.
Notes ==
    /\ boot = "note"
    /\ told' = (told \/ carried # None)
    /\ carried' = None
    /\ boot' = "clean"
    /\ UNCHANGED <<opvars, restoring, rst, mark, stopping, host, helper, data,
                   lost, moved, starter, excused, used>>

\* RemoveHelpers, then the scheduler runs.
CleansHelpers ==
    /\ boot = "clean"
    /\ \/ helper' = "off" /\ UNCHANGED used
       \/ Live /\ UNCHANGED helper /\ Fault
    /\ boot' = "run"
    /\ UNCHANGED <<opvars, restoring, rst, mark, carried, stopping, host, data,
                   past>>

\* Docker or the host restarts: a helper is killed, containers that were
\* stopped and not removed are started by their restart policy.
DockerRestarts ==
    /\ Fault
    /\ helper' = IF Live THEN "partial" ELSE helper
    /\ app' = IF app = "stopped" THEN "running" ELSE app
    /\ excused' = (excused \/ restoring)
    /\ UNCHANGED <<opvars, restoring, rst, life, stray, draft, data, told, lost,
                   moved, starter>>

-----------------------------------------------------------------------------
OpSteps(o) == \/ Acquire(o) \/ Busy(o) \/ Begins(o) \/ Polls(o) \/ Checks(o)
              \/ Registers(o) \/ Ups(o) \/ UpFails(o) \/ SavesDraft(o) \/ StopChecks(o)
              \/ Downs(o) \/ DeletePasses(o) \/ Sweeps(o)

RestoreSteps ==
    \/ PrepareFails \/ BeginRestore \/ LookFails \/ Looks \/ ChecksDraft
    \/ Stops \/ Copies \/ Launches \/ Judges \/ Kills \/ StartsAgain
    \/ LeavesStopped \/ ClearsMark \/ EndRestore \/ Answers

Boots == ReadsMarks \/ Notes \/ CleansHelpers

Next ==
    \/ \E o \in Ops : OpSteps(o) \/ \E kind \in Kinds : Ask(o, kind)
    \/ TombLapses
    \/ RestoreStarts \/ RestoreSteps \/ HelperSteps \/ TimesOut
    \/ BeginUpdate \/ UpdateEnds \/ UpdateExits \/ AskStop \/ Crash
    \/ Boots \/ DockerRestarts

Spec == Init /\ [][Next]_vars

-----------------------------------------------------------------------------
(* Properties                                                              *)

\* While the restore's helper works on the data, none of the app's
\* services runs and nothing starts or removes the app (beginRestore and
\* beginOp, DeleteApp's wait), unless Docker restarted or did not remove the
\* helper, or the agent died.  Not even a container its compose files no longer
\* name runs (RestoreBackup's draft check), except after a source poll that
\* had passed its own check committed a new source during the restore.
HelperAlone ==
    /\ TypeOK
    /\ Live /\ ~excused =>
        /\ app # "running"
        /\ \A o \in Ops : op[o].pc \notin {"up", "sweep"}
        /\ stray => moved

\* After a restore that ended in doubt the app runs again only by an
\* operation that deployed it (leaveStopped): neither the restore nor a
\* restart of Docker starts it on that data.
OnlyDeployedOnDoubt ==
    data = "doubt" /\ app = "running" /\ ~restoring /\ ~excused => starter # None

\* Once a restore is over, data in doubt or an app left stopped is known to
\* the user, or on the way to be: by the restore's answer, the stored error,
\* or the mark that the agent's start reads.
DoubtIsTold ==
    /\ rst.pc = "none" /\ Exists
    /\ data = "doubt" \/ app = "stopped"
    => told \/ lost \/ mark # None \/ carried # None

\* A restore that stopped the app, or failed to, gives it back, unless the
\* data is in doubt, the app is being deleted or Docker failed, whatever ended
\* it (startAgain on its own context).
GivesBack ==
    rst.pc \in {"clear", "end"} /\ rst.halted /\ ~rst.failed =>
        app # "stopped" \/ (rst.ends = "deleted" /\ ~rst.doubt)

\* The agent's update never exits while a restore is registered
\* (beginUpdate).
UpdateCutsNone == [][UpdateExits => ~restoring]_vars

=============================================================================
