--------------------------- MODULE RestoresProofs ---------------------------
(***************************************************************************)
(* The safety of the restores of one app, for any operations and any       *)
(* bounds on restores, exits of the agent and failures of Docker.  The     *)
(* argument is one inductive invariant, IInv, kept by every action.        *)
(***************************************************************************)
EXTENDS Restores, FiniteSetTheorems, TLAPS

-----------------------------------------------------------------------------
(* The inductive invariant                                                 *)

\* The stages of a restore before it stops the app.
Before == {"prepare", "look", "draft", "stop"}

\* The stages during which the mark is on disk.
Touched == {"draft", "stop", "copy", "launch", "helper", "again", "leave", "clear"}

\* What an operation has seen is still so: one that may deploy or bring the
\* app up found it on the server; one that removes it is a delete, which no
\* restore outlives uncancelled; and while a restore is registered
\* (beginRestore) no operation is (beginOp), nor the agent's update
\* (beginUpdate), and a delete works only before the restore looked or after
\* its end (waitForRestore).
OpsKept ==
  /\ \A o \in Ops :
       /\ op[o].pc # "idle" => op[o].kind \in Kinds
       /\ op[o].pc \in {"checked", "up"} => Exists
       /\ op[o].pc = "sweep" => op[o].kind = "delete"
       /\ op[o].kind = "delete" => deleting /\ (rst.pc # "none" => Ended)
  /\ restoring => updating = "no"
  /\ restoring => \A o \in Ops :
       /\ op[o].pc # "up"
       /\ op[o].pc = "sweep" => rst.pc \in {"look", "end"}

\* What the restore has done by each stage: it runs in an agent that read its
\* marks; from its look to its end the mark is written, and the app is there
\* if the restore found it up, down otherwise; it believes the data in doubt,
\* or tried to stop the app, at no stage that comes before.
Course ==
  /\ rst.pc # "none" => boot = "run"
  /\ boot # "note" => carried = None
  /\ rst.pc \in Touched => mark # None
  /\ rst.pc \in Touched => IF rst.running THEN Exists ELSE app \in {"down", "gone"}
  /\ rst.pc \in (Before \cup Touched) \ {"leave", "clear"} => ~rst.doubt
  /\ rst.pc \in Before => ~rst.halted
  /\ rst.halted => rst.running

\* The helper works only while the restore waits for it; from the copy to the
\* helper's end no service runs, but for a container that a poll's new source
\* does not name (stray), which the draft check rules out otherwise.
Alone ==
  /\ Live /\ ~excused => rst.pc = "helper"
  /\ rst.pc \in {"copy", "launch", "helper"} /\ ~excused =>
       app # "running" /\ (stray => moved)
  /\ stray => draft /\ app \in {"running", "stopped"}
  /\ rst.pc = "stop" /\ rst.running /\ draft => moved

\* Data in doubt that no operation deployed on: the app is down, or the
\* restore still has the helper's end to judge, or is about to take the app
\* down.
Doubts ==
  data = "doubt" /\ ~excused /\ starter = None =>
    \/ app \in {"down", "gone"}
    \/ rst.pc = "helper" /\ helper \in {"swap", "partial"}
    \/ rst.pc = "leave"

\* While the app exists, somebody tells the user how its last restore ended:
\* the answer or the stored error did, the mark or what the start carries from
\* it will, the stated exception holds (lost), or the restore is about to
\* answer.
Known ==
  Exists => \/ told \/ lost \/ mark # None \/ carried # None
            \/ rst.pc \in {"end", "answer"} /\ rst.bare

\* The inductive invariant.
IInv == TypeOK /\ OpsKept /\ Course /\ Alone /\ Doubts /\ Known /\ GivesBack

\* The type of the restore's record.
RstType ==
  [pc : RstPcs, running : BOOLEAN, halted : BOOLEAN, ends : Ends,
   doubt : BOOLEAN, failed : BOOLEAN, bare : BOOLEAN]

\* The types of the operations and of the lock.
OpsTyped ==
  /\ lock \in Ops \cup {None}
  /\ op \in [Ops -> [kind : Kinds \cup {None}, pc : OpPcs]]
  /\ \A o \in Ops : op[o].pc \notin {"idle", "wait"} <=> lock = o

-----------------------------------------------------------------------------
(* Types                                                                   *)

\* No restore, at any stage, is well typed.
LEMMA NoRestoreTyped ==
  /\ NoRestore \in RstType
  /\ \A p \in RstPcs : [NoRestore EXCEPT !.pc = p] \in RstType
<1>1. NoRestore \in RstType
  BY DEF NoRestore, RstType, RstPcs, Ends
<1> QED
  BY <1>1 DEF RstType

\* Moving to another stage keeps the type.
LEMMA PcTyped ==
  ASSUME NEW r \in RstType, NEW p \in RstPcs
  PROVE  [r EXCEPT !.pc = p] \in RstType
BY DEF RstType

\* What the stages note of a restore keeps its type.
LEMMA RstUpdates ==
  ASSUME NEW r \in RstType, NEW p \in RstPcs, NEW b \in BOOLEAN
  PROVE  /\ [r EXCEPT !.pc = p] \in RstType
         /\ [r EXCEPT !.pc = p, !.doubt = b] \in RstType
         /\ [r EXCEPT !.pc = p, !.failed = b] \in RstType
         /\ [r EXCEPT !.pc = p, !.bare = b] \in RstType
BY DEF RstType

\* What Looks notes keeps the type.
LEMMA LooksTyped ==
  ASSUME NEW r \in RstType, NEW b \in BOOLEAN
  PROVE  [r EXCEPT !.pc = "draft", !.running = b] \in RstType
BY DEF RstType, RstPcs

\* Looks keeps the type of the restore (composeContainers).
LEMMA LooksRst ==
  ASSUME rst \in RstType, Looks
  PROVE  rst' \in RstType /\ rst'.pc = "draft"
<1> DEFINE up == app \in {"running", "stopped"}
<1>1. up \in BOOLEAN
  OBVIOUS
<1>2. rst' = [rst EXCEPT !.pc = "draft", !.running = up]
  BY DEF Looks
<1> HIDE DEF up
<1>3. rst' \in RstType
  BY <1>1, <1>2, LooksTyped
<1> QED
  BY <1>2, <1>3 DEF RstType

\* The stop of the app keeps the restore's type.
LEMMA HaltsTyped ==
  ASSUME NEW r \in RstType, NEW p \in {"copy", "again"}
  PROVE  /\ [r EXCEPT !.pc = p] \in RstType
         /\ [r EXCEPT !.pc = p, !.halted = TRUE] \in RstType
BY DEF RstType, RstPcs

\* The reason a restore ends for keeps its type.
LEMMA EndsTyped ==
  ASSUME NEW r \in RstType, NEW e \in Ends
  PROVE  [r EXCEPT !.ends = e] \in RstType
BY DEF RstType

-----------------------------------------------------------------------------
(* The operations                                                          *)

\* An operation that moves on, under the lock it holds, keeps its rules if
\* what its new stage needs holds.
LEMMA StepKeepsOps ==
  ASSUME NEW o \in Ops, NEW p \in {"checked", "up", "down", "sweep"}, IInv,
         op[o].pc \notin {"idle", "wait"}, Step(o, p),
         UNCHANGED <<restoring, updating, deleting, rst, app>>,
         p \in {"checked", "up"} => Exists,
         p = "up" => ~restoring,
         p = "sweep" => ~restoring /\ op[o].kind = "delete"
  PROVE  OpsTyped' /\ OpsKept'
<1>1. \A x \in Ops : /\ op'[x].kind = op[x].kind
                     /\ op'[x].pc = IF x = o THEN p ELSE op[x].pc
  BY DEF Step, IInv, TypeOK
<1>2. OpsTyped'
  <2>1. op' \in [Ops -> [kind : Kinds \cup {None}, pc : OpPcs]]
    BY DEF Step, IInv, TypeOK, OpPcs
  <2> QED
    BY <1>1, <2>1 DEF Step, IInv, TypeOK, OpsTyped
<1>3. OpsKept'
  BY <1>1 DEF IInv, TypeOK, OpsKept, Exists, Ended
<1> QED
  BY <1>2, <1>3

\* An operation that ends and releases the lock leaves the rules as they are.
LEMMA OverKeepsOps ==
  ASSUME NEW o \in Ops, IInv, op[o].pc \notin {"idle", "wait"}, Over(o),
         UNCHANGED <<restoring, updating>>, deleting => deleting',
         rst'.pc = rst.pc, Ended => Ended'
  PROVE  OpsTyped' /\ OpsKept'
<1>1. \A x \in Ops : op'[x] = IF x = o THEN Rest ELSE op[x]
  BY DEF Over, IInv, TypeOK
<1>2. \A x \in Ops : op'[x].pc \in {"idle", "wait"}
  BY <1>1 DEF Rest, IInv, TypeOK
<1>3. OpsTyped'
  <2>1. op' \in [Ops -> [kind : Kinds \cup {None}, pc : OpPcs]]
    BY DEF Over, Rest, IInv, TypeOK, OpPcs
  <2> QED
    BY Apart, <1>2, <2>1 DEF Over, OpsTyped
<1>4. OpsKept'
  BY Apart, <1>1, <1>2 DEF IInv, TypeOK, OpsKept, Rest, Kinds
<1> QED
  BY <1>3, <1>4

\* The type of the restore, and when it is registered.
RstTyped == rst \in RstType /\ (restoring <=> rst.pc \notin {"none", "prepare", "answer"})

\* The types of Docker's side: containers, draft, helper and data.
HostTyped ==
  /\ app \in {"running", "stopped", "down", "gone"}
  /\ stray \in BOOLEAN /\ draft \in BOOLEAN
  /\ helper \in {"off", "extract", "swap", "ok", "failed", "partial"}
  /\ data \in {"old", "new", "doubt"}

\* The types of the agent's life.
LifeTyped ==
  /\ restoring \in BOOLEAN /\ deleting \in BOOLEAN /\ stopping \in BOOLEAN
  /\ updating \in {"no", "yes", "exits"}
  /\ {mark, carried} \subseteq Phases \cup {None}
  /\ boot \in {"read", "note", "clean", "run"}

\* The types of the history.
PastTyped ==
  /\ {told, lost, moved, excused} \subseteq BOOLEAN
  /\ starter \in Kinds \cup {None}

\* An operation refused while another works on its app.
LEMMA BusyOps ==
  ASSUME NEW o \in Ops, IInv, Busy(o)
  PROVE  OpsTyped' /\ OpsKept'
<1>1. \A x \in Ops : op'[x] = IF x = o THEN Rest ELSE op[x]
  BY DEF Busy, IInv, TypeOK
<1>2. OpsTyped'
  <2>1. op' \in [Ops -> [kind : Kinds \cup {None}, pc : OpPcs]]
    BY DEF Busy, Rest, IInv, TypeOK, OpPcs
  <2> QED
    BY <1>1, <2>1 DEF Busy, Rest, IInv, TypeOK, OpsTyped
<1>3. OpsKept'
  BY Apart, <1>1 DEF Busy, Rest, IInv, OpsKept, Exists, Ended, host, Kinds
<1> QED
  BY <1>2, <1>3

\* A start, restart or update that registers (beginOp) or is refused.
LEMMA BeginsOps ==
  ASSUME NEW o \in Ops, IInv, Begins(o)
  PROVE  OpsTyped' /\ OpsKept'
<1>1. CASE Over(o)
  BY <1>1, OverKeepsOps DEF Begins, Ended
<1>2. CASE Step(o, "up") /\ ~restoring /\ Exists
  BY <1>2, StepKeepsOps DEF Begins, host
<1> QED
  BY <1>1, <1>2 DEF Begins, BeginOp

\* A poll's check of the app (RefreshDueSources).
LEMMA PollsOps ==
  ASSUME NEW o \in Ops, IInv, Polls(o)
  PROVE  OpsTyped' /\ OpsKept'
<1>1. CASE Over(o)
  BY <1>1, OverKeepsOps DEF Polls, Ended
<1>2. CASE Step(o, "checked") /\ Exists
  BY <1>2, StepKeepsOps DEF Polls
<1> QED
  BY <1>1, <1>2 DEF Polls

\* A check that the app exists, by a deploy, redeploy or reload.
LEMMA ChecksOps ==
  ASSUME NEW o \in Ops, IInv, Checks(o)
  PROVE  OpsTyped' /\ OpsKept'
<1>1. CASE Over(o)
  BY <1>1, OverKeepsOps DEF Checks, Ended
<1>2. CASE Step(o, "checked") /\ Exists
  BY <1>2, StepKeepsOps DEF Checks, host
<1> QED
  BY <1>1, <1>2 DEF Checks, Exists

\* A deploy that registers with beginOp, or is refused.
LEMMA RegistersOps ==
  ASSUME NEW o \in Ops, IInv, Registers(o)
  PROVE  OpsTyped' /\ OpsKept'
<1>1. CASE Over(o)
  BY <1>1, OverKeepsOps DEF Registers, Ended
<1>2. CASE Step(o, "up") /\ ~restoring
  BY <1>2, StepKeepsOps DEF Registers, IInv, OpsKept, host
<1> QED
  BY <1>1, <1>2 DEF Registers, BeginOp

\* An operation that ends after its compose call.
LEMMA UpsOps ==
  ASSUME NEW o \in Ops, IInv, Ups(o) \/ UpFails(o) \/ SavesDraft(o) \/ Downs(o)
  PROVE  OpsTyped' /\ OpsKept'
BY OverKeepsOps DEF Ups, UpFails, SavesDraft, Downs, Ended

\* StopApp's check before its down.
LEMMA StopChecksOps ==
  ASSUME NEW o \in Ops, IInv, StopChecks(o)
  PROVE  OpsTyped' /\ OpsKept'
<1>1. CASE Over(o)
  BY <1>1, OverKeepsOps DEF StopChecks, Ended
<1>2. CASE Step(o, "down")
  BY <1>2, StepKeepsOps DEF StopChecks, host
<1> QED
  BY <1>1, <1>2 DEF StopChecks

\* The end of a delete: the app is gone (DeleteApp).
LEMMA SweepsOps ==
  ASSUME NEW o \in Ops, IInv, Sweeps(o)
  PROVE  OpsTyped' /\ OpsKept'
<1>1. deleting' /\ rst'.pc = rst.pc /\ (Ended => Ended')
  BY DEF Sweeps, Forget, Ended, IInv, TypeOK
<1> QED
  BY <1>1, OverKeepsOps DEF Sweeps

\* A call that comes in, and a delete that cancels the restore, are well
\* typed.
LEMMA AskTypes ==
  ASSUME NEW o \in Ops, NEW kind \in Kinds, IInv, Ask(o, kind)
  PROVE  TypeOK'
<1> USE DEF IInv
<1>1. \A x \in Ops : op'[x] = IF x = o THEN [kind |-> kind, pc |-> "wait"] ELSE op[x]
  BY DEF Ask, TypeOK
<1>2. OpsTyped'
  <2>1. op' \in [Ops -> [kind : Kinds \cup {None}, pc : OpPcs]]
    BY DEF Ask, TypeOK, OpPcs
  <2> QED
    BY <1>1, <2>1 DEF Ask, TypeOK, OpsTyped
<1>3. rst' \in RstType /\ rst'.pc = rst.pc /\ deleting' \in BOOLEAN
  <2>1. rst \in RstType
    BY DEF TypeOK, RstType
  <2>2. rst' \in RstType
    BY <2>1, EndsTyped DEF Ask, Forget, Ends
  <2> QED
    BY <2>1, <2>2 DEF Ask, Forget, TypeOK, RstType
<1> QED
  BY <1>2, <1>3 DEF Ask, OpsTyped, TypeOK, RstType, host, life, past

\* A new agent has no operation.
LEMMA DiesOps ==
  ASSUME IInv, Dies
  PROVE  OpsTyped' /\ OpsKept'
<1>1. \A x \in Ops : op'[x] = Rest
  BY DEF Dies
<1>2. op' \in [Ops -> [kind : Kinds \cup {None}, pc : OpPcs]]
  BY DEF Dies, Rest, OpPcs
<1>3. OpsTyped'
  BY Apart, <1>1, <1>2 DEF Dies, OpsTyped, Rest
<1>4. OpsKept'
  BY Apart, <1>1 DEF Dies, OpsKept, Rest, Kinds
<1> QED
  BY <1>3, <1>4

\* When none is registered, no operation may be bringing the app up.
LEMMA NoneRegistered ==
  ASSUME IInv, Registered = 0
  PROVE  \A o \in Ops : op[o].pc # "up"
<1> DEFINE up == {o \in Ops : op[o].pc = "up"}
<1>1. up \subseteq {lock}
  BY DEF IInv, TypeOK
<1>2. IsFiniteSet(up)
  BY <1>1, FS_Subset, FS_Singleton
<1>3. up = {}
  BY <1>2, FS_EmptySet DEF Registered
<1> QED
  BY <1>3

-----------------------------------------------------------------------------
(* The stages of the restore that need an argument                         *)

\* beginRestore registers only when no operation and no update is registered,
\* so the rules of the operations hold for the new restore.
LEMMA BeginRestoreOps ==
  ASSUME IInv, BeginRestore
  PROVE  OpsKept'
<1> USE DEF IInv
<1>1. CASE Admits
  <2>1. restoring' /\ rst'.pc = "look" /\ rst'.ends = rst.ends /\ rst.pc = "prepare"
    BY <1>1 DEF BeginRestore, Goes, TypeOK
  <2>2. \A o \in Ops : op[o].pc # "up"
    BY <1>1, NoneRegistered DEF Admits
  <2>3. UNCHANGED <<opvars, app>> /\ updating = "no"
    BY <1>1 DEF BeginRestore, host, Admits
  <2> QED
    BY <2>1, <2>2, <2>3 DEF OpsKept, Exists, Ended, opvars
<1>2. CASE ~Admits
  <2>1. UNCHANGED <<opvars, restoring, app>> /\ rst'.pc = "none" /\ rst.pc = "prepare"
    BY <1>2 DEF BeginRestore, Goes, TypeOK, host
  <2> QED
    BY <2>1 DEF OpsKept, TypeOK, Exists, Ended, opvars
<1> QED
  BY <1>1, <1>2

\* The stop of the app, whether Docker carried it out or not: nothing of the
\* app runs when the restore goes on to the copy, and one that does not has
\* tried.
LEMMA StopsRest ==
  ASSUME IInv, Stops
  PROVE  Course' /\ Alone' /\ GivesBack'
<1> USE DEF IInv
<1>0. /\ UNCHANGED <<opvars, restoring, boot, carried, stopping, draft, helper, data,
                     past, used>>
      /\ rst.pc = "stop" /\ ~rst.doubt /\ boot = "run" /\ mark # None
      /\ Live => excused
  BY DEF Stops, Course, Touched, Alone
<1>1. /\ rst'.pc \in {"copy", "again"}
      /\ rst'.running = rst.running /\ rst'.doubt = rst.doubt
      /\ rst'.halted => rst.running
      /\ mark' # None
  BY Apart DEF Stops, Goes, Halts, TypeOK, Course, Before, Touched, Phases
<1>2. \/ UNCHANGED <<app, stray>> /\ (~rst.running \/ rst'.pc = "again")
      \/ /\ rst.running
         /\ app' = IF app = "running" THEN "stopped" ELSE app
         /\ stray' \in {stray, stray \/ (draft /\ app = "running")}
  BY DEF Stops, Goes, Halts, TypeOK
<1>3. Course'
  <2>1. IF rst.running THEN Exists' ELSE app' \in {"down", "gone"}
    BY <1>0, <1>2 DEF TypeOK, Course, Touched, Exists
  <2> QED
    BY <1>0, <1>1, <2>1 DEF TypeOK, Course, Before, Touched, Exists
<1>4. Alone'
  <2>1. stray' => draft /\ app' \in {"running", "stopped"}
    BY <1>2 DEF Alone, TypeOK
  <2>2. rst'.pc = "copy" => app' # "running" /\ (stray' => moved)
    <3>1. CASE rst.running
      BY <1>0, <1>2, <2>1, <3>1 DEF TypeOK, Alone
    <3>2. CASE ~rst.running
      BY <1>0, <1>2, <2>1, <3>2 DEF TypeOK, Alone, Course, Touched
    <3> QED
      BY <3>1, <3>2
  <2>3. (Live /\ ~excused)' => (rst.pc = "helper")'
    BY <1>0 DEF Live, past, Alone
  <2> QED
    BY <1>0, <1>1, <2>1, <2>2, <2>3 DEF Alone, past
<1>5. GivesBack'
  BY <1>1 DEF GivesBack
<1> QED
  BY <1>3, <1>4, <1>5

\* A restore cut short while the helper works judges it by what it left
\* (notSwapped), or leaves the helper's end in doubt.
LEMMA KillsRest ==
  ASSUME IInv, Kills
  PROVE  Alone' /\ Doubts' /\ GivesBack'
<1> USE DEF IInv
<1>0. /\ UNCHANGED <<opvars, restoring, life, host, data, told, lost, moved, starter>>
      /\ rst.pc = "helper"
  BY DEF Kills
<1>1. \/ /\ NotSwapped /\ helper' = "off" /\ excused' = excused /\ rst'.pc = "again"
      \/ /\ rst'.pc = "leave"
         /\ \/ helper' = "off" /\ excused' = excused
            \/ helper' = helper /\ excused'
  BY DEF Kills, TypeOK
<1>2. Alone'
  BY <1>0, <1>1 DEF Alone, Live, host
<1>3. Doubts'
  BY <1>0, <1>1 DEF Doubts, NotSwapped, host
<1>4. GivesBack'
  BY <1>1 DEF GivesBack
<1> QED
  BY <1>2, <1>3, <1>4

\* leaveStopped removes the containers: no stray is left unless Docker failed.
LEMMA LeavesStoppedAlone ==
  ASSUME IInv, LeavesStopped
  PROVE  Alone'
<1> USE DEF IInv
<1>1. /\ rst.pc = "leave" /\ rst'.pc = "clear" /\ UNCHANGED <<helper, draft, moved>>
  BY DEF LeavesStopped, Goes, TypeOK
<1>0. excused => excused'
  BY Zenon DEF LeavesStopped
<1>2. UNCHANGED <<app, stray>> \/ ~stray'
  BY DEF LeavesStopped
<1> QED
  BY <1>0, <1>1, <1>2 DEF Alone, Live

-----------------------------------------------------------------------------
(* Each action keeps the invariant                                         *)

\* A call of an operation comes in.
LEMMA AskKeeps ==
  ASSUME NEW o \in Ops, NEW kind \in Kinds, IInv, Ask(o, kind)
  PROVE  IInv'
<1> USE Apart DEF IInv, Ask, opvars, host, life, past, Forget, Spend
<1>1. TypeOK'
  BY AskTypes
<1>2. OpsKept'
  BY DEF TypeOK, OpsKept, Exists, Ended
<1>3. Course'
  BY DEF TypeOK, Course, Before, Touched, Exists
<1>4. Alone'
  BY DEF TypeOK, Alone, Live
<1>5. Doubts'
  BY DEF TypeOK, Doubts
<1>6. Known'
  BY DEF TypeOK, Known, Exists
<1>7. GivesBack'
  BY DEF TypeOK, GivesBack
<1> QED
  BY <1>1, <1>2, <1>3, <1>4, <1>5, <1>6, <1>7

\* An operation takes the lock.
LEMMA AcquireKeeps ==
  ASSUME NEW o \in Ops, IInv, Acquire(o)
  PROVE  IInv'
<1> USE Apart DEF IInv, Acquire, opvars, host, life, past
<1>1. TypeOK'
  BY DEF TypeOK, OpPcs
<1>2. OpsKept'
  BY DEF OpsKept, Exists, Ended
<1>3. Course'
  BY DEF Course, Before, Touched, Exists
<1>4. Alone'
  BY DEF Alone, Live
<1>5. Doubts'
  BY DEF Doubts
<1>6. Known'
  BY DEF Known, Exists
<1>7. GivesBack'
  BY DEF GivesBack
<1> QED
  BY <1>1, <1>2, <1>3, <1>4, <1>5, <1>6, <1>7

\* An operation is refused: the app is busy.
LEMMA BusyKeeps ==
  ASSUME NEW o \in Ops, IInv, Busy(o)
  PROVE  IInv'
<1> USE Apart DEF IInv, Busy, opvars, host, life, past, Rest
<1>1. TypeOK'
  <2>1. OpsTyped'
    BY BusyOps
  <2> QED
    BY <2>1 DEF OpsTyped, TypeOK
<1>2. OpsKept'
  BY BusyOps
<1>3. Course'
  BY DEF Course, Before, Touched, Exists
<1>4. Alone'
  BY DEF Alone, Live
<1>5. Doubts'
  BY DEF Doubts
<1>6. Known'
  BY DEF Known, Exists
<1>7. GivesBack'
  BY DEF GivesBack
<1> QED
  BY <1>1, <1>2, <1>3, <1>4, <1>5, <1>6, <1>7

\* An operation registers with beginOp, or is refused.
LEMMA BeginsKeeps ==
  ASSUME NEW o \in Ops, IInv, Begins(o)
  PROVE  IInv'
<1> USE Apart DEF IInv, Begins, opvars, host, life, past, BeginOp, Step, Over, Rest
<1>1. TypeOK'
  <2>1. OpsTyped'
    BY BeginsOps
  <2> QED
    BY <2>1 DEF OpsTyped, TypeOK
<1>2. OpsKept'
  BY BeginsOps
<1>3. Course'
  BY DEF Course, Before, Touched, Exists
<1>4. Alone'
  BY DEF Alone, Live
<1>5. Doubts'
  BY DEF Doubts
<1>6. Known'
  BY DEF Known, Exists
<1>7. GivesBack'
  BY DEF GivesBack
<1> QED
  BY <1>1, <1>2, <1>3, <1>4, <1>5, <1>6, <1>7

\* A poll's own check.
LEMMA PollsKeeps ==
  ASSUME NEW o \in Ops, IInv, Polls(o)
  PROVE  IInv'
<1> USE Apart DEF IInv, Polls, opvars, host, life, past, Step, Over, Rest
<1>1. TypeOK'
  <2>1. OpsTyped'
    BY PollsOps
  <2>2. RstTyped'
    BY DEF TypeOK, RstTyped, RstType
  <2>3. HostTyped'
    BY DEF TypeOK, HostTyped
  <2>4. LifeTyped'
    BY DEF TypeOK, LifeTyped, Phases
  <2>5. PastTyped'
    BY DEF TypeOK, PastTyped
  <2> QED
    BY <2>1, <2>2, <2>3, <2>4, <2>5, Zenon DEF TypeOK, OpsTyped, RstTyped, RstType,
         HostTyped, LifeTyped, PastTyped
<1>2. OpsKept'
  BY PollsOps
<1>3. Course'
  BY DEF Course, Before, Touched, Exists
<1>4. Alone'
  BY DEF TypeOK, Alone, Live
<1>5. Doubts'
  BY DEF Doubts
<1>6. Known'
  BY DEF Known, Exists
<1>7. GivesBack'
  BY DEF GivesBack
<1> QED
  BY <1>1, <1>2, <1>3, <1>4, <1>5, <1>6, <1>7

\* A deploy's, redeploy's or reload's check.
LEMMA ChecksKeeps ==
  ASSUME NEW o \in Ops, IInv, Checks(o)
  PROVE  IInv'
<1> USE Apart DEF IInv, Checks, opvars, host, life, past, Step, Over, Rest
<1>1. TypeOK'
  <2>1. OpsTyped'
    BY ChecksOps
  <2> QED
    BY <2>1 DEF OpsTyped, TypeOK
<1>2. OpsKept'
  BY ChecksOps
<1>3. Course'
  BY DEF Course, Before, Touched, Exists
<1>4. Alone'
  BY DEF Alone, Live
<1>5. Doubts'
  BY DEF Doubts
<1>6. Known'
  BY DEF Known, Exists
<1>7. GivesBack'
  BY DEF GivesBack
<1> QED
  BY <1>1, <1>2, <1>3, <1>4, <1>5, <1>6, <1>7

\* A deploy registers, or is refused.
LEMMA RegistersKeeps ==
  ASSUME NEW o \in Ops, IInv, Registers(o)
  PROVE  IInv'
<1> USE Apart DEF IInv, Registers, opvars, host, life, past, BeginOp, Step, Over, Rest
<1>1. TypeOK'
  <2>1. OpsTyped'
    BY RegistersOps
  <2> QED
    BY <2>1 DEF OpsTyped, TypeOK
<1>2. OpsKept'
  BY RegistersOps
<1>3. Course'
  BY DEF Course, Before, Touched, Exists
<1>4. Alone'
  BY DEF Alone, Live
<1>5. Doubts'
  BY DEF Doubts
<1>6. Known'
  BY DEF Known, Exists
<1>7. GivesBack'
  BY DEF GivesBack
<1> QED
  BY <1>1, <1>2, <1>3, <1>4, <1>5, <1>6, <1>7

\* The app comes up: no restore is registered, so no helper works, and a
\* deploy on data in doubt is the one that starts it.
LEMMA UpsKeeps ==
  ASSUME NEW o \in Ops, IInv, Ups(o)
  PROVE  IInv'
<1> USE Apart DEF IInv, Ups, opvars, host, life, past, Over, Rest, Starts
<1>1. TypeOK'
  <2>1. OpsTyped'
    BY UpsOps
  <2>2. RstTyped'
    BY DEF TypeOK, RstTyped, RstType
  <2>3. HostTyped'
    BY DEF TypeOK, HostTyped
  <2>4. LifeTyped'
    BY DEF TypeOK, LifeTyped, Phases
  <2>5. PastTyped'
    BY DEF TypeOK, PastTyped
  <2> QED
    BY <2>1, <2>2, <2>3, <2>4, <2>5, Zenon DEF TypeOK, OpsTyped, RstTyped, RstType,
         HostTyped, LifeTyped, PastTyped
<1>2. OpsKept'
  BY UpsOps
<1>3. Course'
  BY DEF TypeOK, OpsKept, Course, Before, Touched, Exists
<1>4. Alone'
  BY DEF TypeOK, OpsKept, Alone, Live
<1>5. Doubts'
  BY DEF TypeOK, OpsKept, Doubts
<1>6. Known'
  BY DEF TypeOK, OpsKept, Known, Exists
<1>7. GivesBack'
  BY DEF GivesBack
<1> QED
  BY <1>1, <1>2, <1>3, <1>4, <1>5, <1>6, <1>7

\* Docker fails to bring the app up, or in part.
LEMMA UpFailsKeeps ==
  ASSUME NEW o \in Ops, IInv, UpFails(o)
  PROVE  IInv'
<1> USE Apart DEF IInv, UpFails, opvars, host, life, past, Over, Rest, Starts
<1>1. TypeOK'
  <2>1. OpsTyped'
    BY UpsOps
  <2>2. RstTyped'
    BY DEF TypeOK, RstTyped, RstType
  <2>3. HostTyped'
    BY DEF TypeOK, HostTyped
  <2>4. LifeTyped'
    BY DEF TypeOK, LifeTyped, Phases
  <2>5. PastTyped'
    BY DEF TypeOK, PastTyped
  <2> QED
    BY <2>1, <2>2, <2>3, <2>4, <2>5, Zenon DEF TypeOK, OpsTyped, RstTyped, RstType,
         HostTyped, LifeTyped, PastTyped
<1>2. OpsKept'
  BY UpsOps
<1>3. Course'
  BY DEF TypeOK, OpsKept, Course, Before, Touched, Exists
<1>4. Alone'
  BY DEF TypeOK, OpsKept, Alone, Live
<1>5. Doubts'
  BY DEF TypeOK, OpsKept, Doubts
<1>6. Known'
  BY DEF TypeOK, OpsKept, Known, Exists
<1>7. GivesBack'
  BY DEF GivesBack
<1> QED
  BY <1>1, <1>2, <1>3, <1>4, <1>5, <1>6, <1>7

\* A draft is saved without a deploy.
LEMMA SavesDraftKeeps ==
  ASSUME NEW o \in Ops, IInv, SavesDraft(o)
  PROVE  IInv'
<1> USE Apart DEF IInv, SavesDraft, opvars, host, life, past, Over, Rest
<1>1. TypeOK'
  <2>1. OpsTyped'
    BY UpsOps
  <2> QED
    BY <2>1 DEF OpsTyped, TypeOK
<1>2. OpsKept'
  BY UpsOps
<1>3. Course'
  BY DEF Course, Before, Touched, Exists
<1>4. Alone'
  BY DEF TypeOK, OpsKept, Alone, Live
<1>5. Doubts'
  BY DEF Doubts
<1>6. Known'
  BY DEF Known, Exists
<1>7. GivesBack'
  BY DEF GivesBack
<1> QED
  BY <1>1, <1>2, <1>3, <1>4, <1>5, <1>6, <1>7

\* A stop that checks the app.
LEMMA StopChecksKeeps ==
  ASSUME NEW o \in Ops, IInv, StopChecks(o)
  PROVE  IInv'
<1> USE Apart DEF IInv, StopChecks, opvars, host, life, past, Step, Over, Rest
<1>1. TypeOK'
  <2>1. OpsTyped'
    BY StopChecksOps
  <2> QED
    BY <2>1 DEF OpsTyped, TypeOK
<1>2. OpsKept'
  BY StopChecksOps
<1>3. Course'
  BY DEF Course, Before, Touched, Exists
<1>4. Alone'
  BY DEF Alone, Live
<1>5. Doubts'
  BY DEF Doubts
<1>6. Known'
  BY DEF Known, Exists
<1>7. GivesBack'
  BY DEF GivesBack
<1> QED
  BY <1>1, <1>2, <1>3, <1>4, <1>5, <1>6, <1>7

\* The app's containers are removed by a stop.
LEMMA DownsKeeps ==
  ASSUME NEW o \in Ops, IInv, Downs(o)
  PROVE  IInv'
<1> USE Apart DEF IInv, Downs, opvars, host, life, past, Over, Rest
<1>1. TypeOK'
  <2>1. OpsTyped'
    BY UpsOps
  <2>2. RstTyped'
    BY DEF TypeOK, RstTyped, RstType
  <2>3. HostTyped'
    BY DEF TypeOK, HostTyped
  <2>4. LifeTyped'
    BY DEF TypeOK, LifeTyped, Phases
  <2>5. PastTyped'
    BY DEF TypeOK, PastTyped
  <2> QED
    BY <2>1, <2>2, <2>3, <2>4, <2>5, Zenon DEF TypeOK, OpsTyped, RstTyped, RstType,
         HostTyped, LifeTyped, PastTyped
<1>2. OpsKept'
  BY UpsOps
<1>3. Course'
  BY DEF Course, Before, Touched, Exists
<1>4. Alone'
  BY DEF Alone, Live
<1>5. Doubts'
  BY DEF Doubts
<1>6. Known'
  BY DEF Known, Exists
<1>7. GivesBack'
  BY DEF GivesBack
<1> QED
  BY <1>1, <1>2, <1>3, <1>4, <1>5, <1>6, <1>7

\* A delete goes on after waitForRestore.
LEMMA DeletePassesKeeps ==
  ASSUME NEW o \in Ops, IInv, DeletePasses(o)
  PROVE  IInv'
<1> USE Apart DEF IInv, DeletePasses, opvars, host, life, past, DeleteWaits, Step, Over,
     Rest
<1>1. TypeOK'
  BY DEF TypeOK, OpPcs
<1>2. OpsKept'
  BY DEF TypeOK, OpsKept, Exists, Ended
<1>3. Course'
  BY DEF Course, Before, Touched, Exists
<1>4. Alone'
  BY DEF Alone, Live
<1>5. Doubts'
  BY DEF Doubts
<1>6. Known'
  BY DEF Known, Exists
<1>7. GivesBack'
  BY DEF GivesBack
<1> QED
  BY <1>1, <1>2, <1>3, <1>4, <1>5, <1>6, <1>7

\* A delete removes the app with its volumes.
LEMMA SweepsKeeps ==
  ASSUME NEW o \in Ops, IInv, Sweeps(o)
  PROVE  IInv'
<1> USE Apart DEF IInv, Sweeps, opvars, host, life, past, Over, Rest, Forget
<1>1. TypeOK'
  <2>1. OpsTyped'
    BY SweepsOps
  <2>2. RstTyped'
    <3>1. rst \in RstType
      BY DEF TypeOK, RstType
    <3>2. rst' \in RstType
      BY <3>1, EndsTyped DEF Ends
    <3> QED
      BY <3>2 DEF TypeOK, RstTyped
  <2>3. HostTyped'
    BY DEF TypeOK, HostTyped
  <2>4. LifeTyped'
    BY DEF TypeOK, LifeTyped, Phases
  <2>5. PastTyped'
    BY DEF TypeOK, PastTyped
  <2> QED
    BY <2>1, <2>2, <2>3, <2>4, <2>5, Zenon DEF TypeOK, OpsTyped, RstTyped, RstType,
         HostTyped, LifeTyped, PastTyped
<1>2. OpsKept'
  BY SweepsOps
<1>3. Course'
  BY DEF TypeOK, OpsKept, Course, Before, Touched, Exists
<1>4. Alone'
  BY DEF Alone, Live
<1>5. Doubts'
  BY DEF Doubts
<1>6. Known'
  BY DEF Known, Exists
<1>7. GivesBack'
  BY DEF GivesBack
<1> QED
  BY <1>1, <1>2, <1>3, <1>4, <1>5, <1>6, <1>7

\* The delete's tomb lapses.
LEMMA TombLapsesKeeps ==
  ASSUME IInv, TombLapses
  PROVE  IInv'
<1> USE Apart DEF IInv, TombLapses, opvars, host, life, past
<1>1. TypeOK'
  <2>1. OpsTyped'
    BY DEF TypeOK, OpsTyped
  <2>2. RstTyped'
    BY DEF TypeOK, RstTyped, RstType
  <2>3. HostTyped'
    BY DEF TypeOK, HostTyped
  <2>4. LifeTyped'
    BY DEF TypeOK, LifeTyped, Phases
  <2>5. PastTyped'
    BY DEF TypeOK, PastTyped
  <2> QED
    BY <2>1, <2>2, <2>3, <2>4, <2>5, Zenon DEF TypeOK, OpsTyped, RstTyped, RstType,
         HostTyped, LifeTyped, PastTyped
<1>2. OpsKept'
  BY DEF OpsKept, Exists, Ended
<1>3. Course'
  BY DEF Course, Before, Touched, Exists
<1>4. Alone'
  BY DEF Alone, Live
<1>5. Doubts'
  BY DEF Doubts
<1>6. Known'
  BY DEF Known
<1>7. GivesBack'
  BY DEF GivesBack
<1> QED
  BY <1>1, <1>2, <1>3, <1>4, <1>5, <1>6, <1>7

\* The scheduler starts a restore.
LEMMA RestoreStartsKeeps ==
  ASSUME IInv, RestoreStarts
  PROVE  IInv'
<1> USE Apart DEF IInv, RestoreStarts, opvars, host, life, past, NoRestore, Spend
<1>1. TypeOK'
  <2>1. rst' \in RstType
    BY NoRestoreTyped DEF RstPcs
  <2> QED
    BY <2>1 DEF TypeOK, RstType, NoRestore
<1>2. OpsKept'
  BY DEF OpsKept, Exists, Ended
<1>3. Course'
  BY DEF Course, Before, Touched
<1>4. Alone'
  BY DEF Alone, Live
<1>5. Doubts'
  BY DEF Doubts
<1>6. Known'
  BY DEF Known
<1>7. GivesBack'
  BY DEF GivesBack
<1> QED
  BY <1>1, <1>2, <1>3, <1>4, <1>5, <1>6, <1>7

\* A restore ends before it registered.
LEMMA PrepareFailsKeeps ==
  ASSUME IInv, PrepareFails
  PROVE  IInv'
<1> USE Apart DEF IInv, PrepareFails, opvars, host, life, past, Goes
<1>1. TypeOK'
  BY DEF TypeOK, RstPcs
<1>2. OpsKept'
  BY DEF OpsKept, Exists, Ended
<1>3. Course'
  BY DEF Course, Before, Touched
<1>4. Alone'
  BY DEF Alone, Live
<1>5. Doubts'
  BY DEF Doubts
<1>6. Known'
  BY DEF Known, Exists
<1>7. GivesBack'
  BY DEF GivesBack
<1> QED
  BY <1>1, <1>2, <1>3, <1>4, <1>5, <1>6, <1>7

\* A restore registers, or is refused by what works on its app.
LEMMA BeginRestoreKeeps ==
  ASSUME IInv, BeginRestore
  PROVE  IInv'
<1> USE Apart DEF IInv, BeginRestore, opvars, host, life, past, Goes, Admits
<1>1. TypeOK'
  <2>1. OpsTyped'
    BY DEF TypeOK, OpsTyped
  <2>2. RstTyped'
    <3>1. rst \in RstType
      BY DEF TypeOK, RstType
    <3>2. rst' = [rst EXCEPT !.pc = "look"] \/ rst' = [rst EXCEPT !.pc = "none"]
      OBVIOUS
    <3>3. rst' \in RstType
      BY <3>1, <3>2, PcTyped DEF RstPcs
    <3> QED
      BY <3>2, <3>3 DEF TypeOK, RstTyped, RstType
  <2>3. HostTyped'
    BY DEF TypeOK, HostTyped
  <2>4. LifeTyped'
    BY DEF TypeOK, LifeTyped, Phases
  <2>5. PastTyped'
    BY DEF TypeOK, PastTyped
  <2> QED
    BY <2>1, <2>2, <2>3, <2>4, <2>5, Zenon DEF TypeOK, OpsTyped, RstTyped, RstType,
         HostTyped, LifeTyped, PastTyped
<1>2. OpsKept'
  BY BeginRestoreOps
<1>3. Course'
  BY DEF TypeOK, Course, Before, Touched, Exists
<1>4. Alone'
  BY DEF TypeOK, Alone, Live
<1>5. Doubts'
  BY DEF Doubts
<1>6. Known'
  BY DEF Known, Exists
<1>7. GivesBack'
  BY DEF TypeOK, GivesBack
<1> QED
  BY <1>1, <1>2, <1>3, <1>4, <1>5, <1>6, <1>7

\* The look at the app's containers fails.
LEMMA LookFailsKeeps ==
  ASSUME IInv, LookFails
  PROVE  IInv'
<1> USE Apart DEF IInv, LookFails, opvars, host, life, past, Goes
<1>1. TypeOK'
  BY DEF TypeOK, RstPcs
<1>2. OpsKept'
  BY DEF OpsKept, Exists, Ended
<1>3. Course'
  BY DEF Course, Before, Touched
<1>4. Alone'
  BY DEF Alone, Live
<1>5. Doubts'
  BY DEF Doubts
<1>6. Known'
  BY DEF Known, Exists
<1>7. GivesBack'
  BY DEF TypeOK, Course, Before, Touched, GivesBack
<1> QED
  BY <1>1, <1>2, <1>3, <1>4, <1>5, <1>6, <1>7

\* The restore looks whether the app is up, and writes its mark.
LEMMA LooksKeeps ==
  ASSUME IInv, Looks
  PROVE  IInv'
<1> USE Apart DEF IInv, Looks, opvars, host, life, past
<1>1. TypeOK'
  <2>1. OpsTyped'
    BY DEF TypeOK, OpsTyped
  <2>2. RstTyped'
    <3>1. rst \in RstType
      BY DEF TypeOK, RstType
    <3>2. rst' \in RstType /\ rst'.pc = "draft"
      BY <3>1, LooksRst
    <3> QED
      BY <3>2 DEF TypeOK, RstTyped, RstType
  <2>3. HostTyped'
    BY DEF TypeOK, HostTyped
  <2>4. LifeTyped'
    BY DEF TypeOK, LifeTyped, Phases
  <2>5. PastTyped'
    BY DEF TypeOK, PastTyped
  <2> QED
    BY <2>1, <2>2, <2>3, <2>4, <2>5, Zenon DEF TypeOK, OpsTyped, RstTyped, RstType,
         HostTyped, LifeTyped, PastTyped
<1>2. OpsKept'
  BY DEF OpsKept, Exists, Ended
<1>3. Course'
  BY DEF TypeOK, OpsKept, Course, Touched, Before, Exists, Ended, Kinds, Phases
<1>4. Alone'
  BY DEF Alone, Live
<1>5. Doubts'
  BY DEF Doubts
<1>6. Known'
  BY DEF TypeOK, OpsKept, Course, Touched, Known, Exists, Phases
<1>7. GivesBack'
  BY DEF GivesBack
<1> QED
  BY <1>1, <1>2, <1>3, <1>4, <1>5, <1>6, <1>7

\* The draft check: a restore of a running app goes on only with no draft, or
\* with one that a poll saved since (moved).
LEMMA ChecksDraftKeeps ==
  ASSUME IInv, ChecksDraft
  PROVE  IInv'
<1> USE Apart DEF IInv, ChecksDraft, opvars, host, life, past, Goes, AfterDraftCheck
<1>1. TypeOK'
  BY DEF TypeOK, RstPcs
<1>2. OpsKept'
  BY DEF OpsKept, Exists, Ended
<1>3. Course'
  BY DEF Course, Before, Touched, Exists
<1>4. Alone'
  BY DEF Alone, Live
<1>5. Doubts'
  BY DEF Doubts
<1>6. Known'
  BY DEF Known, Exists
<1>7. GivesBack'
  BY DEF TypeOK, Course, Before, Touched, GivesBack
<1> QED
  BY <1>1, <1>2, <1>3, <1>4, <1>5, <1>6, <1>7

\* The restore stops the app.
LEMMA StopsKeeps ==
  ASSUME IInv, Stops
  PROVE  IInv'
<1> USE Apart DEF IInv, Stops, opvars, host, life, past, Goes, Halts
<1>1. TypeOK'
  <2>1. OpsTyped'
    BY DEF TypeOK, OpsTyped
  <2>2. RstTyped'
    <3>1. rst \in RstType
      BY DEF TypeOK, RstType
    <3>2. PICK p \in {"copy", "again"} :
            \/ rst' = [rst EXCEPT !.pc = p]
            \/ rst' = [rst EXCEPT !.pc = p, !.halted = TRUE]
      BY Zenon
    <3>3. rst' \in RstType
      BY <3>1, <3>2, HaltsTyped
    <3> QED
      BY <3>2, <3>3 DEF TypeOK, RstTyped, RstType
  <2>3. HostTyped'
    BY DEF TypeOK, HostTyped
  <2>4. LifeTyped'
    BY DEF TypeOK, LifeTyped, Phases
  <2>5. PastTyped'
    BY DEF TypeOK, PastTyped
  <2> QED
    BY <2>1, <2>2, <2>3, <2>4, <2>5, Zenon DEF TypeOK, OpsTyped, RstTyped, RstType,
         HostTyped, LifeTyped, PastTyped
<1>2. OpsKept'
  BY DEF TypeOK, OpsKept, Exists, Ended
<1>3. Course'
  BY StopsRest
<1>4. Alone'
  BY StopsRest
<1>5. Doubts'
  BY DEF Doubts
<1>6. Known'
  BY DEF TypeOK, OpsKept, Course, Touched, Known, Exists, Phases
<1>7. GivesBack'
  BY StopsRest
<1> QED
  BY <1>1, <1>2, <1>3, <1>4, <1>5, <1>6, <1>7

\* The pre-restore copy, and the look at the time left.
LEMMA CopiesKeeps ==
  ASSUME IInv, Copies
  PROVE  IInv'
<1> USE Apart DEF IInv, Copies, opvars, host, life, past, Goes
<1>1. TypeOK'
  <2>1. OpsTyped'
    BY DEF TypeOK, OpsTyped
  <2>2. RstTyped'
    <3>1. rst \in RstType
      BY DEF TypeOK, RstType
    <3>2. rst' \in RstType
      BY <3>1, RstUpdates DEF RstPcs
    <3> QED
      BY <3>2 DEF TypeOK, RstTyped, RstType
  <2>3. HostTyped'
    BY DEF TypeOK, HostTyped
  <2>4. LifeTyped'
    BY DEF TypeOK, LifeTyped, Phases
  <2>5. PastTyped'
    BY DEF TypeOK, PastTyped
  <2> QED
    BY <2>1, <2>2, <2>3, <2>4, <2>5, Zenon DEF TypeOK, OpsTyped, RstTyped, RstType,
         HostTyped, LifeTyped, PastTyped
<1>2. OpsKept'
  BY DEF TypeOK, OpsKept, Exists, Ended
<1>3. Course'
  BY DEF TypeOK, OpsKept, Course, Touched, Before, Exists, Ended, Kinds, Phases
<1>4. Alone'
  BY DEF TypeOK, Alone, Live
<1>5. Doubts'
  BY DEF Doubts
<1>6. Known'
  BY DEF TypeOK, OpsKept, Course, Touched, Known, Exists, Phases
<1>7. GivesBack'
  BY DEF TypeOK, GivesBack
<1> QED
  BY <1>1, <1>2, <1>3, <1>4, <1>5, <1>6, <1>7

\* The helper starts: nothing of the app runs.
LEMMA LaunchesKeeps ==
  ASSUME IInv, Launches
  PROVE  IInv'
<1> USE Apart DEF IInv, Launches, opvars, host, life, past, Goes
<1>1. TypeOK'
  BY DEF TypeOK, RstPcs
<1>2. OpsKept'
  BY DEF TypeOK, OpsKept, Exists, Ended
<1>3. Course'
  BY DEF TypeOK, Course, Before, Touched, Exists
<1>4. Alone'
  BY DEF TypeOK, Alone, Live
<1>5. Doubts'
  BY DEF Doubts
<1>6. Known'
  BY DEF Known, Exists
<1>7. GivesBack'
  BY DEF TypeOK, GivesBack
<1> QED
  BY <1>1, <1>2, <1>3, <1>4, <1>5, <1>6, <1>7

\* The helper's own steps.
LEMMA HelperStepsKeeps ==
  ASSUME IInv, HelperSteps
  PROVE  IInv'
<1> USE Apart DEF IInv, HelperSteps, opvars, host, life, past
<1>1. TypeOK'
  BY DEF TypeOK
<1>2. OpsKept'
  BY DEF OpsKept, Exists, Ended
<1>3. Course'
  BY DEF Course, Before, Touched, Exists
<1>4. Alone'
  BY DEF Alone, Live
<1>5. Doubts'
  BY DEF TypeOK, Alone, Live, Doubts
<1>6. Known'
  BY DEF Known, Exists
<1>7. GivesBack'
  BY DEF GivesBack
<1> QED
  BY <1>1, <1>2, <1>3, <1>4, <1>5, <1>6, <1>7

\* The helper's exit code decides how the restore goes on.
LEMMA JudgesKeeps ==
  ASSUME IInv, Judges
  PROVE  IInv'
<1> USE Apart DEF IInv, Judges, opvars, host, life, past
<1>1. TypeOK'
  <2>1. rst \in RstType
    BY DEF TypeOK, RstType
  <2>2. rst' \in RstType
    BY <2>1, RstUpdates DEF RstPcs, Ends
  <2> QED
    BY <2>2 DEF TypeOK, RstType, RstPcs
<1>2. OpsKept'
  BY DEF OpsKept, Exists, Ended
<1>3. Course'
  BY DEF TypeOK, Course, Before, Touched, Exists
<1>4. Alone'
  BY DEF Alone, Live
<1>5. Doubts'
  BY DEF TypeOK, Alone, Live, Doubts
<1>6. Known'
  BY DEF Known, Exists
<1>7. GivesBack'
  BY DEF GivesBack
<1> QED
  BY <1>1, <1>2, <1>3, <1>4, <1>5, <1>6, <1>7

\* The restore is cut short while its helper works.
LEMMA KillsKeeps ==
  ASSUME IInv, Kills
  PROVE  IInv'
<1> USE Apart DEF IInv, Kills, opvars, host, life, past, NotSwapped, Fault, Spend
<1>1. TypeOK'
  <2>1. OpsTyped'
    BY DEF TypeOK, OpsTyped
  <2>2. RstTyped'
    <3>1. rst \in RstType
      BY DEF TypeOK, RstType
    <3>2. rst' \in RstType
      BY <3>1, RstUpdates DEF RstPcs
    <3> QED
      BY <3>2 DEF TypeOK, RstTyped, RstType
  <2>3. HostTyped'
    BY DEF TypeOK, HostTyped
  <2>4. LifeTyped'
    BY DEF TypeOK, LifeTyped, Phases
  <2>5. PastTyped'
    BY DEF TypeOK, PastTyped
  <2> QED
    BY <2>1, <2>2, <2>3, <2>4, <2>5, Zenon DEF TypeOK, OpsTyped, RstTyped, RstType,
         HostTyped, LifeTyped, PastTyped
<1>2. OpsKept'
  BY DEF TypeOK, OpsKept, Exists, Ended
<1>3. Course'
  BY DEF TypeOK, OpsKept, Course, Touched, Before, Exists, Ended, Kinds, Phases
<1>4. Alone'
  BY KillsRest
<1>5. Doubts'
  BY KillsRest
<1>6. Known'
  BY DEF Known, Exists
<1>7. GivesBack'
  BY KillsRest
<1> QED
  BY <1>1, <1>2, <1>3, <1>4, <1>5, <1>6, <1>7

\* startAgain gives the app back, or notes that Docker failed.
LEMMA StartsAgainKeeps ==
  ASSUME IInv, StartsAgain
  PROVE  IInv'
<1> USE Apart DEF IInv, StartsAgain, opvars, host, life, past, Goes, Again, Fault, Spend
<1>1. TypeOK'
  <2>1. OpsTyped'
    BY DEF TypeOK, OpsTyped
  <2>2. RstTyped'
    <3>1. rst \in RstType
      BY DEF TypeOK, RstType
    <3>2. rst' \in RstType
      BY <3>1, RstUpdates DEF RstPcs
    <3> QED
      BY <3>2 DEF TypeOK, RstTyped, RstType
  <2>3. HostTyped'
    BY DEF TypeOK, HostTyped
  <2>4. LifeTyped'
    BY DEF TypeOK, LifeTyped, Phases
  <2>5. PastTyped'
    BY DEF TypeOK, PastTyped
  <2> QED
    BY <2>1, <2>2, <2>3, <2>4, <2>5, Zenon DEF TypeOK, OpsTyped, RstTyped, RstType,
         HostTyped, LifeTyped, PastTyped
<1>2. OpsKept'
  BY DEF TypeOK, OpsKept, Exists, Ended
<1>3. Course'
  BY DEF TypeOK, Course, Before, Touched, Exists
<1>4. Alone'
  BY DEF TypeOK, Alone, Live
<1>5. Doubts'
  BY DEF Doubts
<1>6. Known'
  BY DEF Known, Exists
<1>7. GivesBack'
  BY DEF TypeOK, Course, Before, Touched, GivesBack
<1> QED
  BY <1>1, <1>2, <1>3, <1>4, <1>5, <1>6, <1>7

\* leaveStopped takes the app down on data in doubt.
LEMMA LeavesStoppedKeeps ==
  ASSUME IInv, LeavesStopped
  PROVE  IInv'
<1> USE Apart DEF IInv, LeavesStopped, opvars, host, life, past, Removed, Goes, Fault,
     Spend
<1>1. TypeOK'
  <2>1. OpsTyped'
    BY DEF TypeOK, OpsTyped
  <2>2. RstTyped'
    <3>1. rst \in RstType
      BY DEF TypeOK, RstType
    <3>2. rst' \in RstType
      BY <3>1, RstUpdates DEF RstPcs
    <3> QED
      BY <3>2 DEF TypeOK, RstTyped, RstType
  <2>3. HostTyped'
    BY DEF TypeOK, HostTyped
  <2>4. LifeTyped'
    BY DEF TypeOK, LifeTyped, Phases
  <2>5. PastTyped'
    BY DEF TypeOK, PastTyped
  <2> QED
    BY <2>1, <2>2, <2>3, <2>4, <2>5, Zenon DEF TypeOK, OpsTyped, RstTyped, RstType,
         HostTyped, LifeTyped, PastTyped
<1>2. OpsKept'
  BY DEF TypeOK, OpsKept, Exists, Ended
<1>3. Course'
  BY DEF TypeOK, Course, Before, Touched, Exists
<1>4. Alone'
  BY LeavesStoppedAlone
<1>5. Doubts'
  BY DEF TypeOK, Course, Touched, Doubts
<1>6. Known'
  BY DEF TypeOK, Course, Touched, Known, Exists
<1>7. GivesBack'
  BY DEF TypeOK, Course, Before, Touched, GivesBack
<1> QED
  BY <1>1, <1>2, <1>3, <1>4, <1>5, <1>6, <1>7

\* The mark goes, and the answer is to tell what happened; where the agent's
\* stop left the data in doubt, it stays for the next start.
LEMMA ClearsMarkKeeps ==
  ASSUME IInv, ClearsMark
  PROVE  IInv'
<1> USE Apart DEF IInv, ClearsMark, opvars, host, life, past, Keeps
<1>1. TypeOK'
  <2>1. rst \in RstType
    BY DEF TypeOK, RstType
  <2>2. rst' \in RstType
    BY <2>1, RstUpdates DEF RstPcs, Ends
  <2> QED
    BY <2>2 DEF TypeOK, RstType, RstPcs
<1>2. OpsKept'
  BY DEF OpsKept, Exists, Ended
<1>3. Course'
  BY DEF Course, Before, Touched
<1>4. Alone'
  BY DEF Alone, Live
<1>5. Doubts'
  BY DEF Doubts
<1>6. Known'
  BY DEF TypeOK, Known, Exists
<1>7. GivesBack'
  BY DEF GivesBack
<1> QED
  BY <1>1, <1>2, <1>3, <1>4, <1>5, <1>6, <1>7

\* The restore is no longer registered.
LEMMA EndRestoreKeeps ==
  ASSUME IInv, EndRestore
  PROVE  IInv'
<1> USE Apart DEF IInv, EndRestore, opvars, host, life, past, Goes
<1>1. TypeOK'
  <2>1. OpsTyped'
    BY DEF TypeOK, OpsTyped
  <2>2. RstTyped'
    <3>1. rst \in RstType
      BY DEF TypeOK, RstType
    <3>2. rst' \in RstType
      BY <3>1, RstUpdates DEF RstPcs
    <3> QED
      BY <3>2 DEF TypeOK, RstTyped, RstType
  <2>3. HostTyped'
    BY DEF TypeOK, HostTyped
  <2>4. LifeTyped'
    BY DEF TypeOK, LifeTyped, Phases
  <2>5. PastTyped'
    BY DEF TypeOK, PastTyped
  <2> QED
    BY <2>1, <2>2, <2>3, <2>4, <2>5, Zenon DEF TypeOK, OpsTyped, RstTyped, RstType,
         HostTyped, LifeTyped, PastTyped
<1>2. OpsKept'
  BY DEF OpsKept, Exists, Ended
<1>3. Course'
  BY DEF Course, Before, Touched
<1>4. Alone'
  BY DEF Alone, Live
<1>5. Doubts'
  BY DEF Doubts
<1>6. Known'
  BY DEF Known, Exists
<1>7. GivesBack'
  BY DEF GivesBack
<1> QED
  BY <1>1, <1>2, <1>3, <1>4, <1>5, <1>6, <1>7

\* The restore's answer goes to the scheduler.
LEMMA AnswersKeeps ==
  ASSUME IInv, Answers
  PROVE  IInv'
<1> USE Apart DEF IInv, Answers, opvars, host, life, past, Goes
<1>1. TypeOK'
  <2>1. OpsTyped'
    BY DEF TypeOK, OpsTyped
  <2>2. RstTyped'
    <3>1. rst \in RstType
      BY DEF TypeOK, RstType
    <3>2. rst' \in RstType
      BY <3>1, RstUpdates DEF RstPcs
    <3> QED
      BY <3>2 DEF TypeOK, RstTyped, RstType
  <2>3. HostTyped'
    BY DEF TypeOK, HostTyped
  <2>4. LifeTyped'
    BY DEF TypeOK, LifeTyped, Phases
  <2>5. PastTyped'
    BY DEF TypeOK, PastTyped
  <2> QED
    BY <2>1, <2>2, <2>3, <2>4, <2>5, Zenon DEF TypeOK, OpsTyped, RstTyped, RstType,
         HostTyped, LifeTyped, PastTyped
<1>2. OpsKept'
  BY DEF OpsKept, Exists, Ended
<1>3. Course'
  BY DEF Course, Before, Touched
<1>4. Alone'
  BY DEF Alone, Live
<1>5. Doubts'
  BY DEF Doubts
<1>6. Known'
  BY DEF Known
<1>7. GivesBack'
  BY DEF GivesBack
<1> QED
  BY <1>1, <1>2, <1>3, <1>4, <1>5, <1>6, <1>7

\* The restore's deadline passes.
LEMMA TimesOutKeeps ==
  ASSUME IInv, TimesOut
  PROVE  IInv'
<1> USE Apart DEF IInv, TimesOut, opvars, host, life, past
<1>1. TypeOK'
  BY DEF TypeOK, OpsKept, OpPcs, RstPcs, Ends
<1>2. OpsKept'
  BY DEF OpsKept, Exists, Ended
<1>3. Course'
  BY DEF Course, Before, Touched, Exists
<1>4. Alone'
  BY DEF Alone, Live
<1>5. Doubts'
  BY DEF Doubts
<1>6. Known'
  BY DEF Known, Exists
<1>7. GivesBack'
  BY DEF TypeOK, Course, Touched, Before, GivesBack, Ended
<1> QED
  BY <1>1, <1>2, <1>3, <1>4, <1>5, <1>6, <1>7

\* The agent's update registers: no restore is registered.
LEMMA BeginUpdateKeeps ==
  ASSUME IInv, BeginUpdate
  PROVE  IInv'
<1> USE Apart DEF IInv, BeginUpdate, opvars, host, life, past, UpdateAdmits
<1>1. TypeOK'
  BY DEF TypeOK
<1>2. OpsKept'
  BY DEF OpsKept, Exists, Ended
<1>3. Course'
  BY DEF Course, Before, Touched, Exists
<1>4. Alone'
  BY DEF Alone, Live
<1>5. Doubts'
  BY DEF Doubts
<1>6. Known'
  BY DEF Known, Exists
<1>7. GivesBack'
  BY DEF GivesBack
<1> QED
  BY <1>1, <1>2, <1>3, <1>4, <1>5, <1>6, <1>7

\* The agent's update ends without an exit.
LEMMA UpdateEndsKeeps ==
  ASSUME IInv, UpdateEnds
  PROVE  IInv'
<1> USE Apart DEF IInv, UpdateEnds, opvars, host, life, past
<1>1. TypeOK'
  BY DEF TypeOK
<1>2. OpsKept'
  BY DEF OpsKept, Exists, Ended
<1>3. Course'
  BY DEF Course, Before, Touched, Exists
<1>4. Alone'
  BY DEF Alone, Live
<1>5. Doubts'
  BY DEF Doubts
<1>6. Known'
  BY DEF Known, Exists
<1>7. GivesBack'
  BY DEF GivesBack
<1> QED
  BY <1>1, <1>2, <1>3, <1>4, <1>5, <1>6, <1>7

\* The agent is asked to stop, which cancels the restore.
LEMMA AskStopKeeps ==
  ASSUME IInv, AskStop
  PROVE  IInv'
<1> USE Apart DEF IInv, AskStop, opvars, host, life, past
<1>1. TypeOK'
  BY DEF TypeOK, OpsKept, OpPcs, RstPcs, Ends
<1>2. OpsKept'
  BY DEF OpsKept, Exists, Ended
<1>3. Course'
  BY DEF Course, Before, Touched, Exists
<1>4. Alone'
  BY DEF Alone, Live
<1>5. Doubts'
  BY DEF Doubts
<1>6. Known'
  BY DEF Known, Exists
<1>7. GivesBack'
  BY DEF TypeOK, Course, Touched, Before, GivesBack, Ended
<1> QED
  BY <1>1, <1>2, <1>3, <1>4, <1>5, <1>6, <1>7

\* The agent exits: the mark keeps what the restore was doing, and a helper it
\* leaves at work is the stated exception.
LEMMA DiesKeeps ==
  ASSUME IInv, Dies
  PROVE  IInv'
<1> USE Apart DEF IInv, Dies, opvars, host, life, past, Spend, Rest, NoRestore
<1>1. TypeOK'
  <2>1. OpsTyped'
    BY DiesOps
  <2>2. RstTyped'
    BY NoRestoreTyped DEF RstTyped, NoRestore
  <2>3. HostTyped'
    BY DEF TypeOK, HostTyped
  <2>4. LifeTyped'
    BY DEF TypeOK, LifeTyped, Phases
  <2>5. PastTyped'
    BY DEF TypeOK, PastTyped
  <2> QED
    BY <2>1, <2>2, <2>3, <2>4, <2>5, Zenon DEF TypeOK, OpsTyped, RstTyped, RstType,
         HostTyped, LifeTyped, PastTyped
<1>2. OpsKept'
  BY DiesOps
<1>3. Course'
  BY DEF Course, Before, Touched
<1>4. Alone'
  BY DEF Alone, Live
<1>5. Doubts'
  BY DEF Doubts
<1>6. Known'
  BY DEF Known, Exists
<1>7. GivesBack'
  BY DEF GivesBack
<1> QED
  BY <1>1, <1>2, <1>3, <1>4, <1>5, <1>6, <1>7

\* The start reads the marks and removes their file.
LEMMA ReadsMarksKeeps ==
  ASSUME IInv, ReadsMarks
  PROVE  IInv'
<1> USE Apart DEF IInv, ReadsMarks, opvars, host, life, past
<1>1. TypeOK'
  BY DEF TypeOK
<1>2. OpsKept'
  BY DEF OpsKept, Exists, Ended
<1>3. Course'
  BY DEF Course, Before, Touched
<1>4. Alone'
  BY DEF Alone, Live
<1>5. Doubts'
  BY DEF Doubts
<1>6. Known'
  BY DEF TypeOK, Course, Touched, Known, Exists
<1>7. GivesBack'
  BY DEF GivesBack
<1> QED
  BY <1>1, <1>2, <1>3, <1>4, <1>5, <1>6, <1>7

\* The start notes the interrupted restore.
LEMMA NotesKeeps ==
  ASSUME IInv, Notes
  PROVE  IInv'
<1> USE Apart DEF IInv, Notes, opvars, host, life, past
<1>1. TypeOK'
  BY DEF TypeOK
<1>2. OpsKept'
  BY DEF OpsKept, Exists, Ended
<1>3. Course'
  BY DEF Course, Before, Touched
<1>4. Alone'
  BY DEF Alone, Live
<1>5. Doubts'
  BY DEF Doubts
<1>6. Known'
  BY DEF Known, Exists
<1>7. GivesBack'
  BY DEF GivesBack
<1> QED
  BY <1>1, <1>2, <1>3, <1>4, <1>5, <1>6, <1>7

\* The start removes helpers left at work.
LEMMA CleansHelpersKeeps ==
  ASSUME IInv, CleansHelpers
  PROVE  IInv'
<1> USE Apart DEF IInv, CleansHelpers, opvars, host, life, past, Fault, Spend
<1>1. TypeOK'
  BY DEF TypeOK
<1>2. OpsKept'
  BY DEF OpsKept, Exists, Ended
<1>3. Course'
  BY DEF Course, Before, Touched
<1>4. Alone'
  BY DEF Alone, Live
<1>5. Doubts'
  BY DEF TypeOK, Course, Touched, Doubts
<1>6. Known'
  BY DEF Known, Exists
<1>7. GivesBack'
  BY DEF GivesBack
<1> QED
  BY <1>1, <1>2, <1>3, <1>4, <1>5, <1>6, <1>7

\* Docker restarts: stopped containers come back, which is excused during a
\* restore.
LEMMA DockerRestartsKeeps ==
  ASSUME IInv, DockerRestarts
  PROVE  IInv'
<1> USE Apart DEF IInv, DockerRestarts, opvars, host, life, past, Fault, Spend
<1>1. TypeOK'
  BY DEF TypeOK
<1>2. OpsKept'
  BY DEF OpsKept, Exists, Ended
<1>3. Course'
  BY DEF Course, Before, Touched, Exists
<1>4. Alone'
  BY DEF TypeOK, Alone, Live
<1>5. Doubts'
  BY DEF Doubts
<1>6. Known'
  BY DEF Known, Exists
<1>7. GivesBack'
  BY DEF GivesBack
<1> QED
  BY <1>1, <1>2, <1>3, <1>4, <1>5, <1>6, <1>7

\* The initial states satisfy the invariant.
LEMMA InitHolds == Init => IInv
<1> SUFFICES ASSUME Init
             PROVE  IInv
  OBVIOUS
<1> USE Apart DEF Init
<1>1. TypeOK
  <2>1. rst \in RstType /\ rst.pc = "none"
    BY NoRestoreTyped DEF NoRestore
  <2>2. op \in [Ops -> [kind : Kinds \cup {None}, pc : OpPcs]]
    BY DEF Rest, OpPcs
  <2>3. /\ restoring \in BOOLEAN /\ deleting \in BOOLEAN /\ stopping \in BOOLEAN
        /\ stray \in BOOLEAN /\ draft \in BOOLEAN
        /\ {told, lost, moved, excused} \subseteq BOOLEAN
    BY Zenon
  <2>4. \A o \in Ops : op[o].pc \notin {"idle", "wait"} <=> lock = o
    BY DEF Rest
  <2> QED
    BY <2>1, <2>2, <2>3, <2>4 DEF TypeOK, RstType
<1>2. OpsKept
  BY DEF OpsKept, Rest, Kinds
<1>3. Course
  BY DEF Course, Before, Touched, NoRestore
<1>4. Alone
  BY DEF Alone, Live, NoRestore
<1>5. Doubts /\ Known
  BY DEF Doubts, Known
<1>6. GivesBack
  BY DEF GivesBack, NoRestore
<1> QED
  BY <1>1, <1>2, <1>3, <1>4, <1>5, <1>6 DEF IInv

\* A stuttering step.
LEMMA StutterKeeps ==
  ASSUME IInv, UNCHANGED vars
  PROVE  IInv'
<1> USE DEF vars, opvars, host, life, past
<1>1. TypeOK' /\ OpsKept' /\ Course'
  BY DEF IInv, TypeOK, OpsKept, Course, Exists, Ended
<1>2. Alone' /\ Doubts' /\ Known' /\ GivesBack'
  BY DEF IInv, Alone, Live, Doubts, Known, Exists, GivesBack
<1> QED
  BY <1>1, <1>2 DEF IInv

\* Every step keeps the invariant.
LEMMA NextKeeps == IInv /\ [Next]_vars => IInv'
<1> SUFFICES ASSUME IInv, [Next]_vars
             PROVE  IInv'
  OBVIOUS
<1>1. ASSUME NEW o \in Ops, OpSteps(o)
      PROVE  IInv'
  BY <1>1, AcquireKeeps, BusyKeeps, BeginsKeeps, PollsKeeps, ChecksKeeps, RegistersKeeps,
     UpsKeeps, UpFailsKeeps, SavesDraftKeeps, StopChecksKeeps, DownsKeeps,
     DeletePassesKeeps, SweepsKeeps DEF OpSteps
<1>2. CASE RestoreSteps
  BY <1>2, PrepareFailsKeeps, BeginRestoreKeeps, LookFailsKeeps, LooksKeeps,
       ChecksDraftKeeps,
     StopsKeeps, CopiesKeeps, LaunchesKeeps, JudgesKeeps, KillsKeeps, StartsAgainKeeps,
     LeavesStoppedKeeps, ClearsMarkKeeps, EndRestoreKeeps, AnswersKeeps DEF RestoreSteps
<1>3. CASE Boots
  BY <1>3, ReadsMarksKeeps, NotesKeeps, CleansHelpersKeeps DEF Boots
<1>4. CASE UpdateExits \/ Crash
  BY <1>4, DiesKeeps DEF UpdateExits, Crash
<1>5. CASE UNCHANGED vars
  BY <1>5, StutterKeeps
<1> QED
  BY <1>1, <1>2, <1>3, <1>4, <1>5, AskKeeps, TombLapsesKeeps, RestoreStartsKeeps,
     HelperStepsKeeps, TimesOutKeeps, BeginUpdateKeeps, UpdateEndsKeeps, AskStopKeeps,
     DockerRestartsKeeps DEF Next

-----------------------------------------------------------------------------
(* The theorems                                                            *)

\* IInv is an invariant: what an operation, the restore, the mark and the
\* start know of each other stays true, whatever is refused, cut short or
\* fails.
THEOREM RestoreInvariant == Spec => []IInv
BY InitHolds, NextKeeps, PTL DEF Spec

\* While a restore's helper works on the data no service of the app runs and
\* no operation starts or removes the app (beginRestore, beginOp, DeleteApp).
COROLLARY HelperWorksAlone == Spec => []HelperAlone
<1>1. IInv => HelperAlone
  <2> SUFFICES ASSUME IInv, Live, ~excused
               PROVE  /\ app # "running"
                      /\ stray => moved
                      /\ \A o \in Ops : op[o].pc \notin {"up", "sweep"}
    BY DEF IInv, HelperAlone
  <2>1. rst.pc = "helper" /\ restoring
    BY DEF IInv, Alone, TypeOK
  <2> QED
    BY <2>1 DEF IInv, Alone, OpsKept, HelperAlone
<1> QED
  BY <1>1, RestoreInvariant, PTL

\* On data in doubt the app runs only by an operation that deployed it, never
\* by the restore or by Docker (leaveStopped).
COROLLARY DoubtStaysDown == Spec => []OnlyDeployedOnDoubt
<1>1. IInv => OnlyDeployedOnDoubt
  BY DEF IInv, Doubts, OnlyDeployedOnDoubt, TypeOK
<1> QED
  BY <1>1, RestoreInvariant, PTL

\* Data in doubt, or an app left stopped, is known to the user or on the way
\* to be (writeRestoreMark, InterruptedRestores).
COROLLARY DoubtReachesTheUser == Spec => []DoubtIsTold
<1>1. IInv => DoubtIsTold
  BY DEF IInv, Known, DoubtIsTold
<1> QED
  BY <1>1, RestoreInvariant, PTL

\* A restore that stopped the app gives it back, whatever ended it, unless the
\* data is in doubt, the app is being deleted or Docker failed (startAgain).
COROLLARY StoppedIsStarted == Spec => []GivesBack
<1>1. IInv => GivesBack
  BY DEF IInv
<1> QED
  BY <1>1, RestoreInvariant, PTL

\* The agent's update never exits while a restore is registered (beginUpdate).
THEOREM NoUpdateDuringRestore == Spec => UpdateCutsNone
<1>1. IInv /\ [Next]_vars => [UpdateExits => ~restoring]_vars
  BY DEF IInv, OpsKept, UpdateExits
<1> QED
  BY <1>1, RestoreInvariant, PTL DEF Spec, UpdateCutsNone
=============================================================================
