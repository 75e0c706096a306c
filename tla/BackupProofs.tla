---------------------------- MODULE BackupProofs ----------------------------
(***************************************************************************)
(* The safety of the backup scheduler, for any apps, backups, requests and *)
(* slots, and however many deletes, saves, lapses and apps a plan read     *)
(* leaves out: one engine call an app, volumes left alone, nothing left of *)
(* a deleted app, a sound sleep, every waiter kept, and a schedule that a  *)
(* stop leaves alone.                                                      *)
(*                                                                         *)
(* The invariant is a conjunction of parts that read few variables each.   *)
(* What keeps a part whatever the step is a lemma named ...Frame or        *)
(* Still...; that an action keeps the whole of it is ...Keeps.             *)
(***************************************************************************)
EXTENDS BackupScheduler, FiniteSetTheorems, TLAPS

-----------------------------------------------------------------------------
(* The inductive invariant                                                 *)

\* A call under way, or one that returned and not yet exited, is the running
\* job's, marks its app stuck, or had its outcome taken.
CallHeld == \A j \in Slots : job[j].call \in {"called", "returned"} =>
  j = running \/ stuck[AppJob(j)] = j \/ (job[j].call = "returned" /\ job[j].taken)

\* An abandoned call that has not exited marks its app stuck.
AbandonedStuck == \A j \in Slots :
  job[j].abandoned /\ job[j].call \in {"called", "returned"} => stuck[AppJob(j)] = j

\* An outcome was taken only from a call that had returned, and never from a
\* job that was abandoned.
TakenCame == \A j \in Slots :
  job[j].taken => job[j].call \in {"returned", "exited"} /\ ~job[j].abandoned

\* What marks an app stuck is an abandoned call of the app, not exited yet.
StuckIs == \A a \in Apps : stuck[a] # NoJob =>
  /\ job[stuck[a]].call \in {"called", "returned"} /\ AppJob(stuck[a]) = a
  /\ job[stuck[a]].abandoned

\* The running job has a call of its own, of an app no other call blocks; it
\* leaves execute's selects either taken or abandoned.
RunningOwn == running # NoJob =>
  /\ job[running].call # "free"
  /\ stuck[AppJob(running)] \in {NoJob, running}
  /\ loop.pc \in {"executing", "grace"} => ~job[running].taken /\ ~job[running].abandoned
  /\ loop.pc \in {"judge", "record"} => job[running].taken \/ job[running].abandoned

\* The engine calls, the running job and the blocked apps.
Calls == CallHeld /\ AbandonedStuck /\ TakenCame /\ StuckIs /\ RunningOwn /\ JobRuns

\* The generations a read, a tombstone and a Forget were stamped with are past
\* ones, and a tombstone that has lapsed ended its block early.
Gens ==
  /\ loop.readGen <= gen
  /\ \A a \in Apps : deleting[a].gen <= gen /\ forgotten[a] <= gen
  /\ \A a \in Apps : deleting[a].lapsed => a \in early

\* A command that is under way has its app, and until the app's folder goes it
\* lists a backup.
Deletes ==
  /\ cmd.pc # "idle" => cmd.app \in Apps
  /\ cmd.pc \in {"forget", "wait", "removing"} => OnDisk(cmd.app)

\* The plan read lists the app, or left it out as unreadable.
Seen(a) == Listed(a) \/ a \in loop.unread

\* From the first Forget to the removal of its volumes an app is blocked, any
\* plan read that could unblock it lists it or could not read it, and its
\* calls under way are awaited, abandoned or being waited for (unless its
\* block ended early).
Guarded == cmd.pc \in {"wait", "removing"} /\ cmd.app \notin early =>
  /\ Deleting(cmd.app)
  /\ loop.pc = "refresh" /\ deleting[cmd.app].gen <= loop.readGen => Seen(cmd.app)
  /\ \A j \in InFlight(cmd.app) :
       job[j].awaited \/ job[j].abandoned \/ (cmd.pc = "wait" /\ j \in cmd.waits)

\* A deleted app has no backup on disk, in the plan or in the state, and a
\* plan read that is still to be applied either misses it or began before its
\* Forget.
Gone == \A a \in gone : \A k \in KeysOf(a) :
  /\ disk[k] = "unlisted" /\ plan[k] = "unlisted" /\ state[k] = NoState
  /\ loop.pc = "refresh" /\ forgotten[a] <= loop.readGen => loop.read[k] = "unlisted"

\* The timer is set to a tombstone that has lapsed since.
Lapse == \E a \in armed.tombs : deleting[a].lapsed

\* About to sleep with a request in the queue, the scheduler is about to be
\* woken; and asleep, with no wake to come, its timer is set to every
\* tombstone and to every planned backup, but one that is blocked or that a
\* lapsed tombstone unblocked.
Sleep ==
  /\ loop.pc \in {"arming", "asleep"} /\ queue # {} => wake
  /\ loop.pc = "asleep" /\ ~wake =>
      /\ \A a \in Apps : Deleting(a) => a \in armed.tombs
      /\ \A k \in Backups : plan[k] = "on" /\ state[k].has =>
           k \in armed.keys \/ Blocked(AppOf[k]) \/ Lapse

\* Someone holds the request and owes it an answer.
Waiting(q) == q \in RequestsIn(queue) \/ (running # NoJob /\ job[running].req = q)

\* A request is in the queue or the running job's, once, exactly while its
\* answer is awaited.
Waiters ==
  /\ \A r, s \in queue : r.req = s.req => r = s
  /\ running # NoJob => job[running].req \notin RequestsIn(queue)
  /\ \A q \in Requests : reply[q] # "blocked" /\ (reply[q] = "waiting" <=> Waiting(q))
  /\ overdue \subseteq RequestsIn(queue)

\* A job's context says stopped only when the agent stops; a job left without
\* its outcome has a context that ended; and one recorded as not cut short
\* went well or did not end by the stop.
Cut ==
  /\ \A j \in Slots : job[j].ctx = "stopped" => stopping
  /\ loop.pc \in {"grace", "judge", "record"} /\ ~job[running].taken => job[running].ctx # "live"
  /\ loop.pc = "record" /\ ~loop.cut => Outcome(running) = "ok" \/ job[running].ctx # "stopped"

\* The inductive invariant.
IInv == TypeOK /\ QueuedOnce /\ Calls /\ Gens /\ Deletes /\ Guarded /\ Gone /\ Sleep
        /\ Waiters /\ Cut

-----------------------------------------------------------------------------
(* What the operators and one changed record still are                     *)

\* No slot is the mark for no job.
LEMMA SlotsApart == NoJob \notin Slots /\ Slots \subseteq Nat
BY SchedulerAssumption

\* A free slot's job is well typed and has nothing set.
LEMMA FreeJobIs == FreeJob \in Jobs /\ FreeJob.call = "free" /\ ~FreeJob.taken /\ ~FreeJob.abandoned
                   /\ FreeJob.ctx = "live"
<1>1. (CHOOSE k \in Backups : TRUE) \in Backups
  BY SchedulerAssumption
<1> QED BY <1>1 DEF FreeJob, Jobs, Kinds

\* A job of which one field changes is well typed.
LEMMA JobIs ==
  ASSUME NEW b \in Jobs
  PROVE  /\ \A c \in {"live", "deadline", "deleted", "stopped"} : [b EXCEPT !.ctx = c] \in Jobs
         /\ [b EXCEPT !.awaited = TRUE] \in Jobs
         /\ [b EXCEPT !.call = "exited"] \in Jobs
BY DEF Jobs

\* A backup's record of which some fields change is well typed.
LEMMA StateIs ==
  ASSUME NEW r \in States
  PROVE  /\ NoState \in States
         /\ [r EXCEPT !.has = TRUE] \in States
         /\ [r EXCEPT !.due = TRUE] \in States /\ [r EXCEPT !.due = TRUE].has = r.has
         /\ [r EXCEPT !.has = TRUE, !.on = TRUE, !.tried = TRUE] \in States
BY DEF States, NoState

\* A tombstone, cleared or lapsed, is well typed.
LEMMA TombIs == NoTomb \in Tombs /\ \A t \in Tombs : [t EXCEPT !.lapsed = TRUE] \in Tombs
BY DEF NoTomb, Tombs

\* The command goroutine, moved on or idle, is well typed.
LEMMA CommandIs ==
  ASSUME NEW m \in Commands,
         NEW p \in {"idle", "saved", "forget", "wait", "removing", "again", "wait again"}
  PROVE  /\ LET n == [m EXCEPT !.pc = p] IN n \in Commands /\ n.pc = p /\ n.app = m.app
         /\ Idle \in Commands /\ Idle.pc = "idle"
BY DEF Commands, Idle

\* Answering requests that wait answers those and no others, and blocks on
\* none.
LEMMA AnsweredIs ==
  ASSUME TypeOK, NEW qs, \A q \in qs : q \in Requests => reply[q] = "waiting"
  PROVE  /\ Answered(qs) \in [Requests -> Replies]
         /\ \A q \in Requests : Answered(qs)[q] = IF q \in qs THEN "answered" ELSE reply[q]
BY DEF TypeOK, Answered, Replies

\* Whomever it answers, a channel holds what a channel may.
LEMMA AnsweredType ==
  ASSUME TypeOK, NEW qs
  PROVE  Answered(qs) \in [Requests -> Replies]
BY DEF TypeOK, Answered, Replies

\* Noting an error changes that backup's record at most, if it is planned, and
\* never what is due.
LEMMA NotedIs ==
  ASSUME TypeOK, NEW k \in Backups
  PROVE  /\ Noted(k) \in [Backups -> States]
         /\ \A l \in Backups : /\ Noted(k)[l] # state[l] => l = k /\ plan[k] # "unlisted"
                               /\ Noted(k)[l].due = state[l].due
<1>1. [state[k] EXCEPT !.has = TRUE] \in States
  BY StateIs DEF TypeOK
<1> QED BY <1>1 DEF TypeOK, Noted, States

\* Collecting leaves a job as it is or frees the slot of one that has exited.
LEMMA CollectedIs ==
  ASSUME NEW jobs \in [Slots -> Jobs], NEW run, NEW waits
  PROVE  /\ Collected(jobs, run, waits) \in [Slots -> Jobs]
         /\ \A j \in Slots :
              \/ Collected(jobs, run, waits)[j] = jobs[j]
              \/ jobs[j].call = "exited" /\ j # run /\ j \notin waits
                 /\ Collected(jobs, run, waits)[j] = FreeJob
BY FreeJobIs DEF Collected
-----------------------------------------------------------------------------
(* What keeps a part of the invariant, whatever the step                   *)

\* What the calls' part reads of a job is as it was.
SameCall(j) ==
  /\ job'[j].key = job[j].key /\ job'[j].kind = job[j].kind /\ job'[j].req = job[j].req
  /\ job'[j].call = job[j].call /\ job'[j].taken = job[j].taken
  /\ job'[j].abandoned = job[j].abandoned

\* What the waiters' part reads of a job is as it was.
SameAsk(j) ==
  job'[j].key = job[j].key /\ job'[j].kind = job[j].kind /\ job'[j].req = job[j].req

\* What the records go by of a job is as it was.
SameEnd(j) ==
  /\ job'[j].ctx = job[j].ctx /\ job'[j].outcome = job[j].outcome
  /\ job'[j].taken = job[j].taken /\ job'[j].abandoned = job[j].abandoned

\* A slot is freed whose call has exited, not the running job's.
Swept(j) == job[j].call = "exited" /\ j # running /\ job'[j] = FreeJob

\* No call begins, ends, is taken or abandoned.
KeepsJobs == \A j \in Slots : SameCall(j) \/ Swept(j)

\* Where Run has a job.
Working == {"executing", "grace", "judge", "record"}

\* Run keeps its job, or keeps having none, and takes or abandons nothing.
SamePhase ==
  \/ loop'.pc = loop.pc
  \/ loop.pc \notin Working /\ loop'.pc \notin Working
  \/ loop.pc = "executing" /\ loop'.pc = "grace"
  \/ loop.pc = "judge" /\ loop'.pc = "record"

\* A step that begins, ends, takes or abandons no call keeps the calls' part.
LEMMA CallsFrame ==
  ASSUME TypeOK, Calls, KeepsJobs, SamePhase, UNCHANGED <<running, stuck>>
  PROVE  Calls'
<1> USE DEF Calls, CallHeld, AbandonedStuck, TakenCame, StuckIs, RunningOwn, JobRuns
<1>1. CallHeld'
  BY FreeJobIs DEF KeepsJobs, SameCall, Swept, AppJob
<1>2. AbandonedStuck'
  BY FreeJobIs DEF KeepsJobs, SameCall, Swept, AppJob
<1>3. TakenCame'
  BY FreeJobIs DEF KeepsJobs, SameCall, Swept, AppJob
<1>4. StuckIs'
  <2> SUFFICES ASSUME NEW a \in Apps, stuck[a] # NoJob
               PROVE  /\ job'[stuck[a]].call \in {"called", "returned"} /\ AppJob(stuck[a])' = a
                      /\ job'[stuck[a]].abandoned
    OBVIOUS
  <2>1. stuck[a] \in Slots /\ SameCall(stuck[a])
    BY DEF TypeOK, KeepsJobs, Swept
  <2> QED BY <2>1 DEF SameCall, AppJob
<1>5. RunningOwn'
  <2> SUFFICES ASSUME running # NoJob PROVE RunningOwn'
    OBVIOUS
  <2>1. running \in Slots /\ SameCall(running)
    BY DEF TypeOK, KeepsJobs, Swept
  <2>2. loop.pc \in Working
    BY DEF Working
  <2> QED BY <2>1, <2>2 DEF SameCall, AppJob, SamePhase, Working
<1>6. JobRuns'
  BY DEF SamePhase, Working
<1> QED BY <1>1, <1>2, <1>3, <1>4, <1>5, <1>6

\* A step that touches no job begins or ends no call.
LEMMA StillJobs ==
  ASSUME UNCHANGED job
  PROVE  KeepsJobs
BY DEF KeepsJobs, SameCall

\* Requests leave the queue and hear their answer; nobody else does.
LEMMA WaitersFrame ==
  ASSUME TypeOK, Waiters, QueuedOnce, UNCHANGED running, NEW told,
         queue' \subseteq queue, told = {q \in RequestsIn(queue) : q \notin RequestsIn(queue')},
         reply' = Answered(told), overdue' \subseteq RequestsIn(queue'),
         running # NoJob => SameAsk(running)
  PROVE  Waiters' /\ QueuedOnce'
<1>1. RequestsIn(queue) \subseteq Requests
  BY DEF TypeOK, Queued, RequestsIn
<1>2. \A q \in told : reply[q] = "waiting"
  BY <1>1 DEF Waiters, Waiting
<1>3. \A q \in Requests : reply'[q] = IF q \in told THEN "answered" ELSE reply[q]
  BY <1>2, AnsweredIs
<1>4. RequestsIn(queue') \subseteq RequestsIn(queue)
  BY DEF RequestsIn
<1>5. running # NoJob => job'[running].req = job[running].req
                         /\ job'[running].key = job[running].key /\ job'[running].kind = job[running].kind
  BY DEF SameAsk
<1>6. \A q \in Requests : reply'[q] # "blocked" /\ (reply'[q] = "waiting" <=> Waiting(q)')
  <2> SUFFICES ASSUME NEW q \in Requests
               PROVE  reply'[q] # "blocked" /\ (reply'[q] = "waiting" <=> Waiting(q)')
    OBVIOUS
  <2>1. CASE q \in told
    BY <2>1, <1>3, <1>5 DEF Waiting, Waiters
  <2>2. CASE q \notin told
    <3>1. reply'[q] = reply[q]
      BY <2>2, <1>3
    <3>2. q \in RequestsIn(queue) <=> q \in RequestsIn(queue')
      BY <2>2, <1>4
    <3> QED BY <3>1, <3>2, <1>5 DEF Waiting, Waiters
  <2> QED BY <2>1, <2>2
<1>7. \A r, s \in queue' : r.req = s.req => r = s
  BY DEF Waiters
<1>8. running # NoJob => job'[running].req \notin RequestsIn(queue')
  BY <1>4, <1>5 DEF Waiters
<1>9. Waiters'
  BY <1>6, <1>7, <1>8 DEF Waiters
<1>10. QueuedOnce'
  BY <1>5 DEF QueuedOnce, Same
<1> QED BY <1>9, <1>10

\* A step that neither queues, answers nor runs a request keeps the waiters.
LEMMA StillWaiters ==
  ASSUME TypeOK, Waiters, QueuedOnce, UNCHANGED <<queue, overdue, reply, running>>,
         running # NoJob => SameAsk(running)
  PROVE  Waiters' /\ QueuedOnce'
<1>1. running # NoJob => job'[running].req = job[running].req
                         /\ job'[running].key = job[running].key /\ job'[running].kind = job[running].kind
  BY DEF SameAsk
<1> QED BY <1>1 DEF Waiters, QueuedOnce, Waiting, Same, RequestsIn

\* Awake, or about to be woken, the scheduler sleeps past nothing.
LEMMA AwakeFrame ==
  ASSUME loop'.pc \notin {"arming", "asleep"} \/ wake'
  PROVE  Sleep'
BY DEF Sleep

\* Asleep, it sleeps past nothing if nothing it sleeps on changes and no
\* backup gets its first record.
LEMMA SleepFrame ==
  ASSUME TypeOK, Sleep, UNCHANGED <<queue, wake, deleting, armed, plan, stuck>>,
         loop'.pc = loop.pc,
         \A k \in Backups : state'[k].has => state[k].has
  PROVE  Sleep'
BY DEF Sleep, Deleting, Blocked, Lapse

\* A step that leaves Run and the jobs' ends alone keeps what the records go
\* by.
LEMMA CutFrame ==
  ASSUME TypeOK, Cut, JobRuns, UNCHANGED <<running, stopping>>, loop'.pc = loop.pc,
         loop'.cut = loop.cut,
         \A j \in Slots : SameEnd(j) \/ (j # running /\ job'[j] = FreeJob)
  PROVE  Cut'
<1>1. ASSUME NEW j \in Slots, job'[j].ctx = "stopped" PROVE stopping
  BY <1>1, FreeJobIs DEF Cut, SameEnd
<1>2. running # NoJob => SameEnd(running)
  BY DEF TypeOK
<1>3. loop.pc \in {"grace", "judge", "record"} => running # NoJob
  BY DEF JobRuns
<1> QED BY <1>1, <1>2, <1>3 DEF Cut, Outcome, SameEnd

\* Nor does anything change of it while no job's outcome is looked at.
LEMMA CutIdle ==
  ASSUME Cut, UNCHANGED <<job, stopping>>, loop'.pc \notin {"grace", "judge", "record"}
  PROVE  Cut'
BY DEF Cut

\* A step that stamps nothing keeps the generations.
LEMMA GensFrame ==
  ASSUME Gens, UNCHANGED <<gen, forgotten, deleting, early>>,
         loop'.readGen = loop.readGen
  PROVE  Gens'
BY DEF Gens

\* A step that leaves the command and the disk alone keeps the deletes.
LEMMA DeletesFrame ==
  ASSUME Deletes, UNCHANGED <<cmd, disk>>
  PROVE  Deletes'
BY DEF Deletes, OnDisk, KeysOf

\* A step that begins no call and reads no plan leaves an app under removal
\* guarded.
LEMMA GuardedFrame ==
  ASSUME TypeOK, Deletes, Guarded, KeepsJobs, UNCHANGED <<cmd, early, deleting>>,
         \A j \in Slots : job[j].awaited => job'[j].awaited \/ Swept(j),
         loop'.pc = "refresh" => /\ loop'.pc = loop.pc /\ loop'.read = loop.read
                                 /\ loop'.unread = loop.unread /\ loop'.readGen = loop.readGen
  PROVE  Guarded'
<1> SUFFICES ASSUME cmd.pc \in {"wait", "removing"}, cmd.app \notin early
             PROVE  Guarded'
  BY DEF Guarded
<1>1. InFlight(cmd.app)' \subseteq InFlight(cmd.app)
  BY FreeJobIs DEF InFlight, KeepsJobs, SameCall, Swept, AppJob
<1>2. ASSUME NEW j \in InFlight(cmd.app)'
      PROVE  job'[j].awaited \/ job'[j].abandoned \/ (cmd.pc = "wait" /\ j \in cmd.waits)
  <2>1. j \in Slots /\ SameCall(j)
    BY <1>1, <1>2, FreeJobIs DEF InFlight, KeepsJobs, Swept
  <2> QED BY <2>1, <1>1, <1>2 DEF Guarded, SameCall, InFlight, Swept
<1>3. Deleting(cmd.app)'
  BY DEF Guarded, Deleting
<1>4. loop'.pc = "refresh" /\ deleting'[cmd.app].gen <= loop'.readGen => Seen(cmd.app)'
  BY DEF Guarded, Seen, Listed, KeysOf
<1> QED BY <1>2, <1>3, <1>4 DEF Guarded

\* A step that gives a forgotten backup no record, and reads no plan, keeps
\* the deleted apps forgotten.
LEMMA GoneFrame ==
  ASSUME Gone, UNCHANGED <<gone, disk, plan, forgotten>>,
         \A k \in Backups : plan[k] = "unlisted" /\ state[k] = NoState => state'[k] = NoState,
         loop'.pc = "refresh" => loop'.pc = loop.pc /\ loop'.read = loop.read /\ loop'.readGen = loop.readGen
  PROVE  Gone'
BY DEF Gone, KeysOf
-----------------------------------------------------------------------------
(* Time and stop                                                           *)

\* The scheduler starts with the invariant (New, load).
LEMMA InitHolds == Init => IInv
<1> SUFFICES ASSUME Init PROVE IInv
  OBVIOUS
<1>1. TypeOK
  <2>1. state \in [Backups -> States]
    <3>1. NoState \in States
      BY DEF NoState, States
    <3>2. [NoState EXCEPT !.has = TRUE, !.on = TRUE, !.tried = TRUE] \in States
      BY <3>1, StateIs
    <3> QED BY <3>1, <3>2, Zenon DEF Init
  <2>2. job \in [Slots -> Jobs]
    BY FreeJobIs DEF Init
  <2>3. deleting \in [Apps -> Tombs]
    BY TombIs DEF Init
  <2>4. loop \in Loops
    BY DEF Init, Loops, Listings, NoPlan
  <2>5. armed \in Timers /\ cmd \in Commands
    BY DEF Init, Timers, Commands
  <2>6. reply \in [Requests -> Replies]
    BY DEF Init, Replies
  <2> QED BY <2>1, <2>2, <2>3, <2>4, <2>5, <2>6 DEF Init, TypeOK, Listings, NoPlan
<1>2. Calls
  BY FreeJobIs DEF Init, Calls, CallHeld, AbandonedStuck, TakenCame, StuckIs, RunningOwn,
       JobRuns
<1>3. Gens /\ Deletes /\ Guarded /\ Gone /\ Sleep /\ QueuedOnce
  BY DEF Init, Gens, Deletes, Guarded, Gone, Sleep, QueuedOnce, NoTomb
<1>4. Waiters
  BY DEF Init, Waiters, Waiting, RequestsIn
<1>5. Cut
  BY FreeJobIs DEF Init, Cut
<1> QED BY <1>1, <1>2, <1>3, <1>4, <1>5 DEF IInv

\* A stuttering step.
LEMMA StutterKeeps == IInv /\ UNCHANGED vars => IInv'
<1> SUFFICES ASSUME IInv, UNCHANGED vars PROVE IInv'
  OBVIOUS
<1> USE DEF IInv, vars, memory, ends, bounds
<1>1. TypeOK'
  BY DEF TypeOK
<1>2. KeepsJobs /\ SamePhase
  BY StillJobs DEF SamePhase
<1>3. Calls' /\ Waiters' /\ QueuedOnce'
  BY <1>2, CallsFrame, StillWaiters DEF SameAsk
<1>4. Gens' /\ Deletes' /\ Gone'
  BY GensFrame, DeletesFrame, GoneFrame
<1>5. Guarded'
  BY <1>2, GuardedFrame
<1>6. Sleep'
  BY SleepFrame
<1>7. Cut'
  BY CutFrame DEF Calls, SameEnd
<1> QED BY <1>1, <1>3, <1>4, <1>5, <1>6, <1>7

\* A backup becomes due.
LEMMA BecomesDueKeeps == ASSUME NEW k \in Backups PROVE IInv /\ BecomesDue(k) => IInv'
<1> SUFFICES ASSUME IInv, BecomesDue(k) PROVE IInv'
  OBVIOUS
<1> USE DEF IInv, BecomesDue, ends, bounds
<1>a. /\ state' \in [Backups -> States]
      /\ \A l \in Backups : state'[l].has => state[l].has
      /\ \A l \in Backups : state[l] = NoState => state'[l] = NoState
  <2>1. state[k] \in States /\ [state[k] EXCEPT !.due = TRUE] \in States
        /\ [state[k] EXCEPT !.due = TRUE].has = state[k].has
    BY StateIs DEF TypeOK
  <2>2. state' = [state EXCEPT ![k] = [state[k] EXCEPT !.due = TRUE]]
    BY DEF TypeOK
  <2>3. NoState.has = FALSE
    BY DEF NoState
  <2> HIDE DEF IInv
  <2>4. state \in [Backups -> States]
    BY DEF IInv, TypeOK
  <2> QED BY <2>1, <2>2, <2>3, <2>4
<1>1. TypeOK'
  BY <1>a, Zenon DEF TypeOK
<1>2. KeepsJobs /\ SamePhase
  BY StillJobs DEF SamePhase
<1>3. Calls' /\ Waiters' /\ QueuedOnce'
  BY <1>2, CallsFrame, StillWaiters DEF SameAsk
<1>4. Gens' /\ Deletes' /\ Gone'
  BY <1>a, GensFrame, DeletesFrame, GoneFrame
<1>5. Guarded'
  BY <1>2, GuardedFrame
<1>6. Sleep'
  BY <1>a, SleepFrame
<1>7. Cut'
  BY CutFrame DEF Calls, SameEnd
<1> QED BY <1>1, <1>3, <1>4, <1>5, <1>6, <1>7

\* A queued restore has waited too long.
LEMMA WaitsTooLongKeeps == ASSUME NEW q \in Requests PROVE IInv /\ WaitsTooLong(q) => IInv'
<1> SUFFICES ASSUME IInv, WaitsTooLong(q) PROVE IInv'
  OBVIOUS
<1> USE DEF IInv, WaitsTooLong, ends, bounds
<1>1. TypeOK'
  BY Zenon DEF TypeOK
<1>2. KeepsJobs /\ SamePhase
  BY StillJobs DEF SamePhase
<1>3. Calls'
  BY <1>2, CallsFrame
<1>4. Waiters' /\ QueuedOnce'
  BY DEF Waiters, Waiting, RequestsIn, QueuedOnce, Same
<1>5. Gens' /\ Deletes' /\ Gone'
  BY GensFrame, DeletesFrame, GoneFrame
<1>6. Guarded'
  BY <1>2, GuardedFrame
<1>7. Sleep'
  BY SleepFrame
<1>8. Cut'
  BY CutFrame DEF Calls, SameEnd
<1> QED BY <1>1, <1>3, <1>4, <1>5, <1>6, <1>7, <1>8

\* A tombstone lapses: it unblocks its app, and the timer was set to it.
LEMMA TombLapsesKeeps == ASSUME NEW a \in Apps PROVE IInv /\ TombLapses(a) => IInv'
<1> SUFFICES ASSUME IInv, TombLapses(a) PROVE IInv'
  OBVIOUS
<1> USE DEF IInv, TombLapses, ends
<1>a. /\ deleting' \in [Apps -> Tombs]
      /\ \A b \in Apps : deleting'[b].gen = deleting[b].gen
      /\ \A b \in Apps : b # a => deleting'[b] = deleting[b]
      /\ deleting'[a].lapsed
  BY TombIs DEF TypeOK, Tombs
<1>b. lapses' \in Nat /\ early' \in SUBSET Apps
  BY DEF TypeOK
<1>1. TypeOK'
  BY <1>a, <1>b, Zenon DEF TypeOK
<1>2. KeepsJobs /\ SamePhase
  BY StillJobs DEF SamePhase
<1>3. Calls' /\ Waiters' /\ QueuedOnce'
  BY <1>2, CallsFrame, StillWaiters DEF SameAsk
<1>4. Gens'
  BY <1>a DEF Gens
<1>5. Deletes' /\ Gone'
  BY DeletesFrame, GoneFrame
<1>6. Guarded'
  <2> SUFFICES ASSUME cmd.pc \in {"wait", "removing"}, cmd.app \notin early'
               PROVE  Guarded'
    BY DEF Guarded
  <2>1. cmd.app \in Apps /\ deleting'[cmd.app] = deleting[cmd.app]
    BY <1>a DEF Deletes
  <2> QED BY <2>1 DEF Guarded, Deleting, Seen, Listed, KeysOf, InFlight, AppJob
<1>7. Sleep'
  <2> SUFFICES ASSUME loop.pc = "asleep", ~wake
               PROVE  Sleep'
    BY DEF Sleep
  <2>1. Lapse'
    BY <1>a DEF Sleep, Lapse
  <2>2. \A b \in Apps : Deleting(b)' => Deleting(b)
    BY <1>a DEF Deleting
  <2> QED BY <2>1, <2>2 DEF Sleep
<1>8. Cut'
  BY CutFrame DEF Calls, SameEnd
<1> QED BY <1>1, <1>3, <1>4, <1>5, <1>6, <1>7, <1>8

\* When contexts end nothing else changes of a job.
LEMMA ContextsFrame ==
  ASSUME IInv, job' \in [Slots -> Jobs],
         \A j \in Slots : \/ job'[j] = job[j]
                          \/ \E c \in {"deadline", "deleted", "stopped"} : job'[j] = [job[j] EXCEPT !.ctx = c]
  PROVE  /\ KeepsJobs
         /\ \A j \in Slots : SameCall(j) /\ job'[j].awaited = job[j].awaited /\ job'[j].outcome = job[j].outcome
                             /\ (job'[j].ctx = "live" => job[j].ctx = "live")
<1>1. \A j \in Slots : job[j] \in Jobs
  BY DEF IInv, TypeOK
<1>2. ASSUME NEW j \in Slots
      PROVE  SameCall(j) /\ job'[j].awaited = job[j].awaited /\ job'[j].outcome = job[j].outcome
             /\ (job'[j].ctx = "live" => job[j].ctx = "live")
  BY <1>1 DEF SameCall, Jobs
<1> QED BY <1>2 DEF KeepsJobs

\* The running job's limit passes.
LEMMA DeadlineKeeps == IInv /\ Deadline => IInv'
<1> SUFFICES ASSUME IInv, Deadline PROVE IInv'
  OBVIOUS
<1> USE DEF IInv, Deadline, memory, ends, bounds
<1>a. /\ job' \in [Slots -> Jobs]
      /\ job' = [job EXCEPT ![running] = [job[running] EXCEPT !.ctx = "deadline"]]
  BY JobIs DEF TypeOK
<1>1. TypeOK'
  BY <1>a, Zenon DEF TypeOK
<1>2. KeepsJobs /\ SamePhase /\ \A j \in Slots : SameCall(j) /\ job'[j].awaited = job[j].awaited
                             /\ job'[j].outcome = job[j].outcome
  BY <1>a, ContextsFrame DEF SamePhase, TypeOK
<1>3. Calls' /\ Waiters' /\ QueuedOnce'
  BY <1>2, CallsFrame, StillWaiters DEF TypeOK, SameCall, SameAsk
<1>4. Gens' /\ Deletes' /\ Gone'
  BY GensFrame, DeletesFrame, GoneFrame
<1>5. Guarded'
  BY <1>2, GuardedFrame
<1>6. Sleep'
  BY SleepFrame
<1>7. Cut'
  BY <1>a DEF Cut, TypeOK, Jobs, Outcome
<1> QED BY <1>1, <1>3, <1>4, <1>5, <1>6, <1>7

\* The agent stops, and with it every context but that of a job whose outcome
\* was taken.
LEMMA StopKeeps == IInv /\ Stop => IInv'
<1> SUFFICES ASSUME IInv, Stop PROVE IInv'
  OBVIOUS
<1> USE DEF IInv, Stop, memory, ends, bounds
<1>a. /\ job' \in [Slots -> Jobs]
      /\ \A j \in Slots : \/ job'[j] = job[j]
                          \/ job'[j] = [job[j] EXCEPT !.ctx = "stopped"] /\ job[j].ctx = "live" /\ ~job[j].taken
  BY JobIs DEF TypeOK
<1>1. TypeOK'
  BY <1>a, Zenon DEF TypeOK
<1>2. KeepsJobs /\ SamePhase /\ \A j \in Slots : SameCall(j) /\ job'[j].awaited = job[j].awaited
                             /\ job'[j].outcome = job[j].outcome
  BY <1>a, ContextsFrame DEF SamePhase
<1>3. Calls' /\ Waiters' /\ QueuedOnce'
  BY <1>2, CallsFrame, StillWaiters DEF TypeOK, SameCall, SameAsk
<1>4. Gens' /\ Deletes' /\ Gone'
  BY GensFrame, DeletesFrame, GoneFrame
<1>5. Guarded'
  BY <1>2, GuardedFrame
<1>6. Sleep'
  BY SleepFrame
<1>7. Cut'
  <2>1. loop.pc \in {"grace", "judge", "record"} => running \in Slots
    BY DEF Calls, JobRuns, TypeOK
  <2>2. loop.pc \in {"grace", "judge", "record"} => job'[running] = job[running]
    BY <2>1, <1>a DEF Cut
  <2> QED BY <2>2, <1>a DEF Cut, Outcome
<1> QED BY <1>1, <1>3, <1>4, <1>5, <1>6, <1>7
-----------------------------------------------------------------------------
(* Requests and the command goroutine                                      *)

\* Of two requests either both duplicate the other or none does.
LEMMA SameIsMutual ==
  ASSUME NEW k, NEW l, NEW c, NEW d, Same(k, c, l, d)
  PROVE  Same(l, d, k, c)
BY DEF Same

\* RunNow and Restore: a request that is refused hears so; one that is not
\* joins the queue and wakes the scheduler.
LEMMA AskKeeps ==
  ASSUME NEW q \in Requests, NEW k \in Backups, NEW kind \in {"manual", "restore"}
  PROVE  IInv /\ Ask(q, k, kind) => IInv'
<1> SUFFICES ASSUME IInv, Ask(q, k, kind) PROVE IInv'
  OBVIOUS
<1> USE DEF IInv, Ask, ends, bounds
<1> DEFINE n == [key |-> k, kind |-> kind, req |-> q, behind |-> RequestsIn(queue)]
<1>1. RequestsIn(queue) \subseteq Requests
  BY DEF TypeOK, Queued, RequestsIn
<1>2. n \in Queued /\ n.key = k /\ n.kind = kind /\ n.req = q
  BY <1>1 DEF Queued
<1> HIDE DEF n
<1>3. \/ /\ reply' = [reply EXCEPT ![q] = "answered"] /\ UNCHANGED <<queue, wake>>
      \/ /\ ~Refuses(k, kind)
         /\ reply' = [reply EXCEPT ![q] = "waiting"] /\ queue' = queue \cup {n} /\ wake' = TRUE
  BY DEF n
<1>4. KeepsJobs /\ SamePhase
  BY StillJobs DEF SamePhase
<1>5. Calls' /\ Gens' /\ Deletes' /\ Gone' /\ Guarded' /\ Cut'
  <2>1. Calls' /\ Guarded'
    BY <1>4, CallsFrame, GuardedFrame
  <2>2. Gens' /\ Deletes' /\ Gone'
    BY GensFrame, DeletesFrame, GoneFrame
  <2>3. Cut'
    BY CutFrame DEF Calls, SameEnd
  <2> QED BY <2>1, <2>2, <2>3
<1>6. Sleep'
  <2>1. CASE UNCHANGED <<queue, wake>>
    BY <2>1, SleepFrame
  <2>2. CASE wake' = TRUE
    BY <2>2, AwakeFrame
  <2> QED BY <1>3, <2>1, <2>2
<1>7. TypeOK'
  <2>1. reply' \in [Requests -> Replies]
    BY <1>3 DEF TypeOK, Replies
  <2>2. queue' \in SUBSET Queued /\ wake' \in BOOLEAN
    BY <1>2, <1>3, Zenon DEF TypeOK
  <2> QED BY <2>1, <2>2, Zenon DEF TypeOK
<1>8. ~Waiting(q)
  BY DEF Waiters
<1>9. Waiters' /\ QueuedOnce'
  <2>1. CASE reply' = [reply EXCEPT ![q] = "answered"] /\ UNCHANGED <<queue, wake>>
    <3>1. \A t \in Requests : Waiting(t)' <=> Waiting(t)
      BY <2>1 DEF Waiting, RequestsIn
    <3>2. \A t \in Requests : reply'[t] = IF t = q THEN "answered" ELSE reply[t]
      BY <2>1 DEF TypeOK
    <3>3. Waiters'
      BY <2>1, <3>1, <3>2, <1>8 DEF Waiters, RequestsIn
    <3> QED BY <2>1, <3>3 DEF QueuedOnce, Same
  <2>2. CASE ~Refuses(k, kind) /\ reply' = [reply EXCEPT ![q] = "waiting"] /\ queue' = queue \cup {n}
    <3>1. RequestsIn(queue') = RequestsIn(queue) \cup {q}
      BY <2>2, <1>2 DEF RequestsIn
    <3>2. \A t \in Requests : Waiting(t)' <=> Waiting(t) \/ t = q
      BY <3>1 DEF Waiting
    <3>3. \A t \in Requests : reply'[t] = IF t = q THEN "waiting" ELSE reply[t]
      BY <2>2 DEF TypeOK
    <3>4. \A t \in Requests : reply'[t] # "blocked" /\ (reply'[t] = "waiting" <=> Waiting(t)')
      BY <3>2, <3>3 DEF Waiters
    <3>5. \A r, s \in queue' : r.req = s.req => r = s
      <4>1. \A r \in queue : r.req # q
        BY <1>8 DEF Waiting, RequestsIn
      <4> QED BY <4>1, <2>2, <1>2 DEF Waiters
    <3>6. running # NoJob => job'[running].req \notin RequestsIn(queue')
      BY <3>1, <1>8 DEF Waiters, Waiting
    <3>7. Waiters'
      BY <3>1, <3>4, <3>5, <3>6 DEF Waiters
    <3>8. \A r \in queue : ~Same(k, kind, r.key, r.kind)
      BY <2>2 DEF Refuses, Duplicate, InQueue
    <3>9. \A r \in queue : ~Same(r.key, r.kind, k, kind)
      BY <3>8, SameIsMutual
    <3>10. running # NoJob => ~Same(k, kind, job[running].key, job[running].kind)
      BY <2>2 DEF Refuses, Duplicate
    <3>11. ASSUME NEW r \in queue', NEW s \in queue', Same(r.key, r.kind, s.key, s.kind)
           PROVE  s = r
      BY <3>8, <3>9, <3>11, <2>2, <1>2 DEF QueuedOnce
    <3>12. ASSUME NEW r \in queue', running # NoJob
           PROVE  ~Same(r.key, r.kind, job[running].key, job[running].kind)
      BY <3>10, <3>12, <2>2, <1>2 DEF QueuedOnce
    <3>13. QueuedOnce'
      BY <3>11, <3>12 DEF QueuedOnce, Same
    <3> QED BY <3>7, <3>13
  <2> QED BY <1>3, <2>1, <2>2
<1> QED BY <1>5, <1>6, <1>7, <1>9

\* A save's file work.
LEMMA SaveAppKeeps == ASSUME NEW a \in Apps PROVE IInv /\ SaveApp(a) => IInv'
<1> SUFFICES ASSUME IInv, SaveApp(a) PROVE IInv'
  OBVIOUS
<1> USE DEF IInv, SaveApp, Cmd, memory, ends
<1>1. PICK d \in [KeysOf(a) -> Listings] :
        disk' = [k \in Backups |-> IF k \in KeysOf(a) THEN d[k] ELSE disk[k]]
  OBVIOUS
<1>2. cmd' \in Commands /\ cmd'.pc = "saved" /\ cmd'.app = a
  <2>1. cmd \in Commands
    BY DEF TypeOK
  <2>2. cmd' = [cmd EXCEPT !.pc = "saved", !.app = a]
    OBVIOUS
  <2> HIDE DEF IInv, SaveApp
  <2>3. [cmd EXCEPT !.pc = "saved", !.app = a] \in Commands
    BY <2>1 DEF Commands
  <2>4. [cmd EXCEPT !.pc = "saved", !.app = a].pc = "saved" /\ [cmd EXCEPT !.pc = "saved", !.app = a].app = a
    BY <2>1 DEF Commands
  <2> QED BY <2>2, <2>3, <2>4, Zenon
<1>3. TypeOK'
  <2>1. disk' \in [Backups -> Listings]
    BY <1>1 DEF TypeOK, KeysOf
  <2>2. saves' \in Nat /\ gone' \subseteq Apps
    BY DEF TypeOK
  <2> QED BY <2>1, <2>2, <1>2, Zenon DEF TypeOK
<1>4. KeepsJobs /\ SamePhase
  BY StillJobs DEF SamePhase
<1>5. Calls' /\ Waiters' /\ QueuedOnce'
  BY <1>4, CallsFrame, StillWaiters DEF SameAsk
<1>6. Gens' /\ Sleep'
  BY GensFrame, SleepFrame DEF bounds
<1>7. Deletes' /\ Guarded'
  BY <1>2 DEF Deletes, Guarded
<1>8. Gone'
  BY <1>1 DEF Gone, KeysOf
<1>9. Cut'
  BY CutFrame DEF Calls, SameEnd
<1> QED BY <1>3, <1>5, <1>6, <1>7, <1>8, <1>9

\* Reload wakes the scheduler.
LEMMA ReloadKeeps == IInv /\ Reload => IInv'
<1> SUFFICES ASSUME IInv, Reload PROVE IInv'
  OBVIOUS
<1> USE DEF IInv, Reload, Cmd, Idle, ends, bounds
<1>1. cmd' \in Commands /\ cmd'.pc = "idle"
  BY DEF Commands
<1>2. TypeOK'
  BY <1>1, Zenon DEF TypeOK
<1>3. KeepsJobs /\ SamePhase
  BY StillJobs DEF SamePhase
<1>4. Calls' /\ Waiters' /\ QueuedOnce'
  BY <1>3, CallsFrame, StillWaiters DEF SameAsk
<1>5. Gens' /\ Sleep' /\ Gone'
  BY GensFrame, AwakeFrame, GoneFrame
<1>6. Deletes' /\ Guarded'
  BY <1>1 DEF Deletes, Guarded
<1>7. Cut'
  BY CutFrame DEF Calls, SameEnd
<1> QED BY <1>2, <1>4, <1>5, <1>6, <1>7

\* A delete begins.
LEMMA DeleteAppKeeps == ASSUME NEW a \in Apps PROVE IInv /\ DeleteApp(a) => IInv'
<1> SUFFICES ASSUME IInv, DeleteApp(a) PROVE IInv'
  OBVIOUS
<1> USE DEF IInv, DeleteApp, Cmd, memory, ends, bounds
<1>1. cmd' \in Commands /\ cmd'.pc = "forget" /\ cmd'.app = a
  <2>1. cmd \in Commands
    BY DEF TypeOK
  <2>2. cmd' = [cmd EXCEPT !.pc = "forget", !.app = a]
    OBVIOUS
  <2> HIDE DEF IInv, DeleteApp
  <2>3. [cmd EXCEPT !.pc = "forget", !.app = a] \in Commands
    BY <2>1 DEF Commands
  <2>4. [cmd EXCEPT !.pc = "forget", !.app = a].pc = "forget" /\ [cmd EXCEPT !.pc = "forget", !.app = a].app = a
    BY <2>1 DEF Commands
  <2> QED BY <2>2, <2>3, <2>4, Zenon
<1>2. TypeOK'
  <2>1. deletes' \in Nat
    BY DEF TypeOK
  <2> QED BY <2>1, <1>1, Zenon DEF TypeOK
<1>3. KeepsJobs /\ SamePhase
  BY StillJobs DEF SamePhase
<1>4. Calls' /\ Waiters' /\ QueuedOnce'
  BY <1>3, CallsFrame, StillWaiters DEF SameAsk
<1>5. Gens' /\ Sleep' /\ Gone'
  BY GensFrame, SleepFrame, GoneFrame
<1>6. Deletes' /\ Guarded'
  BY <1>1 DEF Deletes, Guarded, OnDisk, KeysOf
<1>7. Cut'
  BY CutFrame DEF Calls, SameEnd
<1> QED BY <1>2, <1>4, <1>5, <1>6, <1>7

\* Either of a delete's two Forgets.
Forgets == Forget("forget", "wait") \/ Forget("again", "wait again")

\* What both Forgets keep: all but the parts about apps under removal and
\* gone.
LEMMA ForgetKeeps ==
  ASSUME IInv, gone' \in SUBSET Apps, Forgets
  PROVE  /\ cmd.app \in Apps /\ cmd'.app = cmd.app /\ cmd'.waits = MustWait(cmd.app)
         /\ cmd'.pc = IF cmd.pc = "forget" THEN "wait" ELSE "wait again"
         /\ \A j \in Slots : SameCall(j) /\ job'[j].awaited = job[j].awaited
         /\ TypeOK' /\ QueuedOnce' /\ Calls' /\ Gens' /\ Deletes' /\ Sleep' /\ Waiters' /\ Cut'
<1> DEFINE a == cmd.app
           mine == {j \in {running} \ {NoJob} : AppJob(j) = a}
<1>a. /\ TypeOK /\ QueuedOnce /\ Calls /\ JobRuns /\ Gens /\ Deletes /\ Guarded /\ Gone /\ Sleep
      /\ Waiters /\ Cut
  BY DEF IInv, Calls
<1>b. /\ cmd.pc \in {"forget", "again"}
      /\ queue' = Kept(a) /\ overdue' = overdue \ Told(a)
      /\ reply' = Answered(Told(a))
      /\ plan' = [k \in Backups |-> IF AppOf[k] = a THEN "unlisted" ELSE plan[k]]
      /\ gen' = gen + 1
      /\ forgotten' = [forgotten EXCEPT ![a] = gen + 1]
      /\ deleting' = [deleting EXCEPT ![a] = [gen |-> gen + 1, lapsed |-> FALSE]]
      /\ state' = [k \in Backups |-> IF AppOf[k] = a THEN NoState ELSE state[k]]
      /\ dirty' = TRUE /\ wake' = TRUE
      /\ early' = early \ {a}
      /\ UNCHANGED <<disk, running, stuck, loop, armed, stopping, stopped, deletes, saves, lapses, unreads>>
  BY DEF Forgets, Forget, Cmd, ends, bounds
<1>c. job' = [j \in Slots |-> IF j \in mine /\ job[j].ctx = "live"
                             THEN [job[j] EXCEPT !.ctx = "deleted"] ELSE job[j]]
  BY DEF Forgets, Forget
<1>d. \/ cmd.pc = "forget" /\ cmd' = [cmd EXCEPT !.pc = "wait", !.waits = MustWait(a)]
      \/ cmd.pc = "again" /\ cmd' = [cmd EXCEPT !.pc = "wait again", !.waits = MustWait(a)]
  BY DEF Forgets, Forget, Cmd
<1> HIDE DEF mine
<1>1. a \in Apps
  BY <1>a, <1>b DEF Deletes
<1>2. MustWait(a) \subseteq Slots
  BY <1>a DEF MustWait, TypeOK
<1>3. /\ cmd' \in Commands /\ cmd'.app = a /\ cmd'.waits = MustWait(a)
      /\ cmd'.pc = IF cmd.pc = "forget" THEN "wait" ELSE "wait again"
  <2>1. cmd \in Commands
    BY <1>a DEF TypeOK
  <2>2. ASSUME NEW q \in {"wait", "wait again"}, cmd' = [cmd EXCEPT !.pc = q, !.waits = MustWait(a)]
        PROVE  cmd' \in Commands /\ cmd'.pc = q /\ cmd'.app = a /\ cmd'.waits = MustWait(a)
    <3> DEFINE w == MustWait(a)
    <3>1. w \in SUBSET Slots
      BY <1>2
    <3> HIDE DEF w
    <3>2. [cmd EXCEPT !.pc = q, !.waits = w] \in Commands
      BY <2>1, <3>1 DEF Commands
    <3>3. /\ [cmd EXCEPT !.pc = q, !.waits = w].pc = q
          /\ [cmd EXCEPT !.pc = q, !.waits = w].app = cmd.app
          /\ [cmd EXCEPT !.pc = q, !.waits = w].waits = w
      BY <2>1 DEF Commands
    <3> QED BY <2>2, <3>2, <3>3, Zenon DEF w
  <2> QED BY <1>d, <2>2
<1>4. /\ job' \in [Slots -> Jobs]
      /\ \A j \in Slots : \/ job'[j] = job[j]
                          \/ job'[j] = [job[j] EXCEPT !.ctx = "deleted"] /\ job[j].ctx = "live"
  BY <1>a, <1>c, JobIs DEF TypeOK
<1>5. KeepsJobs /\ SamePhase /\ \A j \in Slots : SameCall(j) /\ job'[j].awaited = job[j].awaited
                             /\ job'[j].outcome = job[j].outcome
  BY <1>b, <1>4, ContextsFrame DEF SamePhase
<1>6. /\ deleting' \in [Apps -> Tombs]
      /\ \A b \in Apps : deleting'[b] = IF b = a THEN [gen |-> gen + 1, lapsed |-> FALSE] ELSE deleting[b]
      /\ forgotten' \in [Apps -> Nat]
      /\ \A b \in Apps : forgotten'[b] = IF b = a THEN gen + 1 ELSE forgotten[b]
  <2>1. gen + 1 \in Nat
    BY <1>a DEF TypeOK
  <2>2. [gen |-> gen + 1, lapsed |-> FALSE] \in Tombs
    BY <2>1 DEF Tombs
  <2> QED BY <2>1, <2>2, <1>1, <1>a, <1>b DEF TypeOK
<1>7. RequestsIn(queue) \subseteq Requests
  BY <1>a DEF TypeOK, Queued, RequestsIn
<1>8. queue' = {r \in queue : AppOf[r.key] # a} /\ queue' \subseteq queue
  BY <1>b DEF Kept
<1>9. Told(a) = {t \in RequestsIn(queue) : t \notin RequestsIn(queue')}
  <2>1. \A r, s \in queue : r.req = s.req => r = s
    BY <1>a DEF Waiters
  <2>2. \A t : t \in RequestsIn(queue) <=> \E r \in queue : r.req = t
    BY DEF RequestsIn
  <2>3. \A t : t \in RequestsIn(queue') <=> \E r \in queue : r.req = t /\ AppOf[r.key] # a
    BY <1>8 DEF RequestsIn
  <2>4. \A t : t \in Told(a) <=> \E r \in queue : r.req = t /\ AppOf[r.key] = a
    BY DEF Told, RequestsIn
  <2>5. \A t : t \in Told(a) <=> t \in RequestsIn(queue) /\ t \notin RequestsIn(queue')
    BY <2>1, <2>2, <2>3, <2>4
  <2> QED BY <2>5, Zenon
<1>10. Waiters' /\ QueuedOnce'
  <2>1. overdue' \subseteq RequestsIn(queue')
    BY <1>a, <1>b, <1>9 DEF Waiters
  <2>2. running # NoJob => SameAsk(running)
    BY <1>a, <1>5 DEF TypeOK, SameCall, SameAsk
  <2> QED BY <1>a, <1>b, <1>8, <1>9, <2>1, <2>2, WaitersFrame
<1>11. TypeOK'
  <2>1. reply' \in [Requests -> Replies]
    BY <1>a, <1>b, AnsweredType
  <2>2. queue' \in SUBSET Queued /\ overdue' \in SUBSET Requests
    BY <1>a, <1>b, <1>8 DEF TypeOK
  <2>3. plan' \in [Backups -> Listings]
    BY <1>a, <1>b DEF TypeOK, Listings
  <2>4. state' \in [Backups -> States]
    BY <1>a, <1>b, StateIs DEF TypeOK
  <2>5. gen' \in Nat /\ early' \in SUBSET Apps
    BY <1>a, <1>b DEF TypeOK
  <2> QED BY <1>a, <1>b, <1>3, <1>4, <1>6, <2>1, <2>2, <2>3, <2>4, <2>5, Zenon DEF TypeOK
<1>12. Calls'
  BY <1>a, <1>b, <1>5, CallsFrame
<1>13. Gens'
  <2>1. gen \in Nat /\ gen' = gen + 1 /\ loop.readGen \in Nat
    BY <1>a, <1>b DEF TypeOK, Loops
  <2>2. ASSUME NEW b \in Apps
        PROVE  deleting'[b].gen <= gen' /\ forgotten'[b] <= gen'
    <3>1. deleting[b].gen \in Nat /\ forgotten[b] \in Nat /\ deleting[b].gen <= gen /\ forgotten[b] <= gen
      BY <1>a DEF TypeOK, Tombs, Gens
    <3> QED BY <3>1, <2>1, <1>6
  <2>3. \A b \in Apps : deleting'[b].lapsed => b \in early'
    BY <1>a, <1>b, <1>6 DEF Gens
  <2>4. loop'.readGen <= gen'
    BY <1>a, <1>b, <2>1 DEF Gens
  <2> QED BY <2>2, <2>3, <2>4 DEF Gens
<1>14. Sleep'
  BY <1>b, AwakeFrame
<1>15. Deletes'
  BY <1>a, <1>b, <1>1, <1>3 DEF Deletes, OnDisk, KeysOf
<1>16. Cut'
  <2>1. loop.pc \in {"grace", "judge", "record"} => running \in Slots
    BY <1>a DEF JobRuns, TypeOK
  <2>2. \A j \in Slots : job'[j].ctx = job[j].ctx \/ job'[j].ctx = "deleted"
    <3>1. \A j \in Slots : job[j] \in Jobs
      BY <1>a DEF TypeOK
    <3> QED BY <3>1, <1>4 DEF Jobs
  <2>3. \A j \in Slots : job'[j].ctx = "stopped" => stopping'
    BY <1>a, <1>b, <2>2 DEF Cut
  <2>4. loop.pc \in {"grace", "judge", "record"} /\ ~job'[running].taken => job'[running].ctx # "live"
    BY <1>a, <2>1, <2>2, <1>5 DEF Cut, SameCall
  <2>5. loop.pc = "record" /\ ~loop.cut => Outcome(running)' = "ok" \/ job'[running].ctx # "stopped"
    BY <1>a, <1>b, <2>1, <2>2, <1>5 DEF Cut, SameCall, Outcome
  <2> QED BY <1>b, <2>3, <2>4, <2>5 DEF Cut
<1> QED BY <1>1, <1>3, <1>5, <1>10, <1>11, <1>12, <1>13, <1>14, <1>15, <1>16

\* The first Forget blocks the app behind a tombstone newer than any read, and
\* waits for its running job.
LEMMA ForgetFirstKeeps == IInv /\ ForgetFirst => IInv'
<1> SUFFICES ASSUME IInv, ForgetFirst PROVE IInv'
  OBVIOUS
<1>1. /\ cmd.app \in Apps /\ cmd'.pc = "wait" /\ cmd'.app = cmd.app
      /\ cmd'.waits = MustWait(cmd.app)
      /\ \A j \in Slots : SameCall(j) /\ job'[j].awaited = job[j].awaited
      /\ TypeOK' /\ QueuedOnce' /\ Calls' /\ Gens' /\ Deletes' /\ Sleep' /\ Waiters' /\ Cut'
  <2>1. gone' \in SUBSET Apps /\ Forgets /\ cmd.pc = "forget"
    BY DEF IInv, ForgetFirst, TypeOK, Forgets, Forget, Cmd
  <2> QED BY <2>1, ForgetKeeps
<1> USE DEF IInv, ForgetFirst, Forget
<1> DEFINE a == cmd.app
<1>2. deleting'[a] = [gen |-> gen + 1, lapsed |-> FALSE]
  BY <1>1 DEF TypeOK
<1>3. gen \in Nat /\ loop.readGen \in Nat
  BY DEF TypeOK, Loops
<1>4. ASSUME NEW j \in InFlight(a)'
      PROVE  job'[j].awaited \/ job'[j].abandoned \/ j \in MustWait(a)
  <2>1. j \in Slots /\ job[j].call = "called" /\ AppJob(j) = a
    BY <1>1, <1>4 DEF InFlight, SameCall, AppJob
  <2>2. j = running \/ stuck[a] = j
    BY <2>1 DEF Calls, CallHeld
  <2>3. CASE stuck[a] = j
    <3>1. stuck[a] # NoJob
      BY <2>1, <2>3, SlotsApart
    <3> QED BY <2>1, <2>3, <3>1, <1>1 DEF Calls, StuckIs, SameCall
  <2>4. CASE j = running
    BY <2>1, <2>4, <1>1, SlotsApart DEF MustWait
  <2> QED BY <2>2, <2>3, <2>4
<1>5. Guarded'
  <2>1. Deleting(a)'
    BY <1>1, <1>2, <1>3 DEF Deleting
  <2>2. ~(deleting'[a].gen <= loop'.readGen)
    BY <1>2, <1>3 DEF Gens
  <2> QED BY <1>1, <1>4, <2>1, <2>2 DEF Guarded
<1>6. Gone'
  <2> SUFFICES ASSUME NEW b \in gone, NEW k \in KeysOf(b)
               PROVE  /\ disk'[k] = "unlisted" /\ plan'[k] = "unlisted" /\ state'[k] = NoState
                      /\ loop'.pc = "refresh" /\ forgotten'[b] <= loop'.readGen => loop'.read[k] = "unlisted"
    BY DEF Gone, KeysOf
  <2>1. k \in Backups /\ b \in Apps
    BY DEF KeysOf, TypeOK
  <2>2. forgotten'[b] = IF b = a THEN gen + 1 ELSE forgotten[b]
    BY <1>1, <2>1 DEF TypeOK
  <2> QED BY <1>3, <2>1, <2>2 DEF Gone, Gens
<1> QED BY <1>1, <1>5, <1>6

\* The second Forget leaves a deleted app nothing.
LEMMA ForgetSecondKeeps == IInv /\ ForgetSecond => IInv'
<1> SUFFICES ASSUME IInv, ForgetSecond PROVE IInv'
  OBVIOUS
<1>1. /\ cmd.app \in Apps /\ cmd'.pc = "wait again"
      /\ TypeOK' /\ QueuedOnce' /\ Calls' /\ Gens' /\ Deletes' /\ Sleep' /\ Waiters' /\ Cut'
  <2>1. gone' \in SUBSET Apps /\ Forgets /\ cmd.pc = "again"
    BY DEF IInv, ForgetSecond, TypeOK, Forgets, Forget, Cmd, Deletes
  <2> QED BY <2>1, ForgetKeeps
<1> USE DEF IInv, ForgetSecond, Forget
<1> DEFINE a == cmd.app
<1>2. gen \in Nat /\ loop.readGen \in Nat
  BY DEF TypeOK, Loops
<1>3. Guarded'
  BY <1>1 DEF Guarded
<1>4. Gone'
  <2> SUFFICES ASSUME NEW b \in gone', NEW k \in KeysOf(b)
               PROVE  /\ disk'[k] = "unlisted" /\ plan'[k] = "unlisted" /\ state'[k] = NoState
                      /\ loop'.pc = "refresh" /\ forgotten'[b] <= loop'.readGen => loop'.read[k] = "unlisted"
    BY DEF Gone, KeysOf
  <2>1. k \in Backups /\ AppOf[k] = b /\ b \in Apps
    BY <1>1 DEF KeysOf, TypeOK
  <2>2. forgotten'[b] = IF b = a THEN gen + 1 ELSE forgotten[b]
    BY <1>1, <2>1 DEF TypeOK
  <2>3. CASE b \in gone /\ b # a
    BY <1>2, <2>1, <2>2, <2>3 DEF Gone
  <2>4. CASE b = a
    <3>1. disk[k] = "unlisted"
      BY <2>4 DEF Gone, OnDisk
    <3> QED BY <1>2, <2>1, <2>2, <2>4, <3>1 DEF Gens
  <2> QED BY <2>3, <2>4
<1> QED BY <1>1, <1>3, <1>4

\* The wait ends: the jobs waited for have exited or are out of grace.
LEMMA ForgetWaitsKeeps == IInv /\ ForgetWaits => IInv'
<1> SUFFICES ASSUME IInv, ForgetWaits PROVE IInv'
  OBVIOUS
<1> DEFINE late == [j \in Slots |-> IF j \in cmd.waits THEN [job[j] EXCEPT !.awaited = TRUE] ELSE job[j]]
<1>a. job \in [Slots -> Jobs] /\ TypeOK
  BY DEF IInv, TypeOK
<1>1. late \in [Slots -> Jobs]
  BY <1>a, JobIs
<1>2. \A j \in Slots : late[j].call = job[j].call
  BY <1>a DEF Jobs
<1>3. \/ job' = Collected(job, running, {}) /\ \A j \in cmd.waits : job[j].call = "exited"
      \/ job' = Collected(late, running, {})
  BY DEF ForgetWaits
<1>4. ASSUME NEW j \in Slots
      PROVE  \/ Swept(j)
             \/ job'[j] = job[j] /\ (job[j].call = "called" => j \notin cmd.waits)
             \/ job'[j] = [job[j] EXCEPT !.awaited = TRUE]
  <2>1. CASE job' = Collected(job, running, {}) /\ \A i \in cmd.waits : job[i].call = "exited"
    <3>1. job'[j] = job[j] \/ (job[j].call = "exited" /\ j # running /\ job'[j] = FreeJob)
      BY <2>1, <1>a, CollectedIs
    <3> QED BY <2>1, <3>1 DEF Swept
  <2>2. CASE job' = Collected(late, running, {})
    <3>1. late[j] = IF j \in cmd.waits THEN [job[j] EXCEPT !.awaited = TRUE] ELSE job[j]
      OBVIOUS
    <3> HIDE DEF late
    <3>2. job'[j] = late[j] \/ (late[j].call = "exited" /\ j # running /\ job'[j] = FreeJob)
      BY <2>2, <1>1, CollectedIs
    <3> QED BY <3>1, <3>2, <1>2 DEF Swept
  <2> QED BY <1>3, <2>1, <2>2
<1> HIDE DEF late
<1>5. job' \in [Slots -> Jobs]
  BY <1>1, <1>3, <1>a, CollectedIs
<1>6. ASSUME NEW j \in Slots
      PROVE  Swept(j) \/ (SameCall(j) /\ job'[j].ctx = job[j].ctx /\ job'[j].outcome = job[j].outcome
                          /\ (job[j].awaited => job'[j].awaited)
                          /\ (job[j].call = "called" /\ j \in cmd.waits => job'[j].awaited))
  <2>1. job[j] \in Jobs
    BY <1>a
  <2> QED BY <2>1, <1>4 DEF SameCall, Jobs
<1> USE DEF IInv, ForgetWaits, Cmd, memory, ends, bounds
<1>7. KeepsJobs /\ SamePhase
  BY <1>6 DEF KeepsJobs, SamePhase
<1>8. cmd' \in Commands /\ cmd'.pc \in {"removing", "idle"}
      /\ (cmd'.pc = "removing" => cmd.pc = "wait" /\ cmd'.app = cmd.app)
  <2>1. cmd \in Commands /\ {} \in SUBSET Slots
    BY DEF TypeOK
  <2>2. CASE cmd.pc = "wait"
    BY <2>1, <2>2, CommandIs DEF Commands
  <2>3. CASE cmd.pc # "wait"
    BY <2>1, <2>3, CommandIs DEF Idle
  <2> QED BY <2>2, <2>3
<1>9. TypeOK'
  BY <1>5, <1>8, Zenon DEF TypeOK
<1>10. Calls'
  BY <1>7, CallsFrame
<1>11. running # NoJob => SameAsk(running)
  BY <1>6 DEF Swept, TypeOK, SameCall, SameAsk
<1>12. Waiters' /\ QueuedOnce' /\ Gens' /\ Sleep' /\ Gone'
  <2>1. Waiters' /\ QueuedOnce'
    BY <1>11, StillWaiters
  <2> QED BY <2>1, GensFrame, SleepFrame, GoneFrame
<1>13. Deletes'
  BY <1>8 DEF Deletes, OnDisk, KeysOf
<1>14. Guarded'
  <2> SUFFICES ASSUME cmd.pc = "wait", cmd'.app = cmd.app, cmd'.pc = "removing", cmd.app \notin early
               PROVE  Guarded'
    <3>1. early' = early
      OBVIOUS
    <3> HIDE DEF IInv, ForgetWaits
    <3> QED BY <1>8, <3>1 DEF Guarded
  <2>1. ASSUME NEW j \in InFlight(cmd.app)'
        PROVE  job'[j].awaited \/ job'[j].abandoned
    <3>1. j \in Slots /\ ~Swept(j)
      BY <2>1, FreeJobIs DEF InFlight, Swept
    <3>2. j \in InFlight(cmd.app)
      BY <2>1, <3>1, <1>6 DEF InFlight, SameCall, AppJob
    <3> QED BY <3>1, <3>2, <1>6 DEF Guarded, SameCall, InFlight
  <2>2. Deleting(cmd.app)'
    BY DEF Guarded, Deleting
  <2>3. loop'.pc = "refresh" /\ deleting'[cmd.app].gen <= loop'.readGen => Seen(cmd.app)'
    BY DEF Guarded, Seen, Listed, KeysOf
  <2> QED BY <2>1, <2>2, <2>3 DEF Guarded
<1>15. Cut'
  <2>1. ASSUME NEW j \in Slots, job'[j].ctx = "stopped" PROVE stopping
    BY <2>1, <1>6, FreeJobIs DEF Cut, Swept
  <2>2. loop.pc \in {"grace", "judge", "record"} => running \in Slots /\ ~Swept(running)
    BY DEF Calls, JobRuns, TypeOK, Swept
  <2> QED BY <2>1, <2>2, <1>6 DEF Cut, Outcome, SameCall
<1> QED BY <1>9, <1>10, <1>12, <1>13, <1>14, <1>15

\* The orchestrator removes the app, or fails to.
LEMMA RemoveAppKeeps == IInv /\ RemoveApp => IInv'
<1> SUFFICES ASSUME IInv, RemoveApp PROVE IInv'
  OBVIOUS
<1> USE DEF IInv, RemoveApp, Cmd, memory, ends, bounds
<1>1. cmd' \in Commands /\ cmd'.pc = "again" /\ cmd'.app = cmd.app
  <2>1. cmd \in Commands
    BY DEF TypeOK
  <2> QED BY <2>1, CommandIs, Zenon
<1>2. disk' \in [Backups -> Listings] /\ \A k \in Backups : disk'[k] \in {disk[k], "unlisted"}
  BY DEF TypeOK, Listings
<1>3. TypeOK'
  BY <1>1, <1>2, Zenon DEF TypeOK
<1>4. KeepsJobs /\ SamePhase
  BY StillJobs DEF SamePhase
<1>5. Calls' /\ Waiters' /\ QueuedOnce'
  BY <1>4, CallsFrame, StillWaiters DEF SameAsk
<1>6. Gens' /\ Sleep'
  BY GensFrame, SleepFrame
<1>7. Deletes' /\ Guarded'
  BY <1>1 DEF Deletes, Guarded
<1>8. Gone'
  BY <1>2 DEF Gone, KeysOf
<1>9. Cut'
  BY CutFrame DEF Calls, SameEnd
<1> QED BY <1>3, <1>5, <1>6, <1>7, <1>8, <1>9
-----------------------------------------------------------------------------
(* Run, up to a job's start and its sleep                                  *)

\* Run moves on.
LEMMA TurnIs ==
  ASSUME TypeOK, NEW p \in {"top", "reading", "refresh", "choose", "arming", "asleep",
                            "executing", "grace", "judge", "record", "ending", "ended"}, Goto(p)
  PROVE  loop' \in Loops /\ loop'.pc = p /\ loop'.readGen = loop.readGen /\ loop'.cut = loop.cut
<1>1. loop \in Loops
  BY DEF TypeOK
<1> QED BY <1>1 DEF Goto, Loops

\* refresh stamps the read it is about to make.
LEMMA RefreshBeginsKeeps == IInv /\ RefreshBegins => IInv'
<1> SUFFICES ASSUME IInv, RefreshBegins PROVE IInv'
  OBVIOUS
<1>1. /\ loop' \in Loops /\ loop'.pc \in {"ending", "reading", "choose"}
      /\ loop'.readGen \in {loop.readGen, gen}
      /\ dirty' \in BOOLEAN
  <2>1. loop \in Loops /\ gen \in Nat /\ dirty \in BOOLEAN
    BY DEF IInv, TypeOK
  <2>2. CASE stopping
    BY <2>1, <2>2 DEF RefreshBegins, Goto, Loops
  <2>3. CASE ~stopping
    <3> DEFINE p == IF dirty THEN "reading" ELSE "choose"
    <3>1. loop' = [loop EXCEPT !.pc = p, !.readGen = gen] /\ dirty' = FALSE
      BY <2>3 DEF RefreshBegins
    <3>2. p \in {"reading", "choose"}
      OBVIOUS
    <3> HIDE DEF p
    <3>3. [loop EXCEPT !.pc = p, !.readGen = gen] \in Loops
      BY <2>1, <3>2 DEF Loops
    <3>4. [loop EXCEPT !.pc = p, !.readGen = gen].pc = p /\ [loop EXCEPT !.pc = p, !.readGen = gen].readGen = gen
      BY <2>1 DEF Loops
    <3> HIDE DEF RefreshBegins
    <3>5. loop' \in Loops /\ loop'.pc = p /\ loop'.readGen = gen
      BY <3>1, <3>3, <3>4, Zenon
    <3> QED BY <3>1, <3>2, <3>5
  <2> QED BY <2>2, <2>3
<1>2. loop.pc = "top" /\ UNCHANGED <<disk, plan, state, wake, queue, overdue, running, stuck, gen, forgotten, deleting,
                 job, armed, cmd, reply, stopping, stopped, deletes, saves, lapses, unreads, gone, early>>
  BY DEF RefreshBegins, Loop, ends, bounds
<1> USE DEF IInv
<1>3. TypeOK'
  BY <1>1, <1>2, Zenon DEF TypeOK
<1>4. KeepsJobs /\ SamePhase
  BY <1>1, <1>2, StillJobs DEF SamePhase, Working
<1>5. Calls' /\ Waiters' /\ QueuedOnce'
  BY <1>2, <1>4, CallsFrame, StillWaiters DEF SameAsk
<1>6. Gens'
  BY <1>1, <1>2 DEF Gens, TypeOK
<1>7. Deletes' /\ Gone' /\ Guarded'
  BY <1>1, <1>2, <1>4, DeletesFrame, GoneFrame, GuardedFrame
<1>8. Sleep' /\ Cut'
  BY <1>1, <1>2, AwakeFrame, CutIdle
<1> QED BY <1>3, <1>5, <1>6, <1>7, <1>8

\* The plan read sees the disk as it is, but for the apps it leaves out: an
\* app under removal is in it or left out, a deleted one is not in it.
LEMMA PlanReadKeeps == IInv /\ PlanRead => IInv'
<1> SUFFICES ASSUME IInv, PlanRead PROVE IInv'
  OBVIOUS
<1>1. PICK out \in SUBSET {a \in Apps : OnDisk(a)} :
        loop' = [loop EXCEPT !.pc = "refresh", !.unread = out,
                  !.read = [k \in Backups |-> IF AppOf[k] \in out THEN "unlisted" ELSE disk[k]]]
  BY DEF PlanRead
<1> DEFINE listed == [k \in Backups |-> IF AppOf[k] \in out THEN "unlisted" ELSE disk[k]]
<1>2. /\ loop' \in Loops /\ loop'.pc = "refresh" /\ loop'.read = listed /\ loop'.unread = out
      /\ loop'.readGen = loop.readGen
  <2>1. loop \in Loops /\ listed \in [Backups -> Listings] /\ out \in SUBSET Apps
    BY DEF IInv, TypeOK, Listings
  <2>2. loop' = [loop EXCEPT !.pc = "refresh", !.unread = out, !.read = listed]
    BY <1>1
  <2> HIDE DEF listed
  <2>3. [loop EXCEPT !.pc = "refresh", !.unread = out, !.read = listed] \in Loops
    BY <2>1 DEF Loops
  <2>4. /\ [loop EXCEPT !.pc = "refresh", !.unread = out, !.read = listed].pc = "refresh"
        /\ [loop EXCEPT !.pc = "refresh", !.unread = out, !.read = listed].read = listed
        /\ [loop EXCEPT !.pc = "refresh", !.unread = out, !.read = listed].unread = out
        /\ [loop EXCEPT !.pc = "refresh", !.unread = out, !.read = listed].readGen = loop.readGen
    BY <2>1 DEF Loops
  <2> QED BY <2>2, <2>3, <2>4, Zenon
<1>3. /\ loop.pc = "reading"
      /\ UNCHANGED <<disk, memory, job, armed, cmd, reply, ends, deletes, saves, lapses, gone, early>>
      /\ unreads' \in Nat
  BY DEF IInv, TypeOK, PlanRead, Loop
<1>4. /\ \A k \in Backups : loop'.read[k] = (IF AppOf[k] \in out THEN "unlisted" ELSE disk[k])
      /\ loop'.unread = out
  BY <1>2
<1> HIDE DEF listed
<1> USE DEF IInv, memory, ends
<1>5. TypeOK'
  BY <1>2, <1>3, Zenon DEF TypeOK
<1>6. KeepsJobs /\ SamePhase
  BY <1>2, <1>3, StillJobs DEF SamePhase, Working
<1>7. Calls' /\ Waiters' /\ QueuedOnce'
  BY <1>3, <1>6, CallsFrame, StillWaiters DEF SameAsk
<1>8. Gens' /\ Deletes'
  BY <1>2, <1>3, GensFrame, DeletesFrame
<1>9. Guarded'
  <2> SUFFICES ASSUME cmd.pc \in {"wait", "removing"}, cmd.app \notin early
               PROVE  Guarded'
    BY <1>3 DEF Guarded
  <2>1. Seen(cmd.app)'
    <3>1. PICK k \in KeysOf(cmd.app) : disk[k] # "unlisted"
      BY DEF Deletes, OnDisk
    <3>2. loop'.read[k] # "unlisted" \/ cmd.app \in loop'.unread
      BY <1>4, <3>1 DEF KeysOf
    <3> QED BY <1>3, <3>1, <3>2 DEF Seen, Listed, KeysOf
  <2> QED BY <1>3, <2>1 DEF Guarded, Deleting, InFlight, AppJob
<1>10. Gone'
  <2>1. \A k \in Backups : disk[k] = "unlisted" => loop'.read[k] = "unlisted"
    BY <1>4
  <2> QED BY <1>3, <2>1 DEF Gone, KeysOf
<1>11. Sleep' /\ Cut'
  BY <1>2, <1>3, AwakeFrame, CutIdle
<1> QED BY <1>5, <1>7, <1>8, <1>9, <1>10, <1>11

\* refresh applies the read: it unblocks no app under removal but one that the
\* read left out, and believes nothing a Forget overtook.
LEMMA RefreshKeeps == IInv /\ Refresh => IInv'
<1> SUFFICES ASSUME IInv, Refresh PROVE IInv'
  OBVIOUS
<1> DEFINE new == [k \in Backups |-> IF Believed(k) THEN loop.read[k] ELSE "unlisted"]
<1>1. loop' \in Loops /\ loop'.pc = "choose" /\ loop'.readGen = 0
  BY DEF Refresh, Loops, Listings, NoPlan
<1>2. /\ loop.pc = "refresh"
      /\ deleting' = [a \in Apps |-> IF deleting[a].gen # 0 /\ BlockEnds(a) THEN NoTomb ELSE deleting[a]]
      /\ forgotten' = [a \in Apps |-> IF forgotten[a] <= loop.readGen THEN 0 ELSE forgotten[a]]
      /\ plan' = new
      /\ early' = early \cup {a \in loop.unread : deleting[a].gen # 0 /\ BlockEnds(a)}
      /\ UNCHANGED <<disk, dirty, wake, queue, overdue, running, stuck, gen,
                 job, armed, cmd, reply, stopping, stopped, deletes, saves, lapses, unreads, gone>>
  BY DEF Refresh, Loop, ends, bounds
<1>3. /\ state' \in [Backups -> States]
      /\ \A k \in Backups : new[k] = "unlisted" => state'[k] = state[k]
  <2>1. state' = [k \in Backups |->
       IF new[k] = "on" /\ ~state[k].on
       THEN [state[k] EXCEPT !.has = TRUE, !.on = TRUE, !.due = @ /\ state[k].tried]
       ELSE IF new[k] = "off" THEN [state[k] EXCEPT !.on = FALSE]
       ELSE state[k]]
    BY DEF Refresh
  <2>2. ASSUME NEW k \in Backups
        PROVE  /\ [state[k] EXCEPT !.has = TRUE, !.on = TRUE, !.due = @ /\ state[k].tried] \in States
               /\ [state[k] EXCEPT !.on = FALSE] \in States
               /\ state[k] \in States
    <3> DEFINE r == state[k]
    <3>1. r \in States
      BY DEF IInv, TypeOK
    <3> HIDE DEF r
    <3>2. [r EXCEPT !.has = TRUE, !.on = TRUE, !.due = @ /\ r.tried] \in States /\ [r EXCEPT !.on = FALSE] \in States
      BY <3>1 DEF States
    <3> QED BY <3>1, <3>2, Zenon DEF r
  <2> HIDE DEF new
  <2>3. state' \in [Backups -> States]
    BY <2>1, <2>2, Zenon
  <2>4. ASSUME NEW k \in Backups, new[k] = "unlisted"
        PROVE  state'[k] = state[k]
    BY <2>1, <2>4, Zenon
  <2> QED BY <2>3, <2>4
<1>4. new \in [Backups -> Listings]
  BY DEF IInv, TypeOK, Loops, Listings
<1>5. /\ deleting' \in [Apps -> Tombs] /\ forgotten' \in [Apps -> Nat]
      /\ \A a \in Apps : deleting'[a] = NoTomb \/ deleting'[a] = deleting[a]
      /\ \A a \in Apps : forgotten'[a] = 0 \/ forgotten'[a] = forgotten[a]
  BY <1>2, TombIs DEF IInv, TypeOK
<1>6. NoTomb.gen = 0 /\ NoTomb.lapsed = FALSE
  BY DEF NoTomb
<1>e. early' \in SUBSET Apps /\ early \subseteq early'
  <2>1. loop.unread \in SUBSET Apps /\ early \in SUBSET Apps
    BY DEF IInv, TypeOK, Loops
  <2> QED BY <1>2, <2>1
<1> USE DEF IInv
<1>7. TypeOK'
  BY <1>1, <1>2, <1>3, <1>4, <1>5, <1>e, Zenon DEF TypeOK
<1>8. KeepsJobs /\ SamePhase
  BY <1>1, <1>2, StillJobs DEF SamePhase, Working
<1>9. Calls' /\ Waiters' /\ QueuedOnce'
  BY <1>2, <1>8, CallsFrame, StillWaiters DEF SameAsk
<1>10. Gens'
  <2>1. gen \in Nat
    BY DEF TypeOK
  <2> QED BY <1>1, <1>2, <1>5, <1>6, <1>e, <2>1 DEF Gens
<1>11. Deletes'
  BY <1>2, DeletesFrame
<1>12. Guarded'
  <2> SUFFICES ASSUME cmd.pc \in {"wait", "removing"}, cmd.app \notin early'
               PROVE  Guarded'
    BY <1>2 DEF Guarded
  <2>1. cmd.app \in Apps /\ cmd.app \notin early
    BY <1>e DEF Deletes
  <2>2. deleting'[cmd.app] = deleting[cmd.app]
    <3>1. Deleting(cmd.app) /\ (deleting[cmd.app].gen <= loop.readGen => Seen(cmd.app))
      BY <1>2, <2>1 DEF Guarded
    <3>2. ~(deleting[cmd.app].gen # 0 /\ BlockEnds(cmd.app))
      BY <1>2, <3>1 DEF BlockEnds, Deleting, Seen
    <3> QED BY <1>2, <2>1, <3>2
  <2> QED BY <1>1, <1>2, <2>1, <2>2 DEF Guarded, Deleting, InFlight, AppJob
<1>13. Gone'
  BY <1>1, <1>2, <1>3 DEF Gone, KeysOf, Believed
<1>14. Sleep' /\ Cut'
  BY <1>1, <1>2, AwakeFrame, CutIdle
<1> QED BY <1>7, <1>9, <1>10, <1>11, <1>12, <1>13, <1>14

\* A job starts for an app that is not blocked.
Starts(j, k, kind, q) ==
  /\ loop.pc = "choose" /\ Goto("executing")
  /\ job[j].call = "free" /\ ~Blocked(AppOf[k])
  /\ job' = [job EXCEPT ![j] = [FreeJob EXCEPT !.key = k, !.kind = kind, !.req = q, !.call = "called",
                                                 !.ctx = IF stopping THEN "stopped" ELSE "live"]]
  /\ running' = j
  /\ UNCHANGED <<stuck, deleting, cmd, early, stopping>>

\* The job that starts is its app's only one under way, and the app is not
\* being removed.
LEMMA StartKeeps ==
  ASSUME IInv, NEW j \in Slots, NEW k \in Backups, NEW kind \in Kinds,
         NEW q \in Requests \cup {NoRequest}, Starts(j, k, kind, q)
  PROVE  /\ running = NoJob /\ job' \in [Slots -> Jobs]
         /\ job'[j].key = k /\ job'[j].kind = kind /\ job'[j].req = q
         /\ Calls' /\ Guarded' /\ Cut'
<1> DEFINE c == IF stopping THEN "stopped" ELSE "live"
           b == [FreeJob EXCEPT !.key = k, !.kind = kind, !.req = q, !.call = "called", !.ctx = c]
<1>1. c \in {"live", "stopped"} /\ (c = "stopped" => stopping)
  OBVIOUS
<1>2. job' = [job EXCEPT ![j] = b]
  BY DEF Starts
<1> HIDE DEF c
<1>3. /\ b \in Jobs
      /\ b.key = k /\ b.kind = kind /\ b.req = q /\ b.call = "called" /\ b.ctx = c
      /\ ~b.taken /\ ~b.abandoned
  <2>1. FreeJob \in Jobs /\ ~FreeJob.taken /\ ~FreeJob.abandoned
    BY FreeJobIs
  <2>2. b \in Jobs
    BY <1>1, <2>1 DEF Jobs
  <2>3. /\ b.key = k /\ b.kind = kind /\ b.req = q /\ b.call = "called" /\ b.ctx = c
        /\ b.taken = FreeJob.taken /\ b.abandoned = FreeJob.abandoned
    BY <2>1 DEF Jobs
  <2> QED BY <2>1, <2>2, <2>3
<1> HIDE DEF b
<1>4. /\ loop.pc = "choose" /\ job[j].call = "free" /\ ~Blocked(AppOf[k]) /\ running' = j
      /\ UNCHANGED <<stuck, deleting, cmd, early, stopping>> /\ Goto("executing")
  BY DEF Starts
<1>5. TypeOK /\ Calls /\ Guarded /\ Cut /\ j # NoJob
  BY SlotsApart DEF IInv
<1>6. loop'.pc = "executing"
  BY <1>4, <1>5, TurnIs
<1>7. running = NoJob
  BY <1>4, <1>5 DEF Calls, JobRuns
<1>8. job' \in [Slots -> Jobs] /\ job'[j] = b /\ \A i \in Slots : i # j => job'[i] = job[i]
  BY <1>2, <1>3, <1>5 DEF TypeOK
<1>9. \A a \in Apps : stuck[a] # j
  BY <1>4, <1>5 DEF Calls, StuckIs
<1>10. stuck[AppOf[k]] = NoJob /\ ~Deleting(AppOf[k])
  BY <1>4 DEF Blocked
<1>11. Calls'
  <2>1. CallHeld'
    BY <1>3, <1>4, <1>5, <1>7, <1>8, SlotsApart DEF Calls, CallHeld, AppJob
  <2>2. AbandonedStuck'
    BY <1>3, <1>4, <1>5, <1>8 DEF Calls, AbandonedStuck, AppJob
  <2>3. TakenCame'
    BY <1>3, <1>5, <1>8 DEF Calls, TakenCame
  <2>4. StuckIs'
    <3> SUFFICES ASSUME NEW a \in Apps, stuck[a] # NoJob
                 PROVE  /\ job'[stuck[a]].call \in {"called", "returned"} /\ AppJob(stuck[a])' = a
                        /\ job'[stuck[a]].abandoned
      BY <1>4 DEF StuckIs
    <3>1. stuck[a] \in Slots /\ job'[stuck[a]] = job[stuck[a]]
      BY <1>5, <1>8, <1>9 DEF TypeOK
    <3> QED BY <3>1, <1>4, <1>5 DEF Calls, StuckIs, AppJob
  <2>5. RunningOwn'
    BY <1>3, <1>4, <1>6, <1>8, <1>10 DEF RunningOwn, AppJob
  <2>6. JobRuns'
    BY <1>4, <1>5, <1>6 DEF JobRuns
  <2> QED BY <2>1, <2>2, <2>3, <2>4, <2>5, <2>6 DEF Calls
<1>12. Guarded'
  <2> SUFFICES ASSUME cmd.pc \in {"wait", "removing"}, cmd.app \notin early
               PROVE  Guarded'
    BY <1>4 DEF Guarded
  <2>1. Deleting(cmd.app)
    BY <1>5 DEF Guarded
  <2>2. cmd.app # AppOf[k]
    BY <2>1, <1>10
  <2>3. ASSUME NEW i \in InFlight(cmd.app)'
        PROVE  job'[i] = job[i] /\ i \in InFlight(cmd.app)
    <3>1. i # j
      BY <2>2, <2>3, <1>3, <1>4, <1>8 DEF InFlight, AppJob
    <3> QED BY <3>1, <2>3, <1>4, <1>8 DEF InFlight, AppJob
  <2> QED BY <2>1, <2>3, <1>4, <1>5, <1>6 DEF Guarded, Deleting
<1>13. Cut'
  BY <1>1, <1>3, <1>4, <1>5, <1>6, <1>8 DEF Cut
<1> QED BY <1>3, <1>7, <1>8, <1>11, <1>12, <1>13
\* Requests leave the queue, all answered but the one to run.
LEMMA ServedKeeps ==
  ASSUME TypeOK, Waiters, QueuedOnce, running = NoJob, queue' \subseteq queue,
         overdue' = {}, NEW told,
         told \subseteq RequestsIn(queue), reply' = Answered(told),
         \A q \in RequestsIn(queue) : q \in told <=> ~Waiting(q)',
         \A q \in Requests : Waiting(q)' => q \in RequestsIn(queue),
         running' # NoJob =>
           /\ job'[running'].req \notin RequestsIn(queue')
           /\ \A s \in queue' : ~Same(s.key, s.kind, job'[running'].key, job'[running'].kind)
  PROVE  Waiters' /\ QueuedOnce'
<1>1. RequestsIn(queue) \subseteq Requests
  BY DEF TypeOK, Queued, RequestsIn
<1>2. \A q \in Requests : reply[q] # "blocked" /\ (reply[q] = "waiting" <=> q \in RequestsIn(queue))
  BY DEF Waiters, Waiting
<1>3. \A q \in Requests : reply'[q] = IF q \in told THEN "answered" ELSE reply[q]
  BY <1>2, AnsweredIs
<1>4. \A q \in Requests : reply'[q] # "blocked" /\ (reply'[q] = "waiting" <=> Waiting(q)')
  BY <1>2, <1>3
<1>5. \A r, s \in queue' : r.req = s.req => r = s
  BY DEF Waiters
<1>6. QueuedOnce'
  BY DEF QueuedOnce, Same
<1>7. {} \subseteq RequestsIn(queue')
  OBVIOUS
<1> QED BY <1>4, <1>5, <1>6, <1>7 DEF Waiters

\* next runs a request or a backup that is due, and answers those it passes
\* over; with nothing to run it goes on to sleep with an empty queue.
LEMMA ChooseKeeps == IInv /\ Choose => IInv'
<1> SUFFICES ASSUME IInv, Choose PROVE IInv'
  OBVIOUS
<1>1. /\ loop.pc = "choose" /\ overdue' = {}
      /\ UNCHANGED <<disk, plan, state, dirty, wake, stuck, gen, forgotten, deleting,
                 armed, cmd, stopping, stopped, deletes, saves, lapses, unreads, gone, early>>
  BY DEF Choose, Loop, ends, bounds
<1>2. /\ TypeOK /\ QueuedOnce /\ Calls /\ JobRuns /\ Gens /\ Deletes /\ Guarded /\ Gone /\ Sleep
      /\ Waiters /\ Cut
  BY DEF IInv, Calls
<1>3. running = NoJob
  BY <1>1, <1>2 DEF JobRuns
<1>4. ASSUME queue' \subseteq queue, NEW told, reply' = Answered(told), NEW p \in {"executing", "arming"}, Goto(p),
             p = "arming" => queue' = {},
             job' \in [Slots -> Jobs], running' \in Slots \cup {NoJob}, Calls', Guarded', Cut',
             Waiters', QueuedOnce'
      PROVE  IInv'
  <2>1. loop' \in Loops /\ loop'.pc = p /\ loop'.readGen = loop.readGen
    BY <1>2, <1>4, TurnIs
  <2>2. reply' \in [Requests -> Replies]
    BY <1>2, <1>4, AnsweredType
  <2>3. queue' \in SUBSET Queued /\ overdue' \in SUBSET Requests
    BY <1>1, <1>2, <1>4 DEF TypeOK
  <2>4. TypeOK'
    BY <1>1, <1>2, <1>4, <2>1, <2>2, <2>3, Zenon DEF TypeOK
  <2>5. p # "refresh"
    BY <1>4
  <2>6. Gens' /\ Deletes' /\ Gone'
    BY <1>1, <1>2, <2>1, <2>5, GensFrame, DeletesFrame, GoneFrame
  <2>7. Sleep'
    BY <1>4, <2>1 DEF Sleep
  <2> QED BY <1>4, <2>4, <2>6, <2>7, Zenon DEF IInv
<1>5. Timely \subseteq queue /\ \A r \in queue : r \in Timely <=> r.req \notin overdue
  BY DEF Timely
<1>6. \A r, s \in queue : r.req = s.req => r = s
  BY <1>2 DEF Waiters
<1>7. overdue \subseteq RequestsIn(queue)
  BY <1>2 DEF Waiters
<1>8. \A t : t \in RequestsIn(queue) <=> \E r \in queue : r.req = t
  BY DEF RequestsIn
<1>9. CASE \E r \in Startable :
          /\ Before(r) \cap Startable = {}
          /\ StartJob(r.key, r.kind, r.req)
          /\ reply' = Answered(overdue \cup RequestsIn(Before(r)))
          /\ queue' = Timely \ (Before(r) \cup {r})
          /\ Goto("executing")
  <2>1. PICK r \in Startable :
          /\ Before(r) \cap Startable = {}
          /\ StartJob(r.key, r.kind, r.req)
          /\ reply' = Answered(overdue \cup RequestsIn(Before(r)))
          /\ queue' = Timely \ (Before(r) \cup {r})
          /\ Goto("executing")
    BY <1>9
  <2>2. r \in Timely /\ ~Blocked(AppOf[r.key]) /\ r \notin Before(r) /\ Before(r) \subseteq Timely
    BY <2>1 DEF Startable, Before
  <2>3. r \in queue /\ r.key \in Backups /\ r.kind \in Kinds /\ r.req \in Requests
    BY <1>2, <1>5, <2>2 DEF TypeOK, Queued, Kinds
  <2>4. PICK j \in Slots :
          /\ job[j].call = "free"
          /\ job' = [job EXCEPT ![j] = [FreeJob EXCEPT !.key = r.key, !.kind = r.kind, !.req = r.req, !.call = "called",
                                                 !.ctx = IF stopping THEN "stopped" ELSE "live"]]
          /\ running' = j
    BY <2>1 DEF StartJob
  <2>5. Starts(j, r.key, r.kind, r.req)
    BY <1>1, <2>1, <2>2, <2>4 DEF Starts
  <2>6. /\ job' \in [Slots -> Jobs]
        /\ job'[j].key = r.key /\ job'[j].kind = r.kind /\ job'[j].req = r.req
        /\ Calls' /\ Guarded' /\ Cut'
    BY <2>3, <2>5, StartKeeps
  <2> DEFINE told == overdue \cup RequestsIn(Before(r))
  <2>7. \A t : t \in RequestsIn(Before(r)) <=> \E s \in Before(r) : s.req = t
    BY DEF RequestsIn
  <2>8. queue' \subseteq queue /\ \A s \in queue' : s.req # r.req
    BY <1>5, <1>6, <2>1, <2>3
  <2>9. \A t : t \in RequestsIn(queue') <=> \E s \in queue' : s.req = t
    BY DEF RequestsIn
  <2>10. \A t : Waiting(t)' <=> t \in RequestsIn(queue') \/ t = r.req
    BY <2>4, <2>6, SlotsApart DEF Waiting
  <2>11. told \subseteq RequestsIn(queue)
    BY <1>5, <1>7, <1>8, <2>2, <2>7
  <2>12. ASSUME NEW t \in RequestsIn(queue)
         PROVE  t \in told <=> ~Waiting(t)'
    <3>1. PICK s \in queue : s.req = t
      BY <1>8, <2>12
    <3>2. t \in RequestsIn(queue') <=> s \in queue'
      BY <1>6, <2>8, <2>9, <3>1
    <3>3. t \in RequestsIn(Before(r)) <=> s \in Before(r)
      BY <1>5, <1>6, <2>2, <2>7, <3>1
    <3>4. t = r.req <=> s = r
      BY <1>6, <2>3, <3>1
    <3>5. t \in overdue <=> s \notin Timely
      BY <1>5, <3>1
    <3> QED BY <2>1, <2>2, <2>10, <3>2, <3>3, <3>4, <3>5
  <2>13. \A q \in Requests : Waiting(q)' => q \in RequestsIn(queue)
    BY <1>8, <2>3, <2>8, <2>9, <2>10
  <2>14. \A s \in queue' : ~Same(s.key, s.kind, r.key, r.kind)
    BY <1>2, <2>1, <2>3, <2>8 DEF QueuedOnce
  <2>15. /\ job'[running'].req \notin RequestsIn(queue')
         /\ \A s \in queue' : ~Same(s.key, s.kind, job'[running'].key, job'[running'].kind)
    BY <2>4, <2>6, <2>8, <2>9, <2>14
  <2>16. reply' = Answered(told)
    BY <2>1
  <2> HIDE DEF told
  <2>17. Waiters' /\ QueuedOnce'
    BY <1>1, <1>2, <1>3, <2>8, <2>11, <2>12, <2>13, <2>15, <2>16, ServedKeeps
  <2>18. Goto("executing") /\ running' \in Slots \cup {NoJob}
    BY <2>1, <2>4
  <2> QED BY <1>4, <2>6, <2>8, <2>16, <2>17, <2>18, Zenon
<1>10. CASE /\ Startable = {}
            /\ reply' = Answered(overdue \cup RequestsIn(Timely))
            /\ queue' = {}
            /\ \/ \E k \in Backups : Due(k) /\ StartJob(k, "scheduled", NoRequest) /\ Goto("executing")
               \/ /\ \A k \in Backups : ~Due(k)
                  /\ Goto("arming")
                  /\ UNCHANGED <<job, running>>
  <2> DEFINE told == overdue \cup RequestsIn(Timely)
  <2>1. told = RequestsIn(queue)
    <3>1. \A t : t \in RequestsIn(Timely) <=> \E s \in Timely : s.req = t
      BY DEF RequestsIn
    <3>2. \A t : t \in told <=> t \in RequestsIn(queue)
      BY <1>5, <1>7, <1>8, <3>1
    <3> QED BY <3>2, Zenon
  <2>2. reply' = Answered(told) /\ queue' = {} /\ queue' \subseteq queue
    BY <1>10
  <2> HIDE DEF told
  <2>3. RequestsIn(queue') = {}
    BY <2>2 DEF RequestsIn
  <2>4. RequestsIn(queue) \subseteq Requests
    BY <1>2 DEF TypeOK, Queued, RequestsIn
  <2>5. ASSUME running' # NoJob => job'[running'].req = NoRequest
        PROVE  Waiters' /\ QueuedOnce'
    <3>1. \A q \in Requests : ~Waiting(q)'
      BY <2>3, <2>5, SchedulerAssumption DEF Waiting
    <3>2. running' # NoJob =>
           /\ job'[running'].req \notin RequestsIn(queue')
           /\ \A s \in queue' : ~Same(s.key, s.kind, job'[running'].key, job'[running'].kind)
      BY <2>2, <2>3
    <3> QED BY <1>1, <1>2, <1>3, <2>1, <2>2, <2>4, <3>1, <3>2, ServedKeeps
  <2>6. CASE \E k \in Backups : Due(k) /\ StartJob(k, "scheduled", NoRequest) /\ Goto("executing")
    <3>1. PICK k \in Backups : Due(k) /\ StartJob(k, "scheduled", NoRequest) /\ Goto("executing")
      BY <2>6
    <3> DEFINE kind == "scheduled"
    <3>2. PICK j \in Slots :
          /\ job[j].call = "free"
          /\ job' = [job EXCEPT ![j] = [FreeJob EXCEPT !.key = k, !.kind = kind, !.req = NoRequest, !.call = "called",
                                                 !.ctx = IF stopping THEN "stopped" ELSE "live"]]
          /\ running' = j
      BY <3>1 DEF StartJob
    <3>3. kind \in Kinds
      BY DEF Kinds
    <3>4. Goto("executing") /\ ~Blocked(AppOf[k])
      BY <3>1 DEF Due
    <3> HIDE DEF kind
    <3>5. Starts(j, k, kind, NoRequest)
      BY <1>1, <3>2, <3>4 DEF Starts
    <3>6. job' \in [Slots -> Jobs] /\ job'[j].req = NoRequest /\ Calls' /\ Guarded' /\ Cut'
      BY <3>3, <3>5, StartKeeps
    <3>7. Waiters' /\ QueuedOnce'
      BY <2>5, <3>2, <3>6
    <3>8. running' \in Slots \cup {NoJob}
      BY <3>2
    <3> QED BY <1>4, <2>2, <3>4, <3>6, <3>7, <3>8, Zenon
  <2>7. CASE Goto("arming") /\ UNCHANGED <<job, running>>
    <3>1. loop'.pc = "arming"
      BY <1>2, <2>7, TurnIs
    <3>2. KeepsJobs /\ SamePhase
      BY <1>1, <2>7, <3>1, StillJobs DEF SamePhase, Working
    <3>3. Calls' /\ Guarded' /\ Cut'
      BY <1>1, <1>2, <2>7, <3>1, <3>2, CallsFrame, GuardedFrame, CutIdle
    <3>4. Waiters' /\ QueuedOnce'
      BY <1>3, <2>5, <2>7
    <3>5. job' \in [Slots -> Jobs] /\ running' \in Slots \cup {NoJob}
      BY <1>2, <2>7 DEF TypeOK
    <3> QED BY <1>4, <2>2, <2>7, <3>3, <3>4, <3>5, Zenon
  <2> QED BY <1>10, <2>6, <2>7
<1> QED BY <1>9, <1>10 DEF Choose

\* untilDue sets the timer to every tombstone and every backup that may run.
LEMMA ArmKeeps == IInv /\ Arm => IInv'
<1> SUFFICES ASSUME IInv, Arm PROVE IInv'
  OBVIOUS
<1>1. /\ loop.pc = "arming"
      /\ deleting' = [a \in Apps |-> IF deleting[a].lapsed THEN NoTomb ELSE deleting[a]]
      /\ armed' = [keys |-> {k \in Backups : plan[k] = "on" /\ ~Blocked(AppOf[k]) /\ state[k].has},
                   tombs |-> {a \in Apps : Deleting(a)}]
      /\ UNCHANGED <<disk, plan, state, dirty, wake, queue, overdue, running, stuck, gen, forgotten,
                 job, cmd, reply, stopping, stopped, deletes, saves, lapses, unreads, gone, early>>
  BY DEF Arm, Loop, TimerTombs, ends, bounds
<1> USE DEF IInv
<1>2. loop' \in Loops /\ loop'.pc = "asleep" /\ loop'.readGen = loop.readGen
  BY TurnIs DEF Arm
<1>3. /\ deleting' \in [Apps -> Tombs]
      /\ \A a \in Apps : deleting'[a] = IF deleting[a].lapsed THEN NoTomb ELSE deleting[a]
  BY <1>1, TombIs DEF TypeOK
<1>4. NoTomb.gen = 0 /\ NoTomb.lapsed = FALSE
  BY DEF NoTomb
<1>5. \A a \in Apps : Deleting(a)' <=> Deleting(a)
  BY <1>3, <1>4 DEF Deleting
<1>6. TypeOK'
  <2>1. armed' \in Timers
    BY <1>1 DEF Timers
  <2> QED BY <1>1, <1>2, <1>3, <2>1, Zenon DEF TypeOK
<1>7. KeepsJobs /\ SamePhase
  BY <1>1, <1>2, StillJobs DEF SamePhase, Working
<1>8. Calls' /\ Waiters' /\ QueuedOnce'
  BY <1>1, <1>7, CallsFrame, StillWaiters DEF SameAsk
<1>9. Gens'
  <2>1. gen \in Nat
    BY DEF TypeOK
  <2> QED BY <1>1, <1>2, <1>3, <1>4, <2>1 DEF Gens
<1>10. Deletes' /\ Gone'
  BY <1>1, <1>2, DeletesFrame, GoneFrame
<1>11. Guarded'
  BY <1>1, <1>2, <1>5 DEF Guarded, Deletes, InFlight, AppJob
<1>12. Sleep'
  <2>1. queue' # {} => wake'
    BY <1>1 DEF Sleep
  <2>2. \A a \in Apps : Deleting(a)' => a \in armed'.tombs
    BY <1>1, <1>5
  <2>3. ASSUME NEW k \in Backups, plan'[k] = "on", state'[k].has
        PROVE  k \in armed'.keys \/ Blocked(AppOf[k])'
    <3>1. AppOf[k] \in Apps
      BY SchedulerAssumption
    <3>2. Blocked(AppOf[k])' <=> Blocked(AppOf[k])
      BY <1>1, <1>5, <3>1 DEF Blocked
    <3> QED BY <1>1, <2>3, <3>2
  <2> QED BY <2>1, <2>2, <2>3 DEF Sleep
<1>13. Cut'
  BY <1>1, <1>2, CutIdle
<1> QED BY <1>6, <1>8, <1>9, <1>10, <1>11, <1>12, <1>13

\* Run wakes up.
LEMMA WakesUpKeeps == IInv /\ WakesUp => IInv'
<1> SUFFICES ASSUME IInv, WakesUp PROVE IInv'
  OBVIOUS
<1>1. /\ loop.pc = "asleep" /\ armed' = [keys |-> {}, tombs |-> {}]
      /\ wake' = FALSE \/ wake' = wake
      /\ UNCHANGED <<disk, plan, state, dirty, queue, overdue, running, stuck, gen, forgotten, deleting,
                 job, cmd, reply, stopping, stopped, deletes, saves, lapses, unreads, gone, early>>
  BY DEF WakesUp, Loop, ends, bounds
<1> USE DEF IInv
<1>2. loop' \in Loops /\ loop'.pc = "top" /\ loop'.readGen = loop.readGen
  BY TurnIs DEF WakesUp
<1>3. TypeOK'
  <2>1. armed' \in Timers
    BY <1>1 DEF Timers
  <2>2. wake' \in BOOLEAN
    BY <1>1 DEF TypeOK
  <2> QED BY <1>1, <1>2, <2>1, <2>2, Zenon DEF TypeOK
<1>4. KeepsJobs /\ SamePhase
  BY <1>1, <1>2, StillJobs DEF SamePhase, Working
<1>5. Calls' /\ Waiters' /\ QueuedOnce'
  BY <1>1, <1>4, CallsFrame, StillWaiters DEF SameAsk
<1>6. Gens' /\ Deletes' /\ Gone' /\ Guarded'
  BY <1>1, <1>2, <1>4, GensFrame, DeletesFrame, GoneFrame, GuardedFrame
<1>7. Sleep' /\ Cut'
  BY <1>1, <1>2, AwakeFrame, CutIdle
<1> QED BY <1>3, <1>5, <1>6, <1>7
-----------------------------------------------------------------------------
(* The engine call's goroutine and execute                                 *)

\* The engine call returns; what it returns after its job was abandoned is
\* looked at by nobody.
LEMMA EngineReturnsKeeps == ASSUME NEW j \in Slots PROVE IInv /\ EngineReturns(j) => IInv'
<1> SUFFICES ASSUME IInv, EngineReturns(j) PROVE IInv'
  OBVIOUS
<1>1. PICK o \in {"ok", "failed", "refused"} :
        job' = [job EXCEPT ![j].call = "returned", ![j].outcome = o]
  BY DEF EngineReturns
<1>2. /\ job[j].call = "called"
      /\ UNCHANGED <<disk, plan, state, dirty, wake, queue, overdue, running, stuck, gen, forgotten,
                 deleting, loop, armed, cmd, reply, stopping, stopped, deletes, saves, lapses, unreads, gone, early>>
  BY DEF EngineReturns, memory, ends, bounds
<1>3. /\ TypeOK /\ QueuedOnce /\ Calls /\ JobRuns /\ Gens /\ Deletes /\ Guarded /\ Gone /\ Sleep
      /\ Waiters /\ Cut
  BY DEF IInv, Calls
<1>4. /\ job' \in [Slots -> Jobs]
      /\ \A i \in Slots : i # j => job'[i] = job[i]
      /\ job'[j].call = "returned" /\ SameAsk(j) /\ job'[j].taken = job[j].taken
      /\ job'[j].abandoned = job[j].abandoned /\ job'[j].ctx = job[j].ctx
      /\ job'[j].awaited = job[j].awaited
  <2> DEFINE b == job[j]
  <2>1. b \in Jobs /\ job \in [Slots -> Jobs]
    BY <1>3 DEF TypeOK
  <2>2. job' = [job EXCEPT ![j] = [b EXCEPT !.call = "returned", !.outcome = o]]
    BY <1>1, <2>1
  <2> HIDE DEF b
  <2>3. /\ [b EXCEPT !.call = "returned", !.outcome = o] \in Jobs
        /\ [b EXCEPT !.call = "returned", !.outcome = o].call = "returned"
        /\ [b EXCEPT !.call = "returned", !.outcome = o].key = b.key
        /\ [b EXCEPT !.call = "returned", !.outcome = o].kind = b.kind
        /\ [b EXCEPT !.call = "returned", !.outcome = o].req = b.req
        /\ [b EXCEPT !.call = "returned", !.outcome = o].taken = b.taken
        /\ [b EXCEPT !.call = "returned", !.outcome = o].abandoned = b.abandoned
        /\ [b EXCEPT !.call = "returned", !.outcome = o].ctx = b.ctx
        /\ [b EXCEPT !.call = "returned", !.outcome = o].awaited = b.awaited
    BY <2>1 DEF Jobs
  <2> DEFINE n == [b EXCEPT !.call = "returned", !.outcome = o]
  <2>4. n \in Jobs /\ job' = [job EXCEPT ![j] = n]
    BY <2>2, <2>3
  <2>5. /\ n.call = "returned" /\ n.key = b.key /\ n.kind = b.kind /\ n.req = b.req /\ n.taken = b.taken
        /\ n.abandoned = b.abandoned /\ n.ctx = b.ctx /\ n.awaited = b.awaited
    BY <2>3
  <2> HIDE DEF n
  <2>6. job' \in [Slots -> Jobs] /\ job'[j] = n /\ \A i \in Slots : i # j => job'[i] = job[i]
    BY <2>1, <2>4
  <2> QED BY <2>5, <2>6 DEF b, SameAsk
<1>5. TypeOK'
  BY <1>2, <1>3, <1>4, Zenon DEF TypeOK
<1>6. Calls'
  <2> USE <1>2, <1>3, <1>4 DEF Calls, SameAsk, AppJob
  <2>1. CallHeld'
    <3>1. ~job[j].taken
      BY DEF TakenCame
    <3> QED BY <3>1 DEF CallHeld, TakenCame
  <2>2. AbandonedStuck'
    BY DEF AbandonedStuck
  <2>3. TakenCame'
    BY DEF TakenCame
  <2>4. StuckIs'
    <3> SUFFICES ASSUME NEW a \in Apps, stuck[a] # NoJob
                 PROVE  /\ job'[stuck[a]].call \in {"called", "returned"} /\ AppJob(stuck[a])' = a
                        /\ job'[stuck[a]].abandoned
      BY DEF StuckIs
    <3>1. stuck[a] \in Slots
      BY DEF TypeOK
    <3> QED BY <3>1 DEF StuckIs
  <2>5. RunningOwn'
    <3> SUFFICES ASSUME running # NoJob PROVE RunningOwn'
      BY DEF RunningOwn
    <3>1. running \in Slots
      BY DEF TypeOK
    <3> QED BY <3>1 DEF RunningOwn
  <2>6. JobRuns'
    BY DEF JobRuns
  <2> QED BY <2>1, <2>2, <2>3, <2>4, <2>5, <2>6
<1>7. running # NoJob => SameAsk(running)
  BY <1>3, <1>4 DEF TypeOK, SameAsk
<1>8. Waiters' /\ QueuedOnce'
  BY <1>2, <1>3, <1>7, StillWaiters
<1>9. Gens' /\ Deletes' /\ Gone'
  BY <1>2, <1>3, GensFrame, DeletesFrame, GoneFrame
<1>10. Sleep'
  BY <1>2, <1>3, SleepFrame
<1>11. Guarded'
  <2>1. InFlight(cmd.app)' \subseteq InFlight(cmd.app)
    BY <1>2, <1>4 DEF InFlight, AppJob
  <2>2. \A i \in InFlight(cmd.app)' : job'[i] = job[i]
    BY <1>2, <1>4 DEF InFlight
  <2> QED BY <1>2, <1>3, <2>1, <2>2 DEF Guarded, Deleting, Seen, Listed, KeysOf
<1>12. Cut'
  <2>1. \A i \in Slots : job'[i].ctx = job[i].ctx /\ job'[i].taken = job[i].taken
                         /\ job'[i].abandoned = job[i].abandoned
    BY <1>4
  <2>2. loop.pc \in {"grace", "judge", "record"} => running \in Slots
    BY <1>3 DEF JobRuns, TypeOK
  <2>3. loop.pc = "record" => (running = j => job[j].abandoned)
    BY <1>2, <1>3 DEF Calls, RunningOwn, TakenCame, JobRuns
  <2>4. loop.pc = "record" => Outcome(running)' = Outcome(running)
    BY <1>2, <1>4, <2>1, <2>2, <2>3 DEF Outcome
  <2> QED BY <1>2, <1>3, <2>1, <2>2, <2>4 DEF Cut
<1> QED BY <1>5, <1>6, <1>8, <1>9, <1>10, <1>11, <1>12 DEF IInv

\* The call's goroutine ends, and unblocks the app that was stuck on it.
LEMMA EngineExitsKeeps == ASSUME NEW j \in Slots PROVE IInv /\ EngineExits(j) => IInv'
<1> SUFFICES ASSUME IInv, EngineExits(j) PROVE IInv'
  OBVIOUS
<1> DEFINE exited == [job EXCEPT ![j].call = "exited"]
           a == AppJob(j)
<1>1. /\ job[j].call = "returned"
      /\ stuck' = IF stuck[a] = j THEN [stuck EXCEPT ![a] = NoJob] ELSE stuck
      /\ state' = IF job[j].abandoned /\ job[j].kind = "restore" /\ job[j].outcome # "ok"
                  THEN Noted(job[j].key) ELSE state
      /\ wake' = (wake \/ stuck[a] = j)
      /\ UNCHANGED <<disk, plan, dirty, queue, overdue, running, gen, forgotten, deleting,
                 loop, armed, cmd, reply, stopping, stopped, deletes, saves, lapses, unreads, gone, early>>
  BY DEF EngineExits, WakesLate, ends, bounds
<1>2. job' = Collected(exited, running, cmd.waits)
  BY DEF EngineExits
<1>3. /\ TypeOK /\ QueuedOnce /\ Calls /\ JobRuns /\ Gens /\ Deletes /\ Guarded /\ Gone /\ Sleep
      /\ Waiters /\ Cut
  BY DEF IInv, Calls
<1>4. exited \in [Slots -> Jobs] /\ exited[j] = [job[j] EXCEPT !.call = "exited"]
      /\ \A i \in Slots : i # j => exited[i] = job[i]
  BY <1>3, JobIs DEF TypeOK
<1>5. a \in Apps /\ job[j].key \in Backups /\ job[j] \in Jobs
  BY <1>3, SchedulerAssumption DEF TypeOK, Jobs, AppJob
<1> HIDE DEF exited
<1>6. job' \in [Slots -> Jobs]
      /\ \A i \in Slots : \/ job'[i] = exited[i]
                          \/ exited[i].call = "exited" /\ i # running /\ job'[i] = FreeJob
  BY <1>2, <1>4, CollectedIs
<1>7. \/ j # running /\ job'[j] = FreeJob
      \/ SameAsk(j) /\ SameEnd(j) /\ job'[j].call = "exited"
  <2>1. [job[j] EXCEPT !.call = "exited"].call = "exited"
    BY <1>5 DEF Jobs
  <2> QED BY <1>4, <1>5, <1>6, <2>1 DEF SameAsk, SameEnd, Jobs
<1>8. \A i \in Slots : i # j => job'[i] = job[i] \/ Swept(i)
  BY <1>4, <1>6 DEF Swept
<1>9. \A b \in Apps : stuck'[b] = IF stuck[b] = j THEN NoJob ELSE stuck[b]
  <2>1. \A b \in Apps : stuck[b] = j => b = a
    BY <1>3, SlotsApart DEF Calls, StuckIs
  <2> QED BY <1>1, <1>3, <1>5, <2>1 DEF TypeOK
<1>10. \A i \in Slots : i # j => AppJob(i) \in Apps
  BY <1>3, SchedulerAssumption DEF AppJob, TypeOK, Jobs
<1>11. TypeOK'
  <2>1. stuck' \in [Apps -> Slots \cup {NoJob}]
    BY <1>1, <1>3, <1>5 DEF TypeOK
  <2>2. state' \in [Backups -> States]
    BY <1>1, <1>3, <1>5, NotedIs DEF TypeOK
  <2>3. wake' \in BOOLEAN
    BY <1>1, <1>3 DEF TypeOK
  <2> QED BY <1>1, <1>3, <1>6, <2>1, <2>2, <2>3, Zenon DEF TypeOK
<1>12. Calls'
  <2>1. CallHeld'
    <3> SUFFICES ASSUME NEW i \in Slots, job'[i].call \in {"called", "returned"}
                 PROVE  i = running' \/ stuck'[AppJob(i)'] = i \/ (job'[i].call = "returned" /\ job'[i].taken)
      BY DEF CallHeld, AppJob
    <3>1. i # j /\ job'[i] = job[i]
      BY <1>7, <1>8, FreeJobIs DEF Swept
    <3>2. AppJob(i)' = AppJob(i) /\ AppJob(i) \in Apps
      BY <1>10, <3>1 DEF AppJob
    <3> QED BY <1>1, <1>3, <1>9, <3>1, <3>2 DEF Calls, CallHeld
  <2>2. AbandonedStuck'
    <3> SUFFICES ASSUME NEW i \in Slots, job'[i].abandoned, job'[i].call \in {"called", "returned"}
                 PROVE  stuck'[AppJob(i)'] = i
      BY DEF AbandonedStuck, AppJob
    <3>1. i # j /\ job'[i] = job[i]
      BY <1>7, <1>8, FreeJobIs DEF Swept
    <3>2. AppJob(i)' = AppJob(i) /\ AppJob(i) \in Apps
      BY <1>10, <3>1 DEF AppJob
    <3> QED BY <1>1, <1>3, <1>9, <3>1, <3>2 DEF Calls, AbandonedStuck
  <2>3. TakenCame'
    BY <1>3, <1>7, <1>8, FreeJobIs DEF Calls, TakenCame, Swept, SameEnd
  <2>4. StuckIs'
    <3> SUFFICES ASSUME NEW b \in Apps, stuck'[b] # NoJob
                 PROVE  /\ job'[stuck'[b]].call \in {"called", "returned"} /\ AppOf[job'[stuck'[b]].key] = b
                        /\ job'[stuck'[b]].abandoned
      BY DEF StuckIs, AppJob
    <3>1. stuck'[b] = stuck[b] /\ stuck[b] # j /\ stuck[b] \in Slots
      BY <1>3, <1>9 DEF TypeOK
    <3>2. job'[stuck[b]] = job[stuck[b]]
      BY <1>3, <1>8, <3>1 DEF Swept, Calls, StuckIs
    <3> QED BY <1>3, <3>1, <3>2 DEF Calls, StuckIs, AppJob
  <2>5. RunningOwn'
    <3> SUFFICES ASSUME running # NoJob PROVE RunningOwn'
      BY <1>1 DEF RunningOwn
    <3>1. running \in Slots
      BY <1>3 DEF TypeOK
    <3>2. /\ SameAsk(running) /\ job'[running].taken = job[running].taken
          /\ job'[running].abandoned = job[running].abandoned /\ job'[running].call # "free"
      BY <1>3, <1>7, <1>8, <3>1 DEF Swept, SameAsk, SameEnd, Calls, RunningOwn
    <3>3. AppJob(running)' = AppJob(running) /\ AppJob(running) \in Apps
      BY <1>1, <1>5, <1>10, <3>1, <3>2 DEF AppJob, SameAsk
    <3>4. stuck'[AppJob(running)] \in {NoJob, running}
      BY <1>3, <1>9, <3>3 DEF Calls, RunningOwn
    <3> QED BY <1>1, <1>3, <3>2, <3>3, <3>4 DEF Calls, RunningOwn
  <2>6. JobRuns'
    BY <1>1, <1>3 DEF JobRuns
  <2> QED BY <2>1, <2>2, <2>3, <2>4, <2>5, <2>6 DEF Calls
<1>13. Waiters' /\ QueuedOnce'
  <2>1. running # NoJob => SameAsk(running)
    BY <1>3, <1>7, <1>8 DEF TypeOK, Swept, SameAsk
  <2> QED BY <1>1, <1>3, <2>1, StillWaiters
<1>14. Gens' /\ Deletes'
  BY <1>1, <1>3, GensFrame, DeletesFrame
<1>15. Gone'
  <2>1. \A k \in Backups : plan[k] = "unlisted" => state'[k] = state[k]
    BY <1>1, <1>3, <1>5, NotedIs
  <2> QED BY <1>1, <1>3, <2>1, GoneFrame
<1>16. Guarded'
  <2>1. ASSUME NEW i \in InFlight(cmd.app)'
        PROVE  i \in InFlight(cmd.app) /\ job'[i] = job[i]
    <3>1. i \in Slots /\ i # j /\ job'[i] = job[i]
      BY <1>7, <1>8, <2>1, FreeJobIs DEF Swept, InFlight
    <3> QED BY <1>1, <2>1, <3>1 DEF InFlight, AppJob
  <2> QED BY <1>1, <1>3, <2>1 DEF Guarded, Deleting, Seen, Listed, KeysOf
<1>17. Sleep'
  <2>1. CASE stuck[a] = j
    BY <1>1, <2>1, AwakeFrame
  <2>2. CASE stuck[a] # j
    <3>1. ~job[j].abandoned
      BY <1>1, <1>3, <2>2 DEF Calls, AbandonedStuck
    <3>2. UNCHANGED <<state, stuck, wake>>
      <4>1. wake \in BOOLEAN
        BY <1>3 DEF TypeOK
      <4> QED BY <1>1, <2>2, <3>1, <4>1
    <3> QED BY <1>1, <1>3, <3>2, SleepFrame
  <2> QED BY <2>1, <2>2
<1>18. Cut'
  <2>1. \A i \in Slots : SameEnd(i) \/ (i # running /\ job'[i] = FreeJob)
    BY <1>7, <1>8 DEF Swept, SameEnd
  <2> QED BY <1>1, <1>3, <2>1, CutFrame
<1> QED BY <1>11, <1>12, <1>13, <1>14, <1>15, <1>16, <1>17, <1>18 DEF IInv

\* execute takes the outcome.
LEMMA TakeOutcomeKeeps == IInv /\ TakeOutcome => IInv'
<1> SUFFICES ASSUME IInv, TakeOutcome PROVE IInv'
  OBVIOUS
<1> DEFINE j == running
<1>1. /\ loop.pc \in {"executing", "grace"} /\ Ready(j) /\ Goto("judge")
      /\ UNCHANGED <<disk, plan, state, dirty, wake, queue, overdue, running, stuck, gen, forgotten,
                 deleting, armed, cmd, reply, stopping, stopped, deletes, saves, lapses, unreads, gone, early>>
  BY DEF TakeOutcome, memory, ends, bounds
<1>2. /\ TypeOK /\ QueuedOnce /\ Calls /\ JobRuns /\ Gens /\ Deletes /\ Guarded /\ Gone /\ Sleep
      /\ Waiters /\ Cut
  BY DEF IInv, Calls
<1>3. j \in Slots /\ j # NoJob
  BY <1>1, <1>2 DEF JobRuns, TypeOK
<1>4. loop' \in Loops /\ loop'.pc = "judge" /\ loop'.readGen = loop.readGen
  BY <1>1, <1>2, TurnIs
<1>5. /\ job' \in [Slots -> Jobs]
      /\ \A i \in Slots : i # j => job'[i] = job[i]
      /\ job'[j].taken /\ SameAsk(j) /\ job'[j].call = job[j].call
      /\ job'[j].abandoned = job[j].abandoned /\ job'[j].ctx = job[j].ctx
      /\ job'[j].awaited = job[j].awaited
  <2> DEFINE b == job[j]
             o == IF b.outcome = "ok" /\ b.ctx # "live" /\ b.kind # "restore" THEN "failed" ELSE b.outcome
             n == [b EXCEPT !.taken = TRUE, !.outcome = o]
  <2>1. b \in Jobs /\ job \in [Slots -> Jobs]
    BY <1>2, <1>3 DEF TypeOK
  <2>2. job' = [job EXCEPT ![j] = n]
    BY <1>3, <2>1 DEF TakeOutcome
  <2> HIDE DEF b
  <2>3. o \in {"none", "ok", "failed", "refused"}
    BY <2>1 DEF Jobs
  <2> HIDE DEF o
  <2>4. /\ n \in Jobs /\ n.taken = TRUE
        /\ n.call = b.call /\ n.key = b.key /\ n.kind = b.kind /\ n.req = b.req
        /\ n.abandoned = b.abandoned /\ n.ctx = b.ctx /\ n.awaited = b.awaited
    BY <2>1, <2>3 DEF Jobs
  <2> HIDE DEF n
  <2>5. job' \in [Slots -> Jobs] /\ job'[j] = n /\ \A i \in Slots : i # j => job'[i] = job[i]
    BY <1>3, <2>1, <2>2, <2>4
  <2> QED BY <2>4, <2>5 DEF b, SameAsk
<1>6. TypeOK'
  BY <1>1, <1>2, <1>4, <1>5, Zenon DEF TypeOK
<1>7. job[j].call \in {"returned", "exited"} /\ ~job[j].abandoned
  BY <1>1, <1>2, <1>3 DEF Ready, Calls, RunningOwn
<1>8. Calls'
  <2> USE <1>1, <1>2, <1>3, <1>4, <1>5, <1>7 DEF Calls, SameAsk, AppJob
  <2>1. CallHeld'
    BY DEF CallHeld
  <2>2. AbandonedStuck'
    BY DEF AbandonedStuck
  <2>3. TakenCame'
    BY DEF TakenCame
  <2>4. StuckIs'
    <3> SUFFICES ASSUME NEW a \in Apps, stuck[a] # NoJob
                 PROVE  /\ job'[stuck[a]].call \in {"called", "returned"} /\ AppJob(stuck[a])' = a
                        /\ job'[stuck[a]].abandoned
      BY DEF StuckIs
    <3>1. stuck[a] \in Slots
      BY DEF TypeOK
    <3> QED BY <3>1 DEF StuckIs
  <2>5. RunningOwn'
    BY DEF RunningOwn
  <2>6. JobRuns'
    BY DEF JobRuns
  <2> QED BY <2>1, <2>2, <2>3, <2>4, <2>5, <2>6
<1>9. Waiters' /\ QueuedOnce'
  BY <1>1, <1>2, <1>5, StillWaiters
<1>10. Gens' /\ Deletes' /\ Gone' /\ Sleep'
  BY <1>1, <1>2, <1>4, GensFrame, DeletesFrame, GoneFrame, AwakeFrame
<1>11. Guarded'
  BY <1>1, <1>2, <1>4, <1>5 DEF Guarded, Deleting, InFlight, AppJob, SameAsk
<1>12. Cut'
  BY <1>1, <1>2, <1>4, <1>5 DEF Cut
<1> QED BY <1>6, <1>8, <1>9, <1>10, <1>11, <1>12 DEF IInv

\* execute sees the context end.
LEMMA ContextEndsKeeps == IInv /\ ContextEnds => IInv'
<1> SUFFICES ASSUME IInv, ContextEnds PROVE IInv'
  OBVIOUS
<1>1. /\ loop.pc = "executing" /\ job[running].ctx # "live" /\ Goto("grace")
      /\ UNCHANGED <<disk, plan, state, dirty, wake, queue, overdue, running, stuck, gen, forgotten,
                 deleting, job, armed, cmd, reply, stopping, stopped, deletes, saves, lapses, unreads, gone, early>>
  BY DEF ContextEnds, Loop, memory, ends, bounds
<1> USE DEF IInv
<1>2. loop' \in Loops /\ loop'.pc = "grace" /\ loop'.readGen = loop.readGen
  BY <1>1, TurnIs
<1>3. TypeOK'
  BY <1>1, <1>2, Zenon DEF TypeOK
<1>4. KeepsJobs /\ SamePhase
  BY <1>1, <1>2, StillJobs DEF SamePhase
<1>5. Calls' /\ Waiters' /\ QueuedOnce'
  BY <1>1, <1>4, CallsFrame, StillWaiters DEF SameAsk
<1>6. Gens' /\ Deletes' /\ Gone' /\ Guarded' /\ Sleep'
  BY <1>1, <1>2, <1>4, GensFrame, DeletesFrame, GoneFrame, GuardedFrame, AwakeFrame
<1>7. Cut'
  BY <1>1, <1>2 DEF Cut
<1> QED BY <1>3, <1>5, <1>6, <1>7

\* abandon marks the app stuck on a call that has not returned.
LEMMA AbandonKeeps == IInv /\ Abandon => IInv'
<1> SUFFICES ASSUME IInv, Abandon PROVE IInv'
  OBVIOUS
<1> DEFINE j == running
<1>1. /\ loop.pc = "grace" /\ ~Ready(j) /\ Goto("judge")
      /\ stuck' = [stuck EXCEPT ![AppJob(j)] = j]
      /\ UNCHANGED <<disk, plan, state, dirty, wake, queue, overdue, running, gen, forgotten,
                 deleting, armed, cmd, reply, stopping, stopped, deletes, saves, lapses, unreads, gone, early>>
  BY DEF Abandon, Abandons, Loop, ends, bounds
<1>2. /\ TypeOK /\ QueuedOnce /\ Calls /\ JobRuns /\ Gens /\ Deletes /\ Guarded /\ Gone /\ Sleep
      /\ Waiters /\ Cut
  BY DEF IInv, Calls
<1>3. j \in Slots /\ j # NoJob
  BY <1>1, <1>2 DEF JobRuns, TypeOK
<1>4. loop' \in Loops /\ loop'.pc = "judge" /\ loop'.readGen = loop.readGen
  BY <1>1, <1>2, TurnIs
<1>5. /\ job' \in [Slots -> Jobs]
      /\ \A i \in Slots : i # j => job'[i] = job[i]
      /\ job'[j].abandoned /\ SameAsk(j) /\ job'[j].call = job[j].call
      /\ job'[j].taken = job[j].taken /\ job'[j].ctx = job[j].ctx
      /\ job'[j].awaited = job[j].awaited
  <2> DEFINE b == job[j]
             n == [b EXCEPT !.abandoned = TRUE]
  <2>1. b \in Jobs /\ job \in [Slots -> Jobs]
    BY <1>2, <1>3 DEF TypeOK
  <2>2. job' = [job EXCEPT ![j] = n]
    BY <1>3, <2>1 DEF Abandon
  <2> HIDE DEF b
  <2>3. /\ n \in Jobs /\ n.abandoned = TRUE
        /\ n.call = b.call /\ n.key = b.key /\ n.kind = b.kind /\ n.req = b.req
        /\ n.taken = b.taken /\ n.ctx = b.ctx /\ n.awaited = b.awaited
    BY <2>1 DEF Jobs
  <2> HIDE DEF n
  <2>4. job' \in [Slots -> Jobs] /\ job'[j] = n /\ \A i \in Slots : i # j => job'[i] = job[i]
    BY <1>3, <2>1, <2>2, <2>3
  <2> QED BY <2>3, <2>4 DEF b, SameAsk
<1>6. AppJob(j) \in Apps
  BY <1>2, <1>3, SchedulerAssumption DEF TypeOK, Jobs, AppJob
<1>7. TypeOK'
  <2>1. stuck' \in [Apps -> Slots \cup {NoJob}]
    BY <1>1, <1>2, <1>3, <1>6 DEF TypeOK
  <2> QED BY <1>1, <1>2, <1>4, <1>5, <2>1, Zenon DEF TypeOK
<1>8. job[j].call = "called" /\ ~job[j].abandoned /\ ~job[j].taken
  <2>1. job[j] \in Jobs
    BY <1>2, <1>3 DEF TypeOK
  <2> QED BY <1>1, <1>2, <1>3, <2>1 DEF Ready, Calls, RunningOwn, Jobs
<1>9. \A a \in Apps : stuck'[a] = IF a = AppJob(j) THEN j ELSE stuck[a]
  BY <1>1, <1>2, <1>6 DEF TypeOK
<1>10. \A i \in Slots : AppJob(i) \in Apps /\ AppJob(i)' = AppJob(i)
  BY <1>2, <1>5, SchedulerAssumption DEF TypeOK, Jobs, AppJob, SameAsk
<1>11. Calls'
  <2>1. CallHeld'
    <3> SUFFICES ASSUME NEW i \in Slots, job'[i].call \in {"called", "returned"}
                 PROVE  i = running' \/ stuck'[AppJob(i)'] = i \/ (job'[i].call = "returned" /\ job'[i].taken)
      BY DEF CallHeld, AppJob
    <3>1. CASE i = j
      BY <1>1, <3>1
    <3>2. CASE i # j
      <4>1. stuck[AppJob(i)] = i => AppJob(i) # AppJob(j)
        BY <1>2, <1>3, <3>2, SlotsApart DEF Calls, RunningOwn
      <4> QED BY <1>2, <1>5, <1>9, <1>10, <3>2, <4>1 DEF Calls, CallHeld
    <3> QED BY <3>1, <3>2
  <2>2. AbandonedStuck'
    <3> SUFFICES ASSUME NEW i \in Slots, job'[i].abandoned, job'[i].call \in {"called", "returned"}
                 PROVE  stuck'[AppJob(i)'] = i
      BY DEF AbandonedStuck, AppJob
    <3>1. CASE i = j
      BY <1>9, <1>10, <3>1
    <3>2. CASE i # j
      <4>1. stuck[AppJob(i)] = i
        BY <1>2, <1>5, <3>2 DEF Calls, AbandonedStuck
      <4>2. AppJob(i) # AppJob(j)
        BY <1>2, <1>3, <3>2, <4>1, SlotsApart DEF Calls, RunningOwn
      <4> QED BY <1>9, <1>10, <4>1, <4>2
    <3> QED BY <3>1, <3>2
  <2>3. TakenCame'
    BY <1>2, <1>5, <1>8 DEF Calls, TakenCame
  <2>4. StuckIs'
    <3> SUFFICES ASSUME NEW a \in Apps, stuck'[a] # NoJob
                 PROVE  /\ job'[stuck'[a]].call \in {"called", "returned"} /\ AppOf[job'[stuck'[a]].key] = a
                        /\ job'[stuck'[a]].abandoned
      BY DEF StuckIs, AppJob
    <3>1. CASE a = AppJob(j)
      BY <1>3, <1>5, <1>8, <1>9, <1>10, <3>1 DEF AppJob
    <3>2. CASE a # AppJob(j)
      <4>1. stuck'[a] = stuck[a] /\ stuck[a] \in Slots /\ stuck[a] # j
        BY <1>2, <1>8, <1>9, <3>2 DEF TypeOK, Calls, StuckIs
      <4> QED BY <1>2, <1>5, <4>1 DEF Calls, StuckIs, AppJob
    <3> QED BY <3>1, <3>2
  <2>5. RunningOwn'
    BY <1>1, <1>3, <1>4, <1>5, <1>8, <1>9, <1>10 DEF RunningOwn
  <2>6. JobRuns'
    BY <1>1, <1>2, <1>4 DEF JobRuns
  <2> QED BY <2>1, <2>2, <2>3, <2>4, <2>5, <2>6 DEF Calls
<1>12. Waiters' /\ QueuedOnce'
  BY <1>1, <1>2, <1>5, StillWaiters
<1>13. Gens' /\ Deletes' /\ Gone' /\ Sleep'
  BY <1>1, <1>2, <1>4, GensFrame, DeletesFrame, GoneFrame, AwakeFrame
<1>14. Guarded'
  BY <1>1, <1>2, <1>4, <1>5 DEF Guarded, Deleting, InFlight, AppJob, SameAsk
<1>15. Cut'
  BY <1>1, <1>2, <1>3, <1>4, <1>5, <1>8 DEF Cut
<1> QED BY <1>7, <1>11, <1>12, <1>13, <1>14, <1>15 DEF IInv

\* execute reads whether the agent stops.
LEMMA JudgeKeeps == IInv /\ Judge => IInv'
<1> SUFFICES ASSUME IInv, Judge PROVE IInv'
  OBVIOUS
<1>1. /\ loop.pc = "judge"
      /\ UNCHANGED <<disk, plan, state, dirty, wake, queue, overdue, running, stuck, gen, forgotten,
                 deleting, job, armed, cmd, reply, stopping, stopped, deletes, saves, lapses, unreads, gone, early>>
  BY DEF Judge, Loop, memory, ends, bounds
<1> USE DEF IInv
<1>2. loop' \in Loops /\ loop'.pc = "record" /\ loop'.readGen = loop.readGen
      /\ loop'.cut = (Outcome(running) # "ok" /\ stopping)
  <2> DEFINE c == Outcome(running) # "ok" /\ stopping
  <2>1. loop \in Loops /\ c \in BOOLEAN
    BY DEF TypeOK
  <2>2. loop' = [loop EXCEPT !.pc = "record", !.cut = c]
    BY DEF Judge, CutShort
  <2> HIDE DEF c
  <2>3. [loop EXCEPT !.pc = "record", !.cut = c] \in Loops
    BY <2>1 DEF Loops
  <2>4. /\ [loop EXCEPT !.pc = "record", !.cut = c].pc = "record"
        /\ [loop EXCEPT !.pc = "record", !.cut = c].cut = c
        /\ [loop EXCEPT !.pc = "record", !.cut = c].readGen = loop.readGen
    BY <2>1 DEF Loops
  <2>5. loop' \in Loops /\ loop'.pc = "record" /\ loop'.readGen = loop.readGen /\ loop'.cut = c
    BY <2>2, <2>3, <2>4, Zenon
  <2> QED BY <2>5 DEF c
<1>3. TypeOK'
  BY <1>1, <1>2, Zenon DEF TypeOK
<1>4. KeepsJobs /\ SamePhase
  BY <1>1, <1>2, StillJobs DEF SamePhase
<1>5. Calls' /\ Waiters' /\ QueuedOnce'
  BY <1>1, <1>4, CallsFrame, StillWaiters DEF SameAsk
<1>6. Gens' /\ Deletes' /\ Gone' /\ Guarded' /\ Sleep'
  BY <1>1, <1>2, <1>4, GensFrame, DeletesFrame, GoneFrame, GuardedFrame, AwakeFrame
<1>7. Cut'
  <2>1. running \in Slots
    BY <1>1 DEF Calls, JobRuns, TypeOK
  <2> QED BY <1>1, <1>2, <2>1 DEF Cut, Outcome
<1> QED BY <1>3, <1>5, <1>6, <1>7

\* What record and recordRestore leave of the records: none for a backup that
\* is not planned and has none, and only a run that was not cut short is no
\* longer due.
LEMMA RecordedIs ==
  ASSUME IInv, Record
  PROVE  /\ state' \in [Backups -> States]
         /\ \A k \in Backups : plan[k] = "unlisted" /\ state[k] = NoState => state'[k] = state[k]
         /\ \A k \in Backups : state[k].due /\ ~state'[k].due =>
              ~loop.cut /\ job[running].key = k /\ job[running].kind # "restore"
<1>1. TypeOK /\ running \in Slots /\ state \in [Backups -> States]
  BY DEF IInv, Record, Loop, Calls, JobRuns, TypeOK
<1> DEFINE j == running
           k == job[j].key
           r == state[k]
           t1 == [r EXCEPT !.tried = TRUE, !.due = FALSE]
           t2 == [r EXCEPT !.has = TRUE, !.tried = TRUE, !.due = FALSE]
<1>2. k \in Backups /\ r \in States
  BY <1>1 DEF TypeOK, Jobs
<1>3. \/ state' = state
      \/ state' = Noted(k)
      \/ state[k].has /\ ~loop.cut /\ job[j].kind # "restore" /\ state' = [state EXCEPT ![k] = t1]
      \/ plan[k] # "unlisted" /\ ~loop.cut /\ job[j].kind # "restore" /\ state' = [state EXCEPT ![k] = t2]
  BY <1>1, <1>2 DEF Record, RunRecorded, RestoreRecorded
<1>4. t1 \in States /\ t2 \in States
  <2> HIDE DEF r
  <2> QED BY <1>2 DEF States
<1> HIDE DEF t1, t2, r
<1>5. CASE state' = state
  BY <1>1, <1>5
<1>6. CASE state' = Noted(k)
  BY <1>1, <1>2, <1>6, NotedIs
<1>7. CASE state[k].has /\ ~loop.cut /\ job[j].kind # "restore" /\ state' = [state EXCEPT ![k] = t1]
  <2>1. state[k] # NoState
    BY <1>7 DEF NoState
  <2> QED BY <1>1, <1>2, <1>4, <1>7, <2>1
<1>8. CASE plan[k] # "unlisted" /\ ~loop.cut /\ job[j].kind # "restore" /\ state' = [state EXCEPT ![k] = t2]
  BY <1>1, <1>2, <1>4, <1>8
<1> QED BY <1>3, <1>5, <1>6, <1>7, <1>8

\* The job is recorded, its waiter answered, and its slot free once its call
\* has exited.
LEMMA RecordKeeps == IInv /\ Record => IInv'
<1> SUFFICES ASSUME IInv, Record PROVE IInv'
  OBVIOUS
<1> DEFINE j == running
<1>1. /\ loop.pc = "record" /\ running' = NoJob /\ Goto("top")
      /\ reply' = Answered({job[j].req} \ {NoRequest})
      /\ job' = Collected(job, NoJob, cmd.waits)
      /\ UNCHANGED <<disk, plan, wake, queue, overdue, stuck, gen, forgotten, deleting,
                 armed, cmd, stopping, stopped, deletes, saves, lapses, unreads, gone, early>>
  BY DEF Record, Loop, ends, bounds
<1>2. /\ TypeOK /\ QueuedOnce /\ Calls /\ JobRuns /\ Gens /\ Deletes /\ Guarded /\ Gone /\ Sleep
      /\ Waiters /\ Cut
  BY DEF IInv, Calls
<1>3. j \in Slots /\ j # NoJob
  BY <1>1, <1>2 DEF JobRuns, TypeOK
<1>4. loop' \in Loops /\ loop'.pc = "top" /\ loop'.readGen = loop.readGen
  BY <1>1, <1>2, TurnIs
<1>5. job' \in [Slots -> Jobs]
      /\ \A i \in Slots : job'[i] = job[i] \/ (job[i].call = "exited" /\ job'[i] = FreeJob)
  BY <1>1, <1>2, CollectedIs DEF TypeOK
<1>6. /\ state' \in [Backups -> States]
      /\ \A k \in Backups : plan[k] = "unlisted" /\ state[k] = NoState => state'[k] = state[k]
  BY RecordedIs
<1>7. TypeOK'
  <2>1. dirty' \in BOOLEAN
    BY <1>2 DEF Record, TypeOK
  <2>2. reply' \in [Requests -> Replies]
    BY <1>1, <1>2, AnsweredType
  <2>3. running' \in Slots \cup {NoJob}
    BY <1>1
  <2> QED BY <1>1, <1>2, <1>4, <1>5, <1>6, <2>1, <2>2, <2>3, Zenon DEF TypeOK
<1>8. Calls'
  <2>1. CallHeld'
    <3> SUFFICES ASSUME NEW i \in Slots, job'[i].call \in {"called", "returned"}
                 PROVE  stuck'[AppJob(i)'] = i \/ (job'[i].call = "returned" /\ job'[i].taken)
      BY DEF CallHeld, AppJob
    <3>1. job'[i] = job[i] /\ AppJob(i)' = AppJob(i)
      BY <1>5, FreeJobIs DEF AppJob
    <3>2. i # running \/ job[i].taken \/ job[i].abandoned
      BY <1>1, <1>2, <1>3 DEF Calls, RunningOwn
    <3> QED BY <1>1, <1>2, <3>1, <3>2 DEF Calls, CallHeld, AbandonedStuck, TakenCame
  <2>2. AbandonedStuck'
    BY <1>1, <1>2, <1>5, FreeJobIs DEF Calls, AbandonedStuck, AppJob
  <2>3. TakenCame'
    BY <1>2, <1>5, FreeJobIs DEF Calls, TakenCame
  <2>4. StuckIs'
    <3> SUFFICES ASSUME NEW a \in Apps, stuck[a] # NoJob
                 PROVE  /\ job'[stuck[a]].call \in {"called", "returned"} /\ AppOf[job'[stuck[a]].key] = a
                        /\ job'[stuck[a]].abandoned
      BY <1>1 DEF StuckIs, AppJob
    <3>1. stuck[a] \in Slots /\ job'[stuck[a]] = job[stuck[a]]
      BY <1>2, <1>5 DEF TypeOK, Calls, StuckIs
    <3> QED BY <1>2, <3>1 DEF Calls, StuckIs, AppJob
  <2>5. RunningOwn' /\ JobRuns'
    BY <1>1, <1>4 DEF RunningOwn, JobRuns
  <2> QED BY <2>1, <2>2, <2>3, <2>4, <2>5 DEF Calls
<1>9. Waiters'
  <2>1. job[j].req \in Requests \cup {NoRequest}
    BY <1>2, <1>3 DEF TypeOK, Jobs
  <2>2. \A q \in Requests : q \in {job[j].req} \ {NoRequest} <=> q = job[j].req
    BY SchedulerAssumption
  <2>3. \A q \in Requests : q = job[j].req => reply[q] = "waiting"
    BY <1>2, <1>3 DEF Waiters, Waiting
  <2>4. \A q \in Requests : reply'[q] = IF q = job[j].req THEN "answered" ELSE reply[q]
    BY <1>1, <1>2, <2>2, <2>3, AnsweredIs
  <2>5. \A q \in Requests : Waiting(q)' <=> q \in RequestsIn(queue)
    BY <1>1 DEF Waiting
  <2>6. \A q \in Requests : reply'[q] # "blocked" /\ (reply'[q] = "waiting" <=> Waiting(q)')
    BY <1>2, <1>3, <2>4, <2>5 DEF Waiters, Waiting
  <2> QED BY <1>1, <1>2, <2>6 DEF Waiters, RequestsIn
<1>10. QueuedOnce'
  BY <1>1, <1>2 DEF QueuedOnce, Same
<1>11. Gens' /\ Deletes' /\ Sleep'
  BY <1>1, <1>2, <1>4, GensFrame, DeletesFrame, AwakeFrame
<1>12. Gone'
  BY <1>1, <1>2, <1>4, <1>6, GoneFrame
<1>13. Guarded'
  <2>1. ASSUME NEW i \in InFlight(cmd.app)'
        PROVE  i \in InFlight(cmd.app) /\ job'[i] = job[i]
    BY <1>1, <1>5, <2>1, FreeJobIs DEF InFlight, AppJob
  <2> QED BY <1>1, <1>2, <1>4, <2>1 DEF Guarded, Deleting
<1>14. Cut'
  BY <1>1, <1>2, <1>4, <1>5, FreeJobIs DEF Cut
<1> QED BY <1>7, <1>8, <1>9, <1>10, <1>11, <1>12, <1>13, <1>14 DEF IInv

\* Run ends and answers what is queued.
LEMMA RunEndsKeeps == IInv /\ RunEnds => IInv'
<1> SUFFICES ASSUME IInv, RunEnds PROVE IInv'
  OBVIOUS
<1>1. /\ loop.pc = "ending" /\ stopped' = TRUE /\ reply' = Answered(RequestsIn(queue))
      /\ queue' = {} /\ overdue' = {} /\ Goto("ended")
      /\ UNCHANGED <<disk, plan, state, dirty, wake, running, stuck, gen, forgotten, deleting,
                 job, armed, cmd, stopping, deletes, saves, lapses, unreads, gone, early>>
  BY DEF RunEnds, Leftover, Loop, bounds
<1> USE DEF IInv
<1>2. loop' \in Loops /\ loop'.pc = "ended" /\ loop'.readGen = loop.readGen
  BY <1>1, TurnIs
<1>3. TypeOK'
  <2>1. reply' \in [Requests -> Replies]
    BY <1>1, AnsweredType
  <2>2. queue' \in SUBSET Queued /\ overdue' \in SUBSET Requests /\ stopped' \in BOOLEAN
    BY <1>1
  <2> QED BY <1>1, <1>2, <2>1, <2>2, Zenon DEF TypeOK
<1>4. KeepsJobs /\ SamePhase
  BY <1>1, <1>2, StillJobs DEF SamePhase, Working
<1>5. Calls'
  BY <1>1, <1>4, CallsFrame
<1>6. Waiters' /\ QueuedOnce'
  <2>1. RequestsIn(queue') = {}
    BY <1>1 DEF RequestsIn
  <2>2. RequestsIn(queue) = {q \in RequestsIn(queue) : q \notin RequestsIn(queue')}
    BY <2>1
  <2>3. queue' \subseteq queue /\ overdue' \subseteq RequestsIn(queue')
    BY <1>1
  <2> QED BY <1>1, <2>2, <2>3, WaitersFrame DEF SameAsk
<1>7. Gens' /\ Deletes' /\ Gone' /\ Guarded' /\ Sleep' /\ Cut'
  BY <1>1, <1>2, <1>4, GensFrame, DeletesFrame, GoneFrame, GuardedFrame, AwakeFrame,
       CutIdle
<1> QED BY <1>3, <1>5, <1>6, <1>7
-----------------------------------------------------------------------------
(* The invariant, and what it gives                                        *)

\* Every step keeps the invariant.
LEMMA NextKeeps == IInv /\ [Next]_vars => IInv'
<1> SUFFICES ASSUME IInv, Next
             PROVE  IInv'
  BY StutterKeeps
<1>1. CASE Run
  BY <1>1, RefreshBeginsKeeps, PlanReadKeeps, RefreshKeeps, ChooseKeeps, ArmKeeps,
       WakesUpKeeps,
     TakeOutcomeKeeps, ContextEndsKeeps, AbandonKeeps, JudgeKeeps, RecordKeeps, RunEndsKeeps
  DEF Run
<1>2. CASE Command
  BY <1>2, SaveAppKeeps, DeleteAppKeeps, ReloadKeeps, ForgetFirstKeeps, ForgetSecondKeeps,
     ForgetWaitsKeeps, RemoveAppKeeps
  DEF Command
<1>3. CASE Time
  BY <1>3, BecomesDueKeeps, WaitsTooLongKeeps, TombLapsesKeeps, DeadlineKeeps DEF Time
<1>4. CASE Stop
  BY <1>4, StopKeeps
<1>5. ASSUME NEW j \in Slots, Engine(j)
      PROVE  IInv'
  BY <1>5, EngineReturnsKeeps, EngineExitsKeeps DEF Engine
<1>6. ASSUME NEW q \in Requests, NEW k \in Backups, NEW kind \in {"manual", "restore"}, Ask(q, k, kind)
      PROVE  IInv'
  BY <1>6, AskKeeps
<1>7. ASSUME NEW q \in Requests, NEW k \in Backups, RunNow(q, k) \/ Restore(q, k)
      PROVE  IInv'
  <2>1. "manual" \in {"manual", "restore"} /\ "restore" \in {"manual", "restore"}
    OBVIOUS
  <2> QED BY <1>6, <1>7, <2>1, Zenon DEF RunNow, Restore
<1> QED BY <1>1, <1>2, <1>3, <1>4, <1>5, <1>7 DEF Next

\* IInv is an invariant: what the queue, the running job, the abandoned calls,
\* the tombstones, the plan reads and the timer know of each other stays true.
THEOREM SchedulerInvariant == Spec => []IInv
BY InitHolds, NextKeeps, PTL DEF Spec

\* Two calls of an app under way would be the running job's and the one its
\* app is stuck on, and those are the same.
LEMMA FewInFlight ==
  ASSUME IInv, NEW a \in Apps
  PROVE  Cardinality(InFlight(a)) <= 1
<1>1. ASSUME NEW i \in InFlight(a), NEW j \in InFlight(a)
      PROVE  i = j
  <2>1. /\ i \in Slots /\ job[i].call = "called" /\ AppJob(i) = a /\ i # NoJob
        /\ j \in Slots /\ job[j].call = "called" /\ AppJob(j) = a /\ j # NoJob
    BY <1>1, SlotsApart DEF InFlight
  <2>2. (i = running \/ stuck[a] = i) /\ (j = running \/ stuck[a] = j)
    BY <2>1 DEF IInv, Calls, CallHeld
  <2>3. running # NoJob /\ AppJob(running) = a => stuck[a] \in {NoJob, running}
    BY DEF IInv, Calls, RunningOwn
  <2> QED BY <2>1, <2>2, <2>3
<1>2. CASE InFlight(a) = {}
  BY <1>2, FS_EmptySet
<1>3. CASE InFlight(a) # {}
  <2>1. PICK j \in InFlight(a) : TRUE
    BY <1>3
  <2>2. InFlight(a) = {j}
    BY <1>1, <2>1
  <2> QED BY <2>2, FS_Singleton
<1> QED BY <1>2, <1>3

\* An app never has two engine calls under way, whatever was abandoned,
\* deleted or asked for, and the mark that keeps the next one off goes with
\* the call (blockedLocked, abandon, execute).
COROLLARY OneEngineCall == Spec => []OneCallPerApp
<1>1. IInv => OneCallPerApp
  BY FewInFlight DEF IInv, OneCallPerApp, Calls, StuckIs, StuckWillExit
<1> QED BY <1>1, SchedulerInvariant, PTL

\* While an app's volumes are removed none of its jobs is at work, but one
\* whose grace the delete waited out or that was abandoned before (Forget,
\* DeleteApp): unless the delete's block ended early, because the delete
\* outlasts tombstoneTTL or a plan read could not read the app (refresh).
COROLLARY VolumesLeftAlone == Spec => []VolumesUndisturbed
<1>1. IInv => VolumesUndisturbed
  BY DEF IInv, VolumesUndisturbed, Guarded
<1> QED BY <1>1, SchedulerInvariant, PTL

\* A deleted app keeps no plan entry and no record, whatever read or late
\* outcome was in flight (Forget, refresh, record).
COROLLARY DeletedIsForgotten == Spec => []DeletedLeavesNothing
<1>1. IInv => DeletedLeavesNothing
  BY DEF IInv, DeletedLeavesNothing, Gone
<1> QED BY <1>1, SchedulerInvariant, PTL

\* The scheduler never sleeps past a request or a backup that has become due
\* (next, untilDue, Run).
COROLLARY SleepIsSound == Spec => []SleepsSoundly
<1>1. IInv => SleepsSoundly
  BY DEF IInv, SleepsSoundly, Sleep, Due, Lapse
<1> QED BY <1>1, SchedulerInvariant, PTL

\* A request that waits is held once, and no other is held.
LEMMA HeldOnce ==
  ASSUME IInv, NEW q \in Requests
  PROVE  Holders(q) = IF reply[q] = "waiting" THEN 1 ELSE 0
<1> DEFINE inQueue == {r \in queue : r.req = q}
           inRun   == {j \in {running} \ {NoJob} : job[j].req = q}
<1>1. Waiters
  BY DEF IInv
<1>2. q \in RequestsIn(queue) <=> inQueue # {}
  BY DEF RequestsIn
<1>3. Cardinality(inQueue) = IF q \in RequestsIn(queue) THEN 1 ELSE 0
  <2>1. CASE inQueue = {}
    BY <1>2, <2>1, FS_EmptySet
  <2>2. CASE inQueue # {}
    <3>1. PICK r \in inQueue : TRUE
      BY <2>2
    <3>2. inQueue = {r}
      BY <1>1, <3>1 DEF Waiters
    <3> QED BY <1>2, <2>2, <3>2, FS_Singleton
  <2> QED BY <2>1, <2>2
<1>4. Cardinality(inRun) = IF running # NoJob /\ job[running].req = q THEN 1 ELSE 0
  <2>1. CASE running # NoJob /\ job[running].req = q
    <3>1. inRun = {running}
      BY <2>1
    <3> QED BY <2>1, <3>1, FS_Singleton
  <2>2. CASE ~(running # NoJob /\ job[running].req = q)
    <3>1. inRun = {}
      BY <2>2
    <3> QED BY <2>2, <3>1, FS_EmptySet
  <2> QED BY <2>1, <2>2
<1>5. /\ ~(q \in RequestsIn(queue) /\ running # NoJob /\ job[running].req = q)
      /\ reply[q] = "waiting" <=> (q \in RequestsIn(queue) \/ (running # NoJob /\ job[running].req = q))
  BY <1>1 DEF Waiters, Waiting
<1> QED BY <1>3, <1>4, <1>5 DEF Holders

\* Every request that waits is in the queue or the running job's, and none is
\* answered twice, which would block with the mutex held (finish).
COROLLARY WaitersAreKept == Spec => []WaitersKept
<1>1. IInv => WaitersKept
  BY HeldOnce DEF IInv, WaitersKept, Waiters
<1> QED BY <1>1, SchedulerInvariant, PTL

\* What StopKeepsDue says of one step.
Keeps == \A k \in Backups : state[k].due /\ ~state'[k].due /\ plan'[k] = "on" /\ loop.pc = "record" =>
  /\ job[running].key = k /\ job[running].kind # "restore"
  /\ Outcome(running) = "ok" \/ job[running].ctx # "stopped"

\* Only record takes a backup off the schedule, and not when the stop cut it
\* short.
LEMMA DueIsKept ==
  ASSUME IInv, Next
  PROVE  Keeps
<1> SUFFICES ASSUME NEW k \in Backups, state[k].due, ~state'[k].due, plan'[k] = "on", loop.pc = "record"
             PROVE  /\ job[running].key = k /\ job[running].kind # "restore"
                    /\ Outcome(running) = "ok" \/ job[running].ctx # "stopped"
  BY DEF Keeps
<1>1. TypeOK /\ Cut
  BY DEF IInv
<1>2. CASE Record
  BY <1>1, <1>2, RecordedIs DEF Cut
<1>3. state'[k] # state[k]
  OBVIOUS
<1>4. CASE Run /\ ~Record
  BY <1>3, <1>4 DEF Run, RefreshBegins, PlanRead, Refresh, Choose, Arm, WakesUp,
       TakeOutcome,
     ContextEnds, Abandon, Judge, RunEnds, Loop, memory
<1>5. CASE Command
  <2>1. ASSUME NEW p, NEW q, Forget(p, q)
        PROVE  FALSE
    <3>1. state'[k] = (IF AppOf[k] = cmd.app THEN NoState ELSE state[k])
          /\ plan'[k] = (IF AppOf[k] = cmd.app THEN "unlisted" ELSE plan[k])
      BY <2>1 DEF Forget
    <3> QED BY <1>3, <3>1
  <2> QED BY <1>3, <1>5, <2>1, Zenon DEF Command, SaveApp, DeleteApp, Reload, ForgetFirst, ForgetSecond, ForgetWaits,
          RemoveApp, memory
<1>6. CASE Time
  <2>1. ASSUME NEW l \in Backups, BecomesDue(l)
        PROVE  FALSE
    <3> DEFINE r == state[l]
    <3>1. state \in [Backups -> States] /\ r \in States
      BY <1>1 DEF TypeOK
    <3>2. state' = [state EXCEPT ![l] = [r EXCEPT !.due = TRUE]] /\ ~r.due
      BY <2>1, <3>1 DEF BecomesDue
    <3> HIDE DEF r
    <3>3. k # l
      BY <3>2 DEF r
    <3> QED BY <1>3, <3>1, <3>2, <3>3
  <2> QED BY <1>3, <1>6, <2>1 DEF Time, WaitsTooLong, TombLapses, Deadline, memory
<1>7. CASE Stop
  BY <1>3, <1>7 DEF Stop, memory
<1>8. ASSUME NEW j \in Slots, Engine(j)
      PROVE  FALSE
  <2>1. CASE EngineReturns(j)
    BY <1>3, <2>1 DEF EngineReturns, memory
  <2>2. CASE EngineExits(j)
    <3>1. job[j].key \in Backups
      BY <1>1 DEF TypeOK, Jobs
    <3>2. state' = state \/ state' = Noted(job[j].key)
      BY <2>2 DEF EngineExits
    <3> QED BY <1>1, <1>3, <3>1, <3>2, NotedIs
  <2> QED BY <1>8, <2>1, <2>2 DEF Engine
<1>9. ASSUME NEW q \in Requests, NEW l \in Backups, RunNow(q, l) \/ Restore(q, l)
      PROVE  FALSE
  BY <1>3, <1>9 DEF RunNow, Restore, Ask
<1> QED BY <1>2, <1>4, <1>5, <1>6, <1>7, <1>8, <1>9 DEF Next

\* A run that the agent's stop cut short leaves its backup due (execute,
\* record).
THEOREM CutShortStaysDue == Spec => StopKeepsDue
<1>1. IInv /\ [Next]_vars => [Keeps]_vars
  BY DueIsKept
<1> QED BY <1>1, SchedulerInvariant, PTL DEF Spec, StopKeepsDue, Keeps
=============================================================================
