-------------------------- MODULE BackupScheduler --------------------------
(***************************************************************************)
(* The agent's backup scheduler (internal/app/agent/backup/scheduler.go):  *)
(* one goroutine (Run) runs scheduled backups, Back up now and restore     *)
(* requests one at a time; the command goroutine saves and deletes apps    *)
(* beside it, and an engine call that does not stop is abandoned while its *)
(* app stays blocked.                                                      *)
(*                                                                         *)
(* One action is one section under the scheduler's mutex, one receive of a *)
(* channel or one engine event. Time is abstracted to what has passed: a   *)
(* backup is due, a job's limit or grace is over, a tombstone has lapsed.  *)
(***************************************************************************)
EXTENDS Naturals, FiniteSets

CONSTANTS
  Apps,
  Backups,     \* keys: every backup an app may come to have, "app/name"
  AppOf,       \* the app of a backup
  Requests,    \* backup.run and backup.restore requests
  Slots,       \* names of the jobs alive at once
  NoRequest,   \* a scheduled run has no waiter
  NoApp,       \* no app is being saved or deleted
  MaxDeletes,  \* bound on app deletions
  MaxSaves,    \* bound on app saves
  MaxLapses,   \* bound on tombstones that reach tombstoneTTL
  MaxUnread    \* bound on plan reads that leave out an app they cannot read

NoJob == 0

ASSUME SchedulerAssumption ==
  /\ Backups # {}
  /\ AppOf \in [Backups -> Apps]
  /\ Slots \subseteq Nat \ {NoJob}
  /\ NoRequest \notin Requests
  /\ NoApp \notin Apps
  /\ MaxDeletes \in Nat /\ MaxSaves \in Nat /\ MaxLapses \in Nat
  /\ MaxUnread \in Nat

VARIABLES
  disk,      \* per backup, what the app's folder says of it (BackupPlan)
  plan,      \* per backup, what the scheduler's plan says of it
  state,     \* per backup, its record in state.json
  dirty, wake,
  queue,     \* requests waiting for their turn, each behind those queued before it
  overdue,   \* queued restores that have waited restoreQueueWait
  job,       \* per slot, a job and its engine call
  running,   \* the running job's slot
  stuck,     \* per app, the slot of its abandoned job
  gen, forgotten, deleting,
  loop,      \* the Run goroutine
  armed,     \* what its timer waits for
  cmd,       \* the command goroutine: an app being saved or deleted
  reply,     \* per request, what its channel holds
  stopping, stopped,
  deletes, saves, lapses, unreads,
  gone,      \* history: apps deleted (both Forgets ran) and not saved since
  early      \* history: apps whose last Forget's block ended early: its tombstone
             \* lapsed, or a read that could not read the app ended it

memory == <<plan, state, dirty, wake, queue, overdue, running, stuck, gen, forgotten, deleting>>
ends   == <<stopping, stopped>>
bounds == <<deletes, saves, lapses, unreads>>
vars   == <<disk, memory, job, loop, armed, cmd, reply, ends, bounds, gone, early>>

Listings == {"unlisted", "off", "on"}
NoPlan   == [k \in Backups |-> "unlisted"]

\* A record exists, has its enabled_at, has a last_attempt, and its next run
\* is due. Errors, sizes and fingerprints are data no decision reads.
States  == [has: BOOLEAN, on: BOOLEAN, tried: BOOLEAN, due: BOOLEAN]
NoState == [has |-> FALSE, on |-> FALSE, tried |-> FALSE, due |-> FALSE]

Kinds == {"scheduled", "manual", "restore"}

\* ctx: live, or why it ended. call: the engine call is under way, has handed
\* its outcome over (returned), or its goroutine has closed exited.
Jobs == [key: Backups, kind: Kinds, req: Requests \cup {NoRequest},
         call: {"free", "called", "returned", "exited"},
         outcome: {"none", "ok", "failed", "refused"}, taken: BOOLEAN,
         ctx: {"live", "deadline", "deleted", "stopped"},
         awaited: BOOLEAN, abandoned: BOOLEAN]

FreeJob == [key |-> CHOOSE k \in Backups : TRUE, kind |-> "scheduled", req |-> NoRequest,
            call |-> "free", outcome |-> "none", taken |-> FALSE, ctx |-> "live",
            awaited |-> FALSE, abandoned |-> FALSE]

\* A tombstone: the Forget it came from (0: none), and whether it has lapsed.
NoTomb == [gen |-> 0, lapsed |-> FALSE]

AppJob(j)  == AppOf[job[j].key]
KeysOf(a)  == {k \in Backups : AppOf[k] = a}
InFlight(a) == {j \in Slots : job[j].call = "called" /\ AppJob(j) = a}

\* A job nobody refers to any more is garbage: its slot is free again.
Collected(jobs, run, waits) ==
  [j \in Slots |-> IF jobs[j].call = "exited" /\ j # run /\ j \notin waits
                   THEN FreeJob ELSE jobs[j]]

-----------------------------------------------------------------------------
(* What the scheduler's methods read. A definition with a suffix is that     *)
(* one with a guard or a part missing: the properties tell the two apart.    *)

Deleting(a) == deleting[a].gen # 0 /\ ~deleting[a].lapsed

Blocked_Unstuck(a)  == Deleting(a)

\* blockedLocked: the app is being deleted or its earlier run has not stopped.
Blocked(a) == Deleting(a) \/ stuck[a] # NoJob

\* dueLocked, with the due time passed.
Due(k) == plan[k] = "on" /\ ~Blocked(AppOf[k]) /\ state[k].has /\ state[k].due

\* A send to a request's channel of capacity one. A second one would block,
\* with the scheduler's mutex held.
Answered(qs) ==
  [q \in Requests |-> IF q \notin qs THEN reply[q]
                      ELSE IF reply[q] = "waiting" THEN "answered" ELSE "blocked"]

RequestsIn(rs) == {r.req : r \in rs}

\* noteErrorLocked: an error to report, for a backup that is planned.
Noted(k) ==
  IF plan[k] = "unlisted" THEN state
  ELSE [state EXCEPT ![k].has = TRUE]

-----------------------------------------------------------------------------
Init ==
  /\ disk \in [Backups -> Listings]
  /\ plan = NoPlan
  /\ state \in [Backups -> {NoState, [NoState EXCEPT !.has = TRUE, !.on = TRUE, !.tried = TRUE]}]
  /\ dirty = TRUE /\ wake = FALSE
  /\ queue = {} /\ overdue = {}
  /\ job = [j \in Slots |-> FreeJob]
  /\ running = NoJob
  /\ stuck = [a \in Apps |-> NoJob]
  /\ gen = 0
  /\ forgotten = [a \in Apps |-> 0]
  /\ deleting = [a \in Apps |-> NoTomb]
  /\ loop = [pc |-> "top", readGen |-> 0, read |-> NoPlan, unread |-> {}, cut |-> FALSE]
  /\ armed = [keys |-> {}, tombs |-> {}]
  /\ cmd = [pc |-> "idle", app |-> NoApp, waits |-> {}]
  /\ reply = [q \in Requests |-> "none"]
  /\ stopping = FALSE /\ stopped = FALSE
  /\ deletes = 0 /\ saves = 0 /\ lapses = 0 /\ unreads = 0
  /\ gone = {} /\ early = {}

-----------------------------------------------------------------------------
(* Time. *)

\* A backup's interval (or its first offset) is over.
BecomesDue(k) ==
  /\ state[k].has /\ ~state[k].due
  /\ state' = [state EXCEPT ![k].due = TRUE]
  /\ UNCHANGED <<disk, plan, dirty, wake, queue, overdue, running, stuck, gen, forgotten,
                 deleting, job, loop, armed, cmd, reply, ends, bounds, gone, early>>

\* A queued restore has waited restoreQueueWait.
WaitsTooLong(q) ==
  /\ q \notin overdue
  /\ \E r \in queue : r.req = q /\ r.kind = "restore"
  /\ overdue' = overdue \cup {q}
  /\ UNCHANGED <<disk, plan, state, dirty, wake, queue, running, stuck, gen, forgotten,
                 deleting, job, loop, armed, cmd, reply, ends, bounds, gone, early>>

TombLapses(a) ==
  /\ Deleting(a) /\ lapses < MaxLapses
  /\ lapses' = lapses + 1
  /\ deleting' = [deleting EXCEPT ![a].lapsed = TRUE]
  /\ early' = early \cup {a}
  /\ UNCHANGED <<disk, plan, state, dirty, wake, queue, overdue, running, stuck, gen, forgotten,
                 job, loop, armed, cmd, reply, ends, deletes, saves, unreads, gone>>

\* The running job's time limit.
Deadline ==
  /\ running # NoJob /\ job[running].ctx = "live"
  /\ job' = [job EXCEPT ![running].ctx = "deadline"]
  /\ UNCHANGED <<disk, memory, loop, armed, cmd, reply, ends, bounds, gone, early>>

\* The agent stops: Run's context is done, and every job's (one whose outcome
\* is taken no longer matters).
Stop ==
  /\ ~stopping
  /\ stopping' = TRUE
  /\ job' = [j \in Slots |-> IF job[j].call # "free" /\ job[j].ctx = "live" /\ ~job[j].taken
                             THEN [job[j] EXCEPT !.ctx = "stopped"] ELSE job[j]]
  /\ UNCHANGED <<disk, memory, loop, armed, cmd, reply, stopped, bounds, gone, early>>

-----------------------------------------------------------------------------
(* RunNow and Restore: detached commands, concurrent with everything.        *)

\* Two of these may not be queued or running at once: a backup's run, and an
\* app's restore.
Same(k, kind, c, d) ==
  IF kind = "restore" THEN d = "restore" /\ AppOf[c] = AppOf[k] ELSE d # "restore" /\ c = k

InQueue(k, kind) == \E r \in queue : Same(k, kind, r.key, r.kind)

Duplicate(k, kind) ==
  \/ InQueue(k, kind)
  \/ running # NoJob /\ Same(k, kind, job[running].key, job[running].kind)

Refuses_Queues(k, kind) == Blocked(AppOf[k]) \/ Duplicate(k, kind)

\* RunNow and Restore answer at once.
Refuses(k, kind) == stopped \/ Blocked(AppOf[k]) \/ Duplicate(k, kind)

Ask(q, k, kind) ==
  /\ reply[q] = "none"
  /\ IF Refuses(k, kind)
     THEN reply' = [reply EXCEPT ![q] = "answered"] /\ UNCHANGED <<queue, wake>>
     ELSE /\ reply' = [reply EXCEPT ![q] = "waiting"]
          /\ queue' = queue \cup {[key |-> k, kind |-> kind, req |-> q, behind |-> RequestsIn(queue)]}
          /\ wake' = TRUE
  /\ UNCHANGED <<disk, plan, state, dirty, overdue, running, stuck, gen, forgotten, deleting,
                 job, loop, armed, cmd, ends, bounds, gone, early>>

RunNow(q, k)  == Ask(q, k, "manual")
Restore(q, k) == Ask(q, k, "restore")

-----------------------------------------------------------------------------
(* The command goroutine: app.save and app.delete.                           *)

Cmd(p) == cmd.pc = p

\* The save's file work, which may change what backups the app has.
SaveApp(a) ==
  /\ Cmd("idle") /\ saves < MaxSaves
  /\ saves' = saves + 1
  /\ \E d \in [KeysOf(a) -> Listings] : disk' = [k \in Backups |-> IF k \in KeysOf(a) THEN d[k] ELSE disk[k]]
  /\ cmd' = [cmd EXCEPT !.pc = "saved", !.app = a]
  /\ gone' = gone \ {a}
  /\ UNCHANGED <<memory, job, loop, armed, reply, ends, deletes, lapses, unreads, early>>

Idle == [pc |-> "idle", app |-> NoApp, waits |-> {}]

Reload ==
  /\ Cmd("saved")
  /\ dirty' = TRUE /\ wake' = TRUE
  /\ cmd' = Idle
  /\ UNCHANGED <<disk, plan, state, queue, overdue, running, stuck, gen, forgotten, deleting,
                 job, loop, armed, reply, ends, bounds, gone, early>>

\* The app's folder lists a backup.
OnDisk(a) == \E k \in KeysOf(a) : disk[k] # "unlisted"

DeleteApp(a) ==
  /\ Cmd("idle") /\ deletes < MaxDeletes
  /\ OnDisk(a)
  /\ deletes' = deletes + 1
  /\ cmd' = [cmd EXCEPT !.pc = "forget", !.app = a]
  /\ UNCHANGED <<disk, memory, job, loop, armed, reply, ends, saves, lapses, unreads, gone, early>>

Kept_Answered(a) == queue

\* What a Forget leaves of the queue, and whom it answers.
Kept(a) == {r \in queue : AppOf[r.key] # a}

Told(a) == RequestsIn({r \in queue : AppOf[r.key] = a})

\* The running job of the app, unless a Forget waited for it before.
MustWait(a) == {j \in {running} \ {NoJob} : AppJob(j) = a /\ ~job[j].awaited}

\* Forget, under the lock; p is where the command goes on.
Forget(p, q) ==
  LET a == cmd.app
      mine == {j \in {running} \ {NoJob} : AppJob(j) = a}
  IN
  /\ Cmd(p)
  /\ queue' = Kept(a) /\ overdue' = overdue \ Told(a)
  /\ reply' = Answered(Told(a))
  /\ job' = [j \in Slots |-> IF j \in mine /\ job[j].ctx = "live"
                             THEN [job[j] EXCEPT !.ctx = "deleted"] ELSE job[j]]
  /\ plan' = [k \in Backups |-> IF AppOf[k] = a THEN "unlisted" ELSE plan[k]]
  /\ gen' = gen + 1
  /\ forgotten' = [forgotten EXCEPT ![a] = gen + 1]
  /\ deleting' = [deleting EXCEPT ![a] = [gen |-> gen + 1, lapsed |-> FALSE]]
  /\ early' = early \ {a}
  /\ state' = [k \in Backups |-> IF AppOf[k] = a THEN NoState ELSE state[k]]
  /\ dirty' = TRUE /\ wake' = TRUE
  /\ cmd' = [cmd EXCEPT !.pc = q, !.waits = MustWait(a)]
  /\ UNCHANGED <<disk, running, stuck, loop, armed, ends, bounds>>

ForgetFirst  == Forget("forget", "wait") /\ UNCHANGED gone
ForgetSecond ==
  /\ Forget("again", "wait again")
  /\ gone' = IF OnDisk(cmd.app) THEN gone ELSE gone \cup {cmd.app}

\* The wait ends when the jobs have exited or their grace is over.
ForgetWaits ==
  /\ cmd.pc \in {"wait", "wait again"}
  /\ \/ /\ \A j \in cmd.waits : job[j].call = "exited"
        /\ job' = Collected(job, running, {})
     \/ /\ cmd.waits # {}
        /\ LET late == [j \in Slots |-> IF j \in cmd.waits THEN [job[j] EXCEPT !.awaited = TRUE] ELSE job[j]]
           IN job' = Collected(late, running, {})
  /\ cmd' = IF Cmd("wait") THEN [cmd EXCEPT !.pc = "removing", !.waits = {}] ELSE Idle
  /\ UNCHANGED <<disk, memory, loop, armed, reply, ends, bounds, gone, early>>

\* The orchestrator's DeleteApp: the volumes go first, then the folder. It may
\* fail (on a restore of the app that is still under way, say) and leave the
\* app in place.
RemoveApp ==
  /\ Cmd("removing")
  /\ \/ disk' = [k \in Backups |-> IF AppOf[k] = cmd.app THEN "unlisted" ELSE disk[k]]
     \/ UNCHANGED disk
  /\ cmd' = [cmd EXCEPT !.pc = "again"]
  /\ UNCHANGED <<memory, job, loop, armed, reply, ends, bounds, gone, early>>

-----------------------------------------------------------------------------
(* Run: the scheduler's goroutine.                                           *)

Loop(p) == loop.pc = p
Goto(p) == loop' = [loop EXCEPT !.pc = p]

\* refresh, its first section: is the plan to be reread?
RefreshBegins ==
  /\ Loop("top")
  /\ IF stopping
     THEN Goto("ending") /\ UNCHANGED dirty
     ELSE /\ dirty' = FALSE
          /\ loop' = [loop EXCEPT !.pc = IF dirty THEN "reading" ELSE "choose", !.readGen = gen]
  /\ UNCHANGED <<disk, plan, state, wake, queue, overdue, running, stuck, gen, forgotten, deleting,
                 job, armed, cmd, reply, ends, bounds, gone, early>>

\* BackupPlan reads the apps' folders, outside the lock. It leaves out an app
\* whose backups cannot be read, or every app when their directory cannot be;
\* refresh logs that and applies the plan all the same.
PlanRead ==
  /\ Loop("reading")
  /\ \E out \in SUBSET {a \in Apps : OnDisk(a)} :
       /\ \/ out = {} /\ UNCHANGED unreads
          \/ out # {} /\ unreads < MaxUnread /\ unreads' = unreads + 1
       /\ loop' = [loop EXCEPT !.pc = "refresh", !.unread = out,
                     !.read = [k \in Backups |-> IF AppOf[k] \in out THEN "unlisted" ELSE disk[k]]]
  /\ UNCHANGED <<disk, memory, job, armed, cmd, reply, ends, deletes, saves, lapses, gone, early>>

Listed(a) == \E k \in KeysOf(a) : loop.read[k] # "unlisted"

BlockEnds_AnyRead(a)  == deleting[a].gen <= loop.readGen \/ deleting[a].lapsed

\* A block ends once a read begun after its Forget no longer lists the app,
\* be it that the read left it out.
BlockEnds(a) ==
  \/ deleting[a].gen <= loop.readGen /\ ~Listed(a)
  \/ deleting[a].lapsed

Believed_Always(k) == TRUE

\* A read begun before a Forget of the app proves nothing.
Believed(k) == forgotten[AppOf[k]] <= loop.readGen

\* refresh, its second section: the plan, and each backup's enabled_at.
Refresh ==
  LET new == [k \in Backups |-> IF Believed(k) THEN loop.read[k] ELSE "unlisted"]
  IN
  /\ Loop("refresh")
  /\ deleting' = [a \in Apps |-> IF deleting[a].gen # 0 /\ BlockEnds(a) THEN NoTomb ELSE deleting[a]]
  /\ early' = early \cup {a \in loop.unread : deleting[a].gen # 0 /\ BlockEnds(a)}
  /\ forgotten' = [a \in Apps |-> IF forgotten[a] <= loop.readGen THEN 0 ELSE forgotten[a]]
  /\ plan' = new
  /\ state' = [k \in Backups |->
       IF new[k] = "on" /\ ~state[k].on
       THEN [state[k] EXCEPT !.has = TRUE, !.on = TRUE, !.due = @ /\ state[k].tried]
       ELSE IF new[k] = "off" THEN [state[k] EXCEPT !.on = FALSE]
       ELSE state[k]]
  /\ loop' = [pc |-> "choose", readGen |-> 0, read |-> NoPlan, unread |-> {}, cut |-> FALSE]
  /\ UNCHANGED <<disk, dirty, wake, queue, overdue, running, stuck, gen,
                 job, armed, cmd, reply, ends, bounds, gone>>

\* The queue without the restores that waited too long, those of its requests
\* whose app is not blocked, and those before a request.
Timely    == {r \in queue : r.req \notin overdue}
Startable == {r \in Timely : ~Blocked(AppOf[r.key])}
Before(r) == {s \in Timely : s.req \in r.behind}

\* startLocked: the job's context exists from here on, under the lock.
StartJob(k, kind, q) ==
  \E j \in Slots :
    /\ job[j].call = "free" /\ \A i \in Slots : job[i].call = "free" => j <= i
    /\ job' = [job EXCEPT ![j] = [FreeJob EXCEPT !.key = k, !.kind = kind, !.req = q, !.call = "called",
                                                 !.ctx = IF stopping THEN "stopped" ELSE "live"]]
    /\ running' = j

\* next: requests first, in their order, those that cannot run failing; then
\* what is due.
Choose ==
  /\ Loop("choose")
  /\ overdue' = {}
  /\ \/ \E r \in Startable :
          /\ Before(r) \cap Startable = {}
          /\ StartJob(r.key, r.kind, r.req)
          /\ reply' = Answered(overdue \cup RequestsIn(Before(r)))
          /\ queue' = Timely \ (Before(r) \cup {r})
          /\ Goto("executing")
     \/ /\ Startable = {}
        /\ reply' = Answered(overdue \cup RequestsIn(Timely))
        /\ queue' = {}
        /\ \/ \E k \in Backups : Due(k) /\ StartJob(k, "scheduled", NoRequest) /\ Goto("executing")
           \/ /\ \A k \in Backups : ~Due(k)
              /\ Goto("arming")
              /\ UNCHANGED <<job, running>>
  /\ UNCHANGED <<disk, plan, state, dirty, wake, stuck, gen, forgotten, deleting,
                 armed, cmd, ends, bounds, gone, early>>

TimerTombs_None == {}

TimerTombs == {a \in Apps : Deleting(a)}

\* untilDue: the backups and tombstones the timer is set to.
Arm ==
  /\ Loop("arming")
  /\ deleting' = [a \in Apps |-> IF deleting[a].lapsed THEN NoTomb ELSE deleting[a]]
  /\ armed' = [keys |-> {k \in Backups : plan[k] = "on" /\ ~Blocked(AppOf[k]) /\ state[k].has},
               tombs |-> TimerTombs]
  /\ Goto("asleep")
  /\ UNCHANGED <<disk, plan, state, dirty, wake, queue, overdue, running, stuck, gen, forgotten,
                 job, cmd, reply, ends, bounds, gone, early>>

WakesUp ==
  /\ Loop("asleep")
  /\ \/ wake /\ wake' = FALSE
     \/ /\ \/ stopping
           \/ \E k \in armed.keys : state[k].has /\ state[k].due
           \/ \E a \in armed.tombs : deleting[a].lapsed
        /\ UNCHANGED wake
  /\ armed' = [keys |-> {}, tombs |-> {}]
  /\ Goto("top")
  /\ UNCHANGED <<disk, plan, state, dirty, queue, overdue, running, stuck, gen, forgotten, deleting,
                 job, cmd, reply, ends, bounds, gone, early>>

-----------------------------------------------------------------------------
(* execute, and the goroutine of the engine call.                            *)

\* RunBackup or RestoreBackup returns: when it will, whatever its context. A
\* job of an app that no longer lists the backup is refused (ErrNotRunnable).
EngineReturns(j) ==
  /\ job[j].call = "called"
  /\ \E o \in {"ok", "failed", "refused"} :
       job' = [job EXCEPT ![j].call = "returned", ![j].outcome = o]
  /\ UNCHANGED <<disk, memory, loop, armed, cmd, reply, ends, bounds, gone, early>>

Ready(j) == job[j].call \in {"returned", "exited"} /\ ~job[j].taken

WakesLate_Silent(wasStuck) == wake

\* The app's scheduled backups may run again.
WakesLate(wasStuck) == wake \/ wasStuck

\* After the engine call: the app is unblocked, and what an abandoned job did
\* is reported (lateLocked).
EngineExits(j) ==
  LET a == AppJob(j)  wasStuck == stuck[a] = j
      exited == [job EXCEPT ![j].call = "exited"]
  IN
  /\ job[j].call = "returned"
  /\ stuck' = IF wasStuck THEN [stuck EXCEPT ![a] = NoJob] ELSE stuck
  /\ job' = Collected(exited, running, cmd.waits)
  /\ state' = IF job[j].abandoned /\ job[j].kind = "restore" /\ job[j].outcome # "ok"
              THEN Noted(job[j].key) ELSE state
  /\ wake' = WakesLate(wasStuck)
  /\ UNCHANGED <<disk, plan, dirty, queue, overdue, running, gen, forgotten, deleting,
                 loop, armed, cmd, reply, ends, bounds, gone, early>>

\* execute's selects: the outcome, or the end of the context and then of the
\* grace.
TakeOutcome ==
  /\ loop.pc \in {"executing", "grace"} /\ Ready(running)
  /\ job' = [job EXCEPT ![running].taken = TRUE,
               ![running].outcome = IF @ = "ok" /\ job[running].ctx # "live" /\ job[running].kind # "restore"
                                    THEN "failed" ELSE @]
  /\ Goto("judge")
  /\ UNCHANGED <<disk, memory, armed, cmd, reply, ends, bounds, gone, early>>

ContextEnds ==
  /\ Loop("executing") /\ job[running].ctx # "live"
  /\ Goto("grace")
  /\ UNCHANGED <<disk, memory, job, armed, cmd, reply, ends, bounds, gone, early>>

\* abandon looks once more, under the lock the engine's goroutine takes.
Abandons(j) == ~Ready(j)

Abandon ==
  LET j == running IN
  /\ Loop("grace") /\ Abandons(j)
  /\ job' = [job EXCEPT ![j].abandoned = TRUE]
  /\ stuck' = [stuck EXCEPT ![AppJob(j)] = j]
  /\ Goto("judge")
  /\ UNCHANGED <<disk, plan, state, dirty, wake, queue, overdue, running, gen, forgotten, deleting,
                 armed, cmd, reply, ends, bounds, gone, early>>

\* What the waiter hears, and the records go by.
Outcome(j) == IF job[j].abandoned THEN "failed" ELSE job[j].outcome

CutShort_Recorded == FALSE

\* A job that failed while the agent is stopping.
CutShort == Outcome(running) # "ok" /\ stopping

\* execute reads that before it takes the lock again.
Judge ==
  /\ Loop("judge")
  /\ loop' = [loop EXCEPT !.pc = "record", !.cut = CutShort]
  /\ UNCHANGED <<disk, memory, job, armed, cmd, reply, ends, bounds, gone, early>>

\* record: the attempt, its error or success.
RunRecorded(j) ==
  LET k == job[j].key  o == Outcome(j) IN
  IF loop.cut THEN state
  ELSE IF o = "refused"
  THEN IF job[j].kind = "scheduled" /\ state[k].has
       THEN [state EXCEPT ![k].tried = TRUE, ![k].due = FALSE] ELSE state
  ELSE IF plan[k] = "unlisted" THEN state
  ELSE [state EXCEPT ![k].has = TRUE, ![k].tried = TRUE, ![k].due = FALSE]

\* recordRestore: no attempt; only a stop leaves an error behind.
RestoreRecorded(j) ==
  IF loop.cut /\ job[j].ctx # "deleted" THEN Noted(job[j].key) ELSE state

Record ==
  LET j == running  restore == job[j].kind = "restore"
      refused == Outcome(j) = "refused" /\ (restore \/ ~loop.cut)
  IN
  /\ Loop("record")
  /\ running' = NoJob
  /\ state' = IF restore THEN RestoreRecorded(j) ELSE RunRecorded(j)
  /\ dirty' = (dirty \/ refused)
  /\ reply' = Answered({job[j].req} \ {NoRequest})
  /\ job' = Collected(job, NoJob, cmd.waits)
  /\ Goto("top")
  /\ UNCHANGED <<disk, plan, wake, queue, overdue, stuck, gen, forgotten, deleting,
                 armed, cmd, ends, bounds, gone, early>>

\* Run's end answers what is still queued.
Leftover == RequestsIn(queue)

RunEnds ==
  /\ Loop("ending")
  /\ stopped' = TRUE
  /\ reply' = Answered(Leftover)
  /\ queue' = {} /\ overdue' = {}
  /\ Goto("ended")
  /\ UNCHANGED <<disk, plan, state, dirty, wake, running, stuck, gen, forgotten, deleting,
                 job, armed, cmd, stopping, bounds, gone, early>>

-----------------------------------------------------------------------------
Run ==
  \/ RefreshBegins \/ PlanRead \/ Refresh \/ Choose \/ Arm \/ WakesUp
  \/ TakeOutcome \/ ContextEnds \/ Abandon \/ Judge \/ Record \/ RunEnds

Command ==
  \/ \E a \in Apps : SaveApp(a) \/ DeleteApp(a)
  \/ Reload \/ ForgetFirst \/ ForgetSecond \/ ForgetWaits \/ RemoveApp

Time ==
  \/ \E k \in Backups : BecomesDue(k)
  \/ \E q \in Requests : WaitsTooLong(q)
  \/ \E a \in Apps : TombLapses(a)
  \/ Deadline

Engine(j) == EngineReturns(j) \/ EngineExits(j)

Next ==
  \/ Run \/ Command \/ Time \/ Stop
  \/ \E j \in Slots : Engine(j)
  \/ \E q \in Requests, k \in Backups : RunNow(q, k) \/ Restore(q, k)

Spec == Init /\ [][Next]_vars

\* The goroutines run and limits pass; an engine call's goroutine ends once
\* the call has returned, but a call may hang for ever.
Fairness ==
  /\ WF_vars(Run) /\ WF_vars(Deadline) /\ WF_vars(ForgetWaits)
  /\ \A j \in Slots : WF_vars(EngineExits(j))

FairSpec == Spec /\ Fairness

-----------------------------------------------------------------------------
Queued == [key: Backups, kind: {"manual", "restore"}, req: Requests, behind: SUBSET Requests]

\* No request the queue holds is a duplicate of another or of what runs.
QueuedOnce ==
  \A r \in queue :
    /\ \A s \in queue : Same(r.key, r.kind, s.key, s.kind) => s = r
    /\ running # NoJob => ~Same(r.key, r.kind, job[running].key, job[running].kind)

\* A job runs exactly while execute has it.
JobRuns == running # NoJob <=> loop.pc \in {"executing", "grace", "judge", "record"}

Tombs == [gen: Nat, lapsed: BOOLEAN]

Loops == [pc: {"top", "reading", "refresh", "choose", "arming", "asleep", "executing",
               "grace", "judge", "record", "ending", "ended"},
          readGen: Nat, read: [Backups -> Listings], unread: SUBSET Apps, cut: BOOLEAN]

Timers == [keys: SUBSET Backups, tombs: SUBSET Apps]

Commands == [pc: {"idle", "saved", "forget", "wait", "removing", "again", "wait again"},
             app: Apps \cup {NoApp}, waits: SUBSET Slots]

Replies == {"none", "waiting", "answered", "blocked"}

\* Type invariant.
TypeOK ==
  /\ disk \in [Backups -> Listings] /\ plan \in [Backups -> Listings]
  /\ state \in [Backups -> States]
  /\ dirty \in BOOLEAN /\ wake \in BOOLEAN
  /\ queue \in SUBSET Queued /\ overdue \in SUBSET Requests
  /\ job \in [Slots -> Jobs]
  /\ running \in Slots \cup {NoJob}
  /\ stuck \in [Apps -> Slots \cup {NoJob}]
  /\ gen \in Nat /\ forgotten \in [Apps -> Nat] /\ deleting \in [Apps -> Tombs]
  /\ loop \in Loops /\ armed \in Timers /\ cmd \in Commands
  /\ reply \in [Requests -> Replies]
  /\ stopping \in BOOLEAN /\ stopped \in BOOLEAN
  /\ deletes \in Nat /\ saves \in Nat /\ lapses \in Nat /\ unreads \in Nat
  /\ gone \in SUBSET Apps /\ early \in SUBSET Apps

\* An app marked stuck has a call that has not exited yet, whose exit will
\* unblock it: abandon and the engine's return never miss each other.
StuckWillExit == \A a \in Apps :
  stuck[a] # NoJob => job[stuck[a]].call \in {"called", "returned"} /\ AppJob(stuck[a]) = a

\* An app never has two engine calls under way: a restore never overlaps a
\* backup of its app, though an abandoned call outlives its job, and the mark
\* that keeps the next one off goes exactly when that call does. And what a
\* client asks for is queued or running once.
OneCallPerApp ==
  /\ TypeOK /\ JobRuns /\ QueuedOnce
  /\ \A a \in Apps : Cardinality(InFlight(a)) <= 1
  /\ StuckWillExit

\* While an app's volumes are being removed none of its jobs is at work,
\* except one whose grace the delete waited out or that was abandoned before:
\* unless the delete's block ended early, because the delete outlasts
\* tombstoneTTL or a plan read could not read the app.
VolumesUndisturbed ==
  cmd.pc = "removing" /\ cmd.app \notin early =>
    \A j \in InFlight(cmd.app) : job[j].awaited \/ job[j].abandoned

\* A deleted app leaves no plan entry, no state and no way to run, whatever
\* plan read or late outcome was in flight when it went.
DeletedLeavesNothing == \A a \in gone : \A k \in KeysOf(a) :
  plan[k] = "unlisted" /\ state[k] = NoState

\* A request that waits is held in exactly one place, the queue or the running
\* job, so nobody forgets it; and none is answered twice: the second send
\* would block for ever, with the scheduler's mutex held.
Holders(q) ==
  Cardinality({r \in queue : r.req = q})
  + Cardinality({j \in {running} \ {NoJob} : job[j].req = q})

WaitersKept == \A q \in Requests :
  /\ reply[q] # "blocked"
  /\ Holders(q) = IF reply[q] = "waiting" THEN 1 ELSE 0

\* The scheduler never sleeps past what it has to do: a request in the queue or
\* a backup that has become due finds it awake, about to be woken, or with its
\* timer set to that very event.
SleepsSoundly == loop.pc = "asleep" =>
  /\ queue # {} => wake
  /\ \A k \in Backups : Due(k) =>
       wake \/ k \in armed.keys \/ \E a \in armed.tombs : deleting[a].lapsed

\* A run cut short by the agent stopping leaves the schedule alone: the backup
\* is still due, so it runs when the agent is back.
StopKeepsDue ==
  [][\A k \in Backups : state[k].due /\ ~state'[k].due /\ plan'[k] = "on" /\ loop.pc = "record" =>
       /\ job[running].key = k /\ job[running].kind # "restore"
       /\ Outcome(running) = "ok" \/ job[running].ctx # "stopped"]_vars

\* Every request gets its answer: the job's outcome, a refusal, or that the
\* agent stops; a hanging engine call holds none up for ever.
EveryRequestAnswered == \A q \in Requests : reply[q] = "waiting" ~> reply[q] = "answered"

\* A backup that is due does not stay due while nothing runs: it runs, its app
\* is blocked, or the agent stops.
DueIsTaken == \A k \in Backups :
  Due(k) /\ loop.pc = "asleep" ~> (~Due(k) \/ running # NoJob \/ stopping)
=============================================================================
