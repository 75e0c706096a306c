---------------------------- MODULE ReloadWorker ----------------------------
(***************************************************************************)
(* The agent's shared-variable reload worker                               *)
(* (internal/app/agent/reload_worker.go): one goroutine reloads apps one   *)
(* at a time, merging the requests that arrive meanwhile, while commands   *)
(* queue work, wait for one app's outcome (EnqueueApp) or drop a deleted   *)
(* app (Forget).                                                           *)
(*                                                                         *)
(* One action is one section under the worker's mutex, one receive or one  *)
(* answer of Docker. The order of the queue is left out: any app of it may *)
(* come next. "All stale apps" and "the stale apps using these names" are  *)
(* one kind of request, the wide one.                                      *)
(***************************************************************************)
EXTENDS Naturals, FiniteSets

CONSTANTS
  Apps,
  Waits,       \* EnqueueApp calls
  NoApp,       \* no app: no delete, nothing reloading
  MaxVersion,  \* bound on an app's variable snapshots
  MaxEvents    \* bound on Enqueue calls without a wait and on stopped apps
               \* that are started again, together

ASSUME WorkerAssumption ==
  /\ NoApp \notin Apps
  /\ MaxVersion \in Nat /\ MaxEvents \in Nat

VARIABLES
  version,   \* per app, the newest variables snapshot that reached the server
  shown,     \* per app, the snapshot its containers run with
  running,   \* apps with a running container
  existing,  \* apps on this server
  pending,   \* the merged work: wide, and explicit apps
  wake, busy, dropped,
  waiters,   \* per app, the waits its next reload takes
  loop,      \* the worker's goroutine
  queue,     \* the pass's apps still to reload
  deleting,  \* the app.delete between DeleteApp and the end of Forget
  reply,     \* per wait, what its channel holds
  app,       \* per wait, the app it is for
  asking,    \* waits registered whose Enqueue is still to come
  stopping,
  asks, starts,
  asked,     \* history: per wait, the version when it registered
  off,       \* history: waits whose app was seen stopped since they registered
  owed,      \* history: apps explicitly asked for and not looked at since
  gone       \* history: apps forgotten and not asked for since

world   == <<version, shown, running, existing>>
shared  == <<pending, wake, busy, dropped, waiters>>
waiting == <<reply, app, asking, asked>>
bounds  == <<asks, starts>>
env     == <<world, deleting, app, asking, asked, stopping, bounds, off, gone>>
vars    == <<world, shared, loop, queue, deleting, waiting, stopping, bounds, off, owed, gone>>

NoWork == [wide |-> FALSE, apps |-> {}]
NoLoop == [pc |-> "idle", wide |-> FALSE, apps |-> {}, out |-> {}, told |-> "none",
           current |-> NoApp, taken |-> {}, got |-> 0, outcome |-> "none"]

Stale(a) == shown[a] < version[a]

\* A send to each of a set of waits' channels, of capacity one: a second one
\* would block the sender.
Delivered(ws, o) ==
  [w \in Waits |-> IF w \notin ws THEN reply[w] ELSE IF reply[w] = "waiting" THEN o ELSE "blocked"]

At(p)   == loop.pc = p
Goto(p) == loop' = [loop EXCEPT !.pc = p]

-----------------------------------------------------------------------------
Init ==
  /\ version = [a \in Apps |-> 0] /\ shown = [a \in Apps |-> 0]
  /\ running \in SUBSET Apps /\ existing = Apps
  /\ pending = NoWork
  /\ wake = FALSE /\ busy = FALSE /\ dropped = {}
  /\ waiters = [a \in Apps |-> {}]
  /\ loop = NoLoop /\ queue = {}
  /\ deleting = [app |-> NoApp, pc |-> "none"]
  /\ reply = [w \in Waits |-> "none"] /\ app = [w \in Waits |-> NoApp] /\ asking = {}
  /\ stopping = FALSE
  /\ asks = 0 /\ starts = 0
  /\ asked = [w \in Waits |-> 0] /\ off = {} /\ owed = {} /\ gone = {}

-----------------------------------------------------------------------------
(* The server beside the worker. *)

WaitingFor(a) == {w \in Waits : reply[w] = "waiting" /\ app[w] = a}

VariableSynced(a) ==
  /\ a \in existing /\ version[a] < MaxVersion
  /\ version' = [version EXCEPT ![a] = @ + 1]
  /\ UNCHANGED <<shown, running, existing, shared, loop, queue, deleting, waiting, stopping,
                 bounds, off, owed, gone>>

AppStops(a) ==
  /\ a \in running
  /\ running' = running \ {a}
  /\ off' = off \cup WaitingFor(a)
  /\ UNCHANGED <<version, shown, existing, shared, loop, queue, deleting, waiting, stopping,
                 bounds, owed, gone>>

\* The reload holds the app's operation lock (ReloadSharedVars).
Locked(a) == At("up") /\ loop.current = a

\* A start renders the variables anyway.
AppStarts(a) ==
  /\ a \in existing \ running /\ ~Locked(a) /\ asks + starts < MaxEvents
  /\ starts' = starts + 1
  /\ running' = running \cup {a}
  /\ shown' = [shown EXCEPT ![a] = version[a]]
  /\ UNCHANGED <<version, existing, shared, loop, queue, deleting, waiting, stopping, asks,
                 off, owed, gone>>

DeleteApp(a) ==
  /\ a \in existing /\ ~Locked(a) /\ deleting.app = NoApp
  /\ existing' = existing \ {a} /\ running' = running \ {a}
  /\ deleting' = [app |-> a, pc |-> "forget"]
  /\ off' = off \cup WaitingFor(a)
  /\ UNCHANGED <<version, shown, shared, loop, queue, waiting, stopping, bounds, owed, gone>>

Stop ==
  /\ ~stopping /\ stopping' = TRUE
  /\ UNCHANGED <<world, shared, loop, queue, deleting, waiting, bounds, off, owed, gone>>

-----------------------------------------------------------------------------
(* Enqueue, EnqueueApp and Forget. *)

Signals_WhenIdle == wake \/ ~busy

Signals == TRUE

\* The section of Enqueue, and its wake.
Merge(wide, apps) ==
  /\ pending' = [wide |-> pending.wide \/ wide, apps |-> pending.apps \cup apps]
  /\ dropped' = dropped \ apps
  /\ wake' = Signals
  /\ owed' = owed \cup apps
  /\ gone' = gone \ apps

Enqueue(wide, apps) ==
  /\ asks + starts < MaxEvents
  /\ asks' = asks + 1
  /\ Merge(wide, apps)
  /\ UNCHANGED <<world, busy, waiters, loop, queue, deleting, waiting, stopping, starts, off>>

\* EnqueueApp, its first section.
WaitRegisters(w, a) ==
  /\ reply[w] = "none"
  /\ reply' = [reply EXCEPT ![w] = "waiting"]
  /\ app' = [app EXCEPT ![w] = a] /\ asking' = asking \cup {w}
  /\ asked' = [asked EXCEPT ![w] = version[a]]
  /\ off' = IF a \in running THEN off ELSE off \cup {w}
  /\ waiters' = [waiters EXCEPT ![a] = @ \cup {w}]
  /\ UNCHANGED <<world, pending, wake, busy, dropped, loop, queue, deleting, stopping, bounds, owed, gone>>

\* ... and its Enqueue.
WaitEnqueues(w) ==
  /\ w \in asking /\ asking' = asking \ {w}
  /\ Merge(FALSE, {app[w]})
  /\ UNCHANGED <<world, busy, waiters, loop, queue, deleting, reply, app, asked, stopping, bounds, off>>

\* Forget, its first section: only a pass can still reach the app.
ForgetDrops ==
  LET a == deleting.app IN
  /\ deleting.pc = "forget"
  /\ pending' = [pending EXCEPT !.apps = @ \ {a}]
  /\ dropped' = IF busy THEN dropped \cup {a} ELSE dropped
  /\ deleting' = [deleting EXCEPT !.pc = "answer"]
  /\ owed' = owed \ {a} /\ gone' = gone \cup {a}
  /\ UNCHANGED <<world, wake, busy, waiters, loop, queue, waiting, stopping, bounds, off>>

ForgetAnswers ==
  LET a == deleting.app IN
  /\ deleting.pc = "answer"
  /\ reply' = Delivered(waiters[a], "deleted")
  /\ waiters' = [waiters EXCEPT ![a] = {}]
  /\ deleting' = [app |-> NoApp, pc |-> "none"]
  /\ UNCHANGED <<world, pending, wake, busy, dropped, loop, queue, app, asking, asked, stopping,
                 bounds, off, owed, gone>>

-----------------------------------------------------------------------------
(* Run and drain. *)

\* Run's select.
Wakes ==
  /\ At("idle") /\ wake
  /\ wake' = FALSE
  /\ Goto("begin")
  /\ UNCHANGED <<env, pending, busy, dropped, waiters, queue, reply, owed>>

Busy_Later == FALSE

\* While a pass runs a forgotten app can still be reached.
Busy == TRUE

Begin ==
  /\ At("begin")
  /\ busy' = Busy
  /\ Goto("take")
  /\ UNCHANGED <<env, pending, wake, dropped, waiters, queue, reply, owed>>

\* take: a batch of waited apps only is resolved without a lookup.
Take ==
  /\ At("take")
  /\ IF pending = NoWork
     THEN Goto("choose")
     ELSE LET waited == ~pending.wide /\ \A a \in pending.apps : waiters[a] # {}
          IN loop' = [loop EXCEPT !.pc = IF waited THEN "exists" ELSE IF pending.wide THEN "wide" ELSE "explicit",
                                  !.wide = pending.wide, !.apps = pending.apps]
  /\ pending' = NoWork
  /\ UNCHANGED <<env, wake, busy, dropped, waiters, queue, reply, owed>>

\* The waits of a take an answer. An app answered without a reload is no
\* longer owed one, unless asked for again since the batch was taken.
Answer(a, o) ==
  /\ reply' = Delivered(waiters[a], o)
  /\ waiters' = [waiters EXCEPT ![a] = {}]

Settled(apps) == owed \ (apps \ pending.apps)

\* resolve's loop over waited apps.
Resolve(a) ==
  /\ At("exists") /\ a \in loop.apps
  /\ IF a \in existing
     THEN /\ loop' = [loop EXCEPT !.apps = @ \ {a}, !.out = @ \cup {a}]
          /\ UNCHANGED <<reply, waiters, owed>>
     ELSE /\ loop' = [loop EXCEPT !.apps = @ \ {a}]
          /\ Answer(a, "skipped")
          /\ owed' = Settled({a})
  /\ UNCHANGED <<env, pending, wake, busy, dropped, queue>>

AfterWide_Merge == "merge"

\* A batch that is wide and names apps looks both up.
AfterWide == IF loop.apps = {} THEN "merge" ELSE "explicit"

\* candidates' lookup of the wide request: stale apps that run (of those using
\* the names asked for), or an error, and the request is dropped.
LookupWide ==
  /\ At("wide")
  /\ \E found \in SUBSET {a \in running : Stale(a)} :
       loop' = [loop EXCEPT !.pc = AfterWide, !.out = found]
  /\ UNCHANGED <<env, shared, queue, reply, owed>>

\* ... and of the explicit apps: the ones left out will be told so, or why the
\* lookup failed.
LookupApps ==
  /\ At("explicit")
  /\ \/ LET found == loop.apps \cap running \cap existing
        IN loop' = [loop EXCEPT !.pc = "tell", !.out = @ \cup found,
                                !.apps = @ \ (loop.out \cup found), !.told = "skipped"]
     \/ loop' = [loop EXCEPT !.pc = "tell", !.told = "failed"]
  /\ UNCHANGED <<env, shared, queue, reply, owed>>

Tell(a) ==
  /\ At("tell") /\ a \in loop.apps
  /\ loop' = [loop EXCEPT !.apps = @ \ {a}]
  /\ Answer(a, loop.told)
  /\ owed' = Settled({a} \ loop.out)
  /\ UNCHANGED <<env, pending, wake, busy, dropped, queue>>

Resolved == queue \cup loop.out

\* drain adds what the batch resolved to; an app already queued stays once.
QueueApps ==
  /\ loop.pc \in {"exists", "tell", "merge"} /\ (At("merge") \/ loop.apps = {})
  /\ queue' = Resolved
  /\ loop' = [NoLoop EXCEPT !.pc = "choose"]
  /\ UNCHANGED <<env, shared, reply, owed>>

\* The next app, if it was not deleted meanwhile.
Choose(a) ==
  /\ At("choose") /\ a \in queue /\ ~stopping
  /\ queue' = queue \ {a}
  /\ loop' = [NoLoop EXCEPT !.pc = IF a \in dropped THEN "take" ELSE "claim", !.current = IF a \in dropped THEN NoApp ELSE a]
  /\ UNCHANGED <<env, shared, reply, owed>>

\* reloadOne: the waits registered before the reload starts hear its outcome.
ClaimWaits ==
  /\ At("claim")
  /\ loop' = [loop EXCEPT !.pc = "render", !.taken = waiters[loop.current]]
  /\ waiters' = [waiters EXCEPT ![loop.current] = {}]
  /\ UNCHANGED <<env, pending, wake, busy, dropped, queue, reply, owed>>

\* ReloadSharedVars: the app is gone, does not run, is refused (it is being
\* restored, it has a draft) or its files are rendered from the newest snapshot.
Render ==
  LET a == loop.current IN
  /\ At("render")
  /\ \/ /\ a \in existing \cap running
        /\ loop' = [loop EXCEPT !.pc = "up", !.got = version[a]]
     \/ /\ a \in existing \ running
        /\ loop' = [loop EXCEPT !.pc = "report", !.outcome = "skipped"]
     \/ loop' = [loop EXCEPT !.pc = "report", !.outcome = "failed"]
  /\ owed' = Settled({a})
  /\ UNCHANGED <<env, shared, queue, reply>>

\* Compose up, within the app's time limit.
ComposeUp ==
  LET a == loop.current IN
  /\ At("up")
  /\ \/ /\ shown' = [shown EXCEPT ![a] = loop.got]
        /\ running' = running \cup {a}
        /\ loop' = [loop EXCEPT !.pc = "report", !.outcome = "reloaded"]
     \/ /\ loop' = [loop EXCEPT !.pc = "report", !.outcome = "failed"]
        /\ UNCHANGED <<shown, running>>
  /\ UNCHANGED <<shared, waiting, bounds, version, existing, queue, deleting, stopping, off, owed, gone>>

Hearers_Latest == loop.taken \cup waiters[loop.current]

\* A wait registered during the reload waits for the next one.
Hearers == loop.taken

\* reloadOne ends: a stopping agent has no outcome to report.
Report ==
  /\ At("report")
  /\ reply' = Delivered(Hearers, IF stopping THEN "stopped" ELSE loop.outcome)
  /\ waiters' = [waiters EXCEPT ![loop.current] = @ \ Hearers]
  /\ loop' = [NoLoop EXCEPT !.pc = "take"]
  /\ UNCHANGED <<env, pending, wake, busy, dropped, queue, owed>>

\* The pass is over: its queue is done, or the agent stops.
EndPass ==
  /\ At("choose") /\ (queue = {} \/ stopping)
  /\ busy' = FALSE /\ dropped' = {}
  /\ queue' = {}
  /\ Goto("idle")
  /\ UNCHANGED <<env, pending, wake, waiters, reply, owed>>

\* Run's end: every wait still open ends.
RunEnds ==
  /\ At("idle") /\ stopping
  /\ reply' = Delivered(UNION {waiters[a] : a \in Apps}, "stopped")
  /\ waiters' = [a \in Apps |-> {}]
  /\ Goto("ended")
  /\ UNCHANGED <<env, pending, wake, busy, dropped, queue, owed>>

-----------------------------------------------------------------------------
Worker ==
  \/ Wakes \/ Begin \/ Take \/ LookupWide \/ LookupApps \/ QueueApps
  \/ \E a \in Apps : Resolve(a) \/ Tell(a) \/ Choose(a)
  \/ ClaimWaits \/ Render \/ ComposeUp \/ Report \/ EndPass \/ RunEnds

Commands ==
  \/ \E apps \in SUBSET Apps : Enqueue(apps = {}, apps)
  \/ \E w \in Waits : WaitEnqueues(w) \/ \E a \in Apps : WaitRegisters(w, a)
  \/ ForgetDrops \/ ForgetAnswers

Server ==
  \E a \in Apps : VariableSynced(a) \/ AppStops(a) \/ AppStarts(a) \/ DeleteApp(a)

Next == Worker \/ Commands \/ Server \/ Stop

Spec == Init /\ [][Next]_vars

\* The worker runs, and every call of Docker ends within its time limit; the
\* commands' own steps do not wait for anything.
Fairness ==
  /\ WF_vars(Worker)
  /\ WF_vars(\E w \in Waits : WaitEnqueues(w)) /\ WF_vars(ForgetDrops \/ ForgetAnswers)

FairSpec == Spec /\ Fairness

-----------------------------------------------------------------------------
PCs == {"idle", "begin", "take", "exists", "wide", "explicit", "tell", "merge", "choose",
        "claim", "render", "up", "report", "ended"}
Outcomes == {"none", "reloaded", "skipped", "failed"}

\* Type invariant: no deleted app's containers come back.
TypeOK ==
  /\ version \in [Apps -> 0 .. MaxVersion] /\ shown \in [Apps -> 0 .. MaxVersion]
  /\ running \subseteq existing /\ existing \subseteq Apps
  /\ pending \in [wide: BOOLEAN, apps: SUBSET Apps]
  /\ wake \in BOOLEAN /\ busy \in BOOLEAN /\ dropped \subseteq Apps
  /\ waiters \in [Apps -> SUBSET Waits]
  /\ loop \in [pc: PCs, wide: BOOLEAN, apps: SUBSET Apps, out: SUBSET Apps,
               told: {"none", "skipped", "failed"}, current: Apps \cup {NoApp},
               taken: SUBSET Waits, got: 0 .. MaxVersion, outcome: Outcomes]
  /\ queue \subseteq Apps
  /\ deleting \in [app: Apps \cup {NoApp}, pc: {"none", "forget", "answer"}]
  /\ reply \in [Waits -> {"none", "waiting", "deleted", "stopped", "blocked"} \cup Outcomes]
  /\ app \in [Waits -> Apps \cup {NoApp}] /\ asking \subseteq Waits
  /\ stopping \in BOOLEAN
  /\ asks \in 0 .. MaxEvents /\ starts \in 0 .. MaxEvents
  /\ asked \in [Waits -> 0 .. MaxVersion] /\ off \subseteq Waits
  /\ owed \subseteq Apps /\ gone \subseteq Apps

\* A wait is held in exactly one place until its outcome is sent, and then in
\* none.
WaitHeld(w) ==
  /\ reply[w] # "blocked"
  /\ {a \in Apps : w \in waiters[a]} =
       IF reply[w] = "waiting" /\ w \notin loop.taken THEN {app[w]} ELSE {}
  /\ w \in loop.taken => reply[w] = "waiting"

\* A wait that hears of a reload hears of one that rendered at least the
\* variables there were when it registered, never of the one already rendering.
FreshOutcome(w) == reply[w] = "reloaded" => shown[app[w]] >= asked[w]

\* Every wait of EnqueueApp is answered once, by a reload that began after it
\* was registered: takeWaiters hands it to one pass, skip, delete or shutdown,
\* and the worker's unguarded send to it never blocks.
WaitsAnswered == TypeOK /\ \A w \in Waits : WaitHeld(w) /\ FreshOutcome(w)

\* An app asked for by id stays in the worker's hands until it is looked at:
\* no merge of batches, no pass's end and no delete of before loses it.
NothingLost == \A a \in owed : stopping \/
  \/ a \in pending.apps \cup loop.apps \cup loop.out
  \/ a \in queue /\ a \notin dropped
  \/ loop.pc \in {"claim", "render"} /\ loop.current = a

\* An app is not reloaded, and no failure of it reported, once its delete has
\* dropped it, wherever the pass held it.
DeletedNotReloaded ==
  [][At("choose") /\ loop'.pc = "claim" => loop'.current \notin gone]_vars

\* A wait registered while the worker runs ends, also when the agent stops.
EveryWaitEnds ==
  \A w \in Waits : reply[w] = "waiting" /\ ~At("ended") ~> reply[w] # "waiting"

\* EnqueueApp's comment: a skip means the app was not running when its turn
\* came, hence at some time since the wait registered.
SkipMeansStopped == \A w \in Waits : reply[w] = "skipped" => w \in off
=============================================================================
