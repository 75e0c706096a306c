---------------------------- MODULE ReloadProofs ----------------------------
(***************************************************************************)
(* The safety of the reload worker, for any number of apps, waits and      *)
(* variable snapshots: every wait is answered once and by a reload that    *)
(* began after it, no app asked for is lost, no deleted app is reloaded.   *)
(***************************************************************************)
EXTENDS ReloadWorker, TLAPS

\* Where drain resolves a batch, and where it reloads an app.
Resolving == {"exists", "wide", "explicit", "tell", "merge"}
Reloading == {"claim", "render", "up", "report"}

\* What the worker's goroutine holds at each point of drain: a batch only
\* while it is resolved, an app only while it is reloaded; and that it is busy
\* exactly between the start of a pass and its end.
Places ==
  /\ loop.pc \notin Resolving => loop.apps = {} /\ loop.out = {}
  /\ At("wide") => loop.out = {}
  /\ At("merge") => loop.apps = {}
  /\ At("tell") => loop.told # "none"
  /\ loop.pc \notin {"render", "up", "report"} => loop.taken = {}
  /\ loop.pc \in Reloading => loop.current \in Apps
  /\ At("up") => loop.current \in existing
  /\ At("report") => loop.outcome # "none"
  /\ busy <=> loop.pc \notin {"idle", "begin", "ended"}
  /\ ~busy => queue = {}

\* The delete under way has removed its app from the server.
Deletes ==
  /\ deleting.pc = "none" <=> deleting.app = NoApp
  /\ deleting.app \notin existing

\* Every wait is in one place until it is answered; one whose Enqueue is still
\* to come is registered; it asked for no newer variables than there are; and
\* those the worker took are for the app it reloads.
WaitsHeld ==
  \A w \in Waits :
    /\ WaitHeld(w)
    /\ w \in asking => reply[w] # "none"
    /\ reply[w] # "none" => app[w] \in Apps /\ asked[w] <= version[app[w]]
    /\ w \in loop.taken => app[w] = loop.current

\* No container runs with variables newer than the server has; what the worker
\* is about to render is at least as new as what the waits it took asked for,
\* and so is what a wait heard of.
Fresh ==
  /\ \A a \in Apps : shown[a] <= version[a]
  /\ At("up") => /\ shown[loop.current] <= loop.got /\ loop.got <= version[loop.current]
                 /\ \A w \in loop.taken : asked[w] <= loop.got
  /\ At("report") /\ loop.outcome = "reloaded" =>
       \A w \in loop.taken : asked[w] <= shown[loop.current]
  /\ \A w \in Waits : FreshOutcome(w)

\* What NothingLost says, and that a delete settles what is owed: the apps a
\* pass must skip (dropped) are owed nothing.
Owes == NothingLost /\ owed \cap dropped = {}

\* A forgotten app is neither on the server nor in the pending work, and
\* wherever the pass still holds it, it is marked as dropped.
Forgotten ==
  /\ gone \cap existing = {} /\ gone \cap pending.apps = {}
  /\ gone \cap (loop.apps \cup loop.out \cup queue) \subseteq dropped

\* The inductive invariant.
IInv == TypeOK /\ Places /\ Deletes /\ WaitsHeld /\ Fresh /\ Owes /\ Forgotten

\* The type of the worker's goroutine.
LoopType ==
  [pc: PCs, wide: BOOLEAN, apps: SUBSET Apps, out: SUBSET Apps,
   told: {"none", "skipped", "failed"}, current: Apps \cup {NoApp},
   taken: SUBSET Waits, got: 0 .. MaxVersion, outcome: Outcomes]

\* The goroutine with its hands empty has its type.
LEMMA NoLoopTyped ==
  ASSUME NEW p \in PCs
  PROVE  [NoLoop EXCEPT !.pc = p] \in LoopType
<1>1. NoLoop \in LoopType
  BY WorkerAssumption DEF NoLoop, LoopType, PCs, Outcomes
<1> QED
  BY <1>1 DEF LoopType

\* The goroutine's steps keep its type, one update after the other.
LEMMA LoopUpdates ==
  ASSUME NEW r \in LoopType
  PROVE  /\ \A p \in PCs : [r EXCEPT !.pc = p] \in LoopType
         /\ \A o \in Outcomes : [r EXCEPT !.pc = "report", !.outcome = o] \in LoopType
         /\ \A g \in 0 .. MaxVersion : [r EXCEPT !.pc = "up", !.got = g] \in LoopType
         /\ \A s \in SUBSET Apps : [r EXCEPT !.apps = s] \in LoopType
         /\ \A s, t \in SUBSET Apps : [r EXCEPT !.apps = s, !.out = t] \in LoopType
         /\ \A p \in PCs, s \in SUBSET Apps : [r EXCEPT !.pc = p, !.out = s] \in LoopType
         /\ \A p \in PCs, b \in BOOLEAN, s \in SUBSET Apps :
              [r EXCEPT !.pc = p, !.wide = b, !.apps = s] \in LoopType
         /\ \A s \in SUBSET Waits : [r EXCEPT !.pc = "render", !.taken = s] \in LoopType
         /\ \A t \in {"skipped", "failed"}, out, apps \in SUBSET Apps :
              [r EXCEPT !.pc = "tell", !.out = out, !.apps = apps, !.told = t] \in LoopType
BY DEF LoopType, PCs

\* takeWaiters and deliver (here Answer): the waits registered for an app hear the
\* outcome, no other wait does, and none of them is one the worker took.
LEMMA Answers ==
  ASSUME NEW a \in Apps, NEW o, IInv, Answer(a, o)
  PROVE  /\ \A b \in Apps : waiters'[b] = IF b = a THEN {} ELSE waiters[b]
         /\ \A w \in Waits : reply'[w] = IF w \in waiters[a] THEN o ELSE reply[w]
         /\ \A w \in waiters[a] : app[w] = a /\ reply[w] = "waiting" /\ w \notin loop.taken
<1>1. \A w \in waiters[a] :
        w \in Waits /\ app[w] = a /\ reply[w] = "waiting" /\ w \notin loop.taken
  BY DEF IInv, TypeOK, WaitsHeld, WaitHeld
<1>2. \A w \in Waits : reply'[w] = IF w \in waiters[a] THEN o ELSE reply[w]
  BY <1>1 DEF Answer, Delivered
<1>3. \A b \in Apps : waiters'[b] = IF b = a THEN {} ELSE waiters[b]
  BY DEF Answer, IInv, TypeOK
<1> QED
  BY <1>1, <1>2, <1>3

\* Answering an app without a reload keeps every wait in one place.
LEMMA AnswersHold ==
  ASSUME NEW a \in Apps, NEW o \in {"skipped", "failed"}, IInv, Answer(a, o),
         UNCHANGED <<version, app, asking, asked>>,
         loop'.taken = loop.taken, loop'.current = loop.current
  PROVE  WaitsHeld'
<1> SUFFICES ASSUME NEW w \in Waits
             PROVE  /\ WaitHeld(w)'
                    /\ (w \in asking => reply[w] # "none")'
                    /\ (reply[w] # "none" => app[w] \in Apps /\ asked[w] <= version[app[w]])'
                    /\ (w \in loop.taken => app[w] = loop.current)'
  BY DEF WaitsHeld
<1>1. CASE w \in waiters[a]
  BY <1>1, Answers DEF IInv, WaitsHeld, WaitHeld
<1>2. CASE w \notin waiters[a]
  BY <1>2, Answers DEF IInv, WaitsHeld, WaitHeld
<1> QED
  BY <1>1, <1>2

\* Each step keeps the invariant. Run's select takes the wake.
LEMMA WakesKeeps ==
  ASSUME IInv, Wakes
  PROVE  IInv'
<1> USE WorkerAssumption DEF IInv, Wakes, At, Goto, env, world, shared, waiting, bounds
<1>1. TypeOK'
  BY DEF TypeOK, PCs, Outcomes
<1>2. Places'
  BY DEF Places, Resolving, Reloading
<1>3. Deletes'
  BY DEF Deletes
<1>4. WaitsHeld'
  BY DEF WaitsHeld, WaitHeld
<1>5. Fresh'
  BY DEF Fresh, FreshOutcome
<1>6. Owes'
  BY DEF Owes, NothingLost
<1>7. Forgotten'
  BY DEF Forgotten
<1> QED
  BY <1>1, <1>2, <1>3, <1>4, <1>5, <1>6, <1>7

\* drain sets busy.
LEMMA BeginKeeps ==
  ASSUME IInv, Begin
  PROVE  IInv'
<1> USE WorkerAssumption DEF IInv, Begin, At, Goto, env, world, shared, waiting, bounds,
     Busy
<1>1. TypeOK'
  BY DEF TypeOK, PCs, Outcomes
<1>2. Places'
  BY DEF Places, Resolving, Reloading
<1>3. Deletes'
  BY DEF Deletes
<1>4. WaitsHeld'
  BY DEF WaitsHeld, WaitHeld
<1>5. Fresh'
  BY DEF Fresh, FreshOutcome
<1>6. Owes'
  BY DEF Owes, NothingLost
<1>7. Forgotten'
  BY DEF Forgotten
<1> QED
  BY <1>1, <1>2, <1>3, <1>4, <1>5, <1>6, <1>7

\* take hands the pending batch over; what was owed in it is now resolved.
LEMMA TakeKeeps ==
  ASSUME IInv, Take
  PROVE  IInv'
<1> USE WorkerAssumption DEF IInv, Take, At, Goto, env, world, shared, waiting, bounds,
     NoWork
<1>1. PICK p \in {"choose", "exists", "wide", "explicit"}, wide \in BOOLEAN :
        /\ loop' = [loop EXCEPT !.pc = p, !.wide = wide, !.apps = pending.apps]
        /\ p = "choose" => pending.apps = {}
  <2>1. CASE pending = NoWork
    <3>1. loop.apps = {} /\ pending.apps = {}
      BY <2>1 DEF Places, Resolving
    <3>2. loop \in LoopType /\ loop' = [loop EXCEPT !.pc = "choose"]
      BY <2>1 DEF TypeOK, LoopType
    <3>3. /\ loop.wide \in BOOLEAN
          /\ loop' = [loop EXCEPT !.pc = "choose", !.wide = loop.wide, !.apps = pending.apps]
      BY <3>1, <3>2 DEF LoopType
    <3> QED
      BY <3>1, <3>3
  <2>2. CASE pending # NoWork
    BY <2>2 DEF TypeOK
  <2> QED
    BY <2>1, <2>2
<1>0. /\ UNCHANGED <<env, wake, busy, dropped, waiters, queue, reply, owed>>
      /\ pending' = NoWork /\ At("take")
  OBVIOUS
<1> HIDE DEF Take
<1> USE <1>0, <1>1
<1>2. TypeOK'
  BY DEF TypeOK, PCs, Outcomes
<1>3. Places'
  BY DEF Places, Resolving, Reloading
<1>4. Deletes'
  BY DEF Deletes
<1>5. WaitsHeld'
  BY DEF WaitsHeld, WaitHeld
<1>6. Fresh'
  BY DEF Fresh, FreshOutcome
<1>7. Owes'
  BY DEF TypeOK, Places, Resolving, Owes, NothingLost
<1>8. Forgotten'
  BY DEF Forgotten
<1> QED
  BY <1>2, <1>3, <1>4, <1>5, <1>6, <1>7, <1>8

\* The lookup of a wide batch finds running apps, none of them forgotten.
LEMMA LookupWideKeeps ==
  ASSUME IInv, LookupWide
  PROVE  IInv'
<1> USE WorkerAssumption DEF IInv, LookupWide, At, Goto, env, world, shared, waiting,
     bounds, AfterWide, Stale
<1>1. TypeOK'
  <2>1. PICK found \in SUBSET Apps, p \in PCs : loop' = [loop EXCEPT !.pc = p, !.out = found]
    BY DEF AfterWide, TypeOK, PCs
  <2>2. loop \in LoopType
    BY DEF TypeOK, LoopType
  <2>3. loop' \in LoopType
    BY <2>1, <2>2, LoopUpdates
  <2> QED
    BY <2>3 DEF TypeOK, LoopType
<1>2. Places'
  BY DEF Places, Resolving, Reloading
<1>3. Deletes'
  BY DEF Deletes
<1>4. WaitsHeld'
  BY DEF WaitsHeld, WaitHeld
<1>5. Fresh'
  BY DEF Fresh, FreshOutcome
<1>6. Owes'
  BY DEF TypeOK, Places, Resolving, Owes, NothingLost
<1>7. Forgotten'
  BY DEF TypeOK, Forgotten
<1> QED
  BY <1>1, <1>2, <1>3, <1>4, <1>5, <1>6, <1>7

\* The lookup of the apps asked for: none leaves the batch untold.
LEMMA LookupAppsKeeps ==
  ASSUME IInv, LookupApps
  PROVE  IInv'
<1> USE WorkerAssumption DEF IInv, At, Goto, env, world, shared, waiting, bounds
<1>0. UNCHANGED <<env, shared, queue, reply, owed>> /\ At("explicit")
  BY DEF LookupApps
<1>1. PICK found \in SUBSET (loop.apps \cap running \cap existing),
           told \in {"skipped", "failed"}, apps \in SUBSET loop.apps :
        /\ loop' = [loop EXCEPT !.pc = "tell", !.out = loop.out \cup found, !.apps = apps,
                                !.told = told]
        /\ loop.apps \subseteq apps \cup loop.out \cup found
  <2> DEFINE found == loop.apps \cap running \cap existing
  <2>1. CASE loop' = [loop EXCEPT !.pc = "tell", !.told = "failed"]
    <3>1. loop' = [loop EXCEPT !.pc = "tell", !.out = loop.out \cup {}, !.apps = loop.apps,
                               !.told = "failed"]
      BY <2>1 DEF TypeOK
    <3>2. {} \in SUBSET (loop.apps \cap running \cap existing) /\ loop.apps \in SUBSET loop.apps
      OBVIOUS
    <3>3. loop.apps \subseteq loop.apps \cup loop.out \cup {}
      OBVIOUS
    <3> QED
      BY <3>1, <3>2, <3>3, Zenon
  <2>2. CASE loop' = [loop EXCEPT !.pc = "tell", !.out = @ \cup found,
                                  !.apps = @ \ (loop.out \cup found), !.told = "skipped"]
    <3>1. loop' = [loop EXCEPT !.pc = "tell", !.out = loop.out \cup found,
                               !.apps = loop.apps \ (loop.out \cup found), !.told = "skipped"]
      BY <2>2 DEF TypeOK
    <3>2. /\ found \in SUBSET (loop.apps \cap running \cap existing)
          /\ loop.apps \ (loop.out \cup found) \in SUBSET loop.apps
      OBVIOUS
    <3>3. loop.apps \subseteq (loop.apps \ (loop.out \cup found)) \cup loop.out \cup found
      OBVIOUS
    <3> QED
      BY <3>1, <3>2, <3>3, Zenon
  <2> QED
    BY <2>1, <2>2 DEF LookupApps
<1>2. /\ loop'.pc = "tell" /\ loop'.taken = loop.taken /\ loop'.current = loop.current
      /\ loop'.told # "none"
      /\ loop'.apps \subseteq loop.apps /\ loop.out \subseteq loop'.out
      /\ loop'.out \subseteq loop.out \cup (running \cap existing)
      /\ loop.apps \cup loop.out \subseteq loop'.apps \cup loop'.out
  BY <1>1 DEF TypeOK
<1> USE <1>0, <1>2
<1>3. TypeOK'
  <2>1. loop \in LoopType /\ loop.out \cup found \in SUBSET Apps /\ apps \in SUBSET Apps
    BY DEF TypeOK, LoopType
  <2>2. loop' \in LoopType
    BY <1>1, <2>1, LoopUpdates
  <2> QED
    BY <2>2 DEF TypeOK, LoopType
<1>4. Places'
  BY DEF Places, Resolving, Reloading
<1>5. Deletes'
  BY DEF Deletes
<1>6. WaitsHeld'
  BY <1>2 DEF WaitsHeld, WaitHeld
<1>7. Fresh'
  BY DEF Fresh, FreshOutcome
<1>8. Owes'
  BY DEF Owes, NothingLost
<1>9. Forgotten'
  BY DEF Forgotten
<1> QED
  BY <1>3, <1>4, <1>5, <1>6, <1>7, <1>8, <1>9

\* The resolved batch joins the pass's queue.
LEMMA QueueAppsKeeps ==
  ASSUME IInv, QueueApps
  PROVE  IInv'
<1> USE WorkerAssumption DEF IInv, QueueApps, At, Goto, env, world, shared, waiting,
     bounds, Resolved, NoLoop
<1>1. TypeOK'
  <2>1. loop' \in LoopType
    BY NoLoopTyped DEF PCs
  <2> QED
    BY <2>1 DEF TypeOK, LoopType, Resolved
<1>2. Places'
  BY DEF Places, Resolving, Reloading
<1>3. Deletes'
  BY DEF Deletes
<1>4. WaitsHeld'
  BY DEF TypeOK, Places, WaitsHeld, WaitHeld
<1>5. Fresh'
  BY DEF Fresh, FreshOutcome
<1>6. Owes'
  BY DEF TypeOK, Places, Resolving, Owes, NothingLost
<1>7. Forgotten'
  BY DEF Forgotten
<1> QED
  BY <1>1, <1>2, <1>3, <1>4, <1>5, <1>6, <1>7

\* takeWaiters moves the waits of the app from the registry to the reload.
LEMMA ClaimWaitsKeeps ==
  ASSUME IInv, ClaimWaits
  PROVE  IInv'
<1> USE WorkerAssumption DEF IInv, ClaimWaits, At, Goto, env, world, shared, waiting,
     bounds
<1>1. TypeOK'
  BY DEF TypeOK, PCs, Outcomes, Places, Resolving, Reloading, Deletes, WaitsHeld
<1>2. Places'
  BY DEF Places, Resolving, Reloading
<1>3. Deletes'
  BY DEF Deletes
<1>4. WaitsHeld'
  BY DEF TypeOK, PCs, Outcomes, Places, Resolving, Reloading, Deletes, WaitsHeld,
       WaitHeld, Fresh, FreshOutcome
<1>5. Fresh'
  BY DEF Fresh, FreshOutcome
<1>6. Owes'
  BY DEF Owes, NothingLost
<1>7. Forgotten'
  BY DEF Forgotten
<1> QED
  BY <1>1, <1>2, <1>3, <1>4, <1>5, <1>6, <1>7

\* Rendering settles what is owed, from a snapshot as new as the waits.
LEMMA RenderKeeps ==
  ASSUME IInv, Render
  PROVE  IInv'
<1> USE WorkerAssumption DEF IInv, At, Goto, env, world, shared, waiting, bounds
<1>0. /\ UNCHANGED <<env, shared, queue, reply>> /\ At("render")
      /\ owed' = Settled({loop.current})
  BY DEF Render
<1>1. \/ /\ loop.current \in existing
         /\ loop' = [loop EXCEPT !.pc = "up", !.got = version[loop.current]]
      \/ \E o \in {"skipped", "failed"} : loop' = [loop EXCEPT !.pc = "report", !.outcome = o]
  BY DEF Render
<1>2. loop.current \in Apps /\ loop.apps = {} /\ loop.out = {}
  BY <1>0 DEF Places, Reloading, Resolving
<1> USE <1>0, <1>2
<1>3. TypeOK'
  <2>1. loop \in LoopType /\ version[loop.current] \in 0 .. MaxVersion
    BY DEF TypeOK, LoopType
  <2>2. loop' \in LoopType
    BY <1>1, <2>1, LoopUpdates DEF Outcomes
  <2> QED
    BY <2>2 DEF TypeOK, LoopType, Settled
<1>4. /\ loop'.pc \in {"up", "report"}
      /\ loop'.pc = "up" => loop.current \in existing /\ loop'.got = version[loop.current]
      /\ loop'.pc = "report" => loop'.outcome \in {"skipped", "failed"}
      /\ loop'.current = loop.current /\ loop'.taken = loop.taken
      /\ loop'.apps = {} /\ loop'.out = {}
  BY <1>1 DEF TypeOK
<1>5. Places'
  BY <1>4 DEF Places, Resolving, Reloading
<1>6. Deletes'
  BY DEF Deletes
<1>7. WaitsHeld'
  BY <1>4 DEF WaitsHeld, WaitHeld
<1>8. Fresh'
  BY <1>4 DEF TypeOK, WaitsHeld, WaitHeld, Fresh, FreshOutcome
<1>9. Owes'
  BY <1>4 DEF Owes, NothingLost, Settled
<1>10. Forgotten'
  BY <1>4 DEF Forgotten
<1> QED
  BY <1>3, <1>5, <1>6, <1>7, <1>8, <1>9, <1>10

\* Compose up makes the app show what was rendered, or fails.
LEMMA ComposeUpKeeps ==
  ASSUME IInv, ComposeUp
  PROVE  IInv'
<1> USE WorkerAssumption DEF IInv, At, Goto, env, world, shared, waiting, bounds
<1>0. /\ UNCHANGED <<shared, waiting, bounds, version, existing, queue, deleting, stopping, off,
                     owed, gone>>
      /\ At("up")
  BY DEF ComposeUp
<1>1. /\ loop.current \in existing /\ loop.current \in Apps /\ loop.apps = {} /\ loop.out = {}
      /\ loop.got \in 0 .. MaxVersion
  BY <1>0 DEF TypeOK, Places, Reloading, Resolving
<1>2. \/ /\ shown' = [shown EXCEPT ![loop.current] = loop.got]
         /\ running' = running \cup {loop.current}
         /\ loop' = [loop EXCEPT !.pc = "report", !.outcome = "reloaded"]
      \/ /\ UNCHANGED <<shown, running>>
         /\ loop' = [loop EXCEPT !.pc = "report", !.outcome = "failed"]
  BY DEF ComposeUp
<1> USE <1>0, <1>1
<1>3. TypeOK'
  <2>1. shown' \in [Apps -> 0 .. MaxVersion] /\ running' \subseteq existing
    BY <1>2 DEF TypeOK
  <2>2. loop \in LoopType
    BY DEF TypeOK, LoopType
  <2>3. loop' \in LoopType
    BY <1>2, <2>2, LoopUpdates DEF Outcomes
  <2> QED
    BY <2>1, <2>3 DEF TypeOK, LoopType
<1>4. /\ loop'.pc = "report" /\ loop'.current = loop.current /\ loop'.taken = loop.taken
      /\ loop'.apps = {} /\ loop'.out = {}
      /\ loop'.outcome \in {"reloaded", "failed"}
      /\ loop'.outcome = "reloaded" => shown'[loop.current] = loop.got
  BY <1>2 DEF TypeOK
<1>5. \A a \in Apps : shown[a] <= shown'[a] /\ shown'[a] <= version[a]
  BY <1>2 DEF TypeOK, Fresh
<1>6. Places'
  BY <1>4 DEF Places, Resolving, Reloading
<1>7. Deletes'
  BY DEF Deletes
<1>8. WaitsHeld'
  BY <1>4 DEF WaitsHeld, WaitHeld
<1>9. Fresh'
  BY <1>3, <1>4, <1>5 DEF TypeOK, WaitsHeld, Fresh, FreshOutcome
<1>10. Owes'
  BY <1>4 DEF Owes, NothingLost
<1>11. Forgotten'
  BY <1>4 DEF Forgotten
<1> QED
  BY <1>3, <1>6, <1>7, <1>8, <1>9, <1>10, <1>11

\* The outcome goes to the waits that were taken, and a reload they hear of
\* shows what they asked for.
LEMMA ReportKeeps ==
  ASSUME IInv, Report
  PROVE  IInv'
<1> USE WorkerAssumption DEF IInv, At, Goto, env, world, shared, waiting, bounds
<1>0. /\ UNCHANGED <<env, pending, wake, busy, dropped, queue, owed>>
      /\ At("report") /\ loop' = [NoLoop EXCEPT !.pc = "take"]
  BY DEF Report
<1>1. PICK o \in {"stopped", "reloaded", "skipped", "failed"} :
        /\ o = loop.outcome \/ o = "stopped"
        /\ reply' = Delivered(loop.taken, o)
        /\ waiters' = [waiters EXCEPT ![loop.current] = @ \ loop.taken]
  BY DEF Report, Hearers, TypeOK, Outcomes, Places
<1>2. loop.current \in Apps /\ loop.apps = {} /\ loop.out = {}
  BY <1>0 DEF Places, Reloading, Resolving
<1>3. \A w \in Waits : reply'[w] = IF w \in loop.taken THEN o ELSE reply[w]
  BY <1>1 DEF Delivered, WaitsHeld, WaitHeld
<1>4. waiters' = waiters
  <2>1. waiters[loop.current] \cap loop.taken = {}
    BY <1>2 DEF TypeOK, WaitsHeld, WaitHeld
  <2> QED
    BY <1>1, <1>2, <2>1 DEF TypeOK
<1>5. /\ loop'.pc = "take" /\ loop'.apps = {} /\ loop'.out = {} /\ loop'.taken = {}
  BY <1>0 DEF NoLoop
<1> USE <1>0, <1>2
<1>6. TypeOK'
  <2>1. reply' \in [Waits -> {"none", "waiting", "deleted", "stopped", "blocked"} \cup Outcomes]
    BY <1>1 DEF TypeOK, Delivered
  <2>2. loop' \in LoopType
    BY NoLoopTyped DEF PCs
  <2> QED
    BY <1>4, <2>1, <2>2 DEF TypeOK, LoopType
<1>7. Places'
  BY <1>5 DEF Places, Resolving, Reloading
<1>8. Deletes'
  BY DEF Deletes
<1>9. WaitsHeld'
  <2> SUFFICES ASSUME NEW w \in Waits
               PROVE  /\ WaitHeld(w)'
                      /\ (w \in asking => reply[w] # "none")'
                      /\ (reply[w] # "none" => app[w] \in Apps /\ asked[w] <= version[app[w]])'
    BY <1>5 DEF WaitsHeld
  <2>1. CASE w \in loop.taken
    BY <2>1, <1>3, <1>4, <1>5 DEF WaitsHeld, WaitHeld
  <2>2. CASE w \notin loop.taken
    BY <2>2, <1>3, <1>4, <1>5 DEF WaitsHeld, WaitHeld
  <2> QED
    BY <2>1, <2>2
<1>10. Fresh'
  <2>1. ASSUME NEW w \in Waits
        PROVE  FreshOutcome(w)'
    <3>1. CASE w \in loop.taken
      <4>1. asked[w] <= shown[app[w]] \/ o # "reloaded"
        BY <3>1, <1>1 DEF WaitsHeld, Fresh
      <4> QED
        BY <3>1, <4>1, <1>3 DEF TypeOK, FreshOutcome
    <3>2. CASE w \notin loop.taken
      BY <3>2, <1>3 DEF Fresh, FreshOutcome
    <3> QED
      BY <3>1, <3>2
  <2> QED
    BY <2>1, <1>5 DEF Fresh
<1>11. Owes'
  BY <1>5 DEF Owes, NothingLost
<1>12. Forgotten'
  BY <1>5 DEF Forgotten
<1> QED
  BY <1>6, <1>7, <1>8, <1>9, <1>10, <1>11, <1>12

\* The pass's end forgets the drops, with nothing of theirs left in the pass.
LEMMA EndPassKeeps ==
  ASSUME IInv, EndPass
  PROVE  IInv'
<1> USE WorkerAssumption DEF IInv, EndPass, At, Goto, env, world, shared, waiting, bounds
<1>1. TypeOK'
  BY DEF TypeOK, PCs, Outcomes
<1>2. Places'
  BY DEF Places, Resolving, Reloading
<1>3. Deletes'
  BY DEF Deletes
<1>4. WaitsHeld'
  BY DEF WaitsHeld, WaitHeld
<1>5. Fresh'
  BY DEF Fresh, FreshOutcome
<1>6. Owes'
  BY DEF Owes, NothingLost
<1>7. Forgotten'
  BY DEF TypeOK, Places, Resolving, Forgotten
<1> QED
  BY <1>1, <1>2, <1>3, <1>4, <1>5, <1>6, <1>7

\* Run's end answers every wait still registered.
LEMMA RunEndsKeeps ==
  ASSUME IInv, RunEnds
  PROVE  IInv'
<1> USE WorkerAssumption DEF IInv, RunEnds, At, Goto, env, world, shared, waiting,
     bounds, Delivered
<1>1. TypeOK'
  BY DEF TypeOK, PCs, Outcomes
<1>2. Places'
  BY DEF Places, Resolving, Reloading
<1>3. Deletes'
  BY DEF Deletes
<1>4. WaitsHeld'
  BY DEF WaitsHeld, WaitHeld
<1>5. Fresh'
  BY DEF Fresh, FreshOutcome
<1>6. Owes'
  BY DEF Owes, NothingLost
<1>7. Forgotten'
  BY DEF Forgotten
<1> QED
  BY <1>1, <1>2, <1>3, <1>4, <1>5, <1>6, <1>7

\* A waited app is resolved without a lookup, or skipped when it is gone.
LEMMA ResolveKeeps ==
  ASSUME NEW a \in Apps, IInv, Resolve(a)
  PROVE  IInv'
<1> USE WorkerAssumption DEF IInv, At, Goto, env, world, shared, waiting, bounds
<1>1. UNCHANGED <<env, pending, wake, busy, dropped, queue>> /\ At("exists") /\ a \in loop.apps
  BY DEF Resolve
<1> USE <1>1
<1>2. CASE a \in existing
  <2>1. /\ loop' = [loop EXCEPT !.apps = loop.apps \ {a}, !.out = loop.out \cup {a}]
        /\ UNCHANGED <<reply, waiters, owed>>
    BY <1>2 DEF Resolve, TypeOK
  <2>2. TypeOK'
    <3>1. loop \in LoopType /\ loop.apps \ {a} \in SUBSET Apps /\ loop.out \cup {a} \in SUBSET Apps
      BY DEF TypeOK, LoopType
    <3>2. loop' \in LoopType
      BY <2>1, <3>1, LoopUpdates
    <3> QED
      BY <2>1, <3>2 DEF TypeOK, LoopType
  <2>3. /\ loop'.pc = "exists" /\ loop'.taken = loop.taken /\ loop'.current = loop.current
        /\ loop'.apps = loop.apps \ {a} /\ loop'.out = loop.out \cup {a}
    BY <2>1 DEF TypeOK
  <2>4. Places'
    BY <2>3 DEF Places, Resolving, Reloading
  <2>5. Deletes'
    BY DEF Deletes
  <2>6. WaitsHeld'
    BY <2>1, <2>3 DEF WaitsHeld, WaitHeld
  <2>7. Fresh'
    BY <2>1, <2>3 DEF Fresh, FreshOutcome
  <2>8. Owes'
    BY <2>1, <2>3 DEF Owes, NothingLost
  <2>9. Forgotten'
    BY <1>2, <2>3 DEF Forgotten
  <2> QED
    BY <2>2, <2>4, <2>5, <2>6, <2>7, <2>8, <2>9
<1>3. CASE a \notin existing
  <2>1. /\ loop' = [loop EXCEPT !.apps = loop.apps \ {a}]
        /\ Answer(a, "skipped") /\ owed' = Settled({a})
    BY <1>3 DEF Resolve, TypeOK
  <2>2. TypeOK'
    <3>1. loop \in LoopType /\ loop.apps \ {a} \in SUBSET Apps
      BY DEF TypeOK, LoopType
    <3>2. loop' \in LoopType
      BY <2>1, <3>1, LoopUpdates
    <3>3. /\ waiters' \in [Apps -> SUBSET Waits]
          /\ reply' \in [Waits -> {"none", "waiting", "deleted", "stopped", "blocked"} \cup Outcomes]
      BY <2>1 DEF Answer, Delivered, TypeOK, Outcomes
    <3> QED
      BY <2>1, <3>2, <3>3 DEF TypeOK, LoopType, Settled
  <2>3. /\ loop'.pc = "exists" /\ loop'.taken = loop.taken /\ loop'.current = loop.current
        /\ loop'.apps = loop.apps \ {a} /\ loop'.out = loop.out
    BY <2>1 DEF TypeOK
  <2>4. Places'
    BY <2>3 DEF Places, Resolving, Reloading
  <2>5. Deletes'
    BY DEF Deletes
  <2>6. WaitsHeld'
    BY <2>1, <2>3, AnswersHold
  <2>7. Fresh'
    BY <2>1, <2>3, Answers DEF Fresh, FreshOutcome
  <2>8. Owes'
    BY <2>1, <2>3 DEF Owes, NothingLost, Settled
  <2>9. Forgotten'
    BY <2>3 DEF Forgotten
  <2> QED
    BY <2>2, <2>4, <2>5, <2>6, <2>7, <2>8, <2>9
<1> QED
  BY <1>2, <1>3

\* An app the lookup left out is told so.
LEMMA TellKeeps ==
  ASSUME NEW a \in Apps, IInv, Tell(a)
  PROVE  IInv'
<1> USE WorkerAssumption DEF IInv, Tell, At, Goto, env, world, shared, waiting, bounds,
     Answer, Settled, Delivered
<1>1. TypeOK'
  BY DEF TypeOK, PCs, Outcomes
<1>2. Places'
  BY DEF Places
<1>3. Deletes'
  BY DEF Deletes
<1>4. WaitsHeld'
  <2>1. loop'.taken = loop.taken /\ loop'.current = loop.current
    BY DEF TypeOK
  <2>2. PICK o \in {"skipped", "failed"} : Answer(a, o)
    BY DEF TypeOK, Places
  <2> QED
    BY <2>1, <2>2, AnswersHold
<1>5. Fresh'
  BY DEF TypeOK, Fresh, FreshOutcome
<1>6. Owes'
  BY DEF Owes, NothingLost
<1>7. Forgotten'
  BY DEF Forgotten
<1> QED
  BY <1>1, <1>2, <1>3, <1>4, <1>5, <1>6, <1>7

\* The next app of the queue, unless it was dropped.
LEMMA ChooseKeeps ==
  ASSUME NEW a \in Apps, IInv, Choose(a)
  PROVE  IInv'
<1> USE WorkerAssumption DEF IInv, Choose, At, Goto, env, world, shared, waiting, bounds,
     NoLoop
<1>1. TypeOK'
  <2>1. loop' \in LoopType
    <3>1. NoLoop \in LoopType
      BY DEF NoLoop, LoopType, PCs, Outcomes
    <3> QED
      BY <3>1 DEF LoopType, PCs
  <2> QED
    BY <2>1 DEF TypeOK, LoopType
<1>2. Places'
  BY DEF Places, Resolving, Reloading
<1>3. Deletes'
  BY DEF Deletes
<1>4. WaitsHeld'
  BY DEF TypeOK, Places, WaitsHeld, WaitHeld
<1>5. Fresh'
  BY DEF Fresh, FreshOutcome
<1>6. Owes'
  BY DEF TypeOK, Places, Resolving, Owes, NothingLost
<1>7. Forgotten'
  BY DEF Forgotten
<1> QED
  BY <1>1, <1>2, <1>3, <1>4, <1>5, <1>6, <1>7

\* Enqueue merges a batch into the pending work.
LEMMA EnqueueKeeps ==
  ASSUME NEW wide \in BOOLEAN, NEW apps \in SUBSET Apps, IInv, Enqueue(wide, apps)
  PROVE  IInv'
<1> USE WorkerAssumption DEF IInv, Enqueue, At, Goto, env, world, shared, waiting,
     bounds, Merge, Signals
<1>1. TypeOK'
  BY DEF TypeOK
<1>2. Places'
  BY DEF Places
<1>3. Deletes'
  BY DEF Deletes
<1>4. WaitsHeld'
  BY DEF WaitsHeld, WaitHeld
<1>5. Fresh'
  BY DEF Fresh, FreshOutcome
<1>6. Owes'
  BY DEF Owes, NothingLost
<1>7. Forgotten'
  BY DEF Forgotten
<1> QED
  BY <1>1, <1>2, <1>3, <1>4, <1>5, <1>6, <1>7

\* EnqueueApp merges its app after registering its wait.
LEMMA WaitEnqueuesKeeps ==
  ASSUME NEW w \in Waits, IInv, WaitEnqueues(w)
  PROVE  IInv'
<1> USE WorkerAssumption DEF IInv, WaitEnqueues, At, Goto, env, world, shared, waiting,
     bounds, Merge, Signals
<1>1. TypeOK'
  BY DEF TypeOK, PCs, Outcomes, Places, Resolving, Reloading, Deletes, WaitsHeld
<1>2. Places'
  BY DEF Places
<1>3. Deletes'
  BY DEF Deletes
<1>4. WaitsHeld'
  BY DEF WaitsHeld, WaitHeld
<1>5. Fresh'
  BY DEF Fresh, FreshOutcome
<1>6. Owes'
  BY DEF Owes, NothingLost
<1>7. Forgotten'
  BY DEF Forgotten
<1> QED
  BY <1>1, <1>2, <1>3, <1>4, <1>5, <1>6, <1>7

\* EnqueueApp registers a wait.
LEMMA WaitRegistersKeeps ==
  ASSUME NEW w \in Waits, NEW a \in Apps, IInv, WaitRegisters(w, a)
  PROVE  IInv'
<1> USE WorkerAssumption DEF IInv, WaitRegisters, At, Goto, env, world, shared, waiting,
     bounds
<1>1. TypeOK'
  BY DEF TypeOK
<1>2. Places'
  BY DEF Places
<1>3. Deletes'
  BY DEF Deletes
<1>4. WaitsHeld'
  BY DEF TypeOK, WaitsHeld, WaitHeld
<1>5. Fresh'
  BY DEF TypeOK, WaitsHeld, WaitHeld, Fresh, FreshOutcome
<1>6. Owes'
  BY DEF Owes, NothingLost
<1>7. Forgotten'
  BY DEF Forgotten
<1> QED
  BY <1>1, <1>2, <1>3, <1>4, <1>5, <1>6, <1>7

\* Forget takes the app out of the pending work and marks it for the pass.
LEMMA ForgetDropsKeeps ==
  ASSUME IInv, ForgetDrops
  PROVE  IInv'
<1> USE WorkerAssumption DEF IInv, ForgetDrops, At, Goto, env, world, shared, waiting,
     bounds
<1>1. TypeOK'
  BY DEF TypeOK, PCs, Outcomes, Places, Resolving, Reloading, Deletes, WaitsHeld
<1>2. Places'
  BY DEF Places
<1>3. Deletes'
  BY DEF Deletes
<1>4. WaitsHeld'
  BY DEF WaitsHeld, WaitHeld
<1>5. Fresh'
  BY DEF Fresh, FreshOutcome
<1>6. Owes'
  BY DEF Owes, NothingLost
<1>7. Forgotten'
  BY DEF TypeOK, PCs, Outcomes, Places, Resolving, Reloading, Deletes, Forgotten
<1> QED
  BY <1>1, <1>2, <1>3, <1>4, <1>5, <1>6, <1>7

\* Forget answers the waits of the deleted app.
LEMMA ForgetAnswersKeeps ==
  ASSUME IInv, ForgetAnswers
  PROVE  IInv'
<1> USE WorkerAssumption DEF IInv, ForgetAnswers, At, Goto, env, world, shared, waiting,
     bounds, Delivered
<1>1. TypeOK'
  BY DEF TypeOK
<1>2. Places'
  BY DEF Places
<1>3. Deletes'
  BY DEF TypeOK, Deletes
<1>4. WaitsHeld'
  BY DEF TypeOK, PCs, Outcomes, Places, Resolving, Reloading, Deletes, WaitsHeld,
       WaitHeld, Fresh, FreshOutcome
<1>5. Fresh'
  BY DEF Fresh, FreshOutcome
<1>6. Owes'
  BY DEF Owes, NothingLost
<1>7. Forgotten'
  BY DEF Forgotten
<1> QED
  BY <1>1, <1>2, <1>3, <1>4, <1>5, <1>6, <1>7

\* The server beside the worker: a newer snapshot arrives.
LEMMA VariableSyncedKeeps ==
  ASSUME NEW a \in Apps, IInv, VariableSynced(a)
  PROVE  IInv'
<1> USE WorkerAssumption DEF IInv, VariableSynced, At, Goto, env, world, shared, waiting,
     bounds
<1>1. TypeOK'
  BY DEF TypeOK
<1>2. Places'
  BY DEF Places
<1>3. Deletes'
  BY DEF Deletes
<1>4. WaitsHeld'
  BY DEF TypeOK, WaitsHeld, WaitHeld
<1>5. Fresh'
  BY DEF TypeOK, Fresh, FreshOutcome
<1>6. Owes'
  BY DEF Owes, NothingLost
<1>7. Forgotten'
  BY DEF Forgotten
<1> QED
  BY <1>1, <1>2, <1>3, <1>4, <1>5, <1>6, <1>7

\* An app stops.
LEMMA AppStopsKeeps ==
  ASSUME NEW a \in Apps, IInv, AppStops(a)
  PROVE  IInv'
<1> USE WorkerAssumption DEF IInv, AppStops, At, Goto, env, world, shared, waiting,
     bounds, WaitingFor
<1>1. TypeOK'
  BY DEF TypeOK
<1>2. Places'
  BY DEF Places
<1>3. Deletes'
  BY DEF Deletes
<1>4. WaitsHeld'
  BY DEF WaitsHeld, WaitHeld
<1>5. Fresh'
  BY DEF Fresh, FreshOutcome
<1>6. Owes'
  BY DEF Owes, NothingLost
<1>7. Forgotten'
  BY DEF Forgotten
<1> QED
  BY <1>1, <1>2, <1>3, <1>4, <1>5, <1>6, <1>7

\* An app starts with the newest variables.
LEMMA AppStartsKeeps ==
  ASSUME NEW a \in Apps, IInv, AppStarts(a)
  PROVE  IInv'
<1> USE WorkerAssumption DEF IInv, AppStarts, At, Goto, env, world, shared, waiting,
     bounds, Locked
<1>1. TypeOK'
  BY DEF TypeOK
<1>2. Places'
  BY DEF Places
<1>3. Deletes'
  BY DEF Deletes
<1>4. WaitsHeld'
  BY DEF WaitsHeld, WaitHeld
<1>5. Fresh'
  BY DEF TypeOK, Fresh, FreshOutcome
<1>6. Owes'
  BY DEF Owes, NothingLost
<1>7. Forgotten'
  BY DEF Forgotten
<1> QED
  BY <1>1, <1>2, <1>3, <1>4, <1>5, <1>6, <1>7

\* An app is deleted.
LEMMA DeleteAppKeeps ==
  ASSUME NEW a \in Apps, IInv, DeleteApp(a)
  PROVE  IInv'
<1> USE WorkerAssumption DEF IInv, DeleteApp, At, Goto, env, world, shared, waiting,
     bounds, Locked, WaitingFor
<1>1. TypeOK'
  BY DEF TypeOK
<1>2. Places'
  BY DEF Places
<1>3. Deletes'
  BY DEF Deletes
<1>4. WaitsHeld'
  BY DEF WaitsHeld, WaitHeld
<1>5. Fresh'
  BY DEF Fresh, FreshOutcome
<1>6. Owes'
  BY DEF Owes, NothingLost
<1>7. Forgotten'
  BY DEF Forgotten
<1> QED
  BY <1>1, <1>2, <1>3, <1>4, <1>5, <1>6, <1>7

\* The agent stops.
LEMMA StopKeeps ==
  ASSUME IInv, Stop
  PROVE  IInv'
<1> USE WorkerAssumption DEF IInv, Stop, At, Goto, env, world, shared, waiting, bounds
<1>1. TypeOK'
  BY DEF TypeOK
<1>2. Places'
  BY DEF Places
<1>3. Deletes'
  BY DEF Deletes
<1>4. WaitsHeld'
  BY DEF WaitsHeld, WaitHeld
<1>5. Fresh'
  BY DEF Fresh, FreshOutcome
<1>6. Owes'
  BY DEF Owes, NothingLost
<1>7. Forgotten'
  BY DEF Forgotten
<1> QED
  BY <1>1, <1>2, <1>3, <1>4, <1>5, <1>6, <1>7

\* The invariant holds at the start.
LEMMA InitHolds == Init => IInv
<1> SUFFICES ASSUME Init
             PROVE  IInv
  OBVIOUS
<1> USE WorkerAssumption DEF Init, At
<1>1. TypeOK
  <2>1. loop \in LoopType
    BY DEF NoLoop, LoopType, PCs, Outcomes
  <2>2. /\ version \in [Apps -> 0 .. MaxVersion] /\ shown \in [Apps -> 0 .. MaxVersion]
        /\ asked \in [Waits -> 0 .. MaxVersion]
    OBVIOUS
  <2>3. /\ pending \in [wide: BOOLEAN, apps: SUBSET Apps] /\ waiters \in [Apps -> SUBSET Waits]
    BY DEF NoWork
  <2>4. /\ deleting \in [app: Apps \cup {NoApp}, pc: {"none", "forget", "answer"}]
        /\ reply \in [Waits -> {"none", "waiting", "deleted", "stopped", "blocked"} \cup Outcomes]
        /\ app \in [Waits -> Apps \cup {NoApp}]
    BY DEF Outcomes
  <2>5. /\ running \subseteq existing /\ existing \subseteq Apps
        /\ wake \in BOOLEAN /\ busy \in BOOLEAN /\ stopping \in BOOLEAN
        /\ dropped \subseteq Apps /\ queue \subseteq Apps /\ asking \subseteq Waits
        /\ off \subseteq Waits /\ owed \subseteq Apps /\ gone \subseteq Apps
    OBVIOUS
  <2>6. asks \in 0 .. MaxEvents /\ starts \in 0 .. MaxEvents
    OBVIOUS
  <2> QED
    BY <2>1, <2>2, <2>3, <2>4, <2>5, <2>6, Zenon DEF TypeOK, LoopType
<1>2. Places
  BY DEF Places, Resolving, Reloading, NoLoop
<1>3. Deletes
  BY DEF Deletes
<1>4. WaitsHeld
  BY DEF WaitsHeld, WaitHeld, NoLoop
<1>5. Fresh
  BY DEF Fresh, FreshOutcome, NoLoop
<1>6. Owes
  BY DEF Owes, NothingLost
<1>7. Forgotten
  BY DEF Forgotten
<1> QED
  BY <1>1, <1>2, <1>3, <1>4, <1>5, <1>6, <1>7 DEF IInv

\* A stuttering step.
LEMMA StutterKeeps ==
  ASSUME IInv, UNCHANGED vars
  PROVE  IInv'
<1> USE DEF vars, world, shared, waiting, bounds
<1>1. TypeOK' /\ Places' /\ Deletes'
  BY DEF IInv, TypeOK, Places, Deletes, At
<1>2. WaitsHeld' /\ Fresh'
  BY DEF IInv, WaitsHeld, WaitHeld, Fresh, FreshOutcome, At
<1>3. Owes' /\ Forgotten'
  BY DEF IInv, Owes, NothingLost, Forgotten
<1> QED
  BY <1>1, <1>2, <1>3 DEF IInv

\* Every step keeps the invariant.
LEMMA NextKeeps == IInv /\ [Next]_vars => IInv'
<1> SUFFICES ASSUME IInv, [Next]_vars
             PROVE  IInv'
  OBVIOUS
<1>1. CASE Worker
  BY <1>1, WakesKeeps, BeginKeeps, TakeKeeps, LookupWideKeeps, LookupAppsKeeps,
       QueueAppsKeeps,
     ResolveKeeps, TellKeeps, ChooseKeeps, ClaimWaitsKeeps, RenderKeeps, ComposeUpKeeps,
     ReportKeeps, EndPassKeeps, RunEndsKeeps DEF Worker
<1>2. CASE Commands
  <2>1. ASSUME NEW apps \in SUBSET Apps, Enqueue(apps = {}, apps)
        PROVE  IInv'
    BY <2>1, EnqueueKeeps
  <2> QED
    BY <1>2, <2>1, WaitEnqueuesKeeps, WaitRegistersKeeps, ForgetDropsKeeps,
         ForgetAnswersKeeps
    DEF Commands
<1>3. CASE Server
  BY <1>3, VariableSyncedKeeps, AppStopsKeeps, AppStartsKeeps, DeleteAppKeeps DEF Server
<1>4. CASE Stop
  BY <1>4, StopKeeps
<1>5. CASE UNCHANGED vars
  BY <1>5, StutterKeeps
<1> QED
  BY <1>1, <1>2, <1>3, <1>4, <1>5 DEF Next

\* The invariant holds in every reachable state of the worker, for any number
\* of apps and waits.
THEOREM WorkerInvariant == Spec => []IInv
BY InitHolds, NextKeeps, PTL DEF Spec

\* Every wait of EnqueueApp is in one place until it is answered, once, and a
\* reload it hears of rendered at least the variables there were when it
\* registered.
COROLLARY WaitsAreAnswered == Spec => []WaitsAnswered
<1>1. IInv => WaitsAnswered
  BY DEF IInv, WaitsAnswered, WaitsHeld, Fresh
<1> QED
  BY <1>1, WorkerInvariant, PTL

\* An app asked for by id stays in the worker's hands until it is looked at,
\* whatever batches are merged, passes end or deletes happen.
COROLLARY RequestsAreKept == Spec => []NothingLost
<1>1. IInv => NothingLost
  BY DEF IInv, Owes
<1> QED
  BY <1>1, WorkerInvariant, PTL

\* An app is not reloaded once its delete has dropped it, wherever the pass
\* held it: the check of dropped when drain takes an app from its queue.
THEOREM DroppedStaysOut == Spec => DeletedNotReloaded
<1>1. ASSUME IInv, Next, At("choose"), loop'.pc = "claim"
      PROVE  loop'.current \notin gone
  <2> USE DEF At
  <2>1. CASE Worker
    <3>1. PICK a \in Apps : Choose(a)
      BY <1>1, <2>1 DEF Worker, Wakes, Begin, Take, LookupWide, LookupApps, QueueApps,
           Resolve, Tell,
         ClaimWaits, Render, ComposeUp, Report, EndPass, RunEnds, Goto, IInv, TypeOK
    <3>2. a \in queue /\ a \notin dropped /\ loop'.current = a
      BY <1>1, <3>1 DEF Choose, NoLoop
    <3> QED
      BY <1>1, <3>2 DEF IInv, Forgotten
  <2>2. CASE ~Worker
    <3>1. UNCHANGED loop
      BY <1>1, <2>2 DEF Next, Commands, Server, Enqueue, WaitEnqueues, WaitRegisters,
           ForgetDrops,
         ForgetAnswers, VariableSynced, AppStops, AppStarts, DeleteApp, Stop
    <3> QED
      BY <1>1, <3>1
  <2> QED
    BY <2>1, <2>2
<1>2. IInv /\ [Next]_vars =>
        [At("choose") /\ loop'.pc = "claim" => loop'.current \notin gone]_vars
  BY <1>1
<1> QED
  BY <1>2, WorkerInvariant, PTL DEF Spec, DeletedNotReloaded
=============================================================================
