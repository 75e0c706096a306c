------------------------------ MODULE Rollouts ------------------------------
(***************************************************************************)
(* The rollout queue (internal/domain/usecase/rollouts): queued, resumable *)
(* one-app-at-a-time jobs in the rollouts table, driven by one worker per  *)
(* API process under a lease that another process may take over.           *)
(*                                                                         *)
(* One action is one database statement or one wait of the code, so every  *)
(* interleaving of the processes between two statements is a behaviour.    *)
(* Time is abstracted to what the statements compare: a lease_until is in  *)
(* the future ("live") or not ("past"), a SettleBy has passed or not.      *)
(***************************************************************************)
EXTENDS Naturals, FiniteSets

CONSTANTS
  Workers,      \* lease owners: one per API process start (UseCase.owner)
  Upgrades,     \* ids of template_upgrade rollouts, all of one scope_key
  Reloads,      \* ids of vars_reload rollouts, all of one scope_key
  Apps,         \* the apps, each on a server of its own
  Requests,     \* QueueReload calls
  NoWorker,     \* lease_owner = ''
  NoRollout,    \* a worker drives nothing
  NoApp,        \* current_app_id = ''
  MaxRev,       \* bound on the shared-variables revision
  Keep,         \* keepEnded: ended rollouts kept per scope
  ExtendTries,  \* extendTries
  MaxFaults,    \* bound on crashes and database errors
  MaxStalls     \* bound on leases that run out under a live driver

Rollouts == Upgrades \cup Reloads

ASSUME RolloutsAssumption ==
  /\ IsFiniteSet(Apps) /\ IsFiniteSet(Rollouts)
  /\ Upgrades \cap Reloads = {}
  /\ NoWorker \notin Workers
  /\ NoRollout \notin Rollouts
  /\ NoApp \notin Apps
  /\ MaxRev \in Nat /\ Keep \in Nat /\ ExtendTries \in Nat
  /\ MaxFaults \in Nat /\ MaxStalls \in Nat

VARIABLES
  row,       \* the rollouts table
  below,     \* apps whose instance is below the upgrade's target revision
  rep,       \* per app, the status cache's latest report of its server
  curRev,    \* the org's shared-variables revision
  lateRev,   \* per rollout, the scope_rev up to which SettleBy has passed
  up,        \* the workers that have not crashed or shut down
  pc,        \* per worker, the next statement of its drive
  held,      \* per worker, the rollout it drives
  snap,      \* per worker, the row as GetRollout last returned it
  pick,      \* per worker, the pick of its step
  outcome,   \* per worker, how its step ended
  req,       \* per QueueReload call, its progress
  stopCalls, \* Stop calls between StopUnleased and RequestStop
  faults, stalls,
  owed,      \* history: per rollout, the scope asked of it and not yet looked at
  afterStop  \* history: steps started after a stop was requested

rowVars  == <<row, owed, afterStop>>
world    == <<below, rep, curRev, lateRev>>
driver   == <<pc, held, snap, pick, outcome>>
calls    == <<req, stopCalls>>
bounds   == <<faults, stalls>>
vars     == <<row, owed, afterStop, below, rep, curRev, lateRev, up, pc, held,
              snap, pick, outcome, req, stopCalls, faults, stalls>>

ActiveStates == {"queued", "running"}
EndedStates  == {"done", "stopped", "failed"}
Active(r) == row[r].state \in ActiveStates
Ended(r)  == row[r].state \in EndedStates

SameScope(r, s) == (r \in Upgrades) <=> (s \in Upgrades)

\* A scope maps an app to the revision its server's report must have reached,
\* shifted by one; 0 is an app the scope does not reach.
Unwanted == 0
Scopes   == [Apps -> 0 .. (MaxRev + 1)]
NoScope  == [a \in Apps |-> Unwanted]
Wanted(s) == {a \in Apps : s[a] # Unwanted}

\* ReloadScope.Merge: the union of the apps, the higher revision of each.
Merge(s, t) == [a \in Apps |-> IF t[a] > s[a] THEN t[a] ELSE s[a]]

Rows == [state: {"none", "gone"} \cup ActiveStates \cup EndedStates,
         scope: Scopes, rev: Nat, stop: BOOLEAN, current: Apps \cup {NoApp},
         done: Nat, skipped: Nat, total: Nat, skip: SUBSET Apps,
         owner: Workers \cup {NoWorker}, lease: {"null", "live", "past"},
         fin: Nat]

NoRow == [state |-> "none", scope |-> NoScope, rev |-> 0, stop |-> FALSE,
          current |-> NoApp, done |-> 0, skipped |-> 0, total |-> 0,
          skip |-> {}, owner |-> NoWorker, lease |-> "null", fin |-> 0]

\* live: LatestReport returns it; stale: it lists the app running with
\* variables the scope wants reloaded.
Reports == [live: BOOLEAN, rev: Nat, stale: BOOLEAN]

\* pick: the app, the apps left to do (it included) and revSeen.
Picks  == [app: Apps \cup {NoApp}, remaining: Nat, revSeen: Nat]
NoPick == [app |-> NoApp, remaining |-> 0, revSeen |-> 0]

-----------------------------------------------------------------------------
(* The statements of query/sqlite/rollouts.sql and what they test. An        *)
(* operator named after another with a suffix (Claimable_AnyLease) is that   *)
(* one with a guard or a part missing: the properties tell the two apart.    *)

\* A lease nobody holds: NULL or not in the future.
Unleased(r) == row[r].lease \in {"null", "past"}

Claimable_AnyLease(r)  == Active(r)
Claimable_NullLease(r) == Active(r) /\ row[r].lease = "null"

Claimable(r) == Active(r) /\ Unleased(r)

\* WHERE lease_owner = ? AND state = 'running', the guard of every write a
\* worker makes.
Owns(w, r) == row[r].owner = w /\ row[r].state = "running"

\* CompleteRollout's scope_rev: the scope is still the one read.
ScopeStands_Unchecked(w) == TRUE

ScopeStands(w) == row[held[w]].rev = snap[w].rev

\* ReleaseRolloutLease: unowned, claimable at once (null) or when lease ends.
Released(w, r, lease) ==
  IF row[r].owner = w THEN [row EXCEPT ![r].owner = NoWorker, ![r].lease = lease] ELSE row

\* A row as an end leaves it: finished_at is later than every other row's.
EndedRow(r, state, current) ==
  [row[r] EXCEPT !.state = state, !.current = current, !.owner = NoWorker,
                 !.lease = "null",
                 !.fin = 1 + Cardinality({s \in Rollouts : row[s].fin # 0})]

\* PruneRollouts: the ended rollouts of r's scope but the Keep newest go.
Pruned(rows, r) ==
  LET old == {s \in Rollouts : SameScope(r, s) /\ rows[s].state \in EndedStates}
      newer(s) == {t \in old : rows[t].fin > rows[s].fin}
  IN [s \in Rollouts |-> IF s \in old /\ Cardinality(newer(s)) >= Keep
                         THEN [rows[s] EXCEPT !.state = "gone"] ELSE rows[s]]

\* An end is announced and followed by a prune, which may fail.
End(r, newRow) ==
  LET rows == [row EXCEPT ![r] = newRow]
  IN \/ row' = rows
     \/ row' = Pruned(rows, r)

-----------------------------------------------------------------------------
(* The apps, as the worker sees them. *)

\* The server's latest report is missing, expired or from before the change.
Behind(s, a) == ~rep[a].live \/ rep[a].rev + 1 < s[a]

\* What next() leaves to do for a rollout read as r (a record) of this id.
Todo(id, r) ==
  IF id \in Upgrades THEN below \ r.skip
  ELSE {a \in Wanted(r.scope) : ~Behind(r.scope, a) /\ rep[a].stale} \ r.skip

Waiting(id, r) ==
  /\ id \in Reloads
  /\ r.rev >= lateRev[id]
  /\ \E a \in Wanted(r.scope) : Behind(r.scope, a)

\* The reports that may follow a's latest: at the same revision an app only
\* gets fresher (it is rendered again), a newer revision may change either.
ReportsFrom(a) ==
  {n \in [live: {TRUE}, rev: rep[a].rev .. curRev, stale: BOOLEAN] :
     n.rev = rep[a].rev => (n.stale => rep[a].stale)}

-----------------------------------------------------------------------------
Init ==
  /\ row = [r \in Rollouts |-> NoRow]
  /\ below = {}
  /\ rep = [a \in Apps |-> [live |-> FALSE, rev |-> 0, stale |-> TRUE]]
  /\ curRev = 0
  /\ lateRev = [r \in Rollouts |-> 0]
  /\ up = Workers
  /\ pc = [w \in Workers |-> "idle"]
  /\ held = [w \in Workers |-> NoRollout]
  /\ snap = [w \in Workers |-> NoRow]
  /\ pick = [w \in Workers |-> NoPick]
  /\ outcome = [w \in Workers |-> "none"]
  /\ req = [q \in Requests |-> [pc |-> "new", want |-> NoScope, at |-> NoRollout,
                                rev |-> 0, scope |-> NoScope, tries |-> 0]]
  /\ stopCalls = {}
  /\ faults = 0 /\ stalls = 0
  /\ owed = [r \in Rollouts |-> NoScope]
  /\ afterStop = [r \in Rollouts |-> 0]

-----------------------------------------------------------------------------
(* The world: variables change, servers report, apps are redeployed, time    *)
(* passes.                                                                   *)

VariableSaved ==
  /\ curRev < MaxRev
  /\ curRev' = curRev + 1
  /\ UNCHANGED <<rowVars, below, rep, lateRev, up, driver, calls, bounds>>

\* Reports are read by reloads only.
ServerReports(a) ==
  /\ Reloads # {}
  /\ \E n \in ReportsFrom(a) : n # rep[a] /\ rep' = [rep EXCEPT ![a] = n]
  /\ UNCHANGED <<rowVars, below, curRev, lateRev, up, driver, calls, bounds>>

ReportExpires(a) ==
  /\ rep[a].live
  /\ rep' = [rep EXCEPT ![a].live = FALSE]
  /\ UNCHANGED <<rowVars, below, curRev, lateRev, up, driver, calls, bounds>>

\* An app upgraded by other means, or by a command whose worker lost its lease.
UpgradedElsewhere(a) ==
  /\ a \in below
  /\ below' = below \ {a}
  /\ UNCHANGED <<rowVars, rep, curRev, lateRev, up, driver, calls, bounds>>

\* SettleBy of the scope as it is now passes (an extension moves it later).
SettlePasses(r) ==
  /\ r \in Reloads /\ Active(r)
  /\ lateRev[r] <= row[r].rev
  /\ lateRev' = [lateRev EXCEPT ![r] = row[r].rev + 1]
  /\ UNCHANGED <<rowVars, below, rep, curRev, up, driver, calls, bounds>>

Driving(w, r) == w \in up /\ held[w] = r

\* lease_until passes. A driver renews well inside its lease, so the lease of
\* a live driver runs out only when its process stalls.
LeaseExpires(r) ==
  /\ Active(r) /\ row[r].lease = "live"
  /\ row' = [row EXCEPT ![r].lease = "past"]
  /\ IF \E w \in Workers : Driving(w, r) /\ row[r].owner = w
     THEN stalls < MaxStalls /\ stalls' = stalls + 1
     ELSE UNCHANGED stalls
  /\ UNCHANGED <<owed, afterStop, world, up, driver, calls, faults>>

-----------------------------------------------------------------------------
(* QueueUpgrade, QueueReload and Stop. *)

\* InsertRollout ... ON CONFLICT DO NOTHING: one active rollout per scope.
Insertable(r) ==
  /\ row[r].state = "none"
  /\ \A s \in Rollouts : SameScope(r, s) => ~Active(s)

Queued(scope) == [NoRow EXCEPT !.state = "queued", !.scope = scope]

\* below is what the template's new revision finds below it.
QueueUpgrade(r) ==
  /\ r \in Upgrades /\ Insertable(r)
  /\ row' = [row EXCEPT ![r] = Queued(NoScope)]
  /\ below' \in SUBSET Apps \ {{}}
  /\ UNCHANGED <<owed, afterStop, rep, curRev, lateRev, up, driver, calls, bounds>>

ActiveReloads == {r \in Reloads : Active(r)}

\* QueueReload is called for some apps, at the revision just saved.
ReloadAsked(q) ==
  /\ req[q].pc = "new"
  /\ \E apps \in SUBSET Apps :
       /\ apps # {}
       /\ req' = [req EXCEPT ![q].pc = "get", ![q].want =
                    [a \in Apps |-> IF a \in apps THEN curRev + 1 ELSE Unwanted]]
  /\ UNCHANGED <<rowVars, world, up, driver, stopCalls, bounds>>

\* GetActiveRollout, and what QueueReload decides from the row it returns.
ReloadLooks(q) ==
  /\ req[q].pc = "get"
  /\ IF req[q].tries = ExtendTries
     THEN req' = [req EXCEPT ![q].pc = "gaveup"]
     ELSE \/ /\ ActiveReloads = {}
             /\ req' = [req EXCEPT ![q].pc = "insert"]
          \/ \E r \in ActiveReloads :
               req' = IF row[r].stop
                      THEN [req EXCEPT ![q].pc = "refused"]
                      ELSE [req EXCEPT ![q].pc = "extend", ![q].at = r,
                                       ![q].rev = row[r].rev, ![q].scope = row[r].scope]
  /\ UNCHANGED <<rowVars, world, up, driver, stopCalls, bounds>>

\* A lost race starts QueueReload's next try.
Again(q) == req' = [req EXCEPT ![q].pc = "get", ![q].tries = @ + 1]

ReloadInserts(q) ==
  /\ req[q].pc = "insert"
  /\ \/ \E r \in Reloads :
          /\ Insertable(r)
          /\ row' = [row EXCEPT ![r] = Queued(req[q].want)]
          /\ owed' = [owed EXCEPT ![r] = req[q].want]
          /\ req' = [req EXCEPT ![q].pc = "accepted", ![q].at = r]
     \/ /\ ActiveReloads # {}
        /\ Again(q)
        /\ UNCHANGED <<row, owed>>
  /\ UNCHANGED <<afterStop, world, up, driver, stopCalls, bounds>>

\* ExtendRollout: WHERE scope_rev = ? AND active AND NOT stop_requested.
Extends_Stopping(q, r) == Active(r) /\ row[r].rev = req[q].rev

Extends(q, r) == Active(r) /\ row[r].rev = req[q].rev /\ ~row[r].stop

ReloadExtends(q) ==
  LET r == req[q].at IN
  /\ req[q].pc = "extend"
  /\ IF Extends(q, r)
     THEN /\ row' = [row EXCEPT ![r].scope = Merge(req[q].scope, req[q].want),
                                ![r].rev = @ + 1]
          /\ owed' = [owed EXCEPT ![r] = Merge(@, req[q].want)]
          /\ req' = [req EXCEPT ![q].pc = "accepted"]
     ELSE Again(q) /\ UNCHANGED <<row, owed>>
  /\ UNCHANGED <<afterStop, world, up, driver, stopCalls, bounds>>

\* StopUnleased ends a rollout nobody drives; otherwise RequestStop follows.
StopUnleased(r) ==
  /\ Active(r) /\ r \notin stopCalls
  /\ IF row[r].owner = NoWorker \/ Unleased(r)
     THEN End(r, [EndedRow(r, "stopped", NoApp) EXCEPT !.stop = TRUE]) /\ UNCHANGED stopCalls
     ELSE stopCalls' = stopCalls \cup {r} /\ UNCHANGED row
  /\ UNCHANGED <<owed, afterStop, world, up, driver, req, bounds>>

RequestStop(r) ==
  /\ r \in stopCalls
  /\ stopCalls' = stopCalls \ {r}
  /\ row' = IF Active(r) THEN [row EXCEPT ![r].stop = TRUE] ELSE row
  /\ UNCHANGED <<owed, afterStop, world, up, driver, req, bounds>>

-----------------------------------------------------------------------------
(* The worker: pass, drive, step. *)

Goto(w, l) == pc' = [pc EXCEPT ![w] = l]

\* The drive ends: nothing of it survives.
Leave(w) ==
  /\ pc' = [pc EXCEPT ![w] = "idle"]
  /\ held' = [held EXCEPT ![w] = NoRollout]
  /\ snap' = [snap EXCEPT ![w] = NoRow]
  /\ pick' = [pick EXCEPT ![w] = NoPick]
  /\ outcome' = [outcome EXCEPT ![w] = "none"]

At(w, l) == w \in up /\ pc[w] = l

\* pass: a claimable rollout is claimed with a lease and driven.
Claim(w, r) ==
  /\ At(w, "idle") /\ Claimable(r)
  /\ row' = [row EXCEPT ![r].owner = w, ![r].lease = "live", ![r].state = "running"]
  /\ held' = [held EXCEPT ![w] = r]
  /\ Goto(w, "read")
  /\ UNCHANGED <<owed, afterStop, world, up, snap, pick, outcome, calls, bounds>>

\* A worker about to take a step looks at stop_requested.
MustStop_NotAsked(r) == FALSE

MustStop(r) == row[r].stop

\* drive: GetRollout before every step.
ReadRow(w) ==
  LET r == held[w] IN
  /\ At(w, "read")
  /\ IF Active(r) /\ row[r].owner = w
     THEN /\ snap' = [snap EXCEPT ![w] = row[r]]
          /\ Goto(w, IF MustStop(r) THEN "finish" ELSE "next")
          /\ outcome' = [outcome EXCEPT ![w] = IF MustStop(r) THEN "stopped" ELSE "none"]
          /\ UNCHANGED <<held, pick>>
     ELSE Leave(w)
  /\ UNCHANGED <<rowVars, world, up, calls, bounds>>

\* What is asked of r and not yet looked at, after an evaluation of scope.
Looked(r, scope) ==
  [a \in Apps |-> IF owed[r][a] <= scope[a] THEN Unwanted ELSE owed[r][a]]

\* next, evaluated fresh: an app to do, nothing yet (park) or the end.
PickNext(w) ==
  LET r == held[w]  todo == Todo(r, snap[w])  wait == Waiting(r, snap[w]) IN
  /\ At(w, "next")
  /\ \/ \E a \in todo :
          /\ pick' = [pick EXCEPT ![w] = [app |-> a, remaining |-> Cardinality(todo),
                                         revSeen |-> rep[a].rev]]
          /\ Goto(w, "start")
          /\ UNCHANGED owed
     \/ /\ todo = {} /\ wait
        /\ Goto(w, "park")
        /\ UNCHANGED <<pick, owed>>
     \/ /\ todo = {} /\ ~wait
        /\ Goto(w, "complete")
        /\ owed' = [owed EXCEPT ![r] = Looked(r, snap[w].scope)]
        /\ UNCHANGED pick
  /\ UNCHANGED <<row, afterStop, world, up, held, snap, outcome, calls, bounds>>

\* CompleteRollout: WHERE ... AND scope_rev = ?; an extension means look again.
Complete(w) ==
  LET r == held[w] IN
  /\ At(w, "complete")
  /\ \/ /\ Owns(w, r) /\ ScopeStands(w)
        /\ End(r, EndedRow(r, "done", NoApp))
        /\ Leave(w)
     \/ /\ ~(Owns(w, r) /\ ScopeStands(w))
        /\ Goto(w, "read")
        /\ UNCHANGED <<row, held, snap, pick, outcome>>
  /\ UNCHANGED <<owed, afterStop, world, up, calls, bounds>>

StepTotal_DoneOnly(w) == snap[w].done + pick[w].remaining

StepTotal(w) == snap[w].done + snap[w].skipped + pick[w].remaining

\* StartRolloutStep records the app in flight and the total.
StartStep(w) ==
  LET r == held[w] IN
  /\ At(w, "start")
  /\ IF Owns(w, r)
     THEN /\ row' = [row EXCEPT ![r].current = pick[w].app,
                                ![r].total = StepTotal(w)]
          /\ afterStop' = [afterStop EXCEPT ![r] = IF row[r].stop THEN @ + 1 ELSE @]
          /\ Goto(w, "run")
          /\ UNCHANGED <<held, snap, pick, outcome>>
     ELSE Leave(w) /\ UNCHANGED <<row, afterStop>>
  /\ UNCHANGED <<owed, world, up, calls, bounds>>

EndStep(w, o) ==
  /\ outcome' = [outcome EXCEPT ![w] = o]
  /\ Goto(w, IF o = "failed" THEN "finish" ELSE "count")

\* upgrader.run: dispatch the save, await it, await the app's health. A step
\* that went through but left the instance below is forgotten.
RunUpgrade(w) ==
  LET a == pick[w].app IN
  /\ At(w, "run") /\ held[w] \in Upgrades
  /\ below' \in {below, below \ {a}}
  /\ \/ EndStep(w, "failed")
     \/ EndStep(w, "forget")
     \/ a \notin below' /\ EndStep(w, "done")
     \/ below' = below /\ EndStep(w, "skipped")
  /\ UNCHANGED <<rowVars, rep, curRev, lateRev, up, held, snap, pick, calls, bounds>>

\* reloader.run: a reload that ended leaves reports behind it; still stale at
\* the revision the app was picked at fails the step, unless that report has
\* expired when it is looked up again.
RunReload(w) ==
  LET a == pick[w].app IN
  /\ At(w, "run") /\ held[w] \in Reloads
  /\ \/ /\ \E o \in {"failed", "skipped"} : EndStep(w, o)
        /\ UNCHANGED <<rep, faults>>
     \/ /\ \E n \in ReportsFrom(a) :
             /\ rep' = [rep EXCEPT ![a] = n]
             /\ EndStep(w, IF n.stale /\ n.rev = pick[w].revSeen THEN "failed" ELSE "done")
        /\ UNCHANGED faults
     \/ /\ faults < MaxFaults /\ faults' = faults + 1
        /\ \E n \in ReportsFrom(a) : rep' = [rep EXCEPT ![a] = [n EXCEPT !.live = FALSE]]
        /\ EndStep(w, "done")
  /\ UNCHANGED <<rowVars, below, curRev, lateRev, up, held, snap, pick, calls, stalls>>

\* The skip list is the one read at the step's start, and the step's app.
SkipIDs(w) == IF outcome[w] = "done" THEN snap[w].skip ELSE snap[w].skip \cup {pick[w].app}

\* CountRolloutStep: a step that is forgotten counts as done.
CountStep(w) ==
  LET r == held[w]  o == outcome[w] IN
  /\ At(w, "count")
  /\ IF Owns(w, r)
     THEN /\ row' = [row EXCEPT
               ![r].done = IF o = "skipped" THEN @ ELSE @ + 1,
               ![r].skipped = IF o = "skipped" THEN @ + 1 ELSE @,
               ![r].skip = SkipIDs(w)]
          /\ Goto(w, "read")
          /\ UNCHANGED <<held, snap, pick, outcome>>
     ELSE Leave(w) /\ UNCHANGED row
  /\ UNCHANGED <<owed, afterStop, world, up, calls, bounds>>

\* FinishRollout: stopped or failed; a failure keeps the app that failed.
Finish(w) ==
  LET r == held[w] IN
  /\ At(w, "finish")
  /\ IF Owns(w, r)
     THEN End(r, EndedRow(r, outcome[w], IF outcome[w] = "failed" THEN pick[w].app ELSE NoApp))
     ELSE UNCHANGED row
  /\ Leave(w)
  /\ UNCHANGED <<owed, afterStop, world, up, calls, bounds>>

\* ReleaseRolloutLease, parking: unowned, with a lease that ends settlePoll on.
Park(w) ==
  LET r == held[w] IN
  /\ At(w, "park")
  /\ row' = Released(w, r, "live")
  /\ Leave(w)
  /\ UNCHANGED <<owed, afterStop, world, up, calls, bounds>>

\* keepLease: a renewal that finds the lease gone cancels the drive.
Renew(w) ==
  LET r == held[w] IN
  /\ w \in up /\ r # NoRollout
  /\ \/ /\ Owns(w, r) /\ row[r].lease = "past"
        /\ row' = [row EXCEPT ![r].lease = "live"]
        /\ UNCHANGED driver
     \/ /\ ~Owns(w, r)
        /\ Leave(w)
        /\ UNCHANGED row
  /\ UNCHANGED <<owed, afterStop, world, up, calls, bounds>>

\* A database error ends the drive and leaves the lease to run out.
DatabaseError(w) ==
  /\ w \in up /\ held[w] # NoRollout
  /\ faults < MaxFaults /\ faults' = faults + 1
  /\ Leave(w)
  /\ UNCHANGED <<rowVars, world, up, calls, stalls>>

Crash(w) ==
  /\ w \in up
  /\ faults < MaxFaults /\ faults' = faults + 1
  /\ up' = up \ {w}
  /\ Leave(w)
  /\ UNCHANGED <<rowVars, world, calls, stalls>>

\* A graceful shutdown cancels the drive and gives its lease back: outright, or
\* parked when the drive had ended to park.
Shutdown(w) ==
  LET r == held[w] IN
  /\ w \in up
  /\ faults < MaxFaults /\ faults' = faults + 1
  /\ up' = up \ {w}
  /\ row' = IF r = NoRollout THEN row
            ELSE Released(w, r, IF pc[w] = "park" THEN "live" ELSE "null")
  /\ Leave(w)
  /\ UNCHANGED <<owed, afterStop, world, calls, stalls>>

-----------------------------------------------------------------------------
World ==
  \/ VariableSaved
  \/ \E a \in Apps : ServerReports(a) \/ ReportExpires(a) \/ UpgradedElsewhere(a)
  \/ \E r \in Rollouts : SettlePasses(r) \/ LeaseExpires(r)

Api ==
  \/ \E r \in Rollouts : QueueUpgrade(r) \/ StopUnleased(r) \/ RequestStop(r)
  \/ \E q \in Requests : ReloadAsked(q) \/ ReloadLooks(q) \/ ReloadInserts(q) \/ ReloadExtends(q)

Step(w) ==
  \/ ReadRow(w) \/ PickNext(w) \/ Complete(w) \/ StartStep(w) \/ RunUpgrade(w)
  \/ RunReload(w) \/ CountStep(w) \/ Finish(w) \/ Park(w)

Drive(w) == Step(w) \/ Renew(w) \/ \E r \in Rollouts : Claim(w, r)

Fault(w) == DatabaseError(w) \/ Crash(w) \/ Shutdown(w)

Next == World \/ Api \/ \E w \in Workers : Drive(w) \/ Fault(w)

Spec == Init /\ [][Next]_vars

\* Goroutines are scheduled and clocks advance: a worker takes its steps and
\* claims what is claimable, leases and SettleBy run out, calls proceed.
Fairness ==
  /\ \A w \in Workers : WF_vars(Step(w)) /\ \A r \in Rollouts : SF_vars(Claim(w, r))
  /\ \A r \in Rollouts : WF_vars(LeaseExpires(r)) /\ WF_vars(SettlePasses(r))

FairSpec == Spec /\ Fairness

-----------------------------------------------------------------------------
RowType ==
  /\ row \in [Rollouts -> Rows]
  /\ owed \in [Rollouts -> Scopes]
  /\ afterStop \in [Rollouts -> Nat]

WorldType ==
  /\ below \in SUBSET Apps
  /\ rep \in [Apps -> Reports]
  /\ curRev \in 0 .. MaxRev
  /\ lateRev \in [Rollouts -> Nat]

PCs == {"idle", "read", "next", "complete", "start", "run", "count", "finish", "park"}
Outcomes == {"none", "done", "forget", "skipped", "failed", "stopped"}

DriverType ==
  /\ up \in SUBSET Workers
  /\ pc \in [Workers -> PCs]
  /\ held \in [Workers -> Rollouts \cup {NoRollout}]
  /\ snap \in [Workers -> Rows]
  /\ pick \in [Workers -> Picks]
  /\ outcome \in [Workers -> Outcomes]
  /\ \A w \in Workers :
       /\ held[w] = NoRollout <=> pc[w] = "idle"
       /\ pc[w] \in {"start", "run", "count"} => pick[w].app \in Apps
       /\ pc[w] = "finish" => outcome[w] \in {"stopped", "failed"}

Calls == [pc: {"new", "get", "insert", "extend", "accepted", "refused", "gaveup"},
          want: Scopes, at: Rollouts \cup {NoRollout}, rev: Nat, scope: Scopes, tries: Nat]

CallType ==
  /\ req \in [Requests -> Calls]
  /\ \A q \in Requests : req[q].pc = "extend" => req[q].at \in Rollouts
  /\ stopCalls \in SUBSET Rollouts

\* Type invariant: a worker holds a rollout exactly while it drives one, and
\* has an app from its pick on.
TypeOK == RowType /\ WorldType /\ DriverType /\ CallType /\ faults \in Nat /\ stalls \in Nat

\* A reload that was accepted (queued or merged into the active rollout) is
\* not lost: a rollout that ends done looked at every app asked of it after it
\* was asked (CompleteRollout's scope_rev against ExtendRollout's).
DoneOwesNothing == \A r \in Rollouts : row[r].state = "done" => owed[r] = NoScope

\* Stop takes effect after the step in flight: over all processes at most one
\* step starts once stop_requested is set (the one whose worker read the row
\* before), however leases move meanwhile.
AtMostOneStepAfterStop == \A r \in Rollouts : afterStop[r] <= 1

\* The progress shown never passes its total, though the total is computed
\* from a row read before and two processes may be driving.
ProgressWithinTotal ==
  \A r \in Rollouts : row[r].done + row[r].skipped <= row[r].total

\* While no process stalls past its lease, one process at a time drives a
\* rollout: a step is never taken twice at once by two of them.
OneDriver ==
  stalls = 0 =>
    \A v, w \in Workers : Driving(v, held[v]) /\ Driving(w, held[w]) /\ held[v] # NoRollout
                           => (held[v] = held[w] => v = w)

\* An app once on a rollout's skip list stays on it, though CountStep writes
\* the whole list from the copy read at the step's start.
SkipListGrows ==
  [][\A r \in Rollouts : row[r].state # "none" => row[r].skip \subseteq row'[r].skip]_vars

\* An ended rollout never changes again: no late worker, stop, extension or
\* lease release reaches it; it can only be pruned.
EndedIsFinal ==
  [][\A r \in Rollouts : Ended(r) =>
       \/ row'[r] = row[r]
       \/ row'[r] = [row[r] EXCEPT !.state = "gone"]]_vars

\* The queue keeps RolloutLife's promises: what one UPDATE writes is what the
\* others see of a rollout.
Life == INSTANCE RolloutLife WITH
  state <- [r \in Rollouts |-> row[r].state],
  stopping <- [r \in Rollouts |-> row[r].stop],
  Revisions <- 0 .. (MaxRev + 1)

Implements == Life!Spec

\* Every queued rollout ends, whatever crashes, errors and stalls the bounds
\* allow, as long as one worker stays up.
EveryRolloutEnds ==
  \A r \in Rollouts : Active(r) ~> (~Active(r) \/ up = {})

-----------------------------------------------------------------------------
(* Why they hold: the inductive invariant. A worker acts on a row it read   *)
(* before; while the row still names it owner, what it read still stands.   *)

\* Past GetRollout, and not about to end or park the rollout.
HasRead(w) == pc[w] \in {"next", "complete", "start", "run", "count"}

RowsOK == \A r \in Rollouts :
  /\ row[r].state = "none" => row[r] = NoRow
  /\ row[r].owner # NoWorker => row[r].state = "running"
  /\ row[r].done + row[r].skipped <= row[r].total
  /\ \A a \in Apps : owed[r][a] <= row[r].scope[a]
  /\ row[r].state = "done" => owed[r] = NoScope
  /\ row[r].stop \/ afterStop[r] = 0
  /\ afterStop[r] <= 1

\* The fence: lease_owner guards what was read.
SnapStands == \A w \in Workers :
  LET r == held[w]  s == snap[w] IN
  HasRead(w) /\ row[r].owner = w =>
    /\ s.skip = row[r].skip
    /\ s.done = row[r].done /\ s.skipped = row[r].skipped
    /\ s.rev <= row[r].rev
    /\ s.rev = row[r].rev => s.scope = row[r].scope

StepStands == \A w \in Workers :
  LET r == held[w] IN
  HasRead(w) /\ row[r].owner = w =>
    /\ pc[w] \in {"next", "complete", "start"} => afterStop[r] = 0
    /\ pc[w] \in {"run", "count"} => row[r].done + row[r].skipped < row[r].total
    /\ pc[w] = "complete" /\ snap[w].rev = row[r].rev => owed[r] = NoScope

PicksOK == \A w \in Workers :
  /\ pc[w] = "start" => pick[w].remaining >= 1
  /\ pc[w] = "finish" /\ outcome[w] = "stopped" => snap[w].stop

\* A QueueReload that read a scope extends that scope or fails.
AskStands == \A q \in Requests :
  LET r == req[q].at IN
  req[q].pc = "extend" =>
    /\ row[r].state # "none"
    /\ req[q].rev <= row[r].rev
    /\ req[q].rev = row[r].rev => req[q].scope = row[r].scope

LeaseHeld == \A w \in Workers :
  held[w] # NoRollout =>
    /\ w \in up
    /\ stalls = 0 => row[held[w]].owner = w /\ row[held[w]].lease = "live"

\* The inductive invariant: what a worker or a call read is still what the row
\* holds, or the row no longer lets it write (lease_owner, scope_rev).
Inductive ==
  TypeOK /\ RowsOK /\ SnapStands /\ StepStands /\ PicksOK /\ AskStands /\ LeaseHeld
=============================================================================
