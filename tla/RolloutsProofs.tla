--------------------------- MODULE RolloutsProofs ---------------------------
(***************************************************************************)
(* The safety of the rollout queue, and that it implements RolloutLife,    *)
(* for any number of processes, rollouts, apps, calls, crashes and stalls. *)
(***************************************************************************)
EXTENDS Rollouts, FiniteSetTheorems, TLAPS

-----------------------------------------------------------------------------
(* Every step of the rollout worker keeps the types: the rows of the       *)
(* table, what each worker and each API call has read, the reports.        *)

\* A rollout not inserted yet is a row like any other.
LEMMA NoRowType == NoRow \in Rows
BY RolloutsAssumption DEF NoRow, Rows, NoScope, Scopes, Unwanted

\* The types hold at the start.
LEMMA InitType == Init => TypeOK
BY NoRowType, RolloutsAssumption
DEF Init, TypeOK, RowType, WorldType, DriverType, CallType, Reports, Picks, NoPick,
    NoScope, Scopes, Unwanted, PCs, Outcomes, Calls, Rows

\* A worker that ends its drive (drive returns) is idle and holds nothing.
LEMMA LeaveType ==
  ASSUME DriverType, NEW w \in Workers, Leave(w), up' \in SUBSET Workers
  PROVE  DriverType'
BY NoRowType DEF DriverType, Leave, NoPick, Picks, PCs, Outcomes

\* A step that leaves the workers alone keeps their types; the next three
\* say the same of the rows, of the reports and of the API calls.
LEMMA SameDriver ==
  ASSUME DriverType, UNCHANGED driver, UNCHANGED up
  PROVE  DriverType'
BY DEF DriverType, driver

\* Rows left alone.
LEMMA SameRow ==
  ASSUME RowType, UNCHANGED rowVars
  PROVE  RowType'
BY DEF RowType, rowVars

\* Reports left alone.
LEMMA SameWorld ==
  ASSUME WorldType, UNCHANGED world
  PROVE  WorldType'
BY DEF WorldType, world

\* API calls left alone.
LEMMA SameCalls ==
  ASSUME CallType, UNCHANGED calls
  PROVE  CallType'
BY DEF CallType, calls

\* What an app reports next is a report.
LEMMA NextReportType ==
  ASSUME WorldType, NEW a \in Apps, NEW n \in ReportsFrom(a), NEW b \in BOOLEAN
  PROVE  n \in Reports /\ [n EXCEPT !.live = b] \in Reports
<1>1. n \in Reports
  <2>1. n \in [live: {TRUE}, rev: rep[a].rev .. curRev, stale: BOOLEAN]
    BY DEF ReportsFrom
  <2>2. rep[a].rev \in Nat /\ curRev \in Nat
    BY DEF WorldType, Reports
  <2>3. rep[a].rev .. curRev \subseteq Nat
    BY <2>2
  <2> QED BY <2>1, <2>3 DEF Reports
<1>2. [n EXCEPT !.live = b] \in Reports
  BY <1>1 DEF Reports
<1> QED BY <1>1, <1>2

\* The agents' reports and the passing of time keep the types.
LEMMA WorldStepType == TypeOK /\ World => TypeOK'
<1> SUFFICES ASSUME TypeOK, World PROVE TypeOK'
  OBVIOUS
<1> USE DEF TypeOK
<1>1. CASE VariableSaved
  BY <1>1, SameRow, SameDriver, SameCalls, RolloutsAssumption DEF VariableSaved, WorldType, bounds
<1>2. ASSUME NEW a \in Apps, ServerReports(a) PROVE TypeOK'
  <2>1. PICK n \in ReportsFrom(a) : rep' = [rep EXCEPT ![a] = n]
    BY <1>2 DEF ServerReports
  <2>2. n \in Reports
    BY NextReportType
  <2> QED
    BY <1>2, <2>1, <2>2, SameRow, SameDriver, SameCalls DEF ServerReports, WorldType, bounds
<1>3. ASSUME NEW a \in Apps, ReportExpires(a) PROVE TypeOK'
  BY <1>3, SameRow, SameDriver, SameCalls DEF ReportExpires, WorldType, Reports, bounds
<1>4. ASSUME NEW a \in Apps, UpgradedElsewhere(a) PROVE TypeOK'
  BY <1>4, SameRow, SameDriver, SameCalls DEF UpgradedElsewhere, WorldType, bounds
<1>5. ASSUME NEW r \in Rollouts, SettlePasses(r) PROVE TypeOK'
  <2>1. row[r].rev + 1 \in Nat
    BY DEF RowType, Rows
  <2> QED
    BY <1>5, <2>1, SameRow, SameDriver, SameCalls DEF SettlePasses, WorldType, bounds
<1>6. ASSUME NEW r \in Rollouts, LeaseExpires(r) PROVE TypeOK'
  <2>1. RowType'
    BY <1>6 DEF LeaseExpires, RowType, Rows
  <2>2. stalls' \in Nat
    BY <1>6 DEF LeaseExpires
  <2> QED
    BY <1>6, <2>1, <2>2, SameWorld, SameDriver, SameCalls DEF LeaseExpires
<1> QED BY <1>1, <1>2, <1>3, <1>4, <1>5, <1>6 DEF World

\* Two scopes merge into a scope (ReloadScope.Merge).
LEMMA MergeType ==
  ASSUME NEW s \in Scopes, NEW t \in Scopes
  PROVE  Merge(s, t) \in Scopes
BY DEF Merge, Scopes

\* What FinishRollout or CompleteRollout writes is a row.
LEMMA EndedRowType ==
  ASSUME RowType, NEW r \in Rollouts, NEW e \in EndedStates, NEW c \in Apps \cup {NoApp}
  PROVE  EndedRow(r, e, c) \in Rows
<1> DEFINE n == Cardinality({s \in Rollouts : row[s].fin # 0})
<1>1. n \in Nat
  <2>1. IsFiniteSet({s \in Rollouts : row[s].fin # 0})
    BY RolloutsAssumption, FS_Subset
  <2> QED BY <2>1, FS_CardinalityType
<1> HIDE DEF n
<1>2. 1 + n \in Nat
  BY <1>1
<1>3. row[r] \in Rows
  BY DEF RowType
<1>4. EndedRow(r, e, c) = [row[r] EXCEPT !.state = e, !.current = c, !.owner = NoWorker,
                                        !.lease = "null", !.fin = 1 + n]
  BY DEF EndedRow, n
<1> QED BY <1>2, <1>3, <1>4 DEF Rows, EndedStates

\* Ending a rollout and pruning the old ones keeps the rows' types.
LEMMA EndType ==
  ASSUME RowType, NEW r \in Rollouts, NEW new \in Rows, End(r, new), UNCHANGED <<owed, afterStop>>
  PROVE  RowType'
<1> DEFINE rows == [row EXCEPT ![r] = new]
<1>1. rows \in [Rollouts -> Rows]
  BY DEF RowType
<1>2. Pruned(rows, r) \in [Rollouts -> Rows]
  <2>1. \A s \in Rollouts : [rows[s] EXCEPT !.state = "gone"] \in Rows
    BY <1>1 DEF Rows
  <2> HIDE DEF rows
  <2> QED BY <1>1, <2>1 DEF Pruned
<1>3. row' = rows \/ row' = Pruned(rows, r)
  BY DEF End
<1> QED BY <1>1, <1>2, <1>3 DEF RowType

\* A QueueReload call that moves on keeps the calls' types.
LEMMA CallMoves ==
  ASSUME CallType, NEW q \in Requests, NEW l \in {"get", "insert", "accepted", "refused", "gaveup"},
         req' = [req EXCEPT ![q].pc = l], UNCHANGED stopCalls
  PROVE  CallType'
BY DEF CallType, Calls

\* InsertRollout inserts a row.
LEMMA QueuedType ==
  ASSUME NEW s \in Scopes
  PROVE  Queued(s) \in Rows
BY NoRowType DEF Queued, Rows, ActiveStates

\* Queueing, extending and stopping rollouts keep the types.
LEMMA ApiStepType == TypeOK /\ Api => TypeOK'
<1> SUFFICES ASSUME TypeOK, Api PROVE TypeOK'
  OBVIOUS
<1> USE DEF TypeOK
<1>1. ASSUME NEW r \in Rollouts, QueueUpgrade(r) PROVE TypeOK'
  <2>1. Queued(NoScope) \in Rows
    BY QueuedType, RolloutsAssumption DEF NoScope, Scopes, Unwanted
  <2>2. RowType'
    BY <1>1, <2>1 DEF QueueUpgrade, RowType
  <2>3. WorldType'
    BY <1>1 DEF QueueUpgrade, WorldType
  <2> QED
    BY <1>1, <2>2, <2>3, SameDriver, SameCalls DEF QueueUpgrade, bounds
<1>2. ASSUME NEW r \in Rollouts, StopUnleased(r) PROVE TypeOK'
  <2>1. CASE row[r].owner = NoWorker \/ Unleased(r)
    <3>1. [EndedRow(r, "stopped", NoApp) EXCEPT !.stop = TRUE] \in Rows
      <4>1. EndedRow(r, "stopped", NoApp) \in Rows
        BY EndedRowType DEF EndedStates
      <4> QED BY <4>1 DEF Rows
    <3>2. RowType'
      BY <1>2, <2>1, <3>1, EndType DEF StopUnleased
    <3> QED
      BY <1>2, <2>1, <3>2, SameWorld, SameDriver DEF StopUnleased, CallType, bounds
  <2>2. CASE ~(row[r].owner = NoWorker \/ Unleased(r))
    <3>1. RowType'
      BY <1>2, <2>2 DEF StopUnleased, RowType
    <3> QED
      BY <1>2, <2>2, <3>1, SameWorld, SameDriver DEF StopUnleased, CallType, bounds
  <2> QED BY <2>1, <2>2
<1>3. ASSUME NEW r \in Rollouts, RequestStop(r) PROVE TypeOK'
  <2>1. RowType'
    <3>1. [row[r] EXCEPT !.stop = TRUE] \in Rows
      BY DEF RowType, Rows
    <3> QED
      BY <1>3, <3>1 DEF RequestStop, RowType
  <2> QED
    BY <1>3, <2>1, SameWorld, SameDriver DEF RequestStop, CallType, bounds
<1>4. ASSUME NEW q \in Requests, ReloadAsked(q) PROVE TypeOK'
  <2>1. PICK apps \in SUBSET Apps :
          req' = [req EXCEPT ![q].pc = "get", ![q].want =
                    [a \in Apps |-> IF a \in apps THEN curRev + 1 ELSE Unwanted]]
    BY <1>4 DEF ReloadAsked
  <2>2. [a \in Apps |-> IF a \in apps THEN curRev + 1 ELSE Unwanted] \in Scopes
    BY RolloutsAssumption DEF WorldType, Scopes, Unwanted
  <2>3. CallType'
    <3> DEFINE w == [a \in Apps |-> IF a \in apps THEN curRev + 1 ELSE Unwanted]
    <3>1. [req[q] EXCEPT !.pc = "get", !.want = w] \in Calls
      <4> HIDE DEF w
      <4>1. w \in Scopes
        BY <2>2 DEF w
      <4>2. req[q] \in Calls
        BY DEF CallType
      <4> QED BY <4>1, <4>2 DEF Calls
    <3>2. req' = [req EXCEPT ![q] = [req[q] EXCEPT !.pc = "get", !.want = w]]
      BY <2>1
    <3> HIDE DEF w
    <3>3. req' \in [Requests -> Calls]
      BY <3>1, <3>2 DEF CallType
    <3> QED
      BY <1>4, <3>2, <3>3 DEF ReloadAsked, CallType, Calls
  <2> QED
    BY <1>4, <2>3, SameRow, SameWorld, SameDriver DEF ReloadAsked, bounds
<1>5. ASSUME NEW q \in Requests, ReloadLooks(q) PROVE TypeOK'
  <2>1. CallType'
    <3>1. \A r \in Rollouts : row[r].rev \in Nat /\ row[r].scope \in Scopes
      BY DEF RowType, Rows
    <3>0. stopCalls' = stopCalls
      BY <1>5 DEF ReloadLooks
    <3>2. CASE req' = [req EXCEPT ![q].pc = "gaveup"]
      BY <3>0, <3>2, CallMoves
    <3>3. CASE req' = [req EXCEPT ![q].pc = "insert"]
      BY <3>0, <3>3, CallMoves
    <3>4. CASE req' = [req EXCEPT ![q].pc = "refused"]
      BY <3>0, <3>4, CallMoves
    <3>5. ASSUME NEW r \in Rollouts,
                 req' = [req EXCEPT ![q].pc = "extend", ![q].at = r,
                                    ![q].rev = row[r].rev, ![q].scope = row[r].scope]
          PROVE  CallType'
      <4> DEFINE new == [req[q] EXCEPT !.pc = "extend", !.at = r,
                                       !.rev = row[r].rev, !.scope = row[r].scope]
      <4>1. new \in Calls /\ new.at \in Rollouts
        <5>1. req[q] \in Calls
          BY DEF CallType
        <5> QED BY <3>1, <5>1 DEF Calls
      <4>2. req' = [req EXCEPT ![q] = new]
        BY <3>5
      <4> HIDE DEF new
      <4> QED
        BY <1>5, <4>1, <4>2 DEF ReloadLooks, CallType, calls
    <3> QED
      BY <1>5, <3>2, <3>3, <3>4, <3>5 DEF ReloadLooks, ActiveReloads, Rollouts
  <2> QED
    BY <1>5, <2>1, SameRow, SameWorld, SameDriver DEF ReloadLooks, bounds
<1>6. ASSUME NEW q \in Requests, ReloadInserts(q) PROVE TypeOK'
  <2>1. req[q].want \in Scopes
    BY DEF CallType, Calls
  <2>2. Queued(req[q].want) \in Rows
    BY <2>1, QueuedType
  <2>3. RowType'
    BY <1>6, <2>1, <2>2 DEF ReloadInserts, RowType, Rollouts, Again
  <2>4. CallType'
    BY <1>6 DEF ReloadInserts, CallType, Calls, Again, Rollouts
  <2> QED
    BY <1>6, <2>3, <2>4, SameWorld, SameDriver DEF ReloadInserts, bounds
<1>7. ASSUME NEW q \in Requests, ReloadExtends(q) PROVE TypeOK'
  <2> DEFINE r == req[q].at
  <2>1. r \in Rollouts
    BY <1>7 DEF ReloadExtends, CallType
  <2>2. Merge(req[q].scope, req[q].want) \in Scopes /\ Merge(owed[r], req[q].want) \in Scopes
    BY <2>1, MergeType DEF CallType, Calls, RowType
  <2>3. RowType'
    <3>1. [row[r] EXCEPT !.scope = Merge(req[q].scope, req[q].want), !.rev = @ + 1] \in Rows
      <4> DEFINE m == Merge(req[q].scope, req[q].want)
      <4>1. row[r] \in Rows /\ m \in Scopes
        BY <2>1, <2>2 DEF RowType
      <4> HIDE DEF m, r
      <4>2. row[r].rev + 1 \in Nat
        BY <4>1 DEF Rows
      <4> QED BY <4>1, <4>2 DEF Rows, m
    <3> QED
      BY <1>7, <2>1, <2>2, <3>1 DEF ReloadExtends, RowType, Again
  <2>4. CallType'
    BY <1>7 DEF ReloadExtends, CallType, Calls, Again
  <2> QED
    BY <1>7, <2>3, <2>4, SameWorld, SameDriver DEF ReloadExtends, bounds
<1> QED BY <1>1, <1>2, <1>3, <1>4, <1>5, <1>6, <1>7 DEF Api

\* A step that ends (step, worker.go) leaves the worker well placed.
LEMMA EndStepType ==
  ASSUME DriverType, NEW w \in Workers, NEW o \in Outcomes, EndStep(w, o), pc[w] = "run",
         UNCHANGED <<up, held, snap, pick>>
  PROVE  DriverType'
BY DEF EndStep, Goto, DriverType, PCs, Outcomes

\* Giving a lease back (ReleaseRolloutLease) writes a row.
LEMMA ReleasedType ==
  ASSUME RowType, NEW w \in Workers, NEW r \in Rollouts, NEW l \in {"null", "live"}
  PROVE  Released(w, r, l) \in [Rollouts -> Rows]
<1>1. [row[r] EXCEPT !.owner = NoWorker, !.lease = l] \in Rows
  <2>1. row[r] \in Rows
    BY DEF RowType
  <2> QED BY <2>1 DEF Rows
<1> QED BY <1>1 DEF RowType, Released

\* The steps of a drive, each with what it writes.
LEMMA DriveStepType ==
  ASSUME TypeOK, NEW w \in Workers, Drive(w)
  PROVE  TypeOK'
<1> USE DEF TypeOK
<1> DEFINE r == held[w]
<1>0. pc[w] # "idle" => r \in Rollouts
  BY DEF DriverType
<1>1. CASE ReadRow(w)
  <2>1. r \in Rollouts /\ row[r] \in Rows
    BY <1>0, <1>1 DEF ReadRow, At, RowType
  <2>2. DriverType'
    <3>1. CASE Leave(w)
      BY <1>1, <3>1, LeaveType DEF ReadRow, DriverType
    <3>2. CASE ~Leave(w)
      BY <1>1, <2>1, <3>2 DEF ReadRow, At, Goto, DriverType, PCs, Outcomes
    <3> QED BY <3>1, <3>2
  <2> QED
    BY <1>1, <2>2, SameRow, SameWorld, SameCalls DEF ReadRow, bounds
<1>2. CASE PickNext(w)
  <2> DEFINE todo == Todo(r, snap[w])
  <2>1. r \in Rollouts /\ todo \subseteq Apps /\ snap[w] \in Rows
    BY <1>0, <1>2 DEF PickNext, At, Todo, WorldType, Wanted, DriverType
  <2>2. Cardinality(todo) \in Nat
    BY <2>1, RolloutsAssumption, FS_Subset, FS_CardinalityType
  <2> HIDE DEF todo
  <2>3. CASE \E a \in todo :
               /\ pick' = [pick EXCEPT ![w] = [app |-> a, remaining |-> Cardinality(todo),
                                              revSeen |-> rep[a].rev]]
               /\ Goto(w, "start")
               /\ UNCHANGED owed
    <3>1. PICK a \in todo :
               /\ pick' = [pick EXCEPT ![w] = [app |-> a, remaining |-> Cardinality(todo),
                                              revSeen |-> rep[a].rev]]
               /\ Goto(w, "start")
               /\ UNCHANGED owed
      BY <2>3
    <3>2. rep[a].rev \in Nat /\ a \in Apps
      BY <2>1 DEF WorldType, Reports
    <3>3. [app |-> a, remaining |-> Cardinality(todo), revSeen |-> rep[a].rev] \in Picks
      BY <2>2, <3>2 DEF Picks
    <3>4. DriverType'
      BY <1>2, <3>1, <3>2, <3>3 DEF PickNext, At, Goto, DriverType, PCs
    <3> QED
      BY <1>2, <3>1, <3>4, SameRow, SameWorld, SameCalls DEF PickNext, bounds, rowVars
  <2>4. CASE Goto(w, "park") /\ UNCHANGED <<pick, owed>>
    <3>1. DriverType'
      BY <1>2, <2>4 DEF PickNext, At, Goto, DriverType, PCs
    <3> QED
      BY <1>2, <2>4, <3>1, SameRow, SameWorld, SameCalls DEF PickNext, bounds, rowVars
  <2>5. CASE Goto(w, "complete") /\ owed' = [owed EXCEPT ![r] = Looked(r, snap[w].scope)] /\ UNCHANGED pick
    <3>1. DriverType'
      BY <1>2, <2>5 DEF PickNext, At, Goto, DriverType, PCs
    <3>2. Looked(r, snap[w].scope) \in Scopes
      BY <2>1, RolloutsAssumption DEF Looked, RowType, Scopes, Unwanted
    <3>3. RowType'
      BY <1>2, <2>1, <2>5, <3>2 DEF PickNext, RowType
    <3> QED
      BY <1>2, <2>5, <3>1, <3>3, SameWorld, SameCalls DEF PickNext, bounds
  <2> QED BY <1>2, <2>3, <2>4, <2>5 DEF PickNext, todo
<1>3. CASE Complete(w)
  <2>1. r \in Rollouts
    BY <1>0, <1>3 DEF Complete, At
  <2>2. CASE End(r, EndedRow(r, "done", NoApp)) /\ Leave(w)
    <3>1. EndedRow(r, "done", NoApp) \in Rows
      BY <2>1, EndedRowType DEF EndedStates
    <3>2. RowType' /\ DriverType'
      BY <1>3, <2>1, <2>2, <3>1, EndType, LeaveType DEF Complete, DriverType
    <3> QED
      BY <1>3, <3>2, SameWorld, SameCalls DEF Complete, bounds
  <2>3. CASE Goto(w, "read") /\ UNCHANGED <<row, held, snap, pick, outcome>>
    <3>1. DriverType'
      BY <1>3, <2>1, <2>3 DEF Complete, At, Goto, DriverType, PCs
    <3> QED
      BY <1>3, <2>3, <3>1, SameRow, SameWorld, SameCalls DEF Complete, bounds, rowVars
  <2> QED BY <1>3, <2>2, <2>3 DEF Complete
<1>4. CASE StartStep(w)
  <2>1. r \in Rollouts /\ pick[w].app \in Apps
    BY <1>0, <1>4 DEF StartStep, At, DriverType
  <2>2. CASE Owns(w, r)
    <3>1. StepTotal(w) \in Nat
      BY DEF StepTotal, DriverType, Rows, Picks
    <3>2. [row[r] EXCEPT !.current = pick[w].app, !.total = StepTotal(w)] \in Rows
      <4>1. row[r] \in Rows
        BY <2>1 DEF RowType
      <4> QED BY <2>1, <3>1, <4>1 DEF Rows
    <3>3. row' = [row EXCEPT ![r] = [row[r] EXCEPT !.current = pick[w].app, !.total = StepTotal(w)]]
      BY <1>4, <2>2 DEF StartStep
    <3> DEFINE new == [row[r] EXCEPT !.current = pick[w].app, !.total = StepTotal(w)]
    <3>5. RowType'
      <4>1. new \in Rows /\ row' = [row EXCEPT ![r] = new]
        BY <3>2, <3>3
      <4>2. afterStop' \in [Rollouts -> Nat]
        BY <1>4, <2>2 DEF StartStep, RowType
      <4>3. UNCHANGED owed
        BY <1>4 DEF StartStep
      <4> HIDE DEF new
      <4> QED BY <4>1, <4>2, <4>3 DEF RowType
    <3>4. DriverType'
      BY <1>4, <2>1, <2>2 DEF StartStep, At, Goto, DriverType, PCs
    <3> QED
      BY <1>4, <3>4, <3>5, SameWorld, SameCalls DEF StartStep, bounds
  <2>3. CASE ~Owns(w, r)
    BY <1>4, <2>3, LeaveType, SameRow, SameWorld, SameCalls DEF StartStep, rowVars, bounds, DriverType
  <2> QED BY <2>2, <2>3
<1>5. CASE RunUpgrade(w)
  <2>1. \E o \in Outcomes : EndStep(w, o)
    BY <1>5 DEF RunUpgrade, Outcomes
  <2>2. DriverType'
    BY <1>5, <2>1, EndStepType DEF RunUpgrade, At
  <2>3. WorldType'
    BY <1>5 DEF RunUpgrade, WorldType
  <2> QED
    BY <1>5, <2>2, <2>3, SameRow, SameCalls DEF RunUpgrade, bounds
<1>6. CASE RunReload(w)
  <2>1. \E o \in Outcomes : EndStep(w, o)
    BY <1>6 DEF RunReload, Outcomes
  <2>2. DriverType'
    BY <1>6, <2>1, EndStepType DEF RunReload, At
  <2>3. pick[w].app \in Apps
    BY <1>6 DEF RunReload, At, DriverType
  <2>4. rep' = rep \/ \E n \in Reports : rep' = [rep EXCEPT ![pick[w].app] = n]
    <3>1. CASE \E n \in ReportsFrom(pick[w].app) : rep' = [rep EXCEPT ![pick[w].app] = n]
      BY <2>3, <3>1, NextReportType
    <3>2. CASE \E n \in ReportsFrom(pick[w].app) :
                 rep' = [rep EXCEPT ![pick[w].app] = [n EXCEPT !.live = FALSE]]
      BY <2>3, <3>2, NextReportType
    <3> QED
      BY <1>6, <3>1, <3>2 DEF RunReload
  <2>5. WorldType'
    BY <1>6, <2>3, <2>4 DEF RunReload, WorldType
  <2>6. faults' \in Nat
    BY <1>6 DEF RunReload
  <2> QED
    BY <1>6, <2>2, <2>5, <2>6, SameRow, SameCalls DEF RunReload
<1>7. CASE CountStep(w)
  <2>1. r \in Rollouts /\ pick[w].app \in Apps
    BY <1>0, <1>7 DEF CountStep, At, DriverType
  <2>2. CASE Owns(w, r)
    <3> DEFINE d == IF outcome[w] = "skipped" THEN row[r].done ELSE row[r].done + 1
               k == IF outcome[w] = "skipped" THEN row[r].skipped + 1 ELSE row[r].skipped
    <3>1. SkipIDs(w) \in SUBSET Apps
      BY <2>1 DEF SkipIDs, DriverType, Rows
    <3>2. row[r] \in Rows
      BY <2>1 DEF RowType
    <3>3. d \in Nat /\ k \in Nat
      BY <3>2 DEF Rows
    <3>4. row' = [row EXCEPT ![r] = [row[r] EXCEPT !.done = d, !.skipped = k, !.skip = SkipIDs(w)]]
      BY <1>7, <2>2 DEF CountStep
    <3> HIDE DEF d, k
    <3>5. [row[r] EXCEPT !.done = d, !.skipped = k, !.skip = SkipIDs(w)] \in Rows
      BY <3>1, <3>2, <3>3 DEF Rows
    <3>6. RowType'
      BY <1>7, <3>4, <3>5 DEF CountStep, RowType
    <3>7. DriverType'
      BY <1>7, <2>1, <2>2 DEF CountStep, At, Goto, DriverType, PCs
    <3> QED
      BY <1>7, <3>6, <3>7, SameWorld, SameCalls DEF CountStep, bounds
  <2>3. CASE ~Owns(w, r)
    BY <1>7, <2>3, LeaveType, SameRow, SameWorld, SameCalls DEF CountStep, rowVars, bounds, DriverType
  <2> QED BY <2>2, <2>3
<1>8. CASE Finish(w)
  <2>1. r \in Rollouts
    BY <1>0, <1>8 DEF Finish, At
  <2>2. DriverType'
    BY <1>8, LeaveType DEF Finish, DriverType
  <2>3. RowType'
    <3>1. CASE Owns(w, r)
      <4> DEFINE c == IF outcome[w] = "failed" THEN pick[w].app ELSE NoApp
      <4>1. outcome[w] \in EndedStates /\ c \in Apps \cup {NoApp}
        BY <1>8 DEF Finish, At, DriverType, Picks, EndedStates
      <4>2. EndedRow(r, outcome[w], c) \in Rows
        BY <2>1, <4>1, EndedRowType
      <4> QED
        BY <1>8, <2>1, <3>1, <4>2, EndType DEF Finish
    <3>2. CASE ~Owns(w, r)
      BY <1>8, <3>2, SameRow DEF Finish, rowVars
    <3> QED BY <3>1, <3>2
  <2> QED
    BY <1>8, <2>2, <2>3, SameWorld, SameCalls DEF Finish, bounds
<1>9. CASE Park(w)
  <2>1. r \in Rollouts
    BY <1>0, <1>9 DEF Park, At
  <2>2. RowType'
    BY <1>9, <2>1, ReleasedType DEF Park, RowType
  <2> QED
    BY <1>9, <2>2, LeaveType, SameWorld, SameCalls DEF Park, bounds, DriverType
<1>10. CASE Renew(w)
  <2>1. r \in Rollouts
    BY <1>10 DEF Renew, DriverType
  <2>2. CASE row' = [row EXCEPT ![r].lease = "live"] /\ UNCHANGED driver
    <3>1. RowType'
      BY <1>10, <2>1, <2>2 DEF Renew, RowType, Rows
    <3> QED
      BY <1>10, <2>2, <3>1, SameDriver, SameWorld, SameCalls DEF Renew, bounds
  <2>3. CASE Leave(w) /\ UNCHANGED row
    BY <1>10, <2>3, LeaveType, SameRow, SameWorld, SameCalls DEF Renew, bounds, rowVars, DriverType
  <2> QED BY <1>10, <2>2, <2>3 DEF Renew
<1>11. ASSUME NEW c \in Rollouts, Claim(w, c) PROVE TypeOK'
  <2>1. RowType'
    <3>1. [row[c] EXCEPT !.owner = w, !.lease = "live", !.state = "running"] \in Rows
      <4>1. row[c] \in Rows
        BY DEF RowType
      <4> QED BY <4>1 DEF Rows, ActiveStates
    <3>2. row' = [row EXCEPT ![c] = [row[c] EXCEPT !.owner = w, !.lease = "live", !.state = "running"]]
      BY <1>11 DEF Claim
    <3> QED
      BY <1>11, <3>1, <3>2 DEF Claim, RowType
  <2>2. DriverType'
    BY <1>11, RolloutsAssumption DEF Claim, At, Goto, DriverType, PCs
  <2> QED
    BY <1>11, <2>1, <2>2, SameWorld, SameCalls DEF Claim, bounds
<1> QED
  BY <1>1, <1>2, <1>3, <1>4, <1>5, <1>6, <1>7, <1>8, <1>9, <1>10, <1>11 DEF Drive, Step

\* A database error, a crash or a shutdown keeps the types.
LEMMA FaultStepType ==
  ASSUME TypeOK, NEW w \in Workers, Fault(w)
  PROVE  TypeOK'
<1> USE DEF TypeOK
<1>1. up' \in SUBSET Workers /\ Leave(w) /\ faults' \in Nat
  BY DEF Fault, DatabaseError, Crash, Shutdown, DriverType
<1>2. DriverType'
  BY <1>1, LeaveType
<1>3. RowType'
  <2>1. CASE UNCHANGED rowVars
    BY <2>1, SameRow
  <2>2. CASE Shutdown(w)
    <3>1. held[w] = NoRollout \/ held[w] \in Rollouts
      BY DEF DriverType
    <3> QED
      BY <2>2, <3>1, ReleasedType DEF Shutdown, RowType
  <2> QED BY <2>1, <2>2 DEF Fault, DatabaseError, Crash
<1> QED
  BY <1>1, <1>2, <1>3, SameWorld, SameCalls DEF Fault, DatabaseError, Crash, Shutdown

\* Every step keeps the types.
LEMMA TypeStep == TypeOK /\ [Next]_vars => TypeOK'
<1> SUFFICES ASSUME TypeOK, [Next]_vars PROVE TypeOK'
  OBVIOUS
<1>1. CASE Next
  BY <1>1, WorldStepType, ApiStepType, DriveStepType, FaultStepType DEF Next
<1>2. CASE UNCHANGED vars
  BY <1>2, SameRow, SameWorld, SameDriver, SameCalls
  DEF TypeOK, vars, rowVars, world, driver, calls
<1> QED BY <1>1, <1>2

\* Every field of the rollouts table, of the workers' state and of the calls
\* keeps its type, and a worker is at a step exactly while it holds a rollout
\* (drive and its deferred release).
THEOREM TypeCorrect == Spec => []TypeOK
<1> QED BY InitType, TypeStep, PTL DEF Spec

-----------------------------------------------------------------------------
(* Safety                                                                  *)

Working == RowsOK /\ SnapStands /\ StepStands /\ PicksOK /\ AskStands

\* What a write leaves alone of a rollout that a worker or a call has read.
Kept(s) ==
  /\ row'[s].rev = row[s].rev /\ row'[s].scope = row[s].scope
  /\ row'[s].skip = row[s].skip
  /\ row'[s].done = row[s].done /\ row'[s].skipped = row[s].skipped
  /\ row'[s].total = row[s].total
  /\ row'[s].owner \in {row[s].owner, NoWorker}
  /\ row'[s].state = "none" => row'[s] = row[s]
  /\ row[s].state # "none" => row'[s].state # "none"
  /\ row'[s].owner # NoWorker => row'[s].state = row[s].state
  /\ row'[s].state = "done" => row[s].state = "done" \/ owed[s] = NoScope
  /\ row[s].stop => row'[s].stop

\* A worker goes on as it was, or leaves.
Quiet(v) ==
  \/ pc'[v] = "idle"
  \/ /\ pc'[v] = pc[v] /\ held'[v] = held[v] /\ snap'[v] = snap[v]
     /\ pick'[v] = pick[v] /\ outcome'[v] = outcome[v]

\* A call goes on as it was, or has just read an active rollout.
AskQuiet(q) ==
  \/ req'[q] = req[q]
  \/ req'[q].pc # "extend"
  \/ LET r == req'[q].at IN
     /\ r \in Rollouts /\ row[r].state # "none"
     /\ req'[q].rev = row[r].rev /\ req'[q].scope = row[r].scope

\* A step that keeps every row's fences, every worker's reads and every
\* call's reads keeps the invariant of the rows and of what was read.
LEMMA QuietStep ==
  ASSUME TypeOK, TypeOK', Working,
         \A s \in Rollouts : Kept(s),
         \A v \in Workers : Quiet(v),
         \A q \in Requests : AskQuiet(q),
         UNCHANGED <<owed, afterStop>>
  PROVE  Working'
<1> USE DEF TypeOK, Working
<1>1. ASSUME NEW v \in Workers, HasRead(v)', row'[held'[v]].owner = v
      PROVE  /\ held'[v] \in Rollouts
             /\ HasRead(v) /\ pc'[v] = pc[v] /\ held'[v] = held[v] /\ snap'[v] = snap[v]
             /\ row[held[v]].owner = v
  <2>1. Quiet(v) /\ pc'[v] # "idle"
    BY <1>1 DEF HasRead
  <2>2. held'[v] \in Rollouts
    BY <2>1 DEF DriverType
  <2> QED
    BY <1>1, <2>1, <2>2, RolloutsAssumption DEF HasRead, Quiet, Kept
<1>2. SnapStands'
  BY <1>1 DEF SnapStands, Kept
<1>3. StepStands'
  BY <1>1 DEF StepStands, Kept
<1>4. PicksOK'
  BY DEF PicksOK, Quiet
<1>5. AskStands'
  <2> SUFFICES ASSUME NEW q \in Requests, req'[q].pc = "extend"
               PROVE  /\ row'[req'[q].at].state # "none"
                      /\ req'[q].rev <= row'[req'[q].at].rev
                      /\ req'[q].rev = row'[req'[q].at].rev => req'[q].scope = row'[req'[q].at].scope
    BY DEF AskStands
  <2>1. req'[q].at \in Rollouts
    BY DEF CallType
  <2>2. Kept(req'[q].at) /\ row[req'[q].at].rev \in Nat
    BY <2>1 DEF RowType, Rows
  <2>3. CASE req'[q] = req[q]
    BY <2>2, <2>3 DEF AskStands, Kept
  <2>4. CASE req'[q] # req[q]
    BY <2>2, <2>4 DEF AskQuiet, Kept
  <2> QED BY <2>3, <2>4
<1>6. RowsOK'
  BY DEF RowsOK, Kept
<1> QED BY <1>2, <1>3, <1>4, <1>5, <1>6

\* A worker that leaves keeps nothing it read.
LEMMA LeaveQuiet ==
  ASSUME DriverType, NEW w \in Workers, Leave(w)
  PROVE  \A v \in Workers : Quiet(v)
BY DEF Leave, DriverType, Quiet

\* Workers left alone keep what they read.
LEMMA SameQuiet ==
  ASSUME UNCHANGED driver
  PROVE  \A v \in Workers : Quiet(v)
BY DEF driver, Quiet

\* Calls left alone keep what they read.
LEMMA SameAsks ==
  ASSUME UNCHANGED req
  PROVE  \A q \in Requests : AskQuiet(q)
BY DEF AskQuiet

\* Rows left alone keep their fences.
LEMMA SameKept ==
  ASSUME UNCHANGED row
  PROVE  \A s \in Rollouts : Kept(s)
BY DEF Kept

\* A step that writes no row and moves no worker keeps the invariant.
LEMMA StillStep ==
  ASSUME TypeOK, TypeOK', Working, LeaseHeld, UNCHANGED <<rowVars, up, driver, stalls>>,
         \A q \in Requests : AskQuiet(q)
  PROVE  Working' /\ LeaseHeld'
<1>1. Working'
  BY QuietStep, SameKept, SameQuiet DEF rowVars
<1>2. LeaseHeld'
  BY DEF LeaseHeld, rowVars, driver
<1> QED BY <1>1, <1>2

\* ReleaseRolloutLease touches its own row only, and only its lease.
LEMMA ReleasedKept ==
  ASSUME TypeOK, RowsOK, NEW w \in Workers, NEW r \in Rollouts, NEW l \in {"null", "live"},
         row' = Released(w, r, l)
  PROVE  /\ \A s \in Rollouts : Kept(s)
         /\ \A s \in Rollouts : s # r \/ row[r].owner # w => row'[s] = row[s]
<1> DEFINE new == [row[r] EXCEPT !.owner = NoWorker, !.lease = l]
<1>1. row \in [Rollouts -> Rows] /\ row[r] \in Rows
  BY DEF TypeOK, RowType
<1>2. CASE row[r].owner = w
  <2>1. row' = [row EXCEPT ![r] = new]
    BY <1>2 DEF Released
  <2>2. row'[r] = new /\ \A s \in Rollouts : s # r => row'[s] = row[s]
    BY <1>1, <2>1
  <2>3. Kept(r)
    <3>1. row[r].state = "running"
      BY <1>2, RolloutsAssumption DEF RowsOK
    <3> QED BY <1>1, <2>2, <3>1 DEF Kept, Rows
  <2> QED BY <2>2, <2>3, <1>2 DEF Kept
<1>3. CASE row[r].owner # w
  BY <1>3 DEF Released, Kept
<1> QED BY <1>2, <1>3

\* PruneRollouts removes ended rollouts and touches no other.
LEMMA PrunedRow ==
  ASSUME NEW rows, NEW r, NEW s \in Rollouts
  PROVE  \/ Pruned(rows, r)[s] = rows[s]
         \/ /\ rows[s].state \in EndedStates
            /\ Pruned(rows, r)[s] = [rows[s] EXCEPT !.state = "gone"]
<1> DEFINE old == {t \in Rollouts : SameScope(r, t) /\ rows[t].state \in EndedStates}
           out(t) == t \in old /\ Cardinality({u \in old : rows[u].fin > rows[t].fin}) >= Keep
<1>1. Pruned(rows, r) = [t \in Rollouts |-> IF out(t) THEN [rows[t] EXCEPT !.state = "gone"] ELSE rows[t]]
  BY DEF Pruned
<1>2. out(s) => rows[s].state \in EndedStates
  OBVIOUS
<1> HIDE DEF out
<1> QED BY <1>1, <1>2

\* What an end writes; the ended rollouts it prunes had no owner.
LEMMA EndKept ==
  ASSUME TypeOK, RowsOK, NEW r \in Rollouts, Active(r), NEW e \in EndedStates,
         NEW c \in Apps \cup {NoApp}, NEW new \in Rows, End(r, new),
         \/ new = EndedRow(r, e, c)
         \/ new = [EndedRow(r, e, c) EXCEPT !.stop = TRUE],
         e = "done" => owed[r] = NoScope
  PROVE  /\ \A s \in Rollouts : Kept(s)
         /\ \A s \in Rollouts : s # r /\ Active(s) => row'[s] = row[s]
<1> USE DEF TypeOK
<1>1. row[r] \in Rows
  BY DEF RowType
<1>2. /\ new.rev = row[r].rev /\ new.scope = row[r].scope /\ new.skip = row[r].skip
      /\ new.done = row[r].done /\ new.skipped = row[r].skipped /\ new.total = row[r].total
      /\ new.owner = NoWorker /\ new.state = e /\ (row[r].stop => new.stop)
  BY <1>1 DEF EndedRow, Rows
<1> DEFINE rows == [row EXCEPT ![r] = new]
<1>3. rows \in [Rollouts -> Rows] /\ rows[r] = new /\ \A s \in Rollouts \ {r} : rows[s] = row[s]
  BY DEF RowType
<1>4. \A s \in Rollouts :
         \/ row'[s] = rows[s]
         \/ rows[s].state \in EndedStates /\ row'[s] = [rows[s] EXCEPT !.state = "gone"]
  <2> HIDE DEF rows
  <2>1. row' = rows \/ row' = Pruned(rows, r)
    BY DEF End, rows
  <2> TAKE s \in Rollouts
  <2>2. \/ Pruned(rows, r)[s] = rows[s]
        \/ /\ rows[s].state \in EndedStates
           /\ Pruned(rows, r)[s] = [rows[s] EXCEPT !.state = "gone"]
    BY PrunedRow
  <2> QED BY <2>1, <2>2
<1> HIDE DEF rows
<1>5. \A s \in Rollouts : s # r /\ Active(s) => row'[s] = row[s]
  BY <1>3, <1>4 DEF Active, ActiveStates, EndedStates
<1>6. Kept(r)
  <2>1. CASE row'[r] = new
    BY <1>2, <2>1 DEF Kept, EndedStates
  <2>2. CASE row'[r] = [new EXCEPT !.state = "gone"]
    BY <1>2, <2>2 DEF Kept, Rows
  <2> QED BY <1>3, <1>4, <2>1, <2>2
<1>7. ASSUME NEW s \in Rollouts \ {r} PROVE Kept(s)
  <2>1. CASE row'[s] = row[s]
    BY <2>1 DEF Kept
  <2>2. CASE row[s].state \in EndedStates /\ row'[s] = [row[s] EXCEPT !.state = "gone"]
    <3>1. row[s] \in Rows
      BY DEF RowType
    <3>2. row[s].owner = NoWorker
      BY <2>2 DEF RowsOK, EndedStates
    <3> QED BY <2>2, <3>1, <3>2 DEF Kept, Rows
  <2> QED BY <1>3, <1>4, <2>1, <2>2
<1> QED BY <1>5, <1>6, <1>7

\* Reports, an expired lease and the passing of time keep the invariant.
LEMMA WorldStep ==
  ASSUME TypeOK, TypeOK', Working, LeaseHeld, World
  PROVE  Working' /\ LeaseHeld'
<1> USE DEF TypeOK
<1>1. CASE UNCHANGED <<rowVars, up, driver, req, stalls>>
  BY <1>1, StillStep, SameAsks
<1>2. ASSUME NEW r \in Rollouts, LeaseExpires(r) PROVE Working' /\ LeaseHeld'
  <2>1. row[r] \in Rows /\ row' = [row EXCEPT ![r] = [row[r] EXCEPT !.lease = "past"]]
    BY <1>2 DEF LeaseExpires, RowType
  <2>2. \A s \in Rollouts : Kept(s)
    <3>1. row'[r] = [row[r] EXCEPT !.lease = "past"] /\ \A s \in Rollouts : s # r => row'[s] = row[s]
      BY <2>1 DEF RowType
    <3>2. row[r].state # "none"
      BY <1>2 DEF LeaseExpires, Active, ActiveStates
    <3>3. Kept(r)
      BY <2>1, <3>1, <3>2 DEF Kept, Rows
    <3> QED BY <3>1, <3>3 DEF Kept
  <2>3. Working'
    BY <1>2, <2>2, QuietStep, SameQuiet, SameAsks DEF LeaseExpires, calls
  <2>4. LeaseHeld'
    <3>1. ASSUME NEW w \in Workers, held[w] = r, stalls' = 0 PROVE FALSE
      <4>1. r # NoRollout
        BY RolloutsAssumption
      <4>2. w \in up /\ (stalls = 0 => row[r].owner = w)
        BY <3>1, <4>1 DEF LeaseHeld
      <4> QED BY <1>2, <3>1, <4>2 DEF LeaseExpires, Driving
    <3>2. \A w \in Workers : held[w] # r /\ held[w] # NoRollout => row'[held[w]] = row[held[w]]
      BY <2>1 DEF DriverType, RowType
    <3>3. stalls' = 0 => stalls = 0
      BY <1>2 DEF LeaseExpires
    <3> QED
      BY <1>2, <3>1, <3>2, <3>3 DEF LeaseHeld, LeaseExpires, driver
  <2> QED BY <2>3, <2>4
<1> QED
  BY <1>1, <1>2 DEF World, VariableSaved, ServerReports, ReportExpires, UpgradedElsewhere,
                    SettlePasses, calls, bounds

\* A rollout queued: a new row, which nobody has read or holds.
LEMMA QueuedStep ==
  ASSUME TypeOK, TypeOK', Working, LeaseHeld, NEW r \in Rollouts, NEW scope \in Scopes,
         row[r].state = "none",
         row' = [row EXCEPT ![r] = Queued(scope)],
         owed' = [owed EXCEPT ![r] = scope],
         UNCHANGED <<afterStop, driver, up, stalls>>,
         \A q \in Requests : req'[q] = req[q] \/ req'[q].pc # "extend"
  PROVE  Working' /\ LeaseHeld'
<1> USE DEF TypeOK, Working
<1>1. row[r] = NoRow /\ row[r].owner = NoWorker /\ afterStop[r] = 0
  <2>1. row[r] = NoRow /\ (row[r].stop \/ afterStop[r] = 0)
    BY DEF RowsOK
  <2> QED BY <2>1 DEF NoRow
<1>2. /\ row'[r].owner = NoWorker /\ row'[r].state = "queued" /\ row'[r].scope = scope
      /\ row'[r].done = 0 /\ row'[r].skipped = 0 /\ row'[r].total = 0 /\ owed'[r] = scope
  BY DEF NoRow, RowType, Queued
<1>3. \A s \in Rollouts : s # r => row'[s] = row[s] /\ owed'[s] = owed[s]
  BY DEF RowType
<1>4. RowsOK'
  <2>1. \A a \in Apps : scope[a] <= scope[a]
    BY RolloutsAssumption DEF Scopes
  <2> QED
    BY <1>1, <1>2, <1>3, <2>1 DEF RowsOK
<1>5. \A w \in Workers : row'[held[w]].owner = w /\ held[w] \in Rollouts =>
        held[w] # r /\ row[held[w]].owner = w
  BY <1>2, <1>3, RolloutsAssumption
<1>6. \A w \in Workers : HasRead(w) => held[w] \in Rollouts
  BY DEF HasRead, DriverType
<1>7. SnapStands'
  BY <1>3, <1>5, <1>6 DEF SnapStands, HasRead, driver
<1>8. StepStands'
  BY <1>3, <1>5, <1>6 DEF StepStands, HasRead, driver
<1>9. PicksOK'
  BY DEF PicksOK, driver
<1>10. AskStands'
  BY <1>1, <1>2, <1>3 DEF AskStands, CallType
<1>11. LeaseHeld'
  <2>1. \A w \in Workers : held[w] # NoRollout => held[w] \in Rollouts
    BY DEF DriverType
  <2>2. \A w \in Workers : held[w] = r /\ stalls = 0 => FALSE
    BY <1>1, RolloutsAssumption DEF LeaseHeld
  <2> QED
    BY <1>3, <2>1, <2>2 DEF LeaseHeld, driver
<1> QED BY <1>4, <1>7, <1>8, <1>9, <1>10, <1>11

\* Queueing, extending and stopping a rollout keep the invariant.
LEMMA ApiStep ==
  ASSUME TypeOK, TypeOK', Working, LeaseHeld, Api
  PROVE  Working' /\ LeaseHeld'
<1> USE DEF TypeOK, Working
<1>1. ASSUME NEW r \in Rollouts, QueueUpgrade(r) PROVE Working' /\ LeaseHeld'
  <2>1. row[r].state = "none" /\ owed[r] = NoScope /\ NoScope \in Scopes
    <3>1. row[r] = NoRow
      BY <1>1 DEF QueueUpgrade, Insertable, RowsOK
    <3>2. \A a \in Apps : owed[r][a] \in 0 .. (MaxRev + 1) /\ owed[r][a] <= 0
      BY <3>1, RolloutsAssumption DEF RowsOK, RowType, Scopes, NoRow, NoScope, Unwanted
    <3>3. \A a \in Apps : owed[r][a] = 0
      BY <3>2, RolloutsAssumption
    <3>4. NoScope \in Scopes
      BY RolloutsAssumption DEF NoScope, Scopes, Unwanted
    <3> QED
      BY <3>1, <3>3, <3>4 DEF RowType, Scopes, NoScope, NoRow, Unwanted
  <2>3. owed' = [owed EXCEPT ![r] = NoScope]
    <3>1. owed' = owed /\ owed \in [Rollouts -> Scopes]
      BY <1>1 DEF QueueUpgrade, RowType
    <3>2. owed[r] = NoScope
      BY <2>1
    <3> HIDE DEF TypeOK, Working
    <3> QED BY <3>1, <3>2
  <2> QED
    <3>1. row' = [row EXCEPT ![r] = Queued(NoScope)]
      BY <1>1 DEF QueueUpgrade
    <3>2. UNCHANGED <<afterStop, driver, up, stalls, req>>
      BY <1>1 DEF QueueUpgrade, calls, bounds
    <3> QED
      BY <2>1, <2>3, <3>1, <3>2, QueuedStep
<1>2. ASSUME NEW r \in Rollouts, StopUnleased(r) PROVE Working' /\ LeaseHeld'
  <2>1. CASE row[r].owner = NoWorker \/ Unleased(r)
    <3> DEFINE new == [EndedRow(r, "stopped", NoApp) EXCEPT !.stop = TRUE]
    <3>1. new \in Rows
      <4>1. EndedRow(r, "stopped", NoApp) \in Rows
        BY EndedRowType DEF EndedStates
      <4> QED BY <4>1 DEF Rows
    <3>2. Active(r) /\ End(r, new)
      BY <1>2, <2>1 DEF StopUnleased
    <3>3. (\A s \in Rollouts : Kept(s)) /\ \A s \in Rollouts : s # r /\ Active(s) => row'[s] = row[s]
      <4>1. "stopped" \in EndedStates /\ "stopped" # "done"
        BY DEF EndedStates
      <4> HIDE DEF new
      <4> QED BY <3>1, <3>2, <4>1, EndKept DEF new
    <3>4. Working'
      BY <1>2, <3>3, QuietStep, SameQuiet, SameAsks DEF StopUnleased
    <3>5. LeaseHeld'
      <4>1. ASSUME NEW w \in Workers, held[w] # NoRollout, stalls = 0
            PROVE  held[w] # r /\ Active(held[w]) /\ held[w] \in Rollouts
        <5>1. row[held[w]].owner = w /\ row[held[w]].lease = "live" /\ held[w] \in Rollouts
          BY <4>1 DEF LeaseHeld, DriverType
        <5>2. Active(held[w])
          BY <5>1, RolloutsAssumption DEF RowsOK, Active, ActiveStates
        <5> QED BY <2>1, <5>1, <5>2, RolloutsAssumption DEF Unleased
      <4> QED
        BY <1>2, <3>3, <4>1 DEF LeaseHeld, StopUnleased, driver, bounds
    <3> QED BY <3>4, <3>5
  <2>2. CASE ~(row[r].owner = NoWorker \/ Unleased(r))
    BY <1>2, <2>2, StillStep, SameAsks DEF StopUnleased, rowVars, bounds
  <2> QED BY <2>1, <2>2
<1>3. ASSUME NEW r \in Rollouts, RequestStop(r) PROVE Working' /\ LeaseHeld'
  <2>1. CASE Active(r)
    <3>1. row'[r] = [row[r] EXCEPT !.stop = TRUE] /\ row[r] \in Rows
      BY <1>3, <2>1 DEF RequestStop, RowType
    <3>2. \A s \in Rollouts : s # r => row'[s] = row[s]
      BY <1>3, <2>1 DEF RequestStop, RowType
    <3>3. \A s \in Rollouts : Kept(s)
      <4>1. row[r].state # "none"
        BY <2>1 DEF Active, ActiveStates
      <4>2. Kept(r)
        BY <3>1, <4>1 DEF Kept, Rows
      <4> QED BY <3>2, <4>2 DEF Kept
    <3>4. Working'
      BY <1>3, <3>3, QuietStep, SameQuiet, SameAsks DEF RequestStop
    <3>5. row'[r].owner = row[r].owner /\ row'[r].lease = row[r].lease
      BY <3>1 DEF Rows
    <3>6. LeaseHeld'
      BY <1>3, <3>2, <3>5 DEF LeaseHeld, RequestStop, driver, bounds, DriverType
    <3> QED BY <3>4, <3>6
  <2>2. CASE ~Active(r)
    BY <1>3, <2>2, StillStep, SameAsks DEF RequestStop, rowVars, bounds
  <2> QED BY <2>1, <2>2
<1>4. ASSUME NEW q \in Requests, ReloadAsked(q) \/ ReloadLooks(q) PROVE Working' /\ LeaseHeld'
  <2>1. UNCHANGED <<rowVars, up, driver, stalls>>
    BY <1>4 DEF ReloadAsked, ReloadLooks, bounds
  <2>2. \A p \in Requests : AskQuiet(p)
    <3>1. \A p \in Requests : p # q => req'[p] = req[p]
      BY <1>4 DEF ReloadAsked, ReloadLooks, CallType
    <3>2. CASE ReloadAsked(q)
      BY <3>1, <3>2 DEF ReloadAsked, AskQuiet, CallType, Calls
    <3>3. CASE ReloadLooks(q)
      <4>1. CASE \E r \in ActiveReloads :
                   req' = [req EXCEPT ![q].pc = "extend", ![q].at = r,
                                      ![q].rev = row[r].rev, ![q].scope = row[r].scope]
        <5>1. PICK r \in ActiveReloads :
                   req' = [req EXCEPT ![q].pc = "extend", ![q].at = r,
                                      ![q].rev = row[r].rev, ![q].scope = row[r].scope]
          BY <4>1
        <5>2. r \in Rollouts /\ row[r].state # "none"
          BY DEF ActiveReloads, Active, ActiveStates, Rollouts
        <5>3. req'[q].at = r /\ req'[q].rev = row[r].rev /\ req'[q].scope = row[r].scope
          BY <5>1 DEF CallType, Calls
        <5> QED BY <3>1, <5>2, <5>3 DEF AskQuiet
      <4>2. CASE \E l \in {"gaveup", "insert", "refused"} : req' = [req EXCEPT ![q].pc = l]
        BY <3>1, <4>2 DEF AskQuiet, CallType, Calls
      <4> QED BY <3>3, <4>1, <4>2 DEF ReloadLooks
    <3> QED BY <1>4, <3>2, <3>3
  <2> QED BY <2>1, <2>2, StillStep
<1>5. ASSUME NEW q \in Requests, ReloadInserts(q) PROVE Working' /\ LeaseHeld'
  <2>1. \A p \in Requests : req'[p] = req[p] \/ req'[p].pc # "extend"
    BY <1>5 DEF ReloadInserts, Again, CallType, Calls
  <2>2. CASE UNCHANGED <<row, owed>>
    BY <1>5, <2>1, <2>2, StillStep DEF ReloadInserts, rowVars, bounds, AskQuiet
  <2>3. ASSUME NEW r \in Reloads, Insertable(r),
               row' = [row EXCEPT ![r] = Queued(req[q].want)],
               owed' = [owed EXCEPT ![r] = req[q].want]
        PROVE  Working' /\ LeaseHeld'
    <3>1. r \in Rollouts /\ row[r].state = "none" /\ req[q].want \in Scopes
      BY <2>3 DEF Rollouts, Insertable, CallType, Calls
    <3>2. UNCHANGED <<afterStop, driver, up, stalls>>
      BY <1>5 DEF ReloadInserts, bounds
    <3> QED BY <2>1, <2>3, <3>1, <3>2, QueuedStep
  <2> QED BY <1>5, <2>2, <2>3 DEF ReloadInserts
<1>6. ASSUME NEW q \in Requests, ReloadExtends(q) PROVE Working' /\ LeaseHeld'
  <2> DEFINE r == req[q].at
             m == Merge(req[q].scope, req[q].want)
  <2>1. req[q] \in Calls /\ r \in Rollouts /\ row[r] \in Rows
    BY <1>6 DEF ReloadExtends, CallType, RowType
  <2>2. UNCHANGED <<afterStop, up, driver, stalls>>
    BY <1>6 DEF ReloadExtends, bounds
  <2>3. \A p \in Requests : req'[p] = req[p] \/ req'[p].pc # "extend"
    BY <1>6 DEF ReloadExtends, Again, CallType, Calls
  <2>4. CASE ~Extends(q, r)
    BY <1>6, <2>2, <2>3, <2>4, StillStep DEF ReloadExtends, rowVars, AskQuiet
  <2>5. CASE Extends(q, r)
    <3>1. /\ row' = [row EXCEPT ![r].scope = m, ![r].rev = row[r].rev + 1]
          /\ owed' = [owed EXCEPT ![r] = Merge(owed[r], req[q].want)]
      BY <1>6, <2>5 DEF ReloadExtends
    <3>2. req[q].scope = row[r].scope
      BY <1>6, <2>5 DEF AskStands, Extends, ReloadExtends
    <3> DEFINE new == [row[r] EXCEPT !.scope = m, !.rev = row[r].rev + 1]
    <3>3. row'[r] = new /\ owed'[r] = Merge(owed[r], req[q].want)
      BY <2>1, <3>1 DEF RowType
    <3>4. \A s \in Rollouts : s # r => row'[s] = row[s] /\ owed'[s] = owed[s]
      BY <3>1 DEF RowType
    <3>5. /\ new.scope = m /\ new.rev = row[r].rev + 1
          /\ new.owner = row[r].owner /\ new.lease = row[r].lease /\ new.state = row[r].state
          /\ new.skip = row[r].skip /\ new.done = row[r].done /\ new.skipped = row[r].skipped
          /\ new.total = row[r].total /\ new.stop = row[r].stop
      BY <2>1 DEF Rows
    <3>6. \A a \in Apps : Merge(owed[r], req[q].want)[a] <= m[a]
      <4>1. \A a \in Apps : /\ owed[r][a] \in Nat /\ req[q].want[a] \in Nat
                             /\ row[r].scope[a] \in Nat /\ owed[r][a] <= row[r].scope[a]
        BY <2>1, RolloutsAssumption DEF RowsOK, RowType, Rows, Calls, Scopes
      <4> QED BY <3>2, <4>1 DEF Merge
    <3>7. row[r].rev \in Nat /\ row[r].state \in ActiveStates /\ ~row[r].stop
      BY <2>1, <2>5 DEF Rows, Extends, Active
    <3> HIDE DEF new, m, r
    <3>8. RowsOK'
      BY <3>3, <3>4, <3>5, <3>6, <3>7, <2>2 DEF RowsOK, ActiveStates
    <3>9. \A w \in Workers : HasRead(w) => held[w] \in Rollouts /\ snap[w].rev \in Nat
      BY DEF HasRead, DriverType, Rows
    <3>10. SnapStands'
      BY <2>2, <3>3, <3>4, <3>5, <3>7, <3>9 DEF SnapStands, HasRead, driver
    <3>11. StepStands'
      <4> SUFFICES ASSUME NEW w \in Workers, HasRead(w), row'[held[w]].owner = w
                   PROVE  /\ pc[w] \in {"next", "complete", "start"} => afterStop[held[w]] = 0
                          /\ pc[w] \in {"run", "count"} =>
                               row'[held[w]].done + row'[held[w]].skipped < row'[held[w]].total
                          /\ pc[w] = "complete" /\ snap[w].rev = row'[held[w]].rev =>
                               owed'[held[w]] = NoScope
        BY <2>2 DEF StepStands, HasRead, driver
      <4>1. CASE held[w] = r
        <5>1. snap[w].rev <= row[r].rev
          BY <3>3, <3>5, <4>1 DEF SnapStands
        <5>2. snap[w].rev # row'[r].rev
          BY <3>3, <3>5, <3>7, <3>9, <5>1
        <5> QED BY <3>3, <3>5, <4>1, <5>2 DEF StepStands
      <4>2. CASE held[w] # r
        BY <3>4, <3>9, <4>2 DEF StepStands
      <4> QED BY <4>1, <4>2
    <3>12. PicksOK'
      BY <2>2 DEF PicksOK, driver
    <3>13. AskStands'
      <4> SUFFICES ASSUME NEW p \in Requests, req'[p].pc = "extend"
                   PROVE  /\ row'[req[p].at].state # "none"
                          /\ req[p].rev <= row'[req[p].at].rev
                          /\ req[p].rev = row'[req[p].at].rev =>
                               req[p].scope = row'[req[p].at].scope
        BY <2>3 DEF AskStands
      <4>1. req[p].pc = "extend" /\ req[p].at \in Rollouts /\ req[p].rev \in Nat
        BY <2>3 DEF CallType, Calls
      <4> QED
        BY <3>3, <3>4, <3>5, <3>7, <4>1 DEF AskStands
    <3>14. LeaseHeld'
      BY <2>2, <3>3, <3>4, <3>5 DEF LeaseHeld, driver, DriverType
    <3> QED BY <3>8, <3>10, <3>11, <3>12, <3>13, <3>14
  <2> QED BY <2>4, <2>5
<1> QED BY <1>1, <1>2, <1>3, <1>4, <1>5, <1>6 DEF Api

\* A worker moves on, and writes at most the rollout it owns.
LEMMA MoveStep ==
  ASSUME TypeOK, TypeOK', Working, LeaseHeld, RowsOK', NEW w \in Workers, NEW r \in Rollouts,
         held[w] = r, UNCHANGED <<held, up, stalls, req>>,
         \A s \in Rollouts : s # r => /\ row'[s] = row[s] /\ owed'[s] = owed[s]
                                     /\ afterStop'[s] = afterStop[s],
         row'[r].rev = row[r].rev /\ row'[r].scope = row[r].scope,
         row'[r].owner = row[r].owner /\ row'[r].lease = row[r].lease,
         row'[r].state = row[r].state,
         \/ row'[r] = row[r] /\ afterStop'[r] = afterStop[r]
         \/ row[r].owner = w,
         owed[r] = NoScope => owed'[r] = NoScope,
         \A v \in Workers : v # w => /\ pc'[v] = pc[v] /\ snap'[v] = snap[v]
                                    /\ pick'[v] = pick[v] /\ outcome'[v] = outcome[v],
         HasRead(w)' /\ row[r].owner = w =>
           /\ snap'[w].skip = row'[r].skip
           /\ snap'[w].done = row'[r].done /\ snap'[w].skipped = row'[r].skipped
           /\ snap'[w].rev <= row[r].rev
           /\ snap'[w].rev = row[r].rev => snap'[w].scope = row[r].scope
           /\ pc'[w] \in {"next", "complete", "start"} => afterStop'[r] = 0
           /\ pc'[w] \in {"run", "count"} => row'[r].done + row'[r].skipped < row'[r].total
           /\ pc'[w] = "complete" /\ snap'[w].rev = row[r].rev => owed'[r] = NoScope,
         pc'[w] = "start" => pick'[w].remaining >= 1,
         pc'[w] = "finish" /\ outcome'[w] = "stopped" => snap'[w].stop
  PROVE  Working' /\ LeaseHeld'
<1> USE DEF TypeOK, Working
<1>1. \A v \in Workers : HasRead(v) => held[v] \in Rollouts
  BY DEF HasRead, DriverType
<1>2. ASSUME NEW v \in Workers, v # w, HasRead(v), row'[held[v]].owner = v
      PROVE  row'[held[v]] = row[held[v]] /\ afterStop'[held[v]] = afterStop[held[v]]
  BY <1>1, <1>2
<1>3. SnapStands'
  BY <1>1, <1>2 DEF SnapStands, HasRead
<1>4. StepStands'
  <2> SUFFICES ASSUME NEW v \in Workers, HasRead(v)', row'[held[v]].owner = v, v # w
               PROVE  /\ pc[v] \in {"next", "complete", "start"} => afterStop'[held[v]] = 0
                      /\ pc[v] \in {"run", "count"} =>
                           row'[held[v]].done + row'[held[v]].skipped < row'[held[v]].total
                      /\ pc[v] = "complete" /\ snap[v].rev = row'[held[v]].rev =>
                           owed'[held[v]] = NoScope
    BY DEF StepStands, HasRead
  <2>1. HasRead(v) /\ held[v] \in Rollouts
    BY <1>1 DEF HasRead
  <2>2. row'[held[v]] = row[held[v]] /\ afterStop'[held[v]] = afterStop[held[v]]
    BY <1>2, <2>1
  <2>3. owed[held[v]] = NoScope => owed'[held[v]] = NoScope
    BY <2>1
  <2> QED BY <2>1, <2>2, <2>3 DEF StepStands
<1>5. PicksOK'
  BY DEF PicksOK
<1>6. AskStands'
  <2>1. \A s \in Rollouts : /\ row'[s].rev = row[s].rev /\ row'[s].scope = row[s].scope
                           /\ row'[s].state = row[s].state
    OBVIOUS
  <2> QED BY <2>1 DEF AskStands, CallType
<1>7. LeaseHeld'
  BY DEF LeaseHeld, DriverType
<1> QED BY <1>3, <1>4, <1>5, <1>6, <1>7

\* A worker that leaves having ended or released the rollout it owned.
LEMMA LeavingStep ==
  ASSUME TypeOK, TypeOK', Working, LeaseHeld, NEW w \in Workers, Leave(w),
         \A s \in Rollouts : Kept(s),
         \A s \in Rollouts : s # held[w] /\ Active(s) => row'[s] = row[s],
         UNCHANGED row \/ row[held[w]].owner = w,
         UNCHANGED <<owed, afterStop, req, stalls>>, up \ {w} \subseteq up'
  PROVE  Working' /\ LeaseHeld'
<1> USE DEF TypeOK, Working
<1>1. Working'
  BY QuietStep, LeaveQuiet, SameAsks
<1>2. ASSUME NEW v \in Workers, held'[v] # NoRollout
      PROVE  v # w /\ held'[v] = held[v] /\ held[v] \in Rollouts /\ v \in up'
  BY <1>2 DEF Leave, DriverType, LeaseHeld
<1>3. ASSUME NEW v \in Workers, held'[v] # NoRollout, stalls = 0
      PROVE  row'[held[v]] = row[held[v]]
  <2>1. v # w /\ held'[v] = held[v] /\ held[v] \in Rollouts
    BY <1>2, <1>3
  <2>2. row[held[v]].owner = v
    BY <1>3, <2>1 DEF LeaseHeld
  <2>3. Active(held[v])
    BY <2>1, <2>2, RolloutsAssumption DEF RowsOK, Active, ActiveStates
  <2> QED BY <2>1, <2>2, <2>3
<1>4. LeaseHeld'
  <2> SUFFICES ASSUME NEW v \in Workers, held'[v] # NoRollout
               PROVE  /\ v \in up'
                      /\ stalls = 0 => row'[held'[v]].owner = v /\ row'[held'[v]].lease = "live"
    BY DEF LeaseHeld
  <2> QED BY <1>2, <1>3 DEF LeaseHeld
<1> QED BY <1>1, <1>4

\* A worker that leaves without writing keeps the invariant.
LEMMA LeaveOnly ==
  ASSUME TypeOK, TypeOK', Working, LeaseHeld, NEW w \in Workers, Leave(w),
         UNCHANGED <<rowVars, req, stalls>>, up \ {w} \subseteq up'
  PROVE  Working' /\ LeaseHeld'
BY LeavingStep, SameKept DEF rowVars

\* A database error, a crash or a shutdown keeps the invariant.
LEMMA FaultStep ==
  ASSUME TypeOK, TypeOK', Working, LeaseHeld, NEW w \in Workers, Fault(w)
  PROVE  Working' /\ LeaseHeld'
<1>1. Leave(w) /\ UNCHANGED <<owed, afterStop, req, stalls>> /\ up \ {w} \subseteq up'
  BY DEF Fault, DatabaseError, Crash, Shutdown, rowVars, calls
<1>2. CASE UNCHANGED row
  BY <1>1, <1>2, LeaveOnly DEF rowVars
<1>3. CASE Shutdown(w) /\ ~UNCHANGED row
  <2>1. held[w] # NoRollout /\ held[w] \in Rollouts
    BY <1>3 DEF Shutdown, TypeOK, DriverType
  <2>2. PICK l \in {"null", "live"} : row' = Released(w, held[w], l)
    BY <1>3, <2>1 DEF Shutdown
  <2>3. row[held[w]].owner = w
    BY <1>3, <2>2 DEF Released
  <2>4. /\ \A s \in Rollouts : Kept(s)
        /\ \A s \in Rollouts : s # held[w] => row'[s] = row[s]
    BY <2>1, <2>2, ReleasedKept DEF Working
  <2> QED BY <1>1, <2>3, <2>4, LeavingStep
<1> QED BY <1>2, <1>3 DEF Fault, DatabaseError, Crash, rowVars

\* The steps of a drive.
LEMMA StepMoves ==
  ASSUME TypeOK, TypeOK', Working, LeaseHeld, NEW w \in Workers,
         ReadRow(w) \/ PickNext(w) \/ StartStep(w) \/ RunUpgrade(w) \/ RunReload(w) \/ CountStep(w)
  PROVE  Working' /\ LeaseHeld'
<1> USE DEF TypeOK, Working
<1> DEFINE r == held[w]
<1>0. /\ r \in Rollouts /\ row[r] \in Rows /\ w \in up
      /\ UNCHANGED <<up, stalls, req>>
  BY DEF ReadRow, PickNext, StartStep, RunUpgrade, RunReload, CountStep, At, DriverType, RowType,
         calls, bounds
<1>1. CASE ReadRow(w)
  <2>1. UNCHANGED rowVars
    BY <1>1 DEF ReadRow
  <2>2. CASE Leave(w)
    BY <1>0, <2>1, <2>2, LeaveOnly
  <2>3. CASE ~Leave(w)
    <3>1. /\ snap' = [snap EXCEPT ![w] = row[r]]
          /\ pc' = [pc EXCEPT ![w] = IF row[r].stop THEN "finish" ELSE "next"]
          /\ UNCHANGED <<held, pick>>
          /\ outcome' = [outcome EXCEPT ![w] = IF row[r].stop THEN "stopped" ELSE "none"]
      BY <1>1, <2>3 DEF ReadRow, Goto, MustStop
    <3>2. /\ snap'[w] = row[r] /\ pc'[w] = IF row[r].stop THEN "finish" ELSE "next"
          /\ \A v \in Workers : v # w => /\ pc'[v] = pc[v] /\ snap'[v] = snap[v]
                                        /\ pick'[v] = pick[v] /\ outcome'[v] = outcome[v]
      BY <3>1 DEF DriverType
    <3>3. RowsOK'
      BY <2>1 DEF RowsOK, rowVars
    <3>4. ~row[r].stop => afterStop[r] = 0
      BY <1>0 DEF RowsOK
    <3>5. row[r].rev \in Nat
      BY <1>0 DEF Rows
    <3> HIDE DEF r
    <3> QED
      BY <1>0, <2>1, <3>1, <3>2, <3>3, <3>4, <3>5, MoveStep DEF rowVars, HasRead, r
  <2> QED BY <2>2, <2>3
<1>2. CASE PickNext(w)
  <2> DEFINE todo == Todo(r, snap[w])
  <2>1. /\ UNCHANGED <<row, afterStop, held, snap, outcome>>
        /\ pc[w] = "next"
      BY <1>2 DEF PickNext, At
  <2>2. pc' = [pc EXCEPT ![w] = pc'[w]] /\ pc'[w] \in {"start", "park", "complete"}
    BY <1>2 DEF PickNext, Goto, DriverType
  <2>3. \A v \in Workers : v # w => pick'[v] = pick[v]
    BY <1>2 DEF PickNext, DriverType
  <2>4. pc'[w] = "start" => pick'[w].remaining >= 1
    <3>1. CASE pc'[w] = "start"
      <4>1. PICK a \in todo :
              pick' = [pick EXCEPT ![w] = [app |-> a, remaining |-> Cardinality(todo),
                                            revSeen |-> rep[a].rev]]
        BY <1>2, <3>1 DEF PickNext, Goto, DriverType
      <4>2. todo \subseteq Apps
        BY DEF Todo, WorldType, Wanted
      <4>3. IsFiniteSet(todo) /\ todo # {}
        BY <4>1, <4>2, RolloutsAssumption, FS_Subset
      <4> HIDE DEF todo
      <4>4. Cardinality(todo) \in Nat /\ Cardinality(todo) # 0
        BY <4>3, FS_CardinalityType, FS_EmptySet
      <4>5. pick'[w].remaining = Cardinality(todo)
        BY <4>1 DEF DriverType
      <4> QED BY <4>4, <4>5
    <3> QED BY <3>1
  <2>5. \A s \in Rollouts : s # r => owed'[s] = owed[s]
    BY <1>2 DEF PickNext, RowType
  <2>6. \A a \in Apps : owed'[r][a] \in {owed[r][a], 0}
    <3>1. CASE owed' = owed
      BY <3>1
    <3>2. CASE owed' = [owed EXCEPT ![r] = Looked(r, snap[w].scope)]
      BY <1>0, <3>2 DEF Looked, RowType, Unwanted
    <3> QED BY <1>2, <3>1, <3>2 DEF PickNext
  <2>7. \A a \in Apps : /\ owed[r][a] \in Nat /\ row[r].scope[a] \in Nat
                         /\ owed[r][a] <= row[r].scope[a]
    BY <1>0, RolloutsAssumption DEF RowsOK, RowType, Rows, Scopes
  <2>8. owed'[r] \in [Apps -> 0 .. MaxRev + 1]
    BY <1>0 DEF RowType, Scopes
  <2>9. owed[r] = NoScope => owed'[r] = NoScope
    BY <2>6, <2>8 DEF NoScope, Unwanted
  <2>10. RowsOK'
    <3>1. \A a \in Apps : owed'[r][a] <= row[r].scope[a]
      BY <2>6, <2>7
    <3> HIDE DEF r
    <3> QED
      BY <1>0, <2>1, <2>5, <2>9, <3>1 DEF RowsOK
  <2>11. row[r].owner = w /\ pc'[w] = "complete" /\ snap[w].rev = row[r].rev => owed'[r] = NoScope
    <3> SUFFICES ASSUME row[r].owner = w, pc'[w] = "complete", snap[w].rev = row[r].rev
                 PROVE  owed'[r] = NoScope
      OBVIOUS
    <3>1. snap[w].scope = row[r].scope
      BY <2>1 DEF SnapStands, HasRead
    <3>2. owed' = [owed EXCEPT ![r] = Looked(r, snap[w].scope)]
      BY <1>2 DEF PickNext, Goto, DriverType
    <3>3. owed'[r] = Looked(r, row[r].scope)
      BY <1>0, <3>1, <3>2 DEF RowType
    <3> HIDE DEF r
    <3> QED BY <2>7, <3>3 DEF Looked, NoScope
  <2>12. row[r].owner = w =>
           /\ snap[w].skip = row[r].skip
           /\ snap[w].done = row[r].done /\ snap[w].skipped = row[r].skipped
           /\ snap[w].rev <= row[r].rev
           /\ snap[w].rev = row[r].rev => snap[w].scope = row[r].scope
           /\ afterStop[r] = 0
    BY <2>1 DEF SnapStands, StepStands, HasRead
  <2>13. \A v \in Workers : v # w => pc'[v] = pc[v]
    BY <2>2 DEF DriverType
  <2> HIDE DEF r
  <2> QED
    BY <1>0, <2>1, <2>2, <2>3, <2>4, <2>5, <2>9, <2>10, <2>11, <2>12, <2>13, MoveStep DEF r
<1>3. CASE StartStep(w)
  <2>1. CASE ~Owns(w, r)
    BY <1>0, <1>3, <2>1, LeaveOnly DEF StartStep, rowVars
  <2>2. CASE Owns(w, r)
    <3>1. /\ row' = [row EXCEPT ![r] = [row[r] EXCEPT !.current = pick[w].app, !.total = StepTotal(w)]]
          /\ afterStop' = [afterStop EXCEPT ![r] = IF row[r].stop THEN afterStop[r] + 1 ELSE afterStop[r]]
          /\ pc' = [pc EXCEPT ![w] = "run"]
          /\ UNCHANGED <<held, snap, pick, outcome, owed>>
          /\ pc[w] = "start" /\ row[r].owner = w
      BY <1>3, <2>2 DEF StartStep, Goto, At, Owns
    <3> DEFINE new == [row[r] EXCEPT !.current = pick[w].app, !.total = StepTotal(w)]
    <3>2. row'[r] = new /\ \A s \in Rollouts : s # r => row'[s] = row[s] /\ afterStop'[s] = afterStop[s]
      BY <1>0, <3>1 DEF RowType
    <3>3. /\ new.rev = row[r].rev /\ new.scope = row[r].scope /\ new.owner = row[r].owner
          /\ new.lease = row[r].lease /\ new.state = row[r].state /\ new.stop = row[r].stop
          /\ new.skip = row[r].skip /\ new.done = row[r].done /\ new.skipped = row[r].skipped
          /\ new.total = StepTotal(w)
      BY <1>0 DEF Rows
    <3>4. /\ snap[w].skip = row[r].skip /\ snap[w].done = row[r].done
          /\ snap[w].skipped = row[r].skipped /\ snap[w].rev <= row[r].rev
          /\ snap[w].rev = row[r].rev => snap[w].scope = row[r].scope
          /\ afterStop[r] = 0 /\ pick[w].remaining >= 1
      BY <3>1 DEF SnapStands, StepStands, PicksOK, HasRead
    <3>5. row[r].done + row[r].skipped < StepTotal(w)
      <4>1. pick[w].remaining \in Nat /\ row[r].done \in Nat /\ row[r].skipped \in Nat
        BY <1>0 DEF DriverType, Picks, Rows
      <4> QED BY <3>4, <4>1 DEF StepTotal
    <3>6. afterStop'[r] = IF row[r].stop THEN 1 ELSE 0
      BY <1>0, <3>1, <3>4 DEF RowType
    <3>7. StepTotal(w) \in Nat /\ row[r].done + row[r].skipped \in Nat
      BY <1>0 DEF StepTotal, DriverType, Picks, Rows
    <3>8. row[r].state = "running"
      BY <2>2 DEF Owns
    <3>9. \A v \in Workers : v # w => pc'[v] = pc[v]
      BY <3>1 DEF DriverType
    <3>10. pc'[w] = "run"
      BY <3>1 DEF DriverType
    <3> HIDE DEF new, r
    <3>11. RowsOK'
      BY <3>1, <3>2, <3>3, <3>5, <3>6, <3>7, <3>8 DEF RowsOK
    <3> QED
      BY <1>0, <3>1, <3>2, <3>3, <3>4, <3>5, <3>9, <3>10, <3>11, MoveStep DEF r
  <2> QED BY <2>1, <2>2
<1>4. CASE RunUpgrade(w) \/ RunReload(w)
  <2>1. UNCHANGED rowVars /\ UNCHANGED <<held, snap, pick>> /\ pc[w] = "run"
    BY <1>4 DEF RunUpgrade, RunReload, At
  <2>2. PICK o \in {"done", "forget", "skipped", "failed"} : EndStep(w, o)
    BY <1>4 DEF RunUpgrade, RunReload
  <2>3. /\ pc'[w] = IF o = "failed" THEN "finish" ELSE "count"
        /\ outcome'[w] = o
        /\ \A v \in Workers : v # w => pc'[v] = pc[v] /\ outcome'[v] = outcome[v]
    BY <2>2 DEF EndStep, Goto, DriverType
  <2>4. RowsOK'
    BY <2>1 DEF RowsOK, rowVars
  <2>5. row[r].owner = w =>
          /\ snap[w].skip = row[r].skip
          /\ snap[w].done = row[r].done /\ snap[w].skipped = row[r].skipped
          /\ snap[w].rev <= row[r].rev
          /\ snap[w].rev = row[r].rev => snap[w].scope = row[r].scope
          /\ row[r].done + row[r].skipped < row[r].total
    BY <2>1 DEF SnapStands, StepStands, HasRead
  <2> HIDE DEF r
  <2> QED
    BY <1>0, <2>1, <2>3, <2>4, <2>5, MoveStep DEF rowVars, r
<1>5. CASE CountStep(w)
  <2>1. CASE ~Owns(w, r)
    BY <1>0, <1>5, <2>1, LeaveOnly DEF CountStep, rowVars
  <2>2. CASE Owns(w, r)
    <3> DEFINE d == IF outcome[w] = "skipped" THEN row[r].done ELSE row[r].done + 1
               k == IF outcome[w] = "skipped" THEN row[r].skipped + 1 ELSE row[r].skipped
               new == [row[r] EXCEPT !.done = d, !.skipped = k, !.skip = SkipIDs(w)]
    <3>1. /\ row' = [row EXCEPT ![r] = new]
          /\ pc' = [pc EXCEPT ![w] = "read"]
          /\ UNCHANGED <<held, snap, pick, outcome, owed, afterStop>>
          /\ pc[w] = "count" /\ row[r].owner = w /\ row[r].state = "running"
      BY <1>5, <2>2 DEF CountStep, Goto, At, Owns
    <3>2. row'[r] = new /\ \A s \in Rollouts : s # r => row'[s] = row[s]
      BY <1>0, <3>1 DEF RowType
    <3>3. /\ new.rev = row[r].rev /\ new.scope = row[r].scope /\ new.owner = row[r].owner
          /\ new.lease = row[r].lease /\ new.state = row[r].state /\ new.stop = row[r].stop
          /\ new.done = d /\ new.skipped = k /\ new.total = row[r].total
      <4> HIDE DEF d, k
      <4> QED BY <1>0 DEF Rows
    <3>4. d + k <= row[r].total
      <4>1. row[r].done + row[r].skipped < row[r].total
        BY <3>1 DEF StepStands, HasRead
      <4>2. row[r].done \in Nat /\ row[r].skipped \in Nat /\ row[r].total \in Nat
        BY <1>0 DEF Rows
      <4> QED BY <4>1, <4>2
    <3>5. \A v \in Workers : v # w => pc'[v] = pc[v]
      BY <3>1 DEF DriverType
    <3>6. pc'[w] = "read"
      BY <3>1 DEF DriverType
    <3> HIDE DEF new, r, d, k
    <3>7. RowsOK'
      BY <3>1, <3>2, <3>3, <3>4 DEF RowsOK
    <3> QED
      BY <1>0, <3>1, <3>2, <3>3, <3>5, <3>6, <3>7, MoveStep DEF HasRead, r
  <2> QED BY <2>1, <2>2
<1> QED BY <1>1, <1>2, <1>3, <1>4, <1>5

\* A claim takes a rollout from whoever held it: what that worker read no
\* longer counts, and while nobody stalls there is no such worker.
LEMMA ClaimStep ==
  ASSUME TypeOK, TypeOK', Working, LeaseHeld, NEW w \in Workers, NEW r \in Rollouts, Claim(w, r)
  PROVE  Working' /\ LeaseHeld'
<1> USE DEF TypeOK, Working
<1> DEFINE new == [row[r] EXCEPT !.owner = w, !.lease = "live", !.state = "running"]
<1>1. /\ row' = [row EXCEPT ![r] = new]
      /\ held' = [held EXCEPT ![w] = r] /\ pc' = [pc EXCEPT ![w] = "read"]
      /\ UNCHANGED <<owed, afterStop, up, stalls, req, snap, pick, outcome>>
      /\ w \in up /\ pc[w] = "idle" /\ Active(r) /\ Unleased(r)
  BY DEF Claim, Goto, At, Claimable, calls, bounds
<1>2. row'[r] = new /\ row[r] \in Rows /\ \A s \in Rollouts : s # r => row'[s] = row[s]
  BY <1>1 DEF RowType
<1>3. /\ new.rev = row[r].rev /\ new.scope = row[r].scope /\ new.stop = row[r].stop
      /\ new.done = row[r].done /\ new.skipped = row[r].skipped /\ new.total = row[r].total
      /\ new.owner = w /\ new.lease = "live" /\ new.state = "running"
  BY <1>2 DEF Rows
<1>4. /\ held'[w] = r /\ pc'[w] = "read"
      /\ \A v \in Workers : v # w => held'[v] = held[v] /\ pc'[v] = pc[v]
  BY <1>1 DEF DriverType
<1> HIDE DEF new
<1>5. RowsOK'
  BY <1>1, <1>2, <1>3 DEF RowsOK, Active, ActiveStates
<1>6. ASSUME NEW v \in Workers, HasRead(v)', row'[held'[v]].owner = v
      PROVE  /\ HasRead(v) /\ held'[v] = held[v] /\ pc'[v] = pc[v] /\ v # w
             /\ held[v] \in Rollouts /\ row'[held[v]] = row[held[v]]
  <2>1. v # w /\ HasRead(v) /\ held'[v] = held[v] /\ pc'[v] = pc[v]
    BY <1>4, <1>6 DEF HasRead
  <2>2. held[v] \in Rollouts
    BY <2>1 DEF HasRead, DriverType
  <2> QED BY <1>2, <1>3, <1>6, <2>1, <2>2
<1>7. SnapStands'
  BY <1>1, <1>6 DEF SnapStands
<1>8. StepStands'
  BY <1>1, <1>6 DEF StepStands
<1>9. PicksOK'
  BY <1>1, <1>4 DEF PicksOK
<1>10. AskStands'
  BY <1>1, <1>2, <1>3 DEF AskStands, CallType
<1>11. LeaseHeld'
  <2>1. ASSUME NEW v \in Workers, v # w, held[v] # NoRollout, stalls = 0
        PROVE  held[v] \in Rollouts /\ held[v] # r
    BY <1>1, <2>1 DEF LeaseHeld, Unleased, DriverType
  <2> QED
    BY <1>1, <1>2, <1>3, <1>4, <2>1 DEF LeaseHeld
<1> QED BY <1>5, <1>7, <1>8, <1>9, <1>10, <1>11

\* Every step of a worker driving a rollout keeps the invariant.
LEMMA DriveStep ==
  ASSUME TypeOK, TypeOK', Working, LeaseHeld, NEW w \in Workers, Drive(w)
  PROVE  Working' /\ LeaseHeld'
<1> USE DEF TypeOK, Working
<1> DEFINE r == held[w]
<1>1. CASE Complete(w)
  <2>1. /\ r \in Rollouts /\ row[r] \in Rows /\ w \in up /\ pc[w] = "complete"
        /\ UNCHANGED <<owed, afterStop, up, stalls, req>>
    BY <1>1 DEF Complete, At, DriverType, RowType, calls, bounds
  <2>2. CASE Owns(w, r) /\ ScopeStands(w)
    <3>1. Leave(w) /\ End(r, EndedRow(r, "done", NoApp))
      BY <1>1, <2>2 DEF Complete
    <3>2. owed[r] = NoScope /\ Active(r)
      BY <2>1, <2>2 DEF StepStands, HasRead, Owns, ScopeStands, Active, ActiveStates
    <3>3. EndedRow(r, "done", NoApp) \in Rows
      BY <2>1, EndedRowType DEF EndedStates
    <3>4. /\ \A s \in Rollouts : Kept(s)
          /\ \A s \in Rollouts : s # r /\ Active(s) => row'[s] = row[s]
      BY <2>1, <3>1, <3>2, <3>3, EndKept DEF EndedStates
    <3>5. row[r].owner = w
      BY <2>2 DEF Owns
    <3> QED BY <2>1, <3>1, <3>4, <3>5, LeavingStep
  <2>3. CASE ~(Owns(w, r) /\ ScopeStands(w))
    <3>1. UNCHANGED <<row, held, snap, pick, outcome>> /\ pc' = [pc EXCEPT ![w] = "read"]
      BY <1>1, <2>3 DEF Complete, Goto
    <3>2. pc'[w] = "read" /\ \A v \in Workers : v # w => pc'[v] = pc[v]
      BY <3>1 DEF DriverType
    <3>3. RowsOK'
      BY <2>1, <3>1 DEF RowsOK
    <3> HIDE DEF r
    <3> QED
      BY <2>1, <3>1, <3>2, <3>3, MoveStep DEF HasRead, r
  <2> QED BY <2>2, <2>3
<1>2. CASE Finish(w)
  <2>1. /\ r \in Rollouts /\ Leave(w) /\ outcome[w] \in {"stopped", "failed"}
        /\ UNCHANGED <<owed, afterStop, up, stalls, req>>
    BY <1>2 DEF Finish, At, DriverType, calls, bounds
  <2>2. CASE Owns(w, r)
    <3> DEFINE c == IF outcome[w] = "failed" THEN pick[w].app ELSE NoApp
    <3>1. c \in Apps \cup {NoApp} /\ outcome[w] \in EndedStates /\ outcome[w] # "done"
      BY <2>1 DEF DriverType, Picks, EndedStates
    <3>2. End(r, EndedRow(r, outcome[w], c)) /\ Active(r) /\ row[r].owner = w
      BY <1>2, <2>2 DEF Finish, Owns, Active, ActiveStates
    <3> HIDE DEF c
    <3>3. EndedRow(r, outcome[w], c) \in Rows
      BY <2>1, <3>1, EndedRowType
    <3>4. /\ \A s \in Rollouts : Kept(s)
          /\ \A s \in Rollouts : s # r /\ Active(s) => row'[s] = row[s]
      BY <2>1, <3>1, <3>2, <3>3, EndKept
    <3> QED BY <2>1, <3>2, <3>4, LeavingStep
  <2>3. CASE ~Owns(w, r)
    BY <1>2, <2>1, <2>3, LeaveOnly DEF Finish, rowVars
  <2> QED BY <2>2, <2>3
<1>3. CASE Park(w)
  <2>1. /\ r \in Rollouts /\ Leave(w) /\ row' = Released(w, r, "live")
        /\ UNCHANGED <<owed, afterStop, up, stalls, req>>
    BY <1>3 DEF Park, At, DriverType, calls, bounds
  <2>2. /\ \A s \in Rollouts : Kept(s)
        /\ \A s \in Rollouts : s # r \/ row[r].owner # w => row'[s] = row[s]
    BY <2>1, ReleasedKept
  <2>3. UNCHANGED row \/ row[r].owner = w
    BY <2>1 DEF Released
  <2> QED BY <2>1, <2>2, <2>3, LeavingStep
<1>4. CASE Renew(w)
  <2>1. r \in Rollouts /\ row[r] \in Rows /\ UNCHANGED <<owed, afterStop, up, stalls, req>>
    BY <1>4 DEF Renew, DriverType, RowType, calls, bounds
  <2>2. CASE Leave(w) /\ UNCHANGED row
    BY <2>1, <2>2, LeaveOnly DEF rowVars
  <2>3. CASE row' = [row EXCEPT ![r].lease = "live"] /\ UNCHANGED driver /\ Owns(w, r)
    <3>1. row'[r] = [row[r] EXCEPT !.lease = "live"] /\ \A s \in Rollouts : s # r => row'[s] = row[s]
      BY <2>1, <2>3 DEF RowType
    <3>2. row[r].state = "running"
      BY <2>3 DEF Owns
    <3>3. Kept(r)
      BY <2>1, <3>1, <3>2 DEF Kept, Rows
    <3>4. \A s \in Rollouts : Kept(s)
      BY <3>1, <3>3 DEF Kept
    <3>5. Working'
      BY <2>1, <2>3, <3>4, QuietStep, SameQuiet, SameAsks
    <3>6. row'[r].owner = row[r].owner /\ row'[r].lease = "live"
      BY <2>1, <3>1 DEF Rows
    <3>7. LeaseHeld'
      BY <2>1, <2>3, <3>1, <3>6 DEF LeaseHeld, driver, DriverType
    <3> QED BY <3>5, <3>7
  <2> QED BY <1>4, <2>2, <2>3 DEF Renew
<1> QED BY <1>1, <1>2, <1>3, <1>4, StepMoves, ClaimStep DEF Drive, Step

-----------------------------------------------------------------------------

\* The inductive invariant holds at the start.
LEMMA InitInductive == Init => Inductive
BY InitType, RolloutsAssumption
DEF Init, Inductive, RowsOK, SnapStands, StepStands, PicksOK, AskStands, LeaseHeld, HasRead,
    NoRow, NoScope, Unwanted

\* Every step keeps the inductive invariant.
LEMMA NextInductive == Inductive /\ [Next]_vars => Inductive'
<1> SUFFICES ASSUME Inductive, [Next]_vars PROVE Inductive'
  OBVIOUS
<1>1. TypeOK /\ TypeOK' /\ Working /\ LeaseHeld
  BY TypeStep DEF Inductive, Working
<1>2. Working' /\ LeaseHeld'
  <2>1. CASE Next
    BY <1>1, <2>1, WorldStep, ApiStep, DriveStep, FaultStep DEF Next
  <2>2. CASE UNCHANGED vars
    BY <1>1, <2>2, StillStep, SameAsks DEF vars, rowVars, driver
  <2> QED BY <2>1, <2>2
<1> QED BY <1>1, <1>2 DEF Inductive, Working

\* What a worker or a call has read is what the row holds, or the row no
\* longer lets it write (the lease_owner and scope_rev guards of the UPDATEs).
THEOREM Fenced == Spec => []Inductive
<1> QED BY InitInductive, NextInductive, PTL DEF Spec

\* No accepted QueueReload is lost in a rollout that ends done (ExtendRollout
\* and CompleteRollout against each other).
THEOREM NothingOwed == Spec => []DoneOwesNothing
<1>1. Inductive => DoneOwesNothing
  BY DEF Inductive, RowsOK, DoneOwesNothing
<1> QED BY <1>1, Fenced, PTL

\* At most one step starts once stop_requested is set (step and StartStep).
THEOREM OneLateStep == Spec => []AtMostOneStepAfterStop
<1>1. Inductive => AtMostOneStepAfterStop
  BY DEF Inductive, RowsOK, AtMostOneStepAfterStop
<1> QED BY <1>1, Fenced, PTL

\* Done and skipped never pass the total (StartStep's total, CountStep).
THEOREM ProgressBounded == Spec => []ProgressWithinTotal
<1>1. Inductive => ProgressWithinTotal
  BY DEF Inductive, RowsOK, ProgressWithinTotal
<1> QED BY <1>1, Fenced, PTL

\* Without a stall past the lease, one process at a time drives a rollout.
THEOREM LeaseExcludes == Spec => []OneDriver
<1>1. Inductive => OneDriver
  BY DEF Inductive, LeaseHeld, OneDriver, Driving
<1> QED BY <1>1, Fenced, PTL

-----------------------------------------------------------------------------
(* The refinement of RolloutLife, and what no step does to a row           *)

\* What no step may do to a row; a claim alone gives it another owner.
Law(s) ==
  /\ row[s].state # "none" => row'[s].state # "none" /\ row[s].skip \subseteq row'[s].skip
  /\ row[s].state # "none" /\ row[s].stop => row'[s].stop
  /\ Ended(s) => row'[s] = row[s] \/ row'[s] = [row[s] EXCEPT !.state = "gone"]
  /\ row'[s].owner \in {row[s].owner, NoWorker} \/ \E w \in Workers : Claim(w, s)

Laws == \A s \in Rollouts : Law(s)

\* A step as RolloutLife sees it.
Maps == Life!Next \/ UNCHANGED Life!vars

\* An owner about to end a rollout as stopped has seen stop_requested, which
\* is never taken back.
StopSeen == \A w \in Workers :
  pc[w] = "finish" /\ outcome[w] = "stopped" /\ row[held[w]].owner = w =>
    row[held[w]].stop

\* The rows as RolloutLife sees them.
States == [s \in Rollouts |-> row[s].state]
Stops  == [s \in Rollouts |-> row[s].stop]

\* A step that RolloutLife does not see.
LEMMA Unseen ==
  ASSUME \A s \in Rollouts : row'[s].state = row[s].state /\ row'[s].stop = row[s].stop,
         UNCHANGED <<owed, afterStop>>
  PROVE  Maps
BY DEF Maps, Life!vars

\* A step that writes no row.
LEMMA StillRows ==
  ASSUME UNCHANGED rowVars
  PROVE  Maps /\ Laws
<1>1. Maps
  BY Unseen DEF rowVars
<1>2. Laws
  BY DEF Laws, Law, rowVars
<1> QED BY <1>1, <1>2

\* A step that writes one row's state and stop_requested.
LEMMA OneState ==
  ASSUME NEW r \in Rollouts, \A s \in Rollouts : s # r => row'[s] = row[s]
  PROVE  /\ States' = [States EXCEPT ![r] = row'[r].state]
         /\ Stops' = [Stops EXCEPT ![r] = row'[r].stop]
         /\ row'[r].state = row[r].state => UNCHANGED States
         /\ row'[r].stop = row[r].stop => UNCHANGED Stops
BY DEF States, Stops

\* A step that writes one row keeps the laws if it keeps them for that row.
LEMMA OneLaw ==
  ASSUME NEW r \in Rollouts, \A s \in Rollouts : s # r => row'[s] = row[s], Law(r)
  PROVE  Laws
BY DEF Laws, Law

\* An end and the prune that may follow it are RolloutLife's end.
LEMMA EndMaps ==
  ASSUME TypeOK, NEW r \in Rollouts, Active(r), NEW e \in EndedStates, NEW new \in Rows,
         End(r, new), new.state = e, new.skip = row[r].skip, new.owner = NoWorker,
         row[r].stop => new.stop
  PROVE  /\ States' \in Life!EndedWith(r, e)
         /\ Stops' = [Stops EXCEPT ![r] = new.stop]
         /\ Laws
<1> DEFINE rows == [row EXCEPT ![r] = new]
<1>1. rows \in [Rollouts -> Rows] /\ rows[r] = new /\ \A s \in Rollouts \ {r} : rows[s] = row[s]
  BY DEF TypeOK, RowType
<1>2. \A s \in Rollouts :
         \/ row'[s] = rows[s]
         \/ rows[s].state \in EndedStates /\ row'[s] = [rows[s] EXCEPT !.state = "gone"]
  <2> HIDE DEF rows
  <2>1. row' = rows \/ row' = Pruned(rows, r)
    BY DEF End, rows
  <2> TAKE s \in Rollouts
  <2>2. \/ Pruned(rows, r)[s] = rows[s]
        \/ /\ rows[s].state \in EndedStates
           /\ Pruned(rows, r)[s] = [rows[s] EXCEPT !.state = "gone"]
    BY PrunedRow
  <2> QED BY <2>1, <2>2
<1> HIDE DEF rows
<1>3. \A s \in Rollouts : /\ row'[s].stop = rows[s].stop
                           /\ row'[s].skip = rows[s].skip
                           /\ row'[s].owner = rows[s].owner
                           /\ \/ row'[s].state = rows[s].state
                              \/ rows[s].state \in EndedStates /\ row'[s].state = "gone"
  <2> TAKE s \in Rollouts
  <2>1. rows[s] \in Rows
    BY <1>1
  <2>2. CASE row'[s] = rows[s]
    BY <2>2
  <2>3. CASE rows[s].state \in EndedStates /\ row'[s] = [rows[s] EXCEPT !.state = "gone"]
    BY <2>1, <2>3 DEF Rows
  <2> QED BY <1>2, <2>2, <2>3
<1>4. States' \in Life!EndedWith(r, e)
  <2> DEFINE after == [States EXCEPT ![r] = e]
             pruned == {s \in Rollouts : row'[s].state = "gone" /\ rows[s].state \in EndedStates}
  <2>1. \A s \in Rollouts : after[s] = rows[s].state
    BY <1>1 DEF States
  <2>2. States' = [s \in Rollouts |-> IF s \in pruned THEN "gone" ELSE after[s]]
    BY <1>3, <2>1 DEF States
  <2>3. pruned \in SUBSET {s \in Rollouts : s = r \/ Life!Ended(s)}
    BY <1>1 DEF Life!Ended, EndedStates
  <2>4. after = [[s \in Rollouts |-> row[s].state] EXCEPT ![r] = e]
    BY DEF States
  <2> HIDE DEF pruned, after
  <2> QED BY <2>2, <2>3, <2>4 DEF Life!EndedWith
<1>5. Stops' = [Stops EXCEPT ![r] = new.stop]
  BY <1>1, <1>3 DEF Stops
<1>6. Laws
  <2> SUFFICES ASSUME NEW s \in Rollouts PROVE Law(s)
    BY DEF Laws
  <2>1. CASE s = r
    BY <1>1, <1>3, <2>1 DEF Law, Active, Ended, ActiveStates, EndedStates
  <2>2. CASE s # r
    <3>1. rows[s] = row[s]
      BY <1>1, <2>2
    <3> QED BY <1>2, <1>3, <3>1 DEF Law, Ended, EndedStates
  <2> QED BY <2>1, <2>2
<1> QED BY <1>4, <1>5, <1>6

\* ReleaseRolloutLease is not seen.
LEMMA ReleasedMaps ==
  ASSUME TypeOK, RowsOK, NEW w \in Workers, NEW r \in Rollouts, NEW l \in {"null", "live"},
         row' = Released(w, r, l), UNCHANGED <<owed, afterStop>>
  PROVE  Maps /\ Laws
<1>1. CASE row[r].owner = w
  <2> DEFINE new == [row[r] EXCEPT !.owner = NoWorker, !.lease = l]
  <2>1. row \in [Rollouts -> Rows] /\ row[r] \in Rows
    BY DEF TypeOK, RowType
  <2>2. row' = [row EXCEPT ![r] = new]
    BY <1>1 DEF Released
  <2>3. row'[r] = new /\ \A s \in Rollouts : s # r => row'[s] = row[s]
    BY <2>1, <2>2
  <2>4. /\ new.state = row[r].state /\ new.stop = row[r].stop
        /\ new.skip = row[r].skip /\ new.owner = NoWorker
    BY <2>1 DEF Rows
  <2>5. row[r].state = "running"
    BY <1>1, RolloutsAssumption DEF RowsOK
  <2> HIDE DEF new
  <2>6. Law(r)
    BY <2>3, <2>4, <2>5 DEF Law, Ended, EndedStates
  <2> QED BY <2>3, <2>4, <2>6, OneLaw, Unseen
<1>2. CASE row[r].owner # w
  BY <1>2, StillRows DEF Released, rowVars
<1> QED BY <1>1, <1>2

\* Reports, expired leases and time.
LEMMA WorldMaps ==
  ASSUME TypeOK, World
  PROVE  Maps /\ Laws
<1>1. CASE UNCHANGED rowVars
  BY <1>1, StillRows
<1>2. ASSUME NEW r \in Rollouts, LeaseExpires(r) PROVE Maps /\ Laws
  <2>1. /\ row \in [Rollouts -> Rows] /\ row[r] \in Rows /\ Active(r)
        /\ row' = [row EXCEPT ![r] = [row[r] EXCEPT !.lease = "past"]]
        /\ UNCHANGED <<owed, afterStop>>
    BY <1>2 DEF LeaseExpires, TypeOK, RowType
  <2>2. /\ row'[r] = [row[r] EXCEPT !.lease = "past"]
        /\ \A s \in Rollouts : s # r => row'[s] = row[s]
    BY <2>1
  <2>3. /\ row'[r].state = row[r].state /\ row'[r].stop = row[r].stop
        /\ row'[r].skip = row[r].skip /\ row'[r].owner = row[r].owner
    BY <2>1, <2>2 DEF Rows
  <2>4. Law(r)
    BY <2>1, <2>3 DEF Law, Ended, EndedStates, Active, ActiveStates
  <2> QED BY <2>1, <2>2, <2>3, <2>4, OneLaw, Unseen
<1> QED
  BY <1>1, <1>2 DEF World, VariableSaved, ServerReports, ReportExpires, UpgradedElsewhere,
                    SettlePasses

\* An insert queues a rollout.
LEMMA QueuedMaps ==
  ASSUME TypeOK, RowsOK, NEW r \in Rollouts, NEW scope \in Scopes, Insertable(r),
         row' = [row EXCEPT ![r] = Queued(scope)],
         owed' = [owed EXCEPT ![r] = scope],
         UNCHANGED afterStop
  PROVE  Maps /\ Laws
<1>1. row[r] = NoRow /\ row[r].state = "none" /\ row[r].stop = FALSE
  <2>1. row[r] = NoRow
    BY DEF Insertable, RowsOK
  <2> QED BY <2>1 DEF NoRow
<1>2. row'[r] = Queued(scope) /\ \A s \in Rollouts : s # r => row'[s] = row[s]
  BY DEF TypeOK, RowType
<1>3. row'[r].state = "queued" /\ row'[r].stop = FALSE /\ row'[r].owner = NoWorker
  <2>1. NoRow.stop = FALSE /\ NoRow.owner = NoWorker
    BY DEF NoRow
  <2>2. /\ Queued(scope).state = "queued"
        /\ Queued(scope).stop = NoRow.stop /\ Queued(scope).owner = NoRow.owner
    BY NoRowType DEF Queued, Rows
  <2> QED BY <1>2, <2>1, <2>2
<1>4. Law(r)
  BY <1>1, <1>3 DEF Law, Ended, EndedStates
<1>5. States' = [States EXCEPT ![r] = "queued"] /\ UNCHANGED Stops
  <2>1. row'[r].stop = row[r].stop
    BY <1>1, <1>3
  <2> QED BY <1>2, <1>3, <2>1, OneState
<1>6. scope \in Life!Asks
  BY DEF Life!Asks, Scopes
<1>7. Life!Queue(r)
  BY <1>1, <1>5, <1>6 DEF Life!Queue, Life!Active, Insertable, Active, ActiveStates, States, Stops
<1> QED BY <1>2, <1>4, <1>7, OneLaw DEF Maps, Life!Next

\* Queueing, extending and stopping.
LEMMA ApiMaps ==
  ASSUME TypeOK, RowsOK, AskStands, Api
  PROVE  Maps /\ Laws
<1>1. ASSUME NEW r \in Rollouts, QueueUpgrade(r) PROVE Maps /\ Laws
  <2>1. row[r].state = "none" /\ row[r] = NoRow
    BY <1>1 DEF QueueUpgrade, Insertable, RowsOK
  <2>2. NoScope \in Scopes /\ owed \in [Rollouts -> Scopes]
    BY RolloutsAssumption DEF NoScope, Scopes, Unwanted, TypeOK, RowType
  <2>3. owed[r] = NoScope
    <3>1. \A a \in Apps : owed[r][a] \in 0 .. (MaxRev + 1) /\ owed[r][a] <= 0
      BY <2>1, <2>2 DEF RowsOK, Scopes, NoRow, NoScope, Unwanted
    <3>2. \A a \in Apps : owed[r][a] = 0
      BY <3>1, RolloutsAssumption
    <3> QED BY <2>2, <3>2 DEF Scopes, NoScope, Unwanted
  <2>4. owed' = [owed EXCEPT ![r] = NoScope]
    BY <1>1, <2>2, <2>3 DEF QueueUpgrade
  <2> QED BY <1>1, <2>2, <2>4, QueuedMaps DEF QueueUpgrade
<1>2. ASSUME NEW r \in Rollouts, StopUnleased(r) PROVE Maps /\ Laws
  <2>1. CASE row[r].owner = NoWorker \/ Unleased(r)
    <3> DEFINE ended == EndedRow(r, "stopped", NoApp)
               new == [ended EXCEPT !.stop = TRUE]
    <3>1. ended \in Rows
      BY EndedRowType DEF EndedStates, TypeOK
    <3>2. Active(r) /\ End(r, new) /\ UNCHANGED <<owed, afterStop>>
      BY <1>2, <2>1 DEF StopUnleased
    <3>3. row[r] \in Rows
      BY DEF TypeOK, RowType
    <3>4. ended.state = "stopped" /\ ended.skip = row[r].skip /\ ended.owner = NoWorker
      BY <3>3 DEF EndedRow, Rows
    <3> HIDE DEF ended
    <3>5. /\ new \in Rows /\ new.state = "stopped" /\ new.stop
          /\ new.skip = row[r].skip /\ new.owner = NoWorker
      BY <3>1, <3>4 DEF Rows
    <3> HIDE DEF new
    <3>6. /\ States' \in Life!EndedWith(r, "stopped")
          /\ Stops' = [Stops EXCEPT ![r] = TRUE]
          /\ Laws
      <4>1. new.stop = TRUE
        BY <3>5 DEF Rows
      <4> QED BY <3>2, <3>5, <4>1, EndMaps DEF EndedStates
    <3>7. Life!End(r)
      BY <3>2, <3>6 DEF Life!End, Life!Active, Active, ActiveStates, States, Stops
    <3> QED BY <3>6, <3>7 DEF Maps, Life!Next
  <2>2. CASE ~(row[r].owner = NoWorker \/ Unleased(r))
    BY <1>2, <2>2, StillRows DEF StopUnleased, rowVars
  <2> QED BY <2>1, <2>2
<1>3. ASSUME NEW r \in Rollouts, RequestStop(r) PROVE Maps /\ Laws
  <2>1. CASE Active(r)
    <3>1. /\ row[r] \in Rows /\ row' = [row EXCEPT ![r] = [row[r] EXCEPT !.stop = TRUE]]
          /\ UNCHANGED <<owed, afterStop>>
      BY <1>3, <2>1 DEF RequestStop, TypeOK, RowType
    <3>2. row'[r] = [row[r] EXCEPT !.stop = TRUE] /\ \A s \in Rollouts : s # r => row'[s] = row[s]
      BY <3>1 DEF TypeOK, RowType
    <3>3. /\ row'[r].state = row[r].state /\ row'[r].stop = TRUE
          /\ row'[r].skip = row[r].skip /\ row'[r].owner = row[r].owner
      BY <3>1, <3>2 DEF Rows
    <3>4. Law(r)
      BY <2>1, <3>3 DEF Law, Ended, EndedStates, Active, ActiveStates
    <3>5. Stops' = [Stops EXCEPT ![r] = TRUE] /\ UNCHANGED States
      BY <3>2, <3>3, OneState
    <3>6. Life!AskToStop(r)
      BY <2>1, <3>1, <3>5 DEF Life!AskToStop, Life!Active, Active, ActiveStates, States, Stops
    <3> QED BY <3>2, <3>4, <3>6, OneLaw DEF Maps, Life!Next
  <2>2. CASE ~Active(r)
    BY <1>3, <2>2, StillRows DEF RequestStop, rowVars
  <2> QED BY <2>1, <2>2
<1>4. ASSUME NEW q \in Requests, ReloadAsked(q) \/ ReloadLooks(q) PROVE Maps /\ Laws
  BY <1>4, StillRows DEF ReloadAsked, ReloadLooks
<1>5. ASSUME NEW q \in Requests, ReloadInserts(q) PROVE Maps /\ Laws
  <2>1. CASE UNCHANGED <<row, owed>>
    BY <1>5, <2>1, StillRows DEF ReloadInserts, rowVars
  <2>2. ASSUME NEW r \in Reloads, Insertable(r),
               row' = [row EXCEPT ![r] = Queued(req[q].want)],
               owed' = [owed EXCEPT ![r] = req[q].want]
        PROVE  Maps /\ Laws
    <3>1. r \in Rollouts /\ req[q].want \in Scopes
      BY DEF Rollouts, TypeOK, CallType, Calls
    <3> QED BY <1>5, <2>2, <3>1, QueuedMaps DEF ReloadInserts
  <2> QED BY <1>5, <2>1, <2>2 DEF ReloadInserts
<1>6. ASSUME NEW q \in Requests, ReloadExtends(q) PROVE Maps /\ Laws
  <2> DEFINE r == req[q].at
  <2>1. /\ req[q] \in Calls /\ r \in Rollouts /\ row[r] \in Rows
        /\ UNCHANGED afterStop
    BY <1>6 DEF ReloadExtends, TypeOK, CallType, RowType
  <2>2. CASE ~Extends(q, r)
    BY <1>6, <2>2, StillRows DEF ReloadExtends, rowVars
  <2>3. CASE Extends(q, r)
    <3> DEFINE m == Merge(req[q].scope, req[q].want)
               new == [row[r] EXCEPT !.scope = m, !.rev = row[r].rev + 1]
               more == Merge(owed[r], req[q].want)
    <3>1. row' = [row EXCEPT ![r] = new] /\ owed' = [owed EXCEPT ![r] = more]
      BY <1>6, <2>3 DEF ReloadExtends
    <3>2. row'[r] = new /\ \A s \in Rollouts : s # r => row'[s] = row[s]
      BY <2>1, <3>1 DEF TypeOK, RowType
    <3>3. /\ new.state = row[r].state /\ new.stop = row[r].stop
          /\ new.skip = row[r].skip /\ new.owner = row[r].owner
      BY <2>1 DEF Rows
    <3>4. owed[r] \in Scopes /\ req[q].want \in Scopes
      BY <2>1 DEF TypeOK, RowType, Calls
    <3>5. more \in Life!Asks
      BY <3>4, MergeType DEF Life!Asks, Scopes
    <3>6. Life!AtMost(owed[r], more)
      BY <3>4, RolloutsAssumption DEF Life!AtMost, Merge, Scopes
    <3> HIDE DEF m, new, more, r
    <3>7. Active(r) /\ ~row[r].stop
      BY <2>3 DEF Extends
    <3>8. Law(r)
      BY <3>2, <3>3, <3>7 DEF Law, Ended, EndedStates, Active, ActiveStates
    <3>9. UNCHANGED States /\ UNCHANGED Stops
      BY <2>1, <3>2, <3>3, OneState
    <3>10. Life!Extend(r)
      BY <2>1, <3>1, <3>5, <3>6, <3>7, <3>9
      DEF Life!Extend, Life!Active, Active, ActiveStates, States, Stops
    <3> QED BY <2>1, <3>2, <3>8, <3>10, OneLaw DEF Maps, Life!Next
  <2> QED BY <2>2, <2>3
<1> QED BY <1>1, <1>2, <1>3, <1>4, <1>5, <1>6 DEF Api

\* The steps of a drive that write one row or none.
LEMMA StepMaps ==
  ASSUME Inductive, NEW w \in Workers,
         \/ ReadRow(w) \/ PickNext(w) \/ StartStep(w) \/ RunUpgrade(w) \/ RunReload(w)
         \/ CountStep(w) \/ Park(w) \/ Renew(w)
  PROVE  Maps /\ Laws
<1> USE DEF Inductive
<1> DEFINE r == held[w]
<1>0. r \in Rollouts /\ row[r] \in Rows /\ row \in [Rollouts -> Rows]
  BY DEF ReadRow, PickNext, StartStep, RunUpgrade, RunReload, CountStep, Park, Renew, At,
         TypeOK, DriverType, RowType
<1>1. CASE ReadRow(w) \/ RunUpgrade(w) \/ RunReload(w)
  BY <1>1, StillRows DEF ReadRow, RunUpgrade, RunReload
<1>2. CASE PickNext(w)
  <2>1. UNCHANGED <<row, afterStop>>
    BY <1>2 DEF PickNext
  <2>2. CASE UNCHANGED owed
    BY <2>1, <2>2, StillRows DEF rowVars
  <2>3. CASE owed' = [owed EXCEPT ![r] = Looked(r, snap[w].scope)]
    <3> DEFINE left == Looked(r, snap[w].scope)
    <3>1. owed[r] \in Scopes
      BY <1>0 DEF TypeOK, RowType
    <3>2. left \in Life!Asks
      BY <3>1, RolloutsAssumption DEF Looked, Life!Asks, Scopes, Unwanted
    <3>3. Life!AtMost(left, owed[r])
      BY <3>1, RolloutsAssumption DEF Life!AtMost, Looked, Scopes, Unwanted
    <3> HIDE DEF left, r
    <3>4. Life!Look(r)
      BY <2>1, <2>3, <3>2, <3>3 DEF Life!Look, left
    <3>5. Laws
      BY <2>1 DEF Laws, Law
    <3> QED BY <1>0, <3>4, <3>5 DEF Maps, Life!Next
  <2> QED BY <1>2, <2>2, <2>3 DEF PickNext
<1>3. CASE StartStep(w)
  <2>1. CASE ~Owns(w, r)
    BY <1>3, <2>1, StillRows DEF StartStep, rowVars
  <2>2. CASE Owns(w, r)
    <3> DEFINE new == [row[r] EXCEPT !.current = pick[w].app, !.total = StepTotal(w)]
    <3>1. /\ row' = [row EXCEPT ![r] = new]
          /\ afterStop' = [afterStop EXCEPT ![r] = IF row[r].stop THEN afterStop[r] + 1 ELSE afterStop[r]]
          /\ UNCHANGED owed /\ pc[w] = "start"
          /\ row[r].owner = w /\ row[r].state = "running"
      BY <1>3, <2>2 DEF StartStep, At, Owns
    <3>2. row'[r] = new /\ \A s \in Rollouts : s # r => row'[s] = row[s]
      BY <1>0, <3>1
    <3>3. /\ new.state = row[r].state /\ new.stop = row[r].stop
          /\ new.skip = row[r].skip /\ new.owner = row[r].owner
      BY <1>0 DEF Rows
    <3>4. afterStop[r] = 0 /\ afterStop \in [Rollouts -> Nat]
      BY <3>1 DEF StepStands, HasRead, TypeOK, RowType
    <3> HIDE DEF new, r
    <3>5. Law(r)
      BY <3>1, <3>2, <3>3 DEF Law, Ended, EndedStates
    <3>6. UNCHANGED States /\ UNCHANGED Stops
      BY <1>0, <3>2, <3>3, OneState
    <3>7. CASE row[r].stop
      <4>1. Life!LateStep(r)
        BY <1>0, <3>1, <3>4, <3>6, <3>7 DEF Life!LateStep, States, Stops
      <4> QED BY <1>0, <3>2, <3>5, <4>1, OneLaw DEF Maps, Life!Next
    <3>8. CASE ~row[r].stop
      <4>1. UNCHANGED afterStop
        BY <1>0, <3>1, <3>4, <3>8
      <4> QED BY <1>0, <3>1, <3>2, <3>3, <3>5, <4>1, OneLaw, Unseen
    <3> QED BY <3>7, <3>8
  <2> QED BY <2>1, <2>2
<1>4. CASE CountStep(w)
  <2>1. CASE ~Owns(w, r)
    BY <1>4, <2>1, StillRows DEF CountStep, rowVars
  <2>2. CASE Owns(w, r)
    <3> DEFINE d == IF outcome[w] = "skipped" THEN row[r].done ELSE row[r].done + 1
               k == IF outcome[w] = "skipped" THEN row[r].skipped + 1 ELSE row[r].skipped
               new == [row[r] EXCEPT !.done = d, !.skipped = k, !.skip = SkipIDs(w)]
    <3>1. /\ row' = [row EXCEPT ![r] = new]
          /\ UNCHANGED <<owed, afterStop>> /\ pc[w] = "count"
          /\ row[r].owner = w /\ row[r].state = "running"
      BY <1>4, <2>2 DEF CountStep, At, Owns
    <3>2. row'[r] = new /\ \A s \in Rollouts : s # r => row'[s] = row[s]
      BY <1>0, <3>1
    <3>3. /\ new.state = row[r].state /\ new.stop = row[r].stop
          /\ new.skip = SkipIDs(w) /\ new.owner = row[r].owner
      <4> HIDE DEF d, k
      <4> QED BY <1>0 DEF Rows
    <3>4. row[r].skip \subseteq SkipIDs(w)
      BY <3>1 DEF SnapStands, HasRead, SkipIDs
    <3> HIDE DEF new, d, k, r
    <3>5. Law(r)
      BY <3>1, <3>2, <3>3, <3>4 DEF Law, Ended, EndedStates
    <3> QED BY <1>0, <3>1, <3>2, <3>3, <3>5, OneLaw, Unseen
  <2> QED BY <2>1, <2>2
<1>5. CASE Park(w)
  BY <1>0, <1>5, ReleasedMaps DEF Park
<1>6. CASE Renew(w)
  <2>1. UNCHANGED <<owed, afterStop>>
    BY <1>6 DEF Renew
  <2>2. CASE UNCHANGED row
    BY <2>1, <2>2, StillRows DEF rowVars
  <2>3. CASE row' = [row EXCEPT ![r].lease = "live"] /\ Owns(w, r)
    <3>1. row'[r] = [row[r] EXCEPT !.lease = "live"] /\ \A s \in Rollouts : s # r => row'[s] = row[s]
      BY <1>0, <2>3
    <3>2. /\ row'[r].state = row[r].state /\ row'[r].stop = row[r].stop
          /\ row'[r].skip = row[r].skip /\ row'[r].owner = row[r].owner
      BY <1>0, <3>1 DEF Rows
    <3>3. Law(r)
      BY <2>3, <3>2 DEF Owns, Law, Ended, EndedStates
    <3> QED BY <1>0, <2>1, <3>1, <3>2, <3>3, OneLaw, Unseen
  <2> QED BY <1>6, <2>2, <2>3 DEF Renew
<1> QED BY <1>1, <1>2, <1>3, <1>4, <1>5, <1>6

\* A claim takes a queued rollout, or one whose lease is no longer held.
LEMMA ClaimMaps ==
  ASSUME Inductive, NEW w \in Workers, NEW r \in Rollouts, Claim(w, r)
  PROVE  Maps /\ Laws
<1> DEFINE new == [row[r] EXCEPT !.owner = w, !.lease = "live", !.state = "running"]
<1>1. /\ row[r] \in Rows /\ row \in [Rollouts -> Rows] /\ Active(r)
      /\ row' = [row EXCEPT ![r] = new] /\ UNCHANGED <<owed, afterStop>>
  BY DEF Inductive, TypeOK, RowType, Claim, Claimable
<1>2. row'[r] = new /\ \A s \in Rollouts : s # r => row'[s] = row[s]
  BY <1>1
<1>3. /\ new.state = "running" /\ new.stop = row[r].stop /\ new.skip = row[r].skip
  BY <1>1 DEF Rows
<1> HIDE DEF new
<1>4. Law(r)
  BY <1>1, <1>2, <1>3 DEF Law, Ended, EndedStates, Active, ActiveStates
<1>5. Maps
  <2>1. States' = [States EXCEPT ![r] = "running"] /\ UNCHANGED Stops
    BY <1>2, <1>3, OneState
  <2>2. CASE row[r].state = "queued"
    <3>1. Life!Take(r)
      BY <1>1, <2>1, <2>2 DEF Life!Take, States, Stops
    <3> QED BY <3>1 DEF Maps, Life!Next
  <2>3. CASE row[r].state = "running"
    BY <1>1, <1>2, <1>3, <2>3, Unseen
  <2> QED BY <1>1, <2>2, <2>3 DEF Active, ActiveStates
<1> QED BY <1>2, <1>4, <1>5, OneLaw

\* A running rollout that ends: done when it owes nothing, stopped when it was
\* asked to, or failed.
LEMMA EndedMaps ==
  ASSUME TypeOK, NEW r \in Rollouts, NEW e \in EndedStates, NEW c \in Apps \cup {NoApp},
         End(r, EndedRow(r, e, c)), row[r].state = "running",
         e = "done" => owed[r] = NoScope, e = "stopped" => row[r].stop,
         UNCHANGED <<owed, afterStop>>
  PROVE  Maps /\ Laws
<1> DEFINE new == EndedRow(r, e, c)
<1>1. new \in Rows /\ row[r] \in Rows
  BY EndedRowType DEF TypeOK, RowType
<1>2. new.state = e /\ new.skip = row[r].skip /\ new.owner = NoWorker /\ new.stop = row[r].stop
  BY <1>1 DEF EndedRow, Rows
<1>3. Active(r) /\ End(r, new)
  BY DEF Active, ActiveStates
<1> HIDE DEF new
<1>4. /\ States' \in Life!EndedWith(r, e)
      /\ Stops' = [Stops EXCEPT ![r] = row[r].stop]
      /\ Laws
  BY <1>1, <1>2, <1>3, EndMaps
<1>5. UNCHANGED Stops /\ (row[r].stop => Stops' = [Stops EXCEPT ![r] = TRUE])
  <2>1. row[r].stop \in BOOLEAN
    BY <1>1 DEF Rows
  <2> QED BY <1>4, <2>1 DEF Stops
<1>6. Life!Nothing = NoScope
  BY DEF Life!Nothing, NoScope, Unwanted
<1>7. Life!End(r)
  <2>1. CASE e = "done"
    BY <1>4, <1>5, <1>6, <2>1 DEF Life!End, States, Stops
  <2>2. CASE e = "stopped"
    BY <1>4, <1>5, <2>2 DEF Life!End, Life!Active, States, Stops
  <2>3. CASE e = "failed"
    BY <1>4, <1>5, <2>3 DEF Life!End, States, Stops
  <2> QED BY <2>1, <2>2, <2>3 DEF EndedStates
<1> QED BY <1>4, <1>7 DEF Maps, Life!Next

\* A worker that ends the rollout it owns.
LEMMA EndingMaps ==
  ASSUME Inductive, StopSeen, NEW w \in Workers, Complete(w) \/ Finish(w)
  PROVE  Maps /\ Laws
<1> USE DEF Inductive
<1> DEFINE r == held[w]
<1>0. /\ r \in Rollouts /\ row[r] \in Rows /\ UNCHANGED <<owed, afterStop>>
  BY DEF Complete, Finish, At, TypeOK, DriverType, RowType
<1>1. CASE Complete(w)
  <2>1. CASE Owns(w, r) /\ ScopeStands(w)
    <3>1. End(r, EndedRow(r, "done", NoApp)) /\ row[r].state = "running"
      BY <1>1, <2>1 DEF Complete, Owns
    <3>2. owed[r] = NoScope
      BY <1>1, <2>1 DEF Complete, At, StepStands, HasRead, Owns, ScopeStands
    <3> HIDE DEF r
    <3> QED BY <1>0, <3>1, <3>2, EndedMaps DEF EndedStates
  <2>2. CASE ~(Owns(w, r) /\ ScopeStands(w))
    BY <1>0, <1>1, <2>2, StillRows DEF Complete, rowVars
  <2> QED BY <2>1, <2>2
<1>2. CASE Finish(w)
  <2>1. CASE Owns(w, r)
    <3> DEFINE c == IF outcome[w] = "failed" THEN pick[w].app ELSE NoApp
    <3>1. /\ c \in Apps \cup {NoApp} /\ outcome[w] \in EndedStates /\ outcome[w] # "done"
          /\ pc[w] = "finish"
      BY <1>2 DEF Finish, At, TypeOK, DriverType, Picks, EndedStates
    <3>2. End(r, EndedRow(r, outcome[w], c)) /\ row[r].state = "running" /\ row[r].owner = w
      BY <1>2, <2>1 DEF Finish, Owns
    <3>3. outcome[w] = "stopped" => row[r].stop
      BY <3>1, <3>2 DEF StopSeen
    <3> HIDE DEF c, r
    <3> QED BY <1>0, <3>1, <3>2, <3>3, EndedMaps
  <2>2. CASE ~Owns(w, r)
    BY <1>0, <1>2, <2>2, StillRows DEF Finish, rowVars
  <2> QED BY <2>1, <2>2
<1> QED BY <1>1, <1>2

\* A database error, a crash, a shutdown.
LEMMA FaultMaps ==
  ASSUME Inductive, NEW w \in Workers, Fault(w)
  PROVE  Maps /\ Laws
<1>1. UNCHANGED <<owed, afterStop>>
  BY DEF Fault, DatabaseError, Crash, Shutdown, rowVars
<1>2. CASE UNCHANGED row
  BY <1>1, <1>2, StillRows DEF rowVars
<1>3. CASE Shutdown(w) /\ held[w] # NoRollout
  <2>1. held[w] \in Rollouts /\ TypeOK /\ RowsOK
    BY <1>3 DEF Inductive, TypeOK, DriverType
  <2>2. PICK l \in {"null", "live"} : row' = Released(w, held[w], l)
    BY <1>3 DEF Shutdown
  <2> QED BY <1>1, <2>1, <2>2, ReleasedMaps
<1> QED BY <1>2, <1>3 DEF Fault, DatabaseError, Crash, Shutdown, rowVars

\* Every step is one of RolloutLife's, or one it does not see.
LEMMA NextMaps ==
  ASSUME Inductive, StopSeen, [Next]_vars
  PROVE  Maps /\ Laws
<1>1. CASE UNCHANGED vars
  BY <1>1, StillRows DEF vars, rowVars
<1>2. CASE World \/ Api
  BY <1>2, WorldMaps, ApiMaps DEF Inductive
<1>3. ASSUME NEW w \in Workers, Drive(w) PROVE Maps /\ Laws
  BY <1>3, StepMaps, ClaimMaps, EndingMaps DEF Drive, Step
<1>4. ASSUME NEW w \in Workers, Fault(w) PROVE Maps /\ Laws
  BY <1>4, FaultMaps
<1> QED BY <1>1, <1>2, <1>3, <1>4 DEF Next

\* A worker comes to stop a rollout by reading it, and stays there until it
\* leaves; it claims none meanwhile.
LEMMA Stopping ==
  ASSUME TypeOK, [Next]_vars, NEW w \in Workers, pc'[w] = "finish", outcome'[w] = "stopped"
  PROVE  /\ held'[w] = held[w] /\ held[w] \in Rollouts
         /\ \/ pc[w] = "finish" /\ outcome[w] = "stopped"
            \/ row[held[w]].stop /\ UNCHANGED row
         /\ \A r \in Rollouts : ~Claim(w, r)
<1> USE DEF TypeOK, DriverType
<1>1. \A r \in Rollouts : ~Claim(w, r)
  BY DEF Claim, Goto
<1>2. held'[w] = held[w] /\ pc[w] # "idle" => held[w] \in Rollouts
  OBVIOUS
<1>3. CASE UNCHANGED driver
  BY <1>1, <1>2, <1>3 DEF driver
<1>4. ASSUME NEW v \in Workers, Leave(v), v # w PROVE UNCHANGED <<pc[w], held[w], outcome[w]>>
  BY <1>4 DEF Leave
<1>5. ASSUME Leave(w) PROVE FALSE
  BY <1>5 DEF Leave
<1>6. ASSUME NEW v \in Workers, v # w, Drive(v) \/ Fault(v)
      PROVE  UNCHANGED <<pc[w], held[w], outcome[w]>>
  <2>1. CASE Leave(v)
    BY <1>4, <1>6, <2>1
  <2>2. CASE ~Leave(v) /\ Step(v)
    BY <1>6, <2>2 DEF Step, ReadRow, PickNext, Complete, StartStep, RunUpgrade, RunReload,
                      CountStep, Finish, Park, EndStep, Goto
  <2>3. CASE ~Leave(v) /\ ~Step(v)
    BY <1>6, <2>3 DEF Drive, Fault, Renew, Claim, DatabaseError, Crash, Shutdown, Goto, driver
  <2> QED BY <2>1, <2>2, <2>3
<1>7. CASE ReadRow(w)
  BY <1>1, <1>5, <1>7 DEF ReadRow, At, Goto, MustStop, rowVars
<1>8. ASSUME RunUpgrade(w) \/ RunReload(w) PROVE FALSE
  <2>1. PICK o \in {"done", "forget", "skipped", "failed"} : EndStep(w, o)
    BY <1>8 DEF RunUpgrade, RunReload
  <2> QED BY <2>1 DEF EndStep
<1>9. ASSUME PickNext(w) \/ Complete(w) \/ StartStep(w) \/ CountStep(w) \/ Finish(w) \/ Park(w)
      PROVE FALSE
  BY <1>5, <1>9 DEF PickNext, Complete, StartStep, CountStep, Finish, Park, Goto
<1>10. CASE Renew(w)
  BY <1>3, <1>5, <1>10 DEF Renew
<1>11. ASSUME Fault(w) PROVE FALSE
  BY <1>5, <1>11 DEF Fault, DatabaseError, Crash, Shutdown
<1>12. CASE UNCHANGED vars
  BY <1>3, <1>12 DEF vars, driver
<1>13. CASE World \/ Api
  BY <1>3, <1>13 DEF World, Api, VariableSaved, ServerReports, ReportExpires, UpgradedElsewhere,
     SettlePasses, LeaseExpires, QueueUpgrade, StopUnleased, RequestStop, ReloadAsked,
     ReloadLooks, ReloadInserts, ReloadExtends
<1>14. ASSUME NEW v \in Workers, v # w, Drive(v) \/ Fault(v)
       PROVE  /\ held'[w] = held[w] /\ held[w] \in Rollouts
              /\ pc[w] = "finish" /\ outcome[w] = "stopped"
  BY <1>2, <1>6, <1>14
<1> QED
  BY <1>1, <1>7, <1>8, <1>9, <1>10, <1>11, <1>12, <1>13, <1>14 DEF Next, Drive, Step

\* StopSeen is inductive beside Inductive.
LEMMA StopStaysSeen ==
  ASSUME Inductive, StopSeen, [Next]_vars
  PROVE  StopSeen'
<1> SUFFICES ASSUME NEW w \in Workers, pc'[w] = "finish", outcome'[w] = "stopped",
                    row'[held'[w]].owner = w
             PROVE  row'[held'[w]].stop
  BY DEF StopSeen
<1>1. /\ held'[w] = held[w] /\ held[w] \in Rollouts
      /\ \/ pc[w] = "finish" /\ outcome[w] = "stopped"
         \/ row[held[w]].stop /\ UNCHANGED row
      /\ \A r \in Rollouts : ~Claim(w, r)
  BY Stopping DEF Inductive
<1>2. Law(held[w])
  BY <1>1, NextMaps DEF Laws
<1>3. \A v \in Workers : Claim(v, held[w]) => row'[held[w]].owner = v
  <2>1. row[held[w]] \in Rows /\ row \in [Rollouts -> Rows]
    BY <1>1 DEF Inductive, TypeOK, RowType
  <2> SUFFICES ASSUME NEW v \in Workers, Claim(v, held[w]) PROVE row'[held[w]].owner = v
    OBVIOUS
  <2>2. row' = [row EXCEPT ![held[w]] = [row[held[w]] EXCEPT !.owner = v, !.lease = "live",
                                                             !.state = "running"]]
    BY DEF Claim
  <2> QED BY <1>1, <2>1, <2>2 DEF Rows
<1>4. row[held[w]].owner = w
  BY <1>1, <1>2, <1>3, RolloutsAssumption DEF Law
<1>5. row[held[w]].state # "none"
  BY <1>1, <1>4, RolloutsAssumption DEF Inductive, RowsOK
<1> QED BY <1>1, <1>2, <1>4, <1>5 DEF StopSeen, Law

\* The queue starts as RolloutLife does.
LEMMA InitMaps == Init => Life!Init /\ StopSeen
BY DEF Init, Life!Init, Life!Nothing, NoScope, Unwanted, NoRow, StopSeen

-----------------------------------------------------------------------------

\* A worker that stops a rollout was asked to (drive's look at stop_requested
\* against a takeover, the only other way to own the row).
THEOREM StopWasSeen == Spec => [](Inductive /\ StopSeen)
<1>1. Inductive /\ StopSeen /\ [Next]_vars => StopSeen'
  BY StopStaysSeen
<1>2. Init => StopSeen
  BY InitMaps
<1> QED BY <1>1, <1>2, Fenced, PTL DEF Spec

\* The queue keeps RolloutLife's promises, each UPDATE being one of its steps
\* or none.
THEOREM Refines == Spec => Implements
<1>1. Inductive /\ StopSeen /\ [Next]_vars => [Life!Next]_Life!vars
  BY NextMaps DEF Maps
<1>2. Init => Life!Init
  BY InitMaps
<1> QED BY <1>1, <1>2, StopWasSeen, PTL DEF Spec, Implements, Life!Spec

\* An app once on a rollout's skip list stays on it, though CountStep writes
\* the whole list from the copy read at the step's start.
THEOREM SkipListKept == Spec => SkipListGrows
<1>1. Inductive /\ StopSeen /\ [Next]_vars =>
        [\A r \in Rollouts : row[r].state # "none" => row[r].skip \subseteq row'[r].skip]_vars
  BY NextMaps DEF Laws, Law
<1> QED BY <1>1, StopWasSeen, PTL DEF Spec, SkipListGrows

\* No late worker, stop, extension or lease release reaches an ended rollout.
THEOREM EndsAreFinal == Spec => EndedIsFinal
<1>1. Inductive /\ StopSeen /\ [Next]_vars =>
        [\A r \in Rollouts : Ended(r) =>
           \/ row'[r] = row[r]
           \/ row'[r] = [row[r] EXCEPT !.state = "gone"]]_vars
  BY NextMaps DEF Laws, Law
<1> QED BY <1>1, StopWasSeen, PTL DEF Spec, EndedIsFinal
=============================================================================
