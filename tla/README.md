# TLA+ models of WinterFlow

WinterFlow is a self-hosted PaaS: an **API** (one or more replicas over SQLite
or Postgres) with a web UI and an MCP server, **hubs** that hold the gRPC
streams of the servers, and one **agent** per server that runs Docker Compose
apps, backs them up and reports what it sees. These modules model the parts of
it whose correctness depends on the order of things: steps of several
processes over one table, goroutines over one mutex, calls that may never
return.

Paths below are relative to `src/internal/` unless they begin with `src/`.

## 1. Inventory

### Components, their state and their operations

| component | state it keeps | operations | what is hard | what makes it correct |
|---|---|---|---|---|
| Rollout queue `domain/usecase/rollouts`, `rollouts.sql` | rows: state, lease (owner, until), scope and scope_rev, counters, skip list, stop_requested | queue or extend a reload, start an upgrade, stop; a worker's claim, renewal, step, count, complete, park | several API processes drive one row; leases run out under a live driver; extension races completion | one driver per lease; a fenced writer changes nothing; done means nothing is owed; every rollout ends |
| Backup scheduler `app/agent/backup` | queue, running job, stuck runs, per-backup states on disk, tombs of deleted apps, a one-slot wake channel | RunNow, Restore, Forget, Refresh, the loop (take, start, abandon, finish), shutdown | the engine may hang; plans are read without the mutex; a delete races a run | one engine call per app; no answer twice or never; nothing works on an app under deletion; due work is taken |
| Reload worker `app/agent/reload_worker.go` | batch (wide flag, ids, dropped ids), waits by app, a one-slot signal | Enqueue, EnqueueApp, Forget, the pass, shutdown | waits register between a lookup and its answer; merges during a pass | no request lost; each wait answered once, by a reload that began after it |
| Secret links `domain/usecase/secretreq` | one row per request: status, ciphertexts, claim, deadlines | Create, Submit, Consume (claim), Dispatch (gate), Commit, Release, Sweep | lost answers of writes, lapsed claims with a live holder, crash between send and commit | the values are sent once at most and deleted in the end |
| Command dispatch and results `infra/transport/dispatch`, `domain/usecase/cmdresult` | pending map with TTL; a tracker per request; rows running/done/unknown | Dispatch, HandleResult, Begin, Await, Get, Sweep | a result before, while or after its record is made; repeated and lost messages; a late result | everybody is told one outcome; a result let through is recorded; once unknown was told with none let through, no outcome follows |
| Hub registry `infra/transport/grpc/hub` | agents by server: stream, lastSeen, revokedAt; the drain's mover and whom it told | Register, AgentStream, revoke, reap, drain | a newer stream replaces an older one; a revocation overtakes an authorization | a stream is registered while it runs; a revoked server has none |
| Hub placement `domain/usecase/agenthub`, `hubs` | the hub a server belongs to, the hub list with its drain flags | Where, SetServerHub (compare-and-set), the mover's empty-out | replicas choose from different lists | a server is moved off bad hubs only |
| Agent stream client `infra/transport/grpc/agent` | the current stream, denials in a row, the target hub, asks | Run, reconnect, migrate, give up | refusals that say different things; answers of older asks | the agent ends on its row's hub; it gives up only when its server is gone |
| Agent authentication, hub join, certificates `agentauth`, `hubjoin`, `hubpins`, `infra/cert` | keys, one-time tokens, issued certificates | Check, Redeem, renew | a token spent before the hub is trusted | a token redeems once |
| Enrollment `domain/usecase/enrollment` | codes, codes_issued, state, expiry | Start, Refresh, Claim | two refreshes of one enrollment | a code claims once; the caps hold |
| App locks and restores `infra/orchestrator/docker_compose/applock.go`, `restore.go` | a lock per app, operations in flight, the restores running, the update's flag | beginOp, beginRestore, waitForRestore, the restore's stages, beginUpdate | a check and the act it allows are apart; Docker and the agent fail between any two stages | nothing starts the app while its data is replaced; data in doubt is not started by itself; an app that was up comes back |
| Restore marks `restoremark.go` | `restoring.json`, a note per app | write, clear, read after a restart | a second exit between two file writes | an interrupted restore is reported |
| Backup engine and storages `infra/backup`, `domain/backup`, `app/backup` | archives on storages | backup, restore, retention, helper process | I/O failures | archives restore to what was saved |
| Docker compose orchestrator `infra/orchestrator/docker_compose` | compose files, rendered variables | save, deploy, delete, reload | partial failures of docker calls | a rendered app is the saved one |
| App usecase, status cache `domain/usecase/app`, `domain/service/status` | latest report by server with a TTL | save, deploy, report, expire | stale reports | a server is shown offline once |
| Alerting `domain/service/alerting`, `infra/db/repository/alert` | firing alerts in each replica's memory and in the database, what each replica heard | observe, sweep, fire, resolve, clear, load, queue a notice | every replica evaluates the same reports; lost answers of writes; restarts | one notification per transition; the alert follows its target |
| Notifications `domain/service/notification`, `infra/notify` | per-browser buffers | subscribe, publish (drops when full) | slow readers | a slow reader blocks nobody |
| Shared variables, templates `sharedvars`, `templates`, `infra/vars` | rows, versions, a per-server snapshot with a revision | set, sync, upgrade | snapshots out of order | an agent's revision only grows |
| Accounts and OAuth `authn`, `authserver`, `oauthlogin` | users, tokens, grants | sign in, rotate, revoke | token reuse | a rotated token is refused |
| Template catalog, web and MCP front ends, ingress, database and migrations, message bus, metrics, bootstrap | files, rows, samples | parsing, rendering, I/O | little shared state | - |

### How they interact

The API answers browsers and MCP clients, stores rows and publishes commands
on the bus (Redis, or in memory in the standalone build). A hub forwards a
command down the server's stream; the agent's dispatcher runs it and replies.
A deploy, a delete or a reload on the agent takes the app's lock; the
dispatcher tells the backup scheduler (Forget, Refresh) and the reload worker
(Enqueue, EnqueueApp, Forget) what changed. Reports go back the same way and
feed the status cache, from which the rollout worker decides what is done, and
the alert evaluator.

## 2. Modules

| module | models | kind |
|---|---|---|
| `Rollouts` | the rollout queue: the table's statements, the worker of each API process, the user's calls | component |
| `RolloutLife` | what the queue promises of a rollout: queued, running, an end that is final, a revision that grows only while it is active and not stopping | abstract specification |
| `RolloutsProofs` | type correctness and the safety theorems of `Rollouts`; that it implements `RolloutLife` | proofs |
| `BackupScheduler` | the scheduler's loop, its callers, the engine, deletes and tombs | component |
| `BackupProofs` | one engine call an app, volumes left alone, nothing left of a deleted app, a sound sleep, waiters kept | proofs |
| `ReloadWorker` | the reload worker, its callers, the app lock as far as reloads need it | component |
| `ReloadProofs` | each wait answered once, no request lost, a deleted app not reloaded | proofs |
| `SecretRequests` | one secret link, its submitters, its saves and the sweep | component |
| `SecretRequestsProofs` | type correctness and the safety theorems of `SecretRequests` | proofs |
| `HubStreams` | one server's agent, its streams, the hubs' registries and drains, the hub list, the API's placement and revocation | composition of five parts |
| `HubStreamsProofs` | streams registered, a revoked server kept out, giving up and moving only for cause | proofs |
| `CommandResults` | one command's call, its result's subscriber, its row, the bus and the readers | component |
| `CommandResultsProofs` | one outcome, none lost, unknown stands | proofs |
| `Restores` | one app: its operations, its restore with the helper and the marks, the agent's update and restarts | composition of three parts |
| `RestoresProofs` | the helper alone, doubt told and kept down, the app given back, no update during a restore | proofs |
| `Alerts` | one alert rule for one target, evaluated by every API replica | component |
| `AlertsProofs` | each transition is notified once; somebody can move the alert on | proofs |
| `MC...` | the small instances TLC checks | model checking |

### Rollouts

`RolloutLife` names four promises: the states a rollout goes through and that an
end is final; that one is done only when it owes no app a look; that a rollout
asked to stop takes no more work; and that one step at most starts after that.
`owed` and `afterStop` are history variables of both modules.

`row[r]` is the table's row; `held`, `snap`, `pick`, `outcome` and the program
counter of a worker are the local variables of `drive` and `step`
(`worker.go`). One action is one database statement, or one step of a worker
between two of them; the guards `Owns`, `ScopeStands`, `Claimable` are the
WHERE clauses of `rollouts.sql`. Two kinds of rollout (`upgrade.go`,
`reload.go`) differ in what is left to do (`Todo`), when a rollout waits, and
what a step runs. A lease is "live", "past" or "null": `LeaseExpires` lets it
run out, under a crashed driver freely and under a live one `MaxStalls` times.
`rep[a]` is what the status cache knows of an app; an app's report at the same
revision only gets fresher.

Abstracted: one app per server; agents whose reports carry no revision; errors
no stored row can cause (an unknown kind, a malformed scope); the prune is
part of the end that triggers it and may fail; `finished_at` is a total order.

### BackupScheduler

`queue`, `running`, `stuck`, `state`, `plan`, `deleting` (the tombstones), `gen`,
`dirty` and `wake` are the fields of `Scheduler`; an action is one critical section of its mutex, or one call out
of it (the plan read, the engine call, the state file). The engine returns, or
hangs: then the deadline passes, the run is abandoned and kept in `stuck`
until it returns. Time is the event "has passed": a backup becomes due, a
request waited too long, a tomb lapsed. Job slots are reused once nobody
refers to them. A plan read may leave out an app it cannot read (`out` in
`PlanRead`), as `BackupPlan` does, and `refresh` applies that plan. `early` is a history
variable: the apps whose last `Forget`'s block ended early, by such a read or by
`tombstoneTTL`. The queue is a set of requests, each with those it was queued
behind (`behind`): the code's slice in its order of arrival, from which a Forget
or a refusal takes requests out of the middle.

Abstracted or left out: a process restart (the state file is read once at
`Init`, in any content it can have), restore marks, the sweep of deleted apps'
backups and its 24 h timer, a clock that steps back, the wording of errors,
sizes and fingerprints; among overdue requests any may be taken first.

### ReloadWorker

`pending` is the merged request (wide, and explicit apps), `dropped` the apps
deleted during a pass, `waiters` the waits by app, `wake` the one-slot channel; an action is one critical section or one
docker lookup of the pass. The app lock is modelled as `ReloadSharedVars` takes
it; variables are a version that an app's render copies.

### SecretRequests

`row` is the request's row and every statement of `secret_requests.sql` is one
action with its WHERE clause as `hit`; `Write` applies it, `Fault` is an error
after which it was applied or not. A save's program counter follows `saveApp`
(`app/web/mcp/tools/apps.go`) through `Consume`, the checks, the gate
(`Claim.Dispatch`), `DispatchSave` and `Claim.Commit`. The clock is an integer,
and `Consume`, `Submit` and `Sweep` act under the clock they read before. `sent`
holds the saves handed to the bus: whether the message arrived, and what the
send answered, changes nothing the code does, so the model does not tell them
apart. Left out: what `Create` checks and what the page shows. One sweep at a
time: a second process's sweep adds only statements the first may also make.

`domain/model/secret_request.go:17-21` and `domain/port/secret_request.go:34`
still say that a dispatched request returns to submitted when its send failed;
the statement (`ReleaseSecretRequest`) and `Claim.Commit` never do that, and
the model follows them.

### HubStreams

`ag` is the agent's `Run` loop with its denials, its target and its two timers
(`askFloor`, `unreachableAsk`); `conn[c]` is a stream as its hub's handler sees it
(being checked, opening, live, closed with a code), `entry[h]` the hub's
`agents[server]`, `heard` its `revokedAt`; `list` and `flag` are Redis' announced
status and drain flag, `stale` an announcer that still holds a status it read
before. An ask is the API's `Where` in its three steps (read the row, read the
list, compare-and-set), so that two replicas interleave. A drain's mover empties
the hub in rows, tells the connected agents once, and an agent that loses the
word moves when its connection reaches `MaxConnectionAge`. Durations are events
that may happen at any time. Left out: the length of backoffs, certificates and
pins, signatures (an authorization's verdict is the row's), the commands
a stream carries, how the least loaded hub is chosen.

### CommandResults

One call of `dispatchWithin` (`app/web/mcp/tools/wait.go`) and the subscriber's goroutine
are the program counters `call.pc` and `hook.pc`; `entry` is the dispatch
manager's pending entry, `tracker` what `Tracker` keeps of the request (`bound`
after Begin, `early` a result that came before, `local` the waiter's channel),
`row` the row of `command_results`. Ages count ticks up to one past the
thresholds they are compared with. `Publish` and `Execute` are the environment:
the Redis client repeats a publish, a message is lost, the agent answers, the
hub answers for an absent agent, two executions answer differently. A database write fails before or after
it took effect. `get_command_result` may be asked once the call tried to record the
command, for a call that could not answers the id too; it answers unknown for a row that
is not there. `settled` is a history variable: unknown was told, or stored, while no
result had been let through. The named assumption `Thresholds` has `Wait <= StaleAfter`: both
are fifteen minutes in the code.

### Restores

`op[o]` is an operation (deploy, draft save, source poll, storage redeploy, reload,
stop, delete) with its stage: waiting for the app's lock, past its check, up or
down, sweeping volumes. `rst` is the restore's stage in `RestoreBackup`,
with what it found; `mark` is `restoring.json`'s phase, `boot` and `carried` the
agent's start (`InterruptedRestores`, the note, the clean-up). Docker fails,
restarts, or leaves the helper running when the agent dies. `rst.halted` notes that the
restore tried to stop the app: only then it owes the app a start (`GivesBack`; an app
that an earlier exit of the agent left stopped may well be found so and left so by a
restore that its draft check refuses). Four more history variables name where the code
gives no promise, and only those:

* `excused`: the agent died during a restore and left its helper, the helper
  could not be removed, a compose stop or down failed, or Docker restarted during
  the restore.
* `lost`: the agent exits a second time between the removal of the mark's file
  and its note, or between clearing the mark and answering, or a stop meets
  a restore that a delete cancelled and the delete never ends
  (`app/agent/backup/scheduler.go:818`).
* `moved`: a source poll had passed its check before the restore registered.
* `starter`: the operation that deployed the app on data in doubt.

Left out: a rename, the backup settings, a restore the scheduler abandons; the
mark's file can always be written.

### Alerts

`row` is the row of `alert_states`, `rule` the setting (overrides included);
`firing`, `loaded` and `seen` are a replica's `firing`, `firingLoaded` and what
it heard (`heard`, `problem` or the sample window, whichever the rule's metric
uses). One evaluator's mutex is held from a report or the sweep to the end of
the write it leads to, so a replica's program counter is idle, writing or
queueing; what comes between are the other replicas, the user's edit and a
crash. A write fails before or after it took effect. Time is counted in ticks up
to the rule's patience; a window that is not all of one level may average to
anything or be too thin. A replica that misses all reports for `DownGrace` is a
fault. Left out: the channels' delivery, the directory's refresh, the history.

## 3. Runs

`CHECK_DEADLOCK FALSE` stands where the system really may come to rest: every
rollout has ended, the agent has stopped, the worker has nothing to reload.

| run | cfg | distinct states | what it shows |
|---|---|---|---|
| `upgrade` | MCRolloutsUpgrade | 934 k | two API processes, an upgrade of two apps, one fault, one stall: at most one step after a Stop, progress within total, one driver |
| `rollout_ends` | MCRolloutsEnds | 331 k | two processes, one reload that two calls queue, extend and stop: done owes nothing, refinement of `RolloutLife`, and every rollout ends through a crash or a database error |
| `backup` | MCBackupTombs | 3.8 M | one app saved, backed up and deleted, or deleted with a tomb that lapses or a plan read that cannot read it, while plans are in flight and the engine may hang: one call per app and stuck runs that exit, volumes undisturbed while the delete's block stands, nothing left of a deleted app, the loop sleeps soundly, a cut-short run stays due |
| `backup_live` | MCBackupLive | 352 k | liveness: requests are answered, due backups are taken; a waiting caller keeps its answer |
| `reload` | MCReload | 662 k | two waits and a request of one app that changes: each wait answered once by a reload that began after it, no request lost, a deleted app not reloaded, every wait ends |
| `reload_skip` | MCReloadSkip | - | a violation: see Findings |
| `secrets` | MCSecretRequests | 1.3 M | two submitters, two saves, two faults, a clock of four: safety and liveness |
| `hubs` | MCHubSafe | 1.6 M | three hubs, two streams, two asks, one hub that drains or dies, a deletion: streams registered, a revoked server kept out, giving up only when gone, moves off bad hubs only |
| `hub_settles` | MCHubLive | 231 k | liveness: the agent settles on its row's hub, the agent of a deleted server gives up |
| `results` | MCCommandResults | 348 k | one command, two readers, three faults: one outcome, none lost, no outcome after unknown stood, rows end |
| `restores` | MCRestores | 2.9 M | one restore beside two operations, two exits, one Docker failure: the helper is alone, doubt is told and not started, the app is given back, an update cuts none |
| `alerts` | MCAlerts | 286 k | two replicas, a server, app or load that turns three times, one edit or delete of the rule, two faults: each recorded transition notified once; the alert follows its target |

Bounds, by constant. `MaxFaults` (database errors, crashes, messages lost or
repeated, Docker's failures), `MaxStalls`
(leases that run out under a live driver), `MaxRev` (revisions of the shared
variables), `Keep` (ended rollouts kept; 1 makes a prune happen), `ExtendTries`
(QueueReload's compare-and-set tries); `MaxDeletes`, `MaxSaves`, `MaxLapses`, `MaxUnread`
(deletes, edits of a backup, lapsed tombs and plan reads that leave an app out), `Slots` (jobs alive at once);
`MaxVersion` (changes of a variable), `MaxEvents` in `ReloadWorker` (requests and app
starts), in `HubStreams` (drains, stops, the delete, agent restarts, crashes, lost
messages and failed calls together); `maxDenials` (the code's own limit, 2
instead of 5); `MaxOps`, `MaxRuns`, `MaxDeaths` (operations, restores, exits of the agent);
`MaxTurns` and `MaxEdits` (changes of an alert's target and of its rule), `Duration` 1
and `DownGrace` 2 (a server's silence outlasts a rule's own duration);
`MaxTime` and the windows of a secret request, in ticks. Two actors
and one fault are what each hazard needs: a second owner after one lease ran
out, a second engine call beside one stuck run, a wait beside one pass, a
second save beside one claim, a second exit after a restore that was cut
short. In `secrets` the claim (2) is shorter than the
use window (3), so a claim lapses in time for another save, and a claim can
outlive the request's deadline. Two faults there let one statement's answer be
lost and another's be retried.

Two runs carry a state constraint. `OneDisturbance` in `backup` lets one behaviour
have an edit of the backup, a lapsed tomb or a plan read that left the app out, not two
of them: they act on different reads. A request is asked there only after such a read and
before the agent stops, the case in which it can meet a delete; requests at every other
moment are explored in `backup_live`, without a constraint. `OneHears` in `hubs` lets a revocation reach one hub: a hub acts
on it alone, and the others then stand for hubs the broadcast missed. Only safety is
checked in these. Symmetry is used only in runs without liveness.

Fairness. Rollouts: every step of a worker that drives, the clock (leases
expire, a waiting rollout's time runs out) are weakly fair, `Claim` strongly:
each process polls for claimable rows (`Run`, `pass`) and tries every one it
listed, oldest first. Backups: the loop (`Run`), the deadline's timer and
Forget's wait are weakly fair; the engine is not, except that a cancelled run
ends when nobody waits for its return. Reload worker: the worker's own steps;
callers and docker's answers are assumed to come. Secrets: the clock, and the
sweep (`startHourlyMaintenance`); no save or submitter is assumed to go on. Hubs:
the agent's loop, each ask at the API, each stream's handler together with
`MaxConnectionAge` (gRPC ends every connection in the end), the hubs' watches and
announcers, the mover, and the timers; events and faults are bounded, so in the
end the hubs are left alone. Results: the call's thread, the subscriber's, the
hourly sweep and the clock; nothing of the bus and the agent. Alerts: time, each
write, the queueing and a restart are weakly fair; reports and the sweep strongly,
for the ticker and the events keep coming and wait for one mutex that Go hands
to a waiter in the end.

## 4. Findings

* `reload_skip`: `EnqueueApp`'s doc (`app/agent/reload_worker.go:123-126`)
  promises "the outcome of the app's next reload, a skip when it is not running
  then". `candidates` answers a skip to every wait of an app its lookup did not
  find running, also to a wait registered after the lookup, for an app that
  started in between. The property `SkipMeansStopped` states the doc.

More sentences of the source say more than the code keeps; the properties that
hold name the exception.

* `Forget`'s doc (`app/agent/backup/scheduler.go:291-295`) says that it returns
  once the stopped run "(or one abandoned earlier) has really returned". The code
  (307-314) waits for `s.running` only; the comment inside and
  `TestForgetOnAStuckRunDoesNotWait` (`scheduler_test.go:904`) agree with the code
  (`VolumesUndisturbed`: a run abandoned earlier may still be at work).
* The comment in `refresh` (`app/agent/backup/scheduler.go:491-492`) ends a `Forget`'s
  block "once a read begun after it no longer lists the app", and the doc of
  `tombstoneTTL` (77-80) names only a delete that failed. `BackupPlan`
  (`infra/orchestrator/docker_compose/backups.go:282-313`) also stops listing an app whose
  backups it cannot read, or every app when their directory cannot be read, and `refresh` (484-487)
  logs the error and applies that plan. The block of a delete then ends while
  `DeleteApp` still removes the volumes, and so it does when the delete takes longer
  than ten minutes. Once a later read lists the app again, a backup or a request of it
  starts an engine call beside the delete. Without its exception `early`,
  `VolumesUndisturbed` is violated by a trace of nine steps. Until a later
  read lists the app it is also not backed up, and nothing but a change asks for one:
  `DueIsTaken` speaks of backups in the plan.
* `get_command_result` describes its "status unknown" as "expired after a day, or not this
  organization's" (`app/web/mcp/tools/results.go:21`), with the hint "no such command in
  your organization" (43). When the insert of the row failed, the tool's error hands out
  the request id all the same (`wait.go:88-92`), and the reader is told unknown of a
  command that was sent and may have succeeded: its outcome is then never recorded
  (`UnknownStands`). Where the row exists, one case remains in which an outcome follows
  unknown, and `settled` leaves it out: a result let through in time is still on its way to the row when
  the row becomes stale, and `FinishCommandResult` corrects an unknown row.
* `beginRestore`'s doc (`infra/orchestrator/docker_compose/restore.go:137`) lists
  source polls among what is refused while a restore runs. A poll that looked
  (`operations.go:575`) before the restore registered commits its new source during
  it (`HelperAlone`: only such a poll can, and only a container the new files do
  not name escapes the restore's stop).
* An app left stopped after a restore in doubt is removed "so nothing can
  start it on that data" (`restore.go:280`): Docker cannot, but a later deploy by a
  source poll, a storage redeploy or a reload can (`OnlyDeployedOnDoubt`).
* `transition` (`domain/service/alerting/evaluator.go:410-411`) says that a store error
  "leaves the local state unchanged so the next evaluation retries", and the design
  (`src/docs/superpowers/specs/2026-10-11-monitoring-and-alerts-design.md:257`) that a
  down alert "resolves on the next heartbeat". When a write took effect but its
  answer was lost, and the target turns before its next evaluation, every
  replica's memory may agree with the target while the row does not: then nobody
  moves it until a replica restarts or the target turns again (`AlertFollows`, exception
  `doubt`).

## 5. Proofs

TLAPS proves, for every value of the constants that satisfies the modules'
named assumptions (sizes are naturals, the model values of NULL are no member
of the sets they stand beside):

* `RolloutsProofs!TypeCorrect`: `Spec => []TypeOK`.
* `RolloutsProofs!Fenced`: `Spec => []Inductive`. Neither `DoneOwesNothing` nor
  the others is inductive alone, because a worker acts on what it read before.
  `Inductive` says what such a reading is still worth: a worker whose lease is
  the row's has read counters and a skip list that are the row's; while
  `scope_rev` is the one it read, so is the scope; a row that was asked to stop
  has at most its current step ahead; an owner has a live or a past lease.
  Each action is one step of the proof, each conjunct it disturbs a sub-step.
  `NothingOwed`, `OneLateStep`, `ProgressBounded`, `LeaseExcludes` follow from
  it (`DoneOwesNothing`, `AtMostOneStepAfterStop`, `ProgressWithinTotal`,
  `OneDriver`).
* `SecretRequestsProofs!SecretTypes`, and from it three small inductive
  invariants. `Fence`: one save at most is past its gate, and the row is then
  dispatched under its claim, or used or pruned; it is inductive because every
  statement that hands the values on matches a submitted or a claimed row only.
  It gives `UsedOnce` and `SpentReadsUsed`. `Stored` adds to `TheirValues` that
  nobody has values while the row is pending. `Held` adds to `ClaimHolds` that
  the row's deadline is the claim's and that every clock that was read is past:
  a claim read as lapsed then really is.

* `RolloutsProofs!Refines`: `Spec => Implements`. Under `Inductive` each action
  maps to one step of `RolloutLife` or a stutter. One fact more is needed,
  `StopSeen`: an owner that is about to end a rollout as stopped holds a row that
  was asked to stop. The same case analysis gives `SkipListKept` and `EndsAreFinal`
  (`SkipListGrows`, `EndedIsFinal` in `Rollouts`; no run checks them).
* `CommandResultsProofs!Invariant`. `OneOutcome` needs that the pending entry is
  taken once and every outcome told since is what was taken; `NothingLost` that
  a result let through is, until the row has it, with the subscriber, in the
  tracker or with the call; `UnknownStands` that once unknown was told no result
  will reach the row or a reader: either the row was never written, so the tracker is
  never bound and nothing records; or it had become stale, and the entry is at least as old as
  the row, so that by `Wait <= StaleAfter` no entry is left that could let a result in
  (`Settled`). From it `OutcomeIsOne`,
  `NoneLost`, `UnknownIsFinal`.
* `AlertsProofs!Owed`: the replicas that owe a notice are those about to queue
  one, and a notice is lost by a fault only; counting them gives
  `EachIsNotifiedOnce` (`NotifiedOnce`) for any finite set of replicas.
  `AlertsProofs!AlertIsRemembered` proves what `AlertFollows`, a liveness property, rests
  on: as long as no write's answer was lost, a firing row has a replica that remembers
  the alert or will load it (only such a one decides a resolve), and while the row is ok some
  replica does not take the alert for fired (only such a one decides to fire).

* `ReloadProofs!WorkerInvariant`. `WaitsAnswered` needs that a wait is in one place
  until it is answered (`WaitsHeld`) and that what the worker is about to render is
  at least as new as the variables its waits asked for (`Fresh`). `NothingLost` needs
  that a delete settles what the app was owed (`Owes`). The action property
  `DeletedNotReloaded` needs that a deleted app which the pass still holds is marked
  as dropped (`Forgotten`), so that the check at the queue's head finds it.
* `RestoresProofs!RestoreInvariant`. Neither of the five properties is inductive: the
  operations, the restore, its helper, the mark and the next start of the agent act on
  what they saw earlier. `IInv` says what each reading is still worth: an operation that
  is registered and a restore that is registered exclude each other, and a delete that
  removes the app has a restore that was cancelled (`OpsKept`); from the look to the end
  the mark is on disk and the app is as the restore found it (`Course`); between the copy
  and the helper's end nothing of the app runs but what a poll moved away (`Alone`); data
  in doubt is down, or the restore still has it to judge (`Doubts`); the user's knowledge
  has a carrier in every state (`Known`). It holds for any number of restores, operations,
  exits and failures, where the run has one restore and two operations; one more restore
  showed that `GivesBack` must speak of what the restore stopped, not of what it found.
* `HubStreamsProofs!HubsInvariant`. A handler that streams and was not closed is its
  hub's entry, and the entry its handler's (`Registered`): a newer stream, a reap, a
  revocation and a crash each change both sides in one step. `RevokedIsOut` needs in
  addition that a check which the API allowed before the delete is marked as overtaken
  when its hub hears (`Barred`). `GivesUpOnlyWhenGone` needs that every denial, in a
  hub's answer or in a connection that ended, was given after the delete (`Deleted`), and
  that the agent counts no denial twice (`Patience`). `LeavesOnlyBadHubs` needs that an
  ask which goes on after its look saw a hub that was not open (`Asked`, `Tracked`): the
  compare-and-set does the rest.

* `BackupProofs!SchedulerInvariant`. What each property needs beside itself:
  * `OneCallPerApp`: a call that is under way is the running job's or the one its app
    is stuck on, and what an app is stuck on was abandoned and has not exited (`Calls`).
    Since `startLocked` starts no job of a stuck app and `abandon` looks once more under
    the lock, two calls of one app would be one slot; counting them gives the bound.
  * `VolumesUndisturbed`: from the first `Forget` to the removal the app is blocked, a
    plan read that could end the block began after the `Forget` and so lists the app,
    whose folder is still there, or left it out as unreadable and makes the app `early`
    when it is applied; and every call under way is waited for, was waited for in
    vain or was abandoned (`Guarded`, `Deletes`, `Gens`).
  * `DeletedLeavesNothing`: a plan read still to be applied began before the app's
    last `Forget` or misses the app (`Gone`).
  * `SleepsSoundly`: asleep with no wake to come, the timer is set to every tombstone
    and to every planned backup that is not blocked, or a tombstone it is set to has
    lapsed (`Sleep`); the wake is set by whatever unblocks an app otherwise.
  * `WaitersKept`: a request waits exactly while the queue or the running job
    holds it, once (`Waiters`), so every send finds its channel empty.
  * `StopKeepsDue`, an action property: a job recorded as not cut short went well or
    did not end by the stop (`Cut`); only `Record` and `Forget` clear `due`.

  The parts read few variables each: a lemma `...Frame` says when any step keeps a part,
  a lemma `...Keeps` that one action keeps them all. It holds for any apps, backups,
  requests and slots and for any number of deletes, saves, lapses and unreadable apps; before it was
  proved, larger instances than the run's (two apps, two backups, two requests) were
  searched in part for a counterexample and showed none.

Named assumptions beside the sizes: model values that stand for "none" are no member of
the sets they stand beside (`Apart` in `Restores`, `HubsAssumption` in `HubStreams`: no
hub, connection, ask or registry entry; `SchedulerAssumption` in `BackupScheduler`). The
last one also says that `Backups` is not empty: it is every backup an app may come to
have, and an agent with none has nothing to schedule. `Bounds` in
`Alerts` says that there is a replica.

Only model-checked: the liveness properties, for fairness and ENABLED are beyond the
prover (`EveryRolloutEnds`, `EveryRequestAnswered`, `DueIsTaken`, `EveryWaitEnds`,
`ValuesGo`, `Settles`, `DeletedGivesUp`, `RowEnds`, `AlertFollows`). Every safety
invariant and every action property of a passing run is the subject of a theorem.

## 6. Plan

Done, in this order: `Rollouts` (with `RolloutLife`), `BackupScheduler`,
`ReloadWorker`, `SecretRequests`; proofs of `Rollouts` and `SecretRequests`;
`HubStreams`, `CommandResults`, `Restores`, `Alerts`; the refinement of
`RolloutLife`, proofs of `CommandResults` and of `NotifiedOnce`.

Then the proofs of `ReloadWorker`, `Restores`, `HubStreams` and `BackupScheduler`.

Next, most important behaviour first:

1. Abstract specifications beside `RolloutLife`, proved as refinements: a request
   that is asked, held and answered (`BackupScheduler`, `ReloadWorker`), a command that is
   sent and has one outcome (`CommandResults`).
2. `Enrollment`: the caps, the one-time claim, and two refreshes of one
   enrollment (`domain/usecase/enrollment/usecase.go:186` reads `codes_issued`
   and writes it plus one only while the row is pending).
3. The backup scheduler's restart (its state file and the restore marks) and a
   clock that steps back (`app/agent/backup/scheduler.go:626`).
4. Token rotation of `authserver`, and the hub's join tokens.

## 7. Not modelled

`PROJECT.json` lists every component with its status and the reason. Most of the
repository's lines keep no state that several actors change: generated
protobuf and query code, rendering of compose, Caddy and template files,
clients of Docker, of storages and of OAuth providers, HTTP and MCP handlers
that parse a request and call one usecase, metrics sampling. Models of these
would restate them line by line. In detail:

* the backup engine, its storages and the restore's command line tool transform
  archives; to the scheduler the engine is a call that returns, fails or hangs;
* generated queries are translated where a module uses their statement;
* accounts and OAuth are request-scoped checks over rows;
* the message bus is the environment of `HubStreams`, `CommandResults` and `Alerts`:
  late, lost and repeated messages;
* enrollment is small and on the plan.
