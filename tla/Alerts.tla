------------------------------- MODULE Alerts -------------------------------
(***************************************************************************)
(* One alert rule for one target, evaluated by every API replica.          *)
(*                                                                         *)
(* Each replica hears the agent's reports (Redis pub/sub: every replica,   *)
(* at most once), keeps what it heard in memory and decides for itself;    *)
(* the row of alert_states is shared, and a replica moves it by            *)
(* compare-and-set.  The replica whose write moved the row queues the      *)
(* notification.                                                           *)
(*                                                                         *)
(* A replica's mutex is held from a report, or the sweep, to the end of    *)
(* the write it leads to; other replicas, the user who edits the rule and  *)
(* a crash come between the read of the rules, the write and the queueing. *)
(* A write may fail, before or after it took effect.                       *)
(*                                                                         *)
(* Abstractions: the target's overrides are part of the rule's setting;    *)
(* a server's directory entry is fresh; a window's average is any verdict  *)
(* until one level has lasted as long as the rule asks.                    *)
(***************************************************************************)
EXTENDS Integers, FiniteSets

CONSTANTS
    Replicas,
    Duration,    \* the rule's, in ticks
    DownGrace,   \* least silence of a server that is down
    MaxTurns,    \* bound on changes of the server and its load
    MaxEdits,    \* bound on edits of the rule
    MaxFaults,   \* bound on failed writes and reads, lost reports and crashes
    None

ASSUME Bounds ==
    /\ Replicas # {} /\ IsFiniteSet(Replicas) /\ None \notin {"fire", "resolve", "clear"}
    /\ Duration \in Nat \ {0} /\ DownGrace \in Nat \ {0}
    /\ MaxTurns \in Nat /\ MaxEdits \in Nat /\ MaxFaults \in Nat

\* A server that is silent, an app that is problematic, a load too high.
Metrics == {"down", "problem", "load"}

VARIABLES
    metric,   \* the rule's metric
    up,       \* the server runs and its agent reports
    bad,      \* its app is problematic, or its load above the threshold
    rule,     \* "on", "off" (or overridden so) or "gone"
    row,      \* the row of alert_states: "ok" (or none) or "firing"
    pc,       \* each replica: down, or idle, writing, queueing under its mutex
    todo,     \* the write a replica decided on
    firing,   \* Evaluator.firing
    loaded,   \* Evaluator.firingLoaded
    seen,     \* what a replica heard: [bad, age], age since it first heard
              \* so (without a silence, of a load), of a down rule since it
              \* last heard the server
    won,      \* the replica's write moved the row; its notice is to be queued
    lead,     \* transitions recorded, less the notices queued (history)
    lost,     \* notices that died with a process or a write's answer (history)
    doubt,    \* a write changed the row and its answer was lost (history)
    faults, turns, edits

world  == <<metric, up, bad>>
memory == <<firing, loaded, seen>>
counts == <<lead, lost, doubt>>
limits == <<faults, turns, edits>>
vars   == <<metric, up, bad, rule, row, pc, todo, firing, loaded, seen,
            won, lead, lost, doubt, faults, turns, edits>>

\* How long a target is bad, a server silent, before the rule fires.
Patience == IF metric = "down" /\ Duration < DownGrace THEN DownGrace ELSE Duration

Todos == {"fire", "resolve", "clear"}

TypeOK ==
    /\ metric \in Metrics /\ up \in BOOLEAN /\ bad \in BOOLEAN
    /\ rule \in {"on", "off", "gone"} /\ row \in {"ok", "firing"}
    /\ pc \in [Replicas -> {"dead", "idle", "write", "queue"}]
    /\ todo \in [Replicas -> Todos \cup {None}]
    /\ firing \in [Replicas -> BOOLEAN] /\ loaded \in [Replicas -> BOOLEAN]
    /\ seen \in [Replicas -> [bad : BOOLEAN, age : 0..Patience]]
    /\ won \in [Replicas -> BOOLEAN]
    /\ lead \in Int /\ lost \in 0..MaxFaults /\ doubt \in BOOLEAN
    /\ faults \in 0..MaxFaults /\ turns \in 0..MaxTurns /\ edits \in 0..MaxEdits
    /\ rule = "gone" => row = "ok"

Unheard == [bad |-> FALSE, age |-> 0]

Init ==
    /\ metric \in Metrics /\ up = TRUE /\ bad = FALSE
    /\ rule = "on" /\ row = "ok"
    /\ pc = [r \in Replicas |-> "idle"]
    /\ todo = [r \in Replicas |-> None]
    /\ firing = [r \in Replicas |-> FALSE]
    /\ loaded = [r \in Replicas |-> TRUE]
    /\ seen = [r \in Replicas |-> Unheard]
    /\ won = [r \in Replicas |-> FALSE]
    /\ lead = 0 /\ lost = 0 /\ doubt = FALSE
    /\ faults = 0 /\ turns = 0 /\ edits = 0

Fault == faults < MaxFaults /\ faults' = faults + 1

-----------------------------------------------------------------------------
(* The world: the server, the user and the clock                           *)

\* A silence leaves the windows of samples thin; what else was heard stays.
AfterSilence(s) == IF metric = "load" THEN [s EXCEPT !.age = 0] ELSE s

Turn ==
    /\ turns < MaxTurns /\ turns' = turns + 1
    /\ \/ /\ up' = ~up /\ UNCHANGED bad
          /\ seen' = [r \in Replicas |-> IF up THEN seen[r] ELSE AfterSilence(seen[r])]
       \/ metric # "down" /\ bad' = ~bad /\ UNCHANGED <<up, seen>>
    /\ UNCHANGED <<metric, rule, row, pc, todo, firing, loaded, won, counts,
                   faults, edits>>

\* SaveRule, SaveOverride, DeleteRule; a deleted rule's state goes with it.
Edit(to) ==
    /\ edits < MaxEdits /\ edits' = edits + 1
    /\ rule # "gone" /\ to # rule
    /\ rule' = to
    /\ row' = IF to = "gone" THEN "ok" ELSE row
    /\ UNCHANGED <<world, pc, todo, memory, won, counts, faults, turns>>

Older(age, last) == IF age < last THEN age + 1 ELSE age

\* While the server is up every replica hears it within the grace; that a
\* replica misses as many reports is a fault.
Tick ==
    /\ \/ /\ \A r \in Replicas :
               metric = "down" /\ up /\ pc[r] # "dead" => seen[r].age + 1 < DownGrace
          /\ UNCHANGED faults
       \/ Fault
    /\ seen' = [r \in Replicas |-> [seen[r] EXCEPT !.age = Older(@, Patience)]]
    /\ UNCHANGED <<world, rule, row, pc, todo, firing, loaded, won, counts, turns, edits>>

-----------------------------------------------------------------------------
(* A replica's evaluator                                                   *)

\* What an evaluation of a rule it read decides: nothing, when the state is
\* already there; a disabled rule's alert is dropped, a deleted one forgotten.
Decide(r, mine, verdict) ==
    /\ firing' = [firing EXCEPT ![r] = mine /\ rule # "gone"]
    /\ LET do == CASE rule = "gone" -> None
                   [] rule = "off"  -> IF mine THEN "clear" ELSE None
                   [] verdict = mine \/ verdict = None -> None
                   [] OTHER -> IF verdict THEN "fire" ELSE "resolve"
       IN  /\ todo' = [todo EXCEPT ![r] = do]
           /\ pc' = [pc EXCEPT ![r] = IF do = None THEN "idle" ELSE "write"]

\* The rules could not be read: no decision.
Undecided(r, mine) ==
    /\ Fault
    /\ firing' = [firing EXCEPT ![r] = mine]
    /\ UNCHANGED <<pc, todo>>

Verdicts == {TRUE, FALSE, None}

\* What a report decides: a server that reports is up; an app is down once it
\* was problematic long enough; a window that is not all of one level averages
\* above the threshold or not, or is too thin to tell.
ReportVerdicts(s) ==
    CASE metric = "down"    -> {FALSE}
      [] metric = "problem" -> IF ~s.bad THEN {FALSE}
                               ELSE IF s.age >= Patience THEN {TRUE} ELSE {None}
      [] OTHER              -> IF s.age >= Patience THEN {s.bad} ELSE Verdicts

\* ObserveHeartbeat, ObserveMetrics, ObserveAppStatus.
Observe(r) ==
    /\ up /\ pc[r] = "idle"
    /\ LET s == IF metric # "down" /\ seen[r].bad = bad THEN seen[r]
                ELSE [bad |-> bad, age |-> 0]
       IN  /\ seen' = [seen EXCEPT ![r] = s]
           /\ \/ /\ \E verdict \in ReportVerdicts(s) : Decide(r, firing[r], verdict)
                 /\ UNCHANGED faults
              \/ Undecided(r, firing[r])
    /\ UNCHANGED <<world, rule, row, loaded, won, counts, turns, edits>>

\* The sweep decides only down rules, and drops only theirs.
SweepVerdict(r) == IF metric = "down" /\ seen[r].age >= Patience THEN TRUE ELSE None

SweepDecides(r, mine) ==
    IF metric = "down" \/ rule = "gone"
    THEN Decide(r, mine, SweepVerdict(r))
    ELSE firing' = [firing EXCEPT ![r] = mine] /\ UNCHANGED <<pc, todo>>

\* loadFiring keeps the entries already there.
Loaded(r) == firing[r] \/ row = "firing"

\* The sweep first retries the stored states that could not be loaded.
Sweep(r) ==
    /\ pc[r] = "idle"
    /\ \/ /\ loaded' = [loaded EXCEPT ![r] = TRUE]
          /\ LET mine == IF loaded[r] THEN firing[r] ELSE Loaded(r)
             IN  \/ SweepDecides(r, mine) /\ UNCHANGED faults
                 \/ Undecided(r, mine)
       \/ /\ ~loaded[r] /\ Fault
          /\ SweepDecides(r, firing[r])
          /\ UNCHANGED loaded
    /\ UNCHANGED <<world, rule, row, seen, won, counts, turns, edits>>

\* FireAlertState, ResolveAlertState, DeleteAlertState: what the statement
\* makes of the row, and whether it moved it.
Writes(what) == IF what = "fire" THEN "firing" ELSE "ok"

Moves(what) == what # "clear" /\ row # Writes(what)

\* A deleted rule's row cannot be inserted.
Refused(what) == what = "fire" /\ rule = "gone"

\* After an error the memory is left as it is: the next evaluation retries.
AfterError_Believed(r) == todo[r] = "fire"

AfterError(r) == firing[r]

\* Whether the write's caller queues the transition's notification.
Notifies_Always(what) == what # "clear"

Notifies(what) == Moves(what)

Back(r, to) == /\ pc' = [pc EXCEPT ![r] = to]
               /\ todo' = [todo EXCEPT ![r] = None]

\* transition and clear: the write is answered, and the memory follows.
Write(r) ==
    /\ pc[r] = "write" /\ ~Refused(todo[r])
    /\ row' = Writes(todo[r])
    /\ firing' = [firing EXCEPT ![r] = todo[r] = "fire"]
    /\ won' = [won EXCEPT ![r] = Notifies(todo[r])]
    /\ lead' = IF Moves(todo[r]) THEN lead + 1 ELSE lead
    /\ Back(r, IF Notifies(todo[r]) THEN "queue" ELSE "idle")
    /\ UNCHANGED <<world, rule, loaded, seen, lost, doubt, limits>>

\* The write answers an error, though it may have taken effect.
WriteFails(r) ==
    /\ pc[r] = "write"
    /\ \/ Refused(todo[r]) /\ UNCHANGED <<faults, row, lead, lost, doubt>>
       \/ Fault /\ UNCHANGED <<row, lead, lost, doubt>>
       \/ /\ ~Refused(todo[r]) /\ Fault
          /\ row' = Writes(todo[r])
          /\ doubt' = (doubt \/ row # Writes(todo[r]))
          /\ IF Moves(todo[r]) THEN lead' = lead + 1 /\ lost' = lost + 1
                               ELSE UNCHANGED <<lead, lost>>
    /\ firing' = [firing EXCEPT ![r] = AfterError(r)]
    /\ Back(r, "idle")
    /\ UNCHANGED <<world, rule, loaded, seen, won, turns, edits>>

\* Enqueue; a full queue drops the notice.
Queue(r) ==
    /\ pc[r] = "queue"
    /\ won' = [won EXCEPT ![r] = FALSE]
    /\ \/ lead' = lead - 1 /\ UNCHANGED <<lost, faults>>
       \/ Fault /\ lost' = lost + 1 /\ UNCHANGED lead
    /\ Back(r, "idle")
    /\ UNCHANGED <<world, rule, row, memory, doubt, turns, edits>>

Crash(r) ==
    /\ pc[r] # "dead" /\ Fault
    /\ Back(r, "dead")
    /\ won' = [won EXCEPT ![r] = FALSE]
    /\ lost' = IF won[r] THEN lost + 1 ELSE lost
    /\ firing' = [firing EXCEPT ![r] = FALSE]
    /\ seen' = [seen EXCEPT ![r] = Unheard]
    /\ UNCHANGED <<world, rule, row, loaded, lead, doubt, turns, edits>>

\* A server counts as heard from the start; the stored states may not be
\* readable yet.
Load(r) ==
    /\ pc[r] = "dead"
    /\ \/ /\ firing' = [firing EXCEPT ![r] = Loaded(r)]
          /\ loaded' = [loaded EXCEPT ![r] = TRUE] /\ UNCHANGED faults
       \/ Fault /\ loaded' = [loaded EXCEPT ![r] = FALSE] /\ UNCHANGED firing
    /\ seen' = [seen EXCEPT ![r] = Unheard]
    /\ Back(r, "idle")
    /\ UNCHANGED <<world, rule, row, won, counts, turns, edits>>

-----------------------------------------------------------------------------
Next ==
    \/ Turn \/ Tick
    \/ \E to \in {"on", "off", "gone"} : Edit(to)
    \/ \E r \in Replicas :
         Observe(r) \/ Sweep(r) \/ Write(r) \/ WriteFails(r) \/ Queue(r)
         \/ Crash(r) \/ Load(r)

Spec == Init /\ [][Next]_vars

\* The sweep's ticker and the agent's reports keep coming and wait for one
\* mutex, which Go hands to a waiter in the end; a write is answered, a
\* process that died is started again, time passes.
FairSpec ==
    /\ Spec
    /\ WF_vars(Tick)
    /\ \A r \in Replicas :
         /\ SF_vars(Observe(r)) /\ SF_vars(Sweep(r))
         /\ WF_vars(Write(r) \/ WriteFails(r)) /\ WF_vars(Queue(r)) /\ WF_vars(Load(r))

-----------------------------------------------------------------------------
(* Properties                                                              *)

\* Every recorded transition is notified once, by the replica whose write
\* recorded it, however many replicas decided the same; a notice is missing
\* only when its process died, its write's answer was lost or the queue was
\* full (transition).
NotifiedOnce ==
    /\ TypeOK
    /\ lead = lost + Cardinality({r \in Replicas : won[r]})

Sick == IF metric = "down" THEN ~up ELSE up /\ bad
Well == \/ rule = "gone"
        \/ rule = "off" /\ (up \/ metric = "down")
        \/ IF metric = "down" THEN up ELSE up /\ ~bad

Fires    == <>[](Sick /\ rule = "on") => <>[](row = "firing") \/ <>doubt
Resolves == <>[]Well => <>[](row = "ok") \/ <>doubt

\* A target that stays bad is firing in the end, and one that stays well, or
\* whose rule was disabled, is not: whichever replicas crash, miss reports or
\* hold a stale state, the others or their next start follow.  The exception is
\* a write that changed the row although its answer was lost: its replica takes the
\* state for the old one, and when the target turns before it evaluates again
\* nobody moves the row back (transition's "the next evaluation retries").
AlertFollows == Fires /\ Resolves
=============================================================================
