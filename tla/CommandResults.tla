--------------------------- MODULE CommandResults ---------------------------
(***************************************************************************)
(* One command an MCP tool sends to a server: the API replica that sends   *)
(* it waits for the agent's result, records the result in the database and *)
(* answers the tool; any replica answers get_command_result from the row.  *)
(*                                                                         *)
(* The tool's call and the bus subscriber are two threads of one process:  *)
(* a result may arrive before the call has recorded the command, between   *)
(* any two of its steps, or after it gave up.  The bus may lose a message  *)
(* and the Redis client may repeat one; a database write may fail, before  *)
(* or after it took effect; the process may die.                           *)
(*                                                                         *)
(* Abstractions: the command's way to the agent and back is one step that  *)
(* puts its answer on the response queue, where it waits any time.  The    *)
(* clock is kept as ages that stop growing one past the last threshold     *)
(* they are compared with.  Truncation, the notification to the browser    *)
(* and the app usecase's own handling of the result are left out.          *)
(***************************************************************************)
EXTENDS Naturals, FiniteSets

CONSTANTS
    Readers,     \* get_command_result calls, on any replica
    Wait,        \* appuc.ObservedResultTTL
    StaleAfter,  \* how long a row may read running
    Retention,   \* how long an ended row is kept
    MaxFaults,   \* bound on lost, repeated and failed operations
    None

ASSUME Thresholds ==
    /\ Wait \in Nat /\ StaleAfter \in Nat /\ Retention \in Nat
    /\ MaxFaults \in Nat
    /\ Wait <= StaleAfter

Outcomes == {"succeeded", "failed"}

ASSUME NoneIsOther == None \notin Outcomes \cup {"running", "unknown"}

VARIABLES
    queue,    \* copies of the command on its hub's request queue
    answers,  \* results on the response queue
    entry,    \* dispatch.Manager's pending entry: [held, age]
    hook,     \* the subscriber's goroutine in HandleResult: [pc, res]
    tracker,  \* cmdresult.Tracker: [bound, early, local]
    row,      \* the row of command_results: [status, age, ended]
    call,     \* the tool's call: [pc, told]
    read,     \* what each get_command_result was last told
    taken,    \* the result HandleResult let through (history)
    settled,  \* unknown was told or stored while no result was (history)
    broken,   \* a database write failed, or the process died (history)
    faults

bus  == <<queue, answers>>
proc == <<entry, hook, tracker, taken>>
vars == <<queue, answers, entry, hook, tracker, row, call, read, taken,
          settled, broken, faults>>

Statuses == Outcomes \cup {"none", "running", "unknown", "pruned"}
CallPcs  == {"new", "publish", "insert", "bind", "early", "get", "wait", "over"}
Before   == {"new", "publish", "insert"}
HookPcs  == {"idle", "observe", "record", "deliver"}
Told     == Outcomes \cup {None, "error", "running", "unknown"}

TypeOK ==
    /\ queue \in 0..2
    /\ answers \in SUBSET Outcomes
    /\ entry \in [held : BOOLEAN, age : 0..(Wait + 1)]
    /\ hook \in [pc : HookPcs, res : Outcomes \cup {None}]
    /\ hook.pc = "idle" <=> hook.res = None
    /\ tracker \in [bound : BOOLEAN, early : Outcomes \cup {None},
                    local : Outcomes \cup {None}]
    /\ tracker.early # None => ~tracker.bound \/ call.pc = "early"
    /\ row \in [status : Statuses, age : 0..(StaleAfter + 1),
                ended : 0..(Retention + 1)]
    /\ call \in [pc : CallPcs, told : Told]
    /\ read \in [Readers -> Told]
    /\ taken \in Outcomes \cup {None}
    /\ settled \in BOOLEAN /\ broken \in BOOLEAN
    /\ faults \in 0..MaxFaults

Idle    == [pc |-> "idle", res |-> None]
Unbound == [bound |-> FALSE, early |-> None, local |-> None]

Init ==
    /\ queue = 0 /\ answers = {}
    /\ entry = [held |-> FALSE, age |-> 0]
    /\ hook = Idle
    /\ tracker = Unbound
    /\ row = [status |-> "none", age |-> 0, ended |-> 0]
    /\ call = [pc |-> "new", told |-> None]
    /\ read = [r \in Readers |-> None]
    /\ taken = None
    /\ settled = FALSE /\ broken = FALSE
    /\ faults = 0

\* Something went wrong outside the code.
Fault == faults < MaxFaults /\ faults' = faults + 1

\* A database write answered an error, or its process died.
Breaks == Fault /\ broken' = TRUE

\* The status is told or stored.
Settles(status) == settled' = (settled \/ (status = "unknown" /\ taken = None))

Answer(what) == call' = [pc |-> "over", told |-> what]

-----------------------------------------------------------------------------
(* The row                                                                 *)

Ended(status) == [row EXCEPT !.status = status, !.ended = 0]

\* UPDATE ... WHERE status IN ('running', 'unknown').
Finish(res) == row' = IF row.status \in {"running", "unknown"}
                      THEN Ended(res) ELSE row

\* A row that has run longer than StaleAfter.
Stale_AtOnce == row.status = "running" /\ row.age >= StaleAfter

Stale == row.status = "running" /\ row.age > StaleAfter

Prunable_Finished == row.status \in Outcomes /\ row.ended > Retention

Prunable == row.status \in Outcomes \cup {"unknown"} /\ row.ended > Retention

Missing == row.status \in {"none", "pruned"}

\* What Get answers; a row that is not there is answered unknown.
Reads == IF Stale \/ Missing THEN "unknown" ELSE row.status

-----------------------------------------------------------------------------
(* The tool's call: dispatchWithin                                         *)

\* The router cannot place the server: nothing is recorded or published.
NoRoute ==
    /\ call.pc = "new"
    /\ Answer("error")
    /\ UNCHANGED <<bus, proc, row, read, settled, broken, faults>>

\* Dispatch remembers the request before it publishes the command.
Remember ==
    /\ call.pc = "new"
    /\ entry' = [held |-> TRUE, age |-> 0]
    /\ call' = [call EXCEPT !.pc = "publish"]
    /\ UNCHANGED <<bus, hook, tracker, row, read, taken, settled, broken, faults>>

\* The client may repeat a publish whose answer was lost, and in the end
\* answer an error for one that went out.
Publish ==
    /\ call.pc = "publish"
    /\ \/ /\ queue' = 1 /\ UNCHANGED faults
          /\ call' = [call EXCEPT !.pc = "insert"]
          /\ UNCHANGED entry
       \/ /\ queue' = 2 /\ Fault
          /\ call' = [call EXCEPT !.pc = "insert"]
          /\ UNCHANGED entry
       \/ /\ queue' \in {0, 1} /\ Fault
          /\ entry' = [entry EXCEPT !.held = FALSE]
          /\ Answer("error")
    /\ UNCHANGED <<answers, hook, tracker, row, read, taken, settled, broken>>

\* Tracker.Begin: the row is inserted first.
Insert ==
    /\ call.pc = "insert"
    /\ \/ /\ row' = [status |-> "running", age |-> 0, ended |-> 0]
          /\ call' = [call EXCEPT !.pc = "bind"]
          /\ UNCHANGED <<broken, faults>>
       \/ /\ Breaks
          /\ row' \in {row, [status |-> "running", age |-> 0, ended |-> 0]}
          /\ Answer("error")
    /\ UNCHANGED <<bus, proc, read, settled>>

\* Where Begin goes once it has the lock and the result that came before it.
AfterBind_Forgetful == "get"

AfterBind == IF tracker.early = None THEN "get" ELSE "early"

Bind ==
    /\ call.pc = "bind"
    /\ tracker' = [tracker EXCEPT !.bound = TRUE]
    /\ call' = [call EXCEPT !.pc = AfterBind]
    /\ UNCHANGED <<bus, entry, hook, row, read, taken, settled, broken, faults>>

FinishEarly ==
    /\ call.pc = "early"
    /\ tracker' = [tracker EXCEPT !.early = None]
    /\ \/ /\ Finish(tracker.early)
          /\ call' = [call EXCEPT !.pc = "get"]
          /\ UNCHANGED <<broken, faults>>
       \/ /\ Breaks
          /\ UNCHANGED row \/ Finish(tracker.early)
          /\ Answer("error")
    /\ UNCHANGED <<bus, entry, hook, read, taken, settled>>

\* Store.Await looks at the row first; when the call's context ends, or the
\* read fails, the tool is told the command is running.
AwaitGet ==
    /\ call.pc = "get"
    /\ \/ /\ Reads = "running" /\ call' = [call EXCEPT !.pc = "wait"]
          /\ UNCHANGED settled
       \/ Reads # "running" /\ ~Missing /\ Answer(Reads) /\ Settles(Reads)
       \/ Answer("running") /\ UNCHANGED settled
    /\ UNCHANGED <<bus, proc, row, read, broken, faults>>

AwaitLocal ==
    /\ call.pc = "wait"
    /\ tracker.local # None
    /\ Answer(tracker.local)
    /\ tracker' = [tracker EXCEPT !.local = None]
    /\ UNCHANGED <<bus, entry, hook, row, read, taken, settled, broken, faults>>

AwaitEnds ==
    /\ call.pc = "wait"
    /\ Answer("running")
    /\ UNCHANGED <<bus, proc, row, read, settled, broken, faults>>

-----------------------------------------------------------------------------
(* The bus, the hub and the agent                                          *)

\* The hub forwards the command and the agent answers it, or the hub answers
\* that the agent is not connected; either may be lost on the way.
Execute ==
    /\ queue > 0
    /\ queue' = queue - 1
    /\ \/ \E res \in Outcomes : answers' = answers \cup {res} /\ UNCHANGED faults
       \/ Fault /\ UNCHANGED answers
    /\ UNCHANGED <<proc, row, call, read, settled, broken>>

-----------------------------------------------------------------------------
(* The subscriber: HandleResult and the tracker's observer                 *)

Expired == entry.age > Wait

\* take removes the entry, whether it lets the result through or not.
HeldAfter_Kept == entry.held

HeldAfter == FALSE

Take(res) ==
    /\ hook.pc = "idle"
    /\ res \in answers
    /\ \/ answers' = answers \ {res} /\ UNCHANGED faults
       \/ Fault /\ UNCHANGED answers  \* the publish is repeated
    /\ entry' = [entry EXCEPT !.held = HeldAfter]
    /\ IF entry.held /\ ~Expired
       THEN /\ hook' = [pc |-> "observe", res |-> res]
            /\ taken' = res
       ELSE UNCHANGED <<hook, taken>>
    /\ UNCHANGED <<queue, tracker, row, call, read, settled, broken>>

\* The observer records the outcome itself once it knows the request's id.
AfterObserve == IF tracker.bound THEN "record" ELSE "deliver"

\* Under the tracker's lock: before Begin the result is kept for it.
Observe ==
    /\ hook.pc = "observe"
    /\ hook' = [hook EXCEPT !.pc = AfterObserve]
    /\ tracker' = IF tracker.bound THEN tracker
                  ELSE [tracker EXCEPT !.early = hook.res]
    /\ UNCHANGED <<bus, entry, row, call, read, taken, settled, broken, faults>>

Record ==
    /\ hook.pc = "record"
    /\ hook' = [hook EXCEPT !.pc = "deliver"]
    /\ \/ Finish(hook.res) /\ UNCHANGED <<broken, faults>>
       \/ Breaks /\ UNCHANGED row
    /\ UNCHANGED <<bus, entry, tracker, call, read, taken, settled>>

\* The local channel holds one result.
Deliver ==
    /\ hook.pc = "deliver"
    /\ hook' = Idle
    /\ tracker' = [tracker EXCEPT !.local = IF @ = None THEN hook.res ELSE @]
    /\ UNCHANGED <<bus, entry, row, call, read, taken, settled, broken, faults>>

-----------------------------------------------------------------------------
(* The other replicas, the hourly job, the clock and a crash               *)

\* One read of a get_command_result; it repeats while it is told "running".
\* The request's id is known once the call tried to record it: a call that
\* could not answers the id too, and the read may find no row.
Read(r) ==
    /\ call.pc \notin Before
    /\ read' = [read EXCEPT ![r] = Reads]
    /\ Settles(Reads)
    /\ UNCHANGED <<bus, proc, row, call, broken, faults>>

\* Sweep marks stale rows and then prunes; a row just marked stays.
Sweep ==
    /\ \/ Stale /\ row' = Ended("unknown") /\ Settles("unknown")
       \/ Prunable /\ row' = Ended("pruned") /\ UNCHANGED settled
    /\ UNCHANGED <<bus, proc, call, read, broken, faults>>

Older(age, last) == IF age <= last THEN age + 1 ELSE age

Tick ==
    /\ entry' = [entry EXCEPT !.age = IF entry.held THEN Older(@, Wait) ELSE @]
    /\ row' = [row EXCEPT
         !.age   = IF row.status = "running" THEN Older(@, StaleAfter) ELSE @,
         !.ended = IF row.status \in Outcomes \cup {"unknown"}
                   THEN Older(@, Retention) ELSE @]
    /\ UNCHANGED <<bus, hook, tracker, call, read, taken, settled, broken, faults>>

\* The dispatching process dies with its memory; what is on the bus stays.
Crash ==
    /\ call.pc # "new"
    /\ Breaks
    /\ entry' = [entry EXCEPT !.held = FALSE]
    /\ hook' = Idle
    /\ tracker' = Unbound
    /\ call' = [pc |-> "over",
                told |-> IF call.pc = "over" THEN call.told ELSE "error"]
    /\ UNCHANGED <<bus, row, read, taken, settled>>

Next ==
    \/ NoRoute \/ Remember \/ Publish \/ Insert \/ Bind \/ FinishEarly
    \/ AwaitGet \/ AwaitLocal \/ AwaitEnds
    \/ Execute
    \/ \E res \in Outcomes : Take(res)
    \/ Observe \/ Record \/ Deliver
    \/ \E r \in Readers : Read(r)
    \/ Sweep \/ Tick \/ Crash

Spec == Init /\ [][Next]_vars

\* The call's and the subscriber's threads run on; the hourly job and the
\* clock too.  Nothing is assumed of the bus and the agent.
FairSpec ==
    /\ Spec
    /\ WF_vars(NoRoute \/ Remember \/ Publish \/ Insert \/ Bind \/ FinishEarly
               \/ AwaitGet \/ AwaitLocal \/ AwaitEnds)
    /\ WF_vars(Observe \/ Record \/ Deliver)
    /\ WF_vars(Sweep) /\ WF_vars(Tick)

-----------------------------------------------------------------------------
(* Properties                                                              *)

RecordedOutcomes == {row.status} \cap Outcomes
ToldOutcomes     == ({call.told} \cup {read[r] : r \in Readers}) \cap Outcomes

\* The tool, every get_command_result and the row know one outcome, although
\* a repeated command or result brings two.
OneOutcome ==
    /\ TypeOK
    /\ Cardinality(RecordedOutcomes \cup ToldOutcomes) <= 1

\* Without a failed write, a result that was let through is recorded once the
\* tracker is bound and neither thread still has it in hand, whichever side of
\* Begin it came.
NothingLost ==
    /\ ~broken /\ taken # None /\ tracker.bound
    /\ hook.pc \notin {"observe", "record"} /\ call.pc # "early"
    => row.status \in {taken, "pruned"}

\* Once a command is told or stored as unknown while no result of it was let
\* through, no outcome of it is ever recorded or told: not by a result that
\* comes after, nor where the row was never written.  (A result the subscriber
\* already has in hand may still correct the row.)
UnknownStands == settled => RecordedOutcomes \cup ToldOutcomes = {}

\* A command recorded as running does not stay so: its row ends and is pruned.
RowEnds == row.status = "running" ~> row.status = "pruned"
=============================================================================
