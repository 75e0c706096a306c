------------------------ MODULE CommandResultsProofs ------------------------
(***************************************************************************)
(* The safety of a command's result, for any readers, thresholds and       *)
(* faults.                                                                 *)
(*                                                                         *)
(* Two facts carry it.  Once: the pending entry lets one result through,   *)
(* and every outcome anybody holds, reads or was told is that one.  Aged:  *)
(* the entry is older than the row that was recorded after it, so a row    *)
(* that reads unknown has outlived it (Wait <= StaleAfter); a row that     *)
(* was never written stays so, whatever result comes.                      *)
(***************************************************************************)
EXTENDS CommandResults, FiniteSetTheorems, TLAPS

\* Where the call stands decides what there is.
Stages ==
    /\ call.pc = "new" => ~entry.held /\ hook = Idle /\ tracker = Unbound /\ taken = None
    /\ call.pc \in Before => /\ row.status = "none" /\ ~tracker.bound /\ ~settled
                             /\ \A r \in Readers : read[r] = None
    /\ call.pc = "bind" => row.status # "none" /\ ~tracker.bound
    /\ call.pc \in {"get", "wait", "early"} => tracker.bound
    /\ call.pc # "over" => call.told = None
    /\ call.pc = "early" => tracker.early # None
    /\ tracker.bound => row.status # "none"
    /\ row.status = "none" => /\ call.told \in {None, "error"}
                              /\ \A r \in Readers : read[r] \in {None, "unknown"}

\* One result is let through, and every outcome there is is that one.
Once ==
    /\ taken # None => ~entry.held
    /\ hook.res \in {None, taken}
    /\ tracker.early \in {None, taken}
    /\ tracker.local \in {None, taken}
    /\ row.status \in Outcomes => row.status = taken
    /\ call.told \in Outcomes => call.told = taken
    /\ \A r \in Readers : read[r] \in Outcomes => read[r] = taken

\* The result on its way to the row before the tracker is bound.
Kept ==
    ~broken /\ taken # None /\ ~tracker.bound /\ hook.pc # "observe"
    => tracker.early = taken

Late == ~entry.held \/ Expired

\* The entry is older than the row.
Aged ==
    /\ row.status = "running" => Late \/ entry.age >= row.age
    /\ row.status \in {"unknown", "pruned"} => Late

\* After unknown there is no row to write, or no result to come.
Settled ==
    settled => \/ row.status = "none" /\ call.pc = "over"
               \/ taken = None /\ Late

Facts == Stages /\ Once /\ Kept /\ NothingLost /\ Aged /\ Settled

IInv == TypeOK /\ Facts

-----------------------------------------------------------------------------
\* The records the steps write, field by field.
Entries  == [held : BOOLEAN, age : 0..(Wait + 1)]
Hooks    == [pc : HookPcs, res : Outcomes \cup {None}]
Trackers == [bound : BOOLEAN, early : Outcomes \cup {None}, local : Outcomes \cup {None}]
RowSet   == [status : Statuses, age : 0..(StaleAfter + 1), ended : 0..(Retention + 1)]
CallSet  == [pc : CallPcs, told : Told]

\* TypeOK without what ties two variables together.
Typed ==
    /\ queue \in 0..2 /\ answers \in SUBSET Outcomes
    /\ entry \in Entries /\ hook \in Hooks /\ tracker \in Trackers
    /\ row \in RowSet /\ call \in CallSet
    /\ read \in [Readers -> Told]
    /\ taken \in Outcomes \cup {None}
    /\ settled \in BOOLEAN /\ broken \in BOOLEAN /\ faults \in 0..MaxFaults

Tied ==
    /\ hook.pc = "idle" <=> hook.res = None
    /\ tracker.early # None => ~tracker.bound \/ call.pc = "early"

LEMMA TypeIs == TypeOK <=> Typed /\ Tied
BY DEF TypeOK, Typed, Tied, Entries, Hooks, Trackers, RowSet, CallSet

LEMMA TypeIsNext == TypeOK' <=> Typed' /\ Tied'
BY DEF TypeOK, Typed, Tied, Entries, Hooks, Trackers, RowSet, CallSet

LEMMA EntryFields ==
  /\ \A h \in BOOLEAN : [held |-> h, age |-> 0] \in Entries
  /\ \A e \in Entries : /\ e.held \in BOOLEAN /\ e.age \in 0..(Wait + 1)
                        /\ \A h \in BOOLEAN : [e EXCEPT !.held = h] \in Entries
                        /\ \A n \in 0..(Wait + 1) : [e EXCEPT !.age = n] \in Entries
BY Thresholds DEF Entries

LEMMA HookFields ==
  /\ Idle \in Hooks
  /\ \A p \in HookPcs, o \in Outcomes : [pc |-> p, res |-> o] \in Hooks
  /\ \A h \in Hooks : /\ h.pc \in HookPcs /\ h.res \in Outcomes \cup {None}
                      /\ \A p \in HookPcs : [h EXCEPT !.pc = p] \in Hooks
BY DEF Hooks, Idle, HookPcs

LEMMA TrackerFields ==
  /\ Unbound \in Trackers
  /\ \A t \in Trackers : /\ t.bound \in BOOLEAN
                         /\ t.early \in Outcomes \cup {None} /\ t.local \in Outcomes \cup {None}
                         /\ \A b \in BOOLEAN : [t EXCEPT !.bound = b] \in Trackers
                         /\ \A o \in Outcomes \cup {None} : /\ [t EXCEPT !.early = o] \in Trackers
                                                            /\ [t EXCEPT !.local = o] \in Trackers
BY DEF Trackers, Unbound

LEMMA RowFields ==
  /\ [status |-> "running", age |-> 0, ended |-> 0] \in RowSet
  /\ \A r \in RowSet :
       /\ r.status \in Statuses /\ r.age \in 0..(StaleAfter + 1) /\ r.ended \in 0..(Retention + 1)
       /\ \A s \in Statuses : [r EXCEPT !.status = s, !.ended = 0] \in RowSet
       /\ \A a \in 0..(StaleAfter + 1), n \in 0..(Retention + 1) :
            [r EXCEPT !.age = a, !.ended = n] \in RowSet
<1>1. 0 \in 0..(StaleAfter + 1) /\ 0 \in 0..(Retention + 1) /\ "running" \in Statuses
  BY Thresholds DEF Statuses
<1> QED BY <1>1 DEF RowSet

LEMMA CallFields ==
  /\ \A t \in Told : [pc |-> "over", told |-> t] \in CallSet
  /\ \A c \in CallSet : /\ c.pc \in CallPcs /\ c.told \in Told
                        /\ \A p \in CallPcs : [c EXCEPT !.pc = p] \in CallSet
BY DEF CallSet, CallPcs

\* Where a call goes, and how it answers.
LEMMA CallMoves ==
  ASSUME Typed
  PROVE  /\ \A p \in {"publish", "insert", "bind", "early", "get", "wait"} :
              [call EXCEPT !.pc = p] \in CallSet
         /\ \A t \in Told : [pc |-> "over", told |-> t] \in CallSet
         /\ "error" \in Told /\ "running" \in Told
<1>1. \A p \in {"publish", "insert", "bind", "early", "get", "wait"} : p \in CallPcs
  BY DEF CallPcs
<1> QED BY <1>1, CallFields DEF Typed, Told

-----------------------------------------------------------------------------
\* A command nobody has sent yet.
LEMMA InitHolds == ASSUME Init PROVE IInv
<1>1. Typed
  <2>1. entry \in Entries /\ hook \in Hooks /\ tracker \in Trackers
    BY EntryFields, HookFields, TrackerFields DEF Init
  <2>2. row \in RowSet
    BY Thresholds DEF Init, RowSet, Statuses
  <2>3. call \in CallSet /\ read \in [Readers -> Told]
    BY DEF Init, CallSet, CallPcs, Told
  <2>4. queue \in 0..2 /\ faults \in 0..MaxFaults
    BY Thresholds DEF Init
  <2> QED BY <2>1, <2>2, <2>3, <2>4 DEF Init, Typed
<1>2. Tied /\ Stages
  BY DEF Init, Tied, Stages, Idle, Unbound, Before
<1>3. Once /\ Kept /\ NothingLost /\ Aged /\ Settled
  BY NoneIsOther
     DEF Init, Once, Kept, NothingLost, Aged, Settled, Late, Expired, Idle, Unbound, Outcomes
<1> QED BY <1>1, <1>2, <1>3, TypeIs DEF IInv, Facts

\* What the row may read, and what an end of it writes.
LEMMA RowKept ==
  ASSUME Typed, NEW o \in Outcomes
  PROVE  /\ Finish(o) => row' \in RowSet
         /\ Ended("unknown") \in RowSet /\ Ended("pruned") \in RowSet
BY RowFields DEF Finish, Ended, Typed, Statuses

\* A fault counts within the bound.
LEMMA FaultKept ==
  ASSUME Typed
  PROVE  /\ Fault => faults' \in 0..MaxFaults
         /\ Breaks => faults' \in 0..MaxFaults /\ broken' \in BOOLEAN
<1>1. faults \in 0..MaxFaults
  BY DEF Typed
<1>2. Fault => faults' \in 0..MaxFaults
  BY <1>1, Thresholds DEF Fault
<1> QED BY <1>2 DEF Breaks

\* What a read of the row tells.
LEMMA ReadsTold ==
  ASSUME Typed
  PROVE  Reads \in Told
BY RowFields DEF Typed, Reads, Missing, Told, Statuses

\* Every step keeps the types.
LEMMA TypeStep == ASSUME TypeOK, Stages, [Next]_vars PROVE TypeOK'
<1>a. Typed /\ Tied
  BY TypeIs
<1> USE <1>a
<1> USE DEF bus, proc
<1>1. CASE NoRoute
  BY <1>1, CallFields, TypeIsNext DEF NoRoute, Answer, Typed, Tied, Told, Stages
<1>2. CASE Remember
  <2>1. Typed' BY <1>2, EntryFields, CallFields DEF Remember, Typed, CallPcs
  <2>2. Tied' BY <1>2 DEF Remember, Tied, Stages, Unbound
  <2> QED BY <2>1, <2>2, TypeIsNext
<1>3. CASE Publish
  <2>1. Typed'
    <3>1. queue' \in 0..2 BY <1>3 DEF Publish
    <3>2. entry' \in Entries BY <1>3, EntryFields DEF Publish, Typed
    <3>3. call' \in CallSet BY <1>3, CallMoves DEF Publish, Answer
    <3>4. faults' \in 0..MaxFaults BY <1>3, FaultKept DEF Publish, Typed
    <3> QED BY <1>3, <3>1, <3>2, <3>3, <3>4 DEF Publish, Typed
  <2>2. Tied' BY <1>3 DEF Publish, Tied, Stages, Before, Answer
  <2> QED BY <2>1, <2>2, TypeIsNext
<1>4. CASE Insert
  <2>1. Typed' BY <1>4, RowFields, CallFields, FaultKept DEF Insert, Typed, CallPcs, Told, Answer
  <2>2. Tied' BY <1>4 DEF Insert, Tied, Stages, Before, Answer
  <2> QED BY <2>1, <2>2, TypeIsNext
<1>5. CASE Bind
  <2>1. Typed' BY <1>5, TrackerFields, CallFields DEF Bind, AfterBind, Typed, CallPcs
  <2>2. Tied' BY <1>5, TrackerFields DEF Bind, AfterBind, Tied, Trackers, Typed, CallSet
  <2> QED BY <2>1, <2>2, TypeIsNext
<1>6. CASE FinishEarly
  <2>0. tracker.early \in Outcomes
    BY <1>6, TrackerFields DEF Typed, FinishEarly, Stages
  <2>1. Typed'
    <3>1. row' \in RowSet BY <1>6, <2>0, RowKept DEF FinishEarly, Typed
    <3>2. tracker' \in Trackers BY <1>6, TrackerFields DEF FinishEarly, Typed
    <3>3. call' \in CallSet BY <1>6, CallMoves DEF FinishEarly, Answer
    <3>4. faults' \in 0..MaxFaults /\ broken' \in BOOLEAN
      BY <1>6, FaultKept DEF FinishEarly, Typed
    <3> QED BY <1>6, <3>1, <3>2, <3>3, <3>4 DEF FinishEarly, Typed
  <2>2. Tied' BY <1>6 DEF FinishEarly, Tied, Typed, Trackers, Answer
  <2> QED BY <2>1, <2>2, TypeIsNext
<1>7. CASE AwaitGet
  <2>0. Reads \in Told
    BY ReadsTold
  <2>1. Typed'
    <3>1. call' \in CallSet BY <1>7, <2>0, CallMoves DEF AwaitGet, Answer
    <3> QED BY <1>7, <3>1 DEF AwaitGet, Settles, Typed
  <2>2. Tied' BY <1>7 DEF AwaitGet, Tied, Stages, Answer
  <2> QED BY <2>1, <2>2, TypeIsNext
<1>8. CASE AwaitLocal
  <2>1. Typed' BY <1>8, TrackerFields, CallFields DEF AwaitLocal, Typed, Told, Answer
  <2>2. Tied' BY <1>8 DEF AwaitLocal, Tied, Typed, Trackers, Answer
  <2> QED BY <2>1, <2>2, TypeIsNext
<1>9. CASE AwaitEnds
  BY <1>9, CallFields, TypeIsNext DEF AwaitEnds, Typed, Tied, Told, Answer
<1>10. CASE Execute
  <2>1. Typed' BY <1>10, FaultKept, Thresholds DEF Execute, Typed
  <2>2. Tied' BY <1>10 DEF Execute, Tied
  <2> QED BY <2>1, <2>2, TypeIsNext
<1>11. ASSUME NEW res \in Outcomes, Take(res) PROVE TypeOK'
  <2>1. Typed'
    BY <1>11, FaultKept, EntryFields, HookFields DEF Take, HeldAfter, Typed, HookPcs
  <2>2. Tied' BY <1>11, NoneIsOther DEF Take, Tied
  <2> QED BY <2>1, <2>2, TypeIsNext
<1>12. CASE Observe
  <2>1. Typed' BY <1>12, HookFields, TrackerFields DEF Observe, AfterObserve, Typed, HookPcs
  <2>2. Tied' BY <1>12 DEF Observe, AfterObserve, Tied, Typed, Hooks, Trackers
  <2> QED BY <2>1, <2>2, TypeIsNext
<1>13. CASE Record
  <2>0. hook.res \in Outcomes
    BY <1>13, HookFields DEF Record, Typed, Tied
  <2>1. Typed' BY <1>13, <2>0, RowKept, HookFields, FaultKept DEF Record, Typed, HookPcs
  <2>2. Tied' BY <1>13 DEF Record, Tied, Typed, Hooks
  <2> QED BY <2>1, <2>2, TypeIsNext
<1>14. CASE Deliver
  <2>1. Typed' BY <1>14, HookFields, TrackerFields DEF Deliver, Typed
  <2>2. Tied' BY <1>14 DEF Deliver, Tied, Typed, Trackers, Idle
  <2> QED BY <2>1, <2>2, TypeIsNext
<1>15. ASSUME NEW r \in Readers, Read(r) PROVE TypeOK'
  <2>1. Typed' BY <1>15, ReadsTold DEF Read, Settles, Typed
  <2>2. Tied' BY <1>15 DEF Read, Tied
  <2> QED BY <2>1, <2>2, TypeIsNext
<1>16. CASE Sweep
  <2>1. row' \in RowSet
    BY <1>16, RowFields DEF Sweep, Ended, Typed, Statuses
  <2> QED BY <1>16, <2>1, TypeIsNext DEF Sweep, Settles, Typed, Tied
<1>17. CASE Tick
  <2> DEFINE a1 == IF entry.held THEN Older(entry.age, Wait) ELSE entry.age
             a2 == IF row.status = "running" THEN Older(row.age, StaleAfter) ELSE row.age
             a3 == IF row.status \in Outcomes \cup {"unknown"}
                   THEN Older(row.ended, Retention) ELSE row.ended
  <2>0. \A last \in Nat : \A age \in 0..(last + 1) : Older(age, last) \in 0..(last + 1)
    BY DEF Older
  <2>1. a1 \in 0..(Wait + 1) /\ a2 \in 0..(StaleAfter + 1) /\ a3 \in 0..(Retention + 1)
    <3>1. entry.age \in 0..(Wait + 1) BY EntryFields DEF Typed
    <3>2. row.age \in 0..(StaleAfter + 1) /\ row.ended \in 0..(Retention + 1)
      BY RowFields DEF Typed
    <3> QED BY <2>0, <3>1, <3>2, Thresholds
  <2>2. entry' = [entry EXCEPT !.age = a1] /\ row' = [row EXCEPT !.age = a2, !.ended = a3]
    BY <1>17 DEF Tick
  <2> HIDE DEF a1, a2, a3
  <2>3. entry' \in Entries /\ row' \in RowSet
    BY <2>1, <2>2, EntryFields, RowFields DEF Typed
  <2> QED BY <1>17, <2>3, TypeIsNext DEF Tick, Typed, Tied
<1>18. CASE Crash
  <2>1. Typed'
    BY <1>18, EntryFields, HookFields, TrackerFields, CallFields, FaultKept DEF Crash, Typed, Told
  <2>2. Tied' BY <1>18 DEF Crash, Tied, Idle, Unbound
  <2> QED BY <2>1, <2>2, TypeIsNext
<1>19. CASE UNCHANGED vars BY <1>19, TypeIsNext DEF vars, Typed, Tied
<1> QED
  BY <1>1, <1>2, <1>3, <1>4, <1>5, <1>6, <1>7, <1>8, <1>9, <1>10, <1>11, <1>12, <1>13,
     <1>14, <1>15, <1>16, <1>17, <1>18, <1>19 DEF Next

-----------------------------------------------------------------------------
\* What a write of one field leaves of the others.
LEMMA EntryWrites ==
  \A e \in Entries : \A x :
    /\ [e EXCEPT !.held = x].held = x /\ [e EXCEPT !.held = x].age = e.age
    /\ [e EXCEPT !.age = x].age = x /\ [e EXCEPT !.age = x].held = e.held
BY DEF Entries

LEMMA HookWrites ==
  \A h \in Hooks : \A x : [h EXCEPT !.pc = x].pc = x /\ [h EXCEPT !.pc = x].res = h.res
BY DEF Hooks

LEMMA TrackerWrites ==
  \A t \in Trackers : \A x :
    /\ [t EXCEPT !.bound = x].bound = x /\ [t EXCEPT !.bound = x].early = t.early
    /\ [t EXCEPT !.bound = x].local = t.local
    /\ [t EXCEPT !.early = x].early = x /\ [t EXCEPT !.early = x].bound = t.bound
    /\ [t EXCEPT !.early = x].local = t.local
    /\ [t EXCEPT !.local = x].local = x /\ [t EXCEPT !.local = x].bound = t.bound
    /\ [t EXCEPT !.local = x].early = t.early
BY DEF Trackers

LEMMA RowWrites ==
  \A w \in RowSet : \A x, y :
    /\ [w EXCEPT !.status = x, !.ended = y].status = x
    /\ [w EXCEPT !.status = x, !.ended = y].age = w.age
    /\ [w EXCEPT !.age = x, !.ended = y].status = w.status
    /\ [w EXCEPT !.age = x, !.ended = y].age = x
BY DEF RowSet

LEMMA CallWrites ==
  \A c \in CallSet : \A x : [c EXCEPT !.pc = x].pc = x /\ [c EXCEPT !.pc = x].told = c.told
BY DEF CallSet

\* What can be said of the fields of the variables.
LEMMA Shapes ==
  ASSUME TypeOK
  PROVE  /\ Typed /\ Tied
         /\ taken \in Outcomes \cup {None}
         /\ entry.held \in BOOLEAN /\ entry.age \in Nat
         /\ hook.pc \in HookPcs /\ hook.res \in Outcomes \cup {None}
         /\ tracker.bound \in BOOLEAN
         /\ tracker.early \in Outcomes \cup {None} /\ tracker.local \in Outcomes \cup {None}
         /\ row.status \in Statuses /\ row.age \in Nat
         /\ call.pc \in CallPcs /\ call.told \in Told /\ settled \in BOOLEAN
         /\ Wait \in Nat /\ StaleAfter \in Nat /\ Wait <= StaleAfter
<1>1. Typed /\ Tied
  BY TypeIs
<1>2. entry.age \in Nat /\ row.age \in Nat
  <2>1. entry.age \in 0..(Wait + 1) /\ row.age \in 0..(StaleAfter + 1)
    BY <1>1, EntryFields, RowFields DEF Typed
  <2> QED BY <2>1, Thresholds
<1> QED
  BY <1>1, <1>2, EntryFields, HookFields, TrackerFields, RowFields, CallFields, Thresholds DEF Typed

-----------------------------------------------------------------------------
\* The call ends, told what the row reads or nothing of an outcome.
LEMMA AnswerHolds ==
  ASSUME IInv, NEW t \in Told, Answer(t), call.pc # "early", 
         UNCHANGED <<bus, proc, row, read, broken>>,
         t \in Outcomes => t = taken, row.status = "none" => t = "error",
         settled' => settled \/ (taken = None /\ Late)
  PROVE  Facts'
<1>1. call'.pc = "over" /\ call'.told = t
  BY DEF Answer
<1> USE <1>1 DEF IInv, Facts, proc
<1>2. Stages'
  BY DEF Stages, Before
<1>3. Once'
  BY DEF Once
<1>4. Kept' /\ NothingLost'
  BY DEF Kept, NothingLost
<1>5. Aged' /\ Settled'
  BY DEF Aged, Settled, Late, Expired
<1> QED BY <1>2, <1>3, <1>4, <1>5

\* What the row reads is the result let through, or unknown when none can be.
LEMMA ReadsRight ==
  ASSUME IInv
  PROVE  /\ Reads \in Told
         /\ Reads \in Outcomes => Reads = taken
         /\ row.status = "none" => Reads = "unknown"
         /\ Reads = "unknown" /\ row.status # "none" => Late
<1>1. Reads \in Told
  BY Shapes, ReadsTold DEF IInv
<1>2. Stale => Late
  BY Shapes DEF IInv, Facts, Aged, Stale, Late, Expired
<1>3. row.status \in {"unknown", "pruned"} => Late
  BY DEF IInv, Facts, Aged
<1>4. Reads \in Outcomes => Reads = taken
  BY DEF Reads, IInv, Facts, Once, Outcomes
<1> QED BY <1>1, <1>2, <1>3, <1>4 DEF Reads, Missing

\* Telling or storing an unknown that is late.
LEMMA SettlesLate ==
  ASSUME NEW t, Settles(t), t = "unknown" => Late
  PROVE  settled' => settled \/ (taken = None /\ Late)
BY DEF Settles

\* The steps that only end the call.
LEMMA EndsHold ==
  ASSUME IInv, NoRoute \/ AwaitEnds
  PROVE  Facts'
<1>1. "error" \in Told /\ "running" \in Told
  BY DEF Told
<1>2. CASE NoRoute
  BY <1>1, <1>2, AnswerHolds DEF NoRoute, Outcomes
<1>3. CASE AwaitEnds
  <2>1. row.status # "none"
    BY <1>3 DEF AwaitEnds, IInv, Facts, Stages
  <2> QED BY <1>1, <1>3, <2>1, AnswerHolds DEF AwaitEnds, Outcomes
<1> QED BY <1>2, <1>3

\* The call looks at the row.
LEMMA AwaitGetHolds ==
  ASSUME IInv, AwaitGet
  PROVE  Facts'
<1>1. UNCHANGED <<bus, proc, row, read, broken>> /\ call.pc = "get"
  BY DEF AwaitGet
<1>2. row.status # "none"
  BY <1>1 DEF IInv, Facts, Stages
<1>3. CASE call' = [call EXCEPT !.pc = "wait"] /\ UNCHANGED settled
  <2>1. call'.pc = "wait" /\ call'.told = call.told
    BY <1>3, CallWrites, Shapes DEF IInv, Typed
  <2>2. Stages'
    BY <1>1, <1>2, <1>3, <2>1 DEF IInv, Facts, proc, Stages, Before
  <2>3. Once' /\ Kept' /\ NothingLost' /\ Aged' /\ Settled'
    BY <1>1, <1>2, <1>3, <2>1
       DEF IInv, Facts, proc, Once, Kept, NothingLost, Aged, Settled, Late, Expired
  <2> QED BY <2>2, <2>3 DEF Facts
<1>4. CASE Answer(Reads) /\ Settles(Reads)
  <2>1. settled' => settled \/ (taken = None /\ Late)
    BY <1>2, <1>4, ReadsRight, SettlesLate
  <2> QED BY <1>1, <1>2, <1>4, <2>1, ReadsRight, AnswerHolds
<1>5. CASE Answer("running") /\ UNCHANGED settled
  BY <1>1, <1>2, <1>5, AnswerHolds DEF Told, Outcomes
<1> QED BY <1>3, <1>4, <1>5 DEF AwaitGet

\* The call gets the result from the subscriber.
LEMMA AwaitLocalHolds ==
  ASSUME IInv, AwaitLocal
  PROVE  Facts'
<1>1. /\ call.pc = "wait" /\ tracker.local # None
      /\ UNCHANGED <<bus, entry, hook, row, read, taken, settled, broken>>
      /\ tracker' = [tracker EXCEPT !.local = None]
  BY DEF AwaitLocal
<1>2. call'.pc = "over" /\ call'.told = tracker.local
  BY DEF AwaitLocal, Answer
<1>3. tracker'.bound = tracker.bound /\ tracker'.early = tracker.early /\ tracker'.local = None
  BY <1>1, TrackerWrites, Shapes DEF IInv, Typed
<1>4. tracker.local \in Outcomes /\ tracker.local = taken
  BY <1>1, Shapes DEF IInv, Facts, Once
<1> USE <1>1, <1>2, <1>3, <1>4 DEF IInv, Facts
<1>5. Stages'
  BY DEF Stages, Before
<1>6. Once'
  BY DEF Once
<1>7. Kept' /\ NothingLost'
  BY DEF Kept, NothingLost
<1>8. Aged' /\ Settled'
  BY DEF Aged, Settled, Late, Expired, Outcomes
<1> QED BY <1>5, <1>6, <1>7, <1>8

\* The request is remembered.
LEMMA RememberHolds ==
  ASSUME IInv, Remember
  PROVE  Facts'
<1>1. /\ call.pc = "new" /\ UNCHANGED <<bus, hook, tracker, row, read, taken, settled, broken>>
      /\ entry' = [held |-> TRUE, age |-> 0]
  BY DEF Remember
<1>2. call'.pc = "publish" /\ call'.told = call.told
  BY CallWrites, Shapes DEF IInv, Typed, Remember
<1>3. /\ hook = Idle /\ tracker = Unbound /\ taken = None /\ row.status = "none"
      /\ call.told = None /\ ~settled /\ \A r \in Readers : read[r] = None
  BY <1>1 DEF IInv, Facts, Stages, Before
<1>4. hook.res = None /\ ~tracker.bound /\ tracker.early = None /\ tracker.local = None
  BY <1>3 DEF Idle, Unbound
<1>5. Stages'
  BY <1>1, <1>2, <1>3, <1>4 DEF Stages, Before
<1>6. Once'
  BY <1>1, <1>2, <1>3, <1>4, NoneIsOther DEF Once, Outcomes
<1>7. Kept' /\ NothingLost'
  BY <1>1, <1>2, <1>3, <1>4 DEF Kept, NothingLost
<1>8. Aged' /\ Settled'
  BY <1>1, <1>2, <1>3, NoneIsOther DEF Aged, Settled
<1> QED BY <1>5, <1>6, <1>7, <1>8 DEF Facts

\* The command is published, or the publish fails.
LEMMA PublishHolds ==
  ASSUME IInv, Publish
  PROVE  Facts'
<1>1. call.pc = "publish" /\ UNCHANGED <<hook, tracker, row, read, taken, settled, broken>>
  BY DEF Publish
<1>2. \/ entry' = entry
      \/ entry'.held = FALSE /\ entry'.age = entry.age
  <2>1. entry \in Entries
    BY Shapes DEF IInv, Typed
  <2>2. entry' = entry \/ entry' = [entry EXCEPT !.held = FALSE]
    BY DEF Publish
  <2>3. ASSUME entry' = [entry EXCEPT !.held = FALSE]
        PROVE  entry'.held = FALSE /\ entry'.age = entry.age
    BY <2>1, <2>3, EntryWrites
  <2> QED BY <2>2, <2>3
<1>3. \/ call'.pc = "insert" /\ call'.told = call.told
      \/ call'.pc = "over" /\ call'.told = "error"
  <2>1. call \in CallSet
    BY Shapes DEF IInv, Typed
  <2>2. call' = [call EXCEPT !.pc = "insert"] \/ call' = [pc |-> "over", told |-> "error"]
    BY DEF Publish, Answer
  <2>3. ASSUME call' = [call EXCEPT !.pc = "insert"]
        PROVE  call'.pc = "insert" /\ call'.told = call.told
    BY <2>1, <2>3, CallWrites
  <2> QED BY <2>2, <2>3
<1>4. Stages'
  BY <1>1, <1>3 DEF IInv, Facts, Stages, Before
<1>5. Once'
  BY <1>1, <1>2, <1>3 DEF IInv, Facts, Once, Outcomes
<1>6. Kept' /\ NothingLost'
  BY <1>1, <1>3 DEF IInv, Facts, Stages, Before, Kept, NothingLost
<1>7. Late => Late'
  BY <1>2 DEF Late, Expired
<1>8. Aged'
  BY <1>1, <1>2, <1>7 DEF IInv, Facts, Aged, Late
<1>9. Settled'
  BY <1>1 DEF IInv, Facts, Stages, Before, Settled
<1> QED BY <1>4, <1>5, <1>6, <1>8, <1>9 DEF Facts

\* The row is inserted.
LEMMA InsertHolds ==
  ASSUME IInv, Insert
  PROVE  Facts'
<1>1. call.pc = "insert" /\ UNCHANGED <<entry, hook, tracker, taken, read, settled>>
  BY DEF Insert, proc
<1>2. \/ /\ row'.status = "running" /\ row'.age = 0 /\ UNCHANGED broken
         /\ call'.pc = "bind" /\ call'.told = call.told
      \/ /\ \/ row' = row
            \/ row'.status = "running" /\ row'.age = 0
         /\ call'.pc = "over" /\ call'.told = "error" /\ broken' = TRUE
  <2>1. call \in CallSet
    BY Shapes DEF IInv, Typed
  <2>2. \/ /\ row' = [status |-> "running", age |-> 0, ended |-> 0] /\ UNCHANGED broken
           /\ call' = [call EXCEPT !.pc = "bind"]
        \/ /\ row' \in {row, [status |-> "running", age |-> 0, ended |-> 0]}
           /\ call' = [pc |-> "over", told |-> "error"] /\ broken' = TRUE
    BY DEF Insert, Answer, Breaks
  <2>3. ASSUME call' = [call EXCEPT !.pc = "bind"]
        PROVE  call'.pc = "bind" /\ call'.told = call.told
    BY <2>1, <2>3, CallWrites
  <2> QED BY <2>2, <2>3
<1>3. /\ row.status = "none" /\ ~tracker.bound /\ ~settled
      /\ \A r \in Readers : read[r] = None
  BY <1>1 DEF IInv, Facts, Stages, Before
<1>4. Stages'
  BY <1>1, <1>2, <1>3 DEF IInv, Facts, Stages, Before
<1>5. Once'
  BY <1>1, <1>2 DEF IInv, Facts, Once, Outcomes
<1>6. Kept' /\ NothingLost'
  BY <1>1, <1>2, <1>3 DEF IInv, Facts, Kept, NothingLost
<1>7. Aged'
  BY <1>1, <1>2, <1>3, Shapes DEF IInv, Aged, Late, Expired
<1>8. Settled'
  BY <1>1, <1>3 DEF Settled
<1> QED BY <1>4, <1>5, <1>6, <1>7, <1>8 DEF Facts

\* Begin has the lock.
LEMMA BindHolds ==
  ASSUME IInv, Bind
  PROVE  Facts'
<1>1. call.pc = "bind" /\ UNCHANGED <<entry, hook, row, read, taken, settled, broken>>
  BY DEF Bind
<1>2. tracker'.bound = TRUE /\ tracker'.early = tracker.early /\ tracker'.local = tracker.local
  BY TrackerWrites, Shapes DEF IInv, Typed, Bind
<1>3. call'.pc = (IF tracker.early = None THEN "get" ELSE "early") /\ call'.told = call.told
  BY CallWrites, Shapes DEF IInv, Typed, Bind, AfterBind
<1>4. row.status # "none" /\ ~tracker.bound
  BY <1>1 DEF IInv, Facts, Stages
<1>5. Stages'
  BY <1>1, <1>2, <1>3, <1>4 DEF IInv, Facts, Stages, Before
<1>6. Once'
  BY <1>1, <1>2, <1>3 DEF IInv, Facts, Once
<1>7. Kept'
  BY <1>2 DEF Kept
<1>8. NothingLost'
  BY <1>1, <1>2, <1>3, <1>4, Shapes DEF IInv, Facts, Kept, NothingLost
<1>9. Aged' /\ Settled'
  BY <1>1, <1>4 DEF IInv, Facts, Aged, Settled, Late, Expired
<1> QED BY <1>5, <1>6, <1>7, <1>8, <1>9 DEF Facts

\* What an UPDATE that ends the row writes.
LEMMA FinishWrites ==
  ASSUME row \in RowSet, NEW o, Finish(o)
  PROVE  \/ row.status \in {"running", "unknown"} /\ row'.status = o /\ row'.age = row.age
         \/ row.status \notin {"running", "unknown"} /\ row' = row
BY RowWrites DEF Finish, Ended

\* Begin finishes the result that came before it.
LEMMA FinishEarlyHolds ==
  ASSUME IInv, FinishEarly
  PROVE  Facts'
<1>1. call.pc = "early" /\ UNCHANGED <<entry, hook, read, taken, settled>>
  BY DEF FinishEarly
<1>2. /\ tracker'.bound = tracker.bound /\ tracker'.early = None
      /\ tracker'.local = tracker.local
  BY TrackerWrites, Shapes DEF IInv, Typed, FinishEarly
<1>3. tracker.bound /\ row.status # "none" /\ tracker.early \in Outcomes /\ tracker.early = taken
  BY <1>1, Shapes DEF IInv, Facts, Stages, Once
<1>4. \/ /\ Finish(taken) /\ UNCHANGED broken
         /\ call'.pc = "get" /\ call'.told = call.told
      \/ /\ row' = row \/ Finish(taken)
         /\ call'.pc = "over" /\ call'.told = "error" /\ broken' = TRUE
  <2>1. call \in CallSet
    BY Shapes DEF IInv, Typed
  <2>2. \/ Finish(taken) /\ UNCHANGED broken /\ call' = [call EXCEPT !.pc = "get"]
        \/ /\ row' = row \/ Finish(taken)
           /\ call' = [pc |-> "over", told |-> "error"] /\ broken' = TRUE
    BY <1>3 DEF FinishEarly, Answer, Breaks
  <2>3. ASSUME call' = [call EXCEPT !.pc = "get"]
        PROVE  call'.pc = "get" /\ call'.told = call.told
    BY <2>1, <2>3, CallWrites
  <2> QED BY <2>2, <2>3
<1>5. Finish(taken) => \/ row.status \in {"running", "unknown"} /\ row'.status = taken
                       \/ row.status \notin {"running", "unknown"} /\ row' = row
  BY FinishWrites, Shapes DEF IInv, Typed
<1>6. row' = row \/ row'.status = taken
  BY <1>4, <1>5
<1>7. Stages'
  BY <1>1, <1>2, <1>3, <1>4, <1>6 DEF IInv, Facts, Stages, Before, Outcomes
<1>8. Once'
  BY <1>1, <1>2, <1>3, <1>4, <1>6 DEF IInv, Facts, Once, Outcomes
<1>9. Kept'
  BY <1>2, <1>3 DEF Kept
<1>10. NothingLost'
  <2>1. row.status \in Outcomes => row.status = taken
    BY DEF IInv, Facts, Once
  <2> QED BY <1>1, <1>3, <1>4, <1>5, <2>1, Shapes DEF IInv, NothingLost, Statuses
<1>11. Aged' /\ Settled'
  BY <1>1, <1>3, <1>4, <1>6, NoneIsOther DEF IInv, Facts, Aged, Settled, Late, Expired, Outcomes
<1> QED BY <1>7, <1>8, <1>9, <1>10, <1>11 DEF Facts

\* The command goes to the agent; nothing of the process changes.
LEMMA ExecuteHolds ==
  ASSUME IInv, Execute
  PROVE  Facts'
BY DEF IInv, Facts, Execute, proc, Stages, Once, Kept, NothingLost, Aged, Settled, Late, Expired

\* The subscriber takes the entry.
LEMMA TakeHolds ==
  ASSUME IInv, NEW res \in Outcomes, Take(res)
  PROVE  Facts'
<1>1. hook.pc = "idle" /\ UNCHANGED <<tracker, row, call, read, settled, broken>>
  BY DEF Take
<1>2. entry'.held = FALSE /\ entry'.age = entry.age
  BY EntryWrites, Shapes DEF IInv, Typed, Take, HeldAfter
<1>3. CASE entry.held /\ ~Expired
  <2>1. hook' = [pc |-> "observe", res |-> res] /\ taken' = res
    BY <1>3 DEF Take
  <2>2. hook'.pc = "observe" /\ hook'.res = res
    BY <2>1
  <2>3. taken = None /\ call.pc # "new"
    BY <1>3 DEF IInv, Facts, Once, Stages
  <2>4. Stages'
    BY <1>1, <2>3 DEF IInv, Facts, Stages, Before
  <2>5. Once'
    BY <1>1, <1>2, <2>1, <2>2, <2>3, NoneIsOther DEF IInv, Facts, Once
  <2>6. Kept' /\ NothingLost'
    BY <2>2 DEF Kept, NothingLost
  <2>7. Aged' /\ Settled'
    BY <1>1, <1>2, <1>3 DEF IInv, Facts, Aged, Settled, Late
  <2> QED BY <2>4, <2>5, <2>6, <2>7 DEF Facts
<1>4. CASE ~(entry.held /\ ~Expired)
  <2>1. hook' = hook /\ taken' = taken
    BY <1>4 DEF Take
  <2>2. Stages'
    BY <1>1, <1>2, <2>1 DEF IInv, Facts, Stages, Before
  <2>3. Once'
    BY <1>1, <1>2, <2>1 DEF IInv, Facts, Once
  <2>4. Kept' /\ NothingLost'
    BY <1>1, <2>1 DEF IInv, Facts, Kept, NothingLost
  <2>5. Aged' /\ Settled'
    BY <1>1, <1>2, <2>1 DEF IInv, Facts, Aged, Settled, Late
  <2> QED BY <2>2, <2>3, <2>4, <2>5 DEF Facts
<1> QED BY <1>3, <1>4

\* The tracker's observer, before or after Begin.
LEMMA ObserveHolds ==
  ASSUME IInv, Observe
  PROVE  Facts'
<1>1. hook.pc = "observe" /\ UNCHANGED <<entry, row, call, read, taken, settled, broken>>
  BY DEF Observe
<1>2. hook'.pc = (IF tracker.bound THEN "record" ELSE "deliver") /\ hook'.res = hook.res
  BY HookWrites, Shapes DEF IInv, Typed, Observe, AfterObserve
<1>3. /\ tracker'.bound = tracker.bound /\ tracker'.local = tracker.local
      /\ tracker'.early = IF tracker.bound THEN tracker.early ELSE hook.res
  BY TrackerWrites, Shapes DEF IInv, Typed, Observe
<1>4. hook.res = taken /\ hook # Idle
  BY <1>1, Shapes DEF IInv, Facts, Once, Tied, Idle
<1>5. Stages'
  BY <1>1, <1>2, <1>3, <1>4 DEF IInv, Facts, Stages, Before
<1>6. Once'
  BY <1>1, <1>2, <1>3, <1>4 DEF IInv, Facts, Once
<1>7. Kept' /\ NothingLost'
  BY <1>1, <1>2, <1>3, <1>4 DEF IInv, Facts, Kept, NothingLost
<1>8. Aged' /\ Settled'
  BY <1>1 DEF IInv, Facts, Aged, Settled, Late, Expired
<1> QED BY <1>5, <1>6, <1>7, <1>8 DEF Facts

\* The observer records the outcome.
LEMMA RecordHolds ==
  ASSUME IInv, Record
  PROVE  Facts'
<1>1. hook.pc = "record" /\ UNCHANGED <<entry, tracker, call, read, taken, settled>>
  BY DEF Record
<1>2. hook'.pc = "deliver" /\ hook'.res = hook.res
  BY HookWrites, Shapes DEF IInv, Typed, Record
<1>3. hook.res = taken /\ hook.res \in Outcomes /\ hook # Idle
  BY <1>1, Shapes DEF IInv, Facts, Once, Tied, Idle
<1>4. \/ Finish(taken) /\ UNCHANGED broken
      \/ row' = row /\ broken' = TRUE
  BY <1>3 DEF Record, Breaks
<1>5. Finish(taken) => \/ row.status \in {"running", "unknown"} /\ row'.status = taken
                       \/ row.status \notin {"running", "unknown"} /\ row' = row
  BY FinishWrites, Shapes DEF IInv, Typed
<1>6. \/ row' = row
      \/ row.status # "none" /\ row'.status = taken
  BY <1>4, <1>5
<1>7. Stages'
  BY <1>1, <1>2, <1>3, <1>6 DEF IInv, Facts, Stages, Before, Outcomes
<1>8. Once'
  BY <1>1, <1>2, <1>3, <1>6 DEF IInv, Facts, Once, Outcomes
<1>9. Kept'
  BY <1>1, <1>4 DEF IInv, Facts, Kept
<1>10. NothingLost'
  <2>1. row.status \in Outcomes => row.status = taken
    BY DEF IInv, Facts, Once
  <2>2. tracker.bound => row.status # "none"
    BY DEF IInv, Facts, Stages
  <2> QED BY <1>1, <1>4, <1>5, <2>1, <2>2, Shapes DEF IInv, NothingLost, Statuses
<1>11. Aged' /\ Settled'
  BY <1>1, <1>3, <1>6, NoneIsOther DEF IInv, Facts, Aged, Settled, Late, Expired, Outcomes
<1> QED BY <1>7, <1>8, <1>9, <1>10, <1>11 DEF Facts

\* The local channel gets it.
LEMMA DeliverHolds ==
  ASSUME IInv, Deliver
  PROVE  Facts'
<1>1. hook.pc = "deliver" /\ UNCHANGED <<entry, row, call, read, taken, settled, broken>>
  BY DEF Deliver
<1>2. hook' = Idle /\ hook'.pc = "idle" /\ hook'.res = None
  BY DEF Deliver, Idle
<1>3. /\ tracker'.bound = tracker.bound /\ tracker'.early = tracker.early
      /\ tracker'.local \in {tracker.local, hook.res}
  BY TrackerWrites, Shapes DEF IInv, Typed, Deliver
<1>4. hook # Idle
  BY <1>1 DEF Idle
<1>5. Stages'
  BY <1>1, <1>2, <1>3, <1>4 DEF IInv, Facts, Stages, Before
<1>6. Once'
  BY <1>1, <1>2, <1>3 DEF IInv, Facts, Once
<1>7. Kept' /\ NothingLost'
  BY <1>1, <1>2, <1>3 DEF IInv, Facts, Kept, NothingLost
<1>8. Aged' /\ Settled'
  BY <1>1 DEF IInv, Facts, Aged, Settled, Late, Expired
<1> QED BY <1>5, <1>6, <1>7, <1>8 DEF Facts

\* Another replica reads the row.
LEMMA ReadHolds ==
  ASSUME IInv, NEW r \in Readers, Read(r)
  PROVE  Facts'
<1>1. call.pc \notin Before /\ UNCHANGED <<bus, proc, row, call, broken>>
  BY DEF Read
<1>2. \A q \in Readers : read'[q] \in {read[q], Reads}
  BY Shapes DEF IInv, Typed, Read
<1>3. Stages'
  BY <1>1, <1>2, ReadsRight DEF IInv, Facts, proc, Stages, Before
<1>4. Once'
  BY <1>1, <1>2, ReadsRight DEF IInv, Facts, proc, Once
<1>5. Kept' /\ NothingLost'
  BY <1>1 DEF IInv, Facts, proc, Kept, NothingLost
<1>6. Aged'
  BY <1>1 DEF IInv, Facts, proc, Aged, Late, Expired
<1>7. Settled'
  <2>1. row.status = "none" => call.pc = "over"
    BY <1>1, Shapes DEF IInv, Facts, Stages, Before, CallPcs
  <2>2. row.status # "none" => (settled' => settled \/ (taken = None /\ Late))
    BY ReadsRight, SettlesLate DEF Read
  <2> QED BY <1>1, <2>1, <2>2 DEF IInv, Facts, proc, Settled, Late, Expired
<1> QED BY <1>3, <1>4, <1>5, <1>6, <1>7 DEF Facts

\* The hourly job ends a stale row or prunes an ended one.
LEMMA SweepHolds ==
  ASSUME IInv, Sweep
  PROVE  Facts'
<1>1. UNCHANGED <<bus, proc, call, read, broken>>
  BY DEF Sweep
<1>2. \/ Stale /\ row'.status = "unknown"
      \/ row.status \in Outcomes \cup {"unknown"} /\ row'.status = "pruned"
  <2>1. row \in RowSet
    BY Shapes DEF IInv, Typed
  <2>2. Ended("unknown").status = "unknown" /\ Ended("pruned").status = "pruned"
    BY <2>1, RowWrites DEF Ended
  <2> QED BY <2>2 DEF Sweep, Prunable
<1>3. row.status # "none" /\ row'.status # "none" /\ row'.status \notin Outcomes
  BY <1>2 DEF Stale, Outcomes
<1>4. Late
  <2>1. Stale => Late
    BY Shapes DEF IInv, Facts, Aged, Stale, Late, Expired
  <2>2. row.status \in Outcomes => Late
    BY NoneIsOther DEF IInv, Facts, Once, Late
  <2>3. row.status = "unknown" => Late
    BY DEF IInv, Facts, Aged
  <2> QED BY <1>2, <2>1, <2>2, <2>3
<1>5. Stages'
  BY <1>1, <1>3 DEF IInv, Facts, proc, Stages, Before
<1>6. Once'
  BY <1>1, <1>3 DEF IInv, Facts, proc, Once
<1>7. Kept'
  BY <1>1 DEF IInv, Facts, proc, Kept
<1>8. NothingLost'
  BY <1>1, <1>2, Shapes DEF IInv, Facts, proc, NothingLost, Stale, Outcomes
<1>9. Aged'
  BY <1>1, <1>2, <1>4 DEF proc, Aged, Late, Expired
<1>10. Settled'
  <2>1. settled' => settled \/ (taken = None /\ Late)
    BY <1>4, SettlesLate DEF Sweep
  <2> QED BY <1>1, <1>3, <2>1 DEF IInv, Facts, proc, Settled, Late, Expired
<1> QED BY <1>5, <1>6, <1>7, <1>8, <1>9, <1>10 DEF Facts

\* The clock ages the entry and the row.
LEMMA TickHolds ==
  ASSUME IInv, Tick
  PROVE  Facts'
<1>1. UNCHANGED <<bus, hook, tracker, call, read, taken, settled, broken>>
  BY DEF Tick
<1>2. /\ entry'.held = entry.held
      /\ entry'.age = IF entry.held THEN Older(entry.age, Wait) ELSE entry.age
  BY EntryWrites, Shapes DEF IInv, Typed, Tick
<1>3. /\ row'.status = row.status
      /\ row'.age = IF row.status = "running" THEN Older(row.age, StaleAfter) ELSE row.age
  BY RowWrites, Shapes DEF IInv, Typed, Tick
<1>4. Late => Late'
  BY <1>2, Shapes DEF IInv, Late, Expired, Older
<1>5. Stages'
  BY <1>1, <1>2, <1>3 DEF IInv, Facts, Stages, Before
<1>6. Once' /\ Kept' /\ NothingLost'
  BY <1>1, <1>2, <1>3 DEF IInv, Facts, Once, Kept, NothingLost
<1>7. Aged'
  <2>1. row.status = "running" /\ ~Late' => entry'.age >= row'.age
    BY <1>2, <1>3, <1>4, Shapes DEF IInv, Facts, Aged, Late, Expired, Older
  <2> QED BY <1>3, <1>4, <2>1 DEF IInv, Facts, Aged
<1>8. Settled'
  BY <1>1, <1>3, <1>4 DEF IInv, Facts, Settled
<1> QED BY <1>5, <1>6, <1>7, <1>8 DEF Facts

\* The process dies: its memory is gone, and a write may be missing.
LEMMA CrashHolds ==
  ASSUME IInv, Crash
  PROVE  Facts'
<1>1. broken' = TRUE /\ UNCHANGED <<row, read, taken, settled>>
  BY DEF Crash, Breaks
<1>2. /\ entry'.held = FALSE
      /\ hook'.res = None
      /\ tracker'.bound = FALSE /\ tracker'.early = None /\ tracker'.local = None
  BY EntryWrites, Shapes DEF IInv, Typed, Crash, Idle, Unbound
<1>3. call'.pc = "over" /\ call'.told \in {call.told, "error"}
  BY DEF Crash
<1>4. Stages'
  BY <1>1, <1>2, <1>3 DEF IInv, Facts, Stages, Before
<1>5. Once'
  BY <1>1, <1>2, <1>3 DEF IInv, Facts, Once, Outcomes
<1>6. Kept' /\ NothingLost'
  BY <1>1 DEF Kept, NothingLost
<1>7. Aged' /\ Settled'
  BY <1>1, <1>2, <1>3 DEF IInv, Facts, Aged, Settled, Late
<1> QED BY <1>4, <1>5, <1>6, <1>7 DEF Facts

-----------------------------------------------------------------------------

\* Every step keeps the inductive invariant.
LEMMA NextHolds ==
  ASSUME IInv, [Next]_vars
  PROVE  IInv'
<1>1. TypeOK /\ Stages
  BY DEF IInv, Facts
<1>2. TypeOK'
  BY <1>1, TypeStep
<1>3. CASE UNCHANGED vars
  <2>1. Stages' /\ Once'
    BY <1>3 DEF vars, IInv, Facts, Stages, Once
  <2>2. Kept' /\ NothingLost'
    BY <1>3 DEF vars, IInv, Facts, Kept, NothingLost
  <2>3. Aged' /\ Settled'
    BY <1>3 DEF vars, IInv, Facts, Aged, Settled, Late, Expired
  <2> QED BY <2>1, <2>2, <2>3, <1>2 DEF IInv, Facts
<1>4. ASSUME Next PROVE Facts'
  <2>1. CASE NoRoute \/ AwaitEnds
    BY <2>1, EndsHold
  <2>2. CASE Remember \/ Publish \/ Insert \/ Bind \/ FinishEarly
    BY <2>2, RememberHolds, PublishHolds, InsertHolds, BindHolds, FinishEarlyHolds
  <2>3. CASE AwaitGet \/ AwaitLocal \/ Execute
    BY <2>3, AwaitGetHolds, AwaitLocalHolds, ExecuteHolds
  <2>4. CASE Observe \/ Record \/ Deliver
    BY <2>4, ObserveHolds, RecordHolds, DeliverHolds
  <2>5. CASE Sweep \/ Tick \/ Crash
    BY <2>5, SweepHolds, TickHolds, CrashHolds
  <2>6. CASE \E res \in Outcomes : Take(res)
    BY <2>6, TakeHolds
  <2>7. CASE \E r \in Readers : Read(r)
    BY <2>7, ReadHolds
  <2> QED BY <1>4, <2>1, <2>2, <2>3, <2>4, <2>5, <2>6, <2>7 DEF Next
<1> QED BY <1>2, <1>3, <1>4 DEF IInv

\* One result at most is let through, and every outcome is that one (take of
\* the pending entry); the row's age is behind the entry's.
THEOREM Invariant == Spec => []IInv
<1>1. Init => IInv
  BY InitHolds
<1>2. IInv /\ [Next]_vars => IInv'
  BY NextHolds
<1> QED BY <1>1, <1>2, PTL DEF Spec

\* The tool, every get_command_result and the row know one outcome.
THEOREM OutcomeIsOne == Spec => []OneOutcome
<1>1. ASSUME IInv PROVE OneOutcome
  <2> DEFINE all == RecordedOutcomes \cup ToldOutcomes
  <2>1. all \subseteq {taken}
    BY <1>1 DEF IInv, Facts, Once, RecordedOutcomes, ToldOutcomes
  <2>2. IsFiniteSet({taken}) /\ Cardinality({taken}) = 1
    BY FS_Singleton
  <2>3. Cardinality(all) <= 1
    <3> HIDE DEF all
    <3> QED BY <2>1, <2>2, FS_Subset
  <2> QED BY <1>1, <2>3 DEF OneOutcome, IInv
<1> QED BY <1>1, Invariant, PTL

\* Without a failed write no result that was let through is lost (Begin and
\* the observer on either side of the tracker's lock).
THEOREM NoneLost == Spec => []NothingLost
<1>1. IInv => NothingLost
  BY DEF IInv, Facts
<1> QED BY <1>1, Invariant, PTL

\* After unknown was told or stored with no result let through, no outcome
\* comes (ObservedResultTTL is no longer than StaleAfter, and a row that could
\* not be inserted is never written).
THEOREM UnknownIsFinal == Spec => []UnknownStands
<1>1. ASSUME IInv PROVE UnknownStands
  <2>1. CASE ~settled
    BY <2>1 DEF UnknownStands
  <2>2. CASE row.status = "none"
    BY <1>1, <2>2, NoneIsOther
       DEF IInv, Facts, Stages, UnknownStands, RecordedOutcomes, ToldOutcomes, Outcomes
  <2>3. CASE taken = None
    BY <1>1, <2>3, NoneIsOther
       DEF IInv, Facts, Once, UnknownStands, RecordedOutcomes, ToldOutcomes
  <2> QED BY <1>1, <2>1, <2>2, <2>3 DEF IInv, Facts, Settled
<1> QED BY <1>1, Invariant, PTL
=============================================================================
