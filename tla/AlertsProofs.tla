---------------------------- MODULE AlertsProofs ----------------------------
(***************************************************************************)
(* Every recorded transition of an alert is notified once, for any number  *)
(* of replicas, any windows and any faults.  A notice is owed by exactly   *)
(* the replicas that are about to queue one, so the count of transitions   *)
(* is ahead of the notices by those replicas and by the notices lost.      *)
(* And somebody can always move the alert on: what AlertFollows rests on.  *)
(***************************************************************************)
EXTENDS Alerts, FiniteSetTheorems, TLAPS

Winners == {r \in Replicas : won[r]}

\* Who owes a notice is about to queue it, and who writes has decided what.
Busy ==
    /\ \A r \in Replicas : won[r] <=> pc[r] = "queue"
    /\ \A r \in Replicas : pc[r] = "write" => todo[r] \in Todos

\* No notice is lost without a fault.
Counted ==
    /\ lost <= faults
    /\ lead = lost + Cardinality(Winners)

IInv == TypeOK /\ Busy /\ Counted

-----------------------------------------------------------------------------
\* How long a rule waits is a time (max of the duration and DownGrace).
LEMMA PatienceTyped == Patience \in Nat \ {0}
BY Bounds DEF Patience

LEMMA WinnersFinite == IsFiniteSet(Winners) /\ Cardinality(Winners) \in Nat
<1>1. Winners \subseteq Replicas /\ IsFiniteSet(Replicas)
  BY Bounds DEF Winners
<1>2. IsFiniteSet(Winners)
  BY <1>1, FS_Subset
<1> QED BY <1>2, FS_CardinalityType

\* The count of those who owe a notice, when one of them comes or goes.
LEMMA OneMore ==
  ASSUME TypeOK, NEW r \in Replicas, ~won[r], won' = [won EXCEPT ![r] = TRUE]
  PROVE  Cardinality(Winners') = Cardinality(Winners) + 1
<1>1. Winners' = Winners \cup {r} /\ r \notin Winners
  BY DEF TypeOK, Winners
<1> QED BY <1>1, WinnersFinite, FS_AddElement

LEMMA OneLess ==
  ASSUME TypeOK, NEW r \in Replicas, won[r], won' = [won EXCEPT ![r] = FALSE]
  PROVE  Cardinality(Winners') = Cardinality(Winners) - 1
<1>1. Winners' = Winners \ {r} /\ r \in Winners
  BY DEF TypeOK, Winners
<1> QED BY <1>1, WinnersFinite, FS_RemoveElement

LEMMA NoneMore ==
  ASSUME TypeOK, NEW r \in Replicas, ~won[r], won' = [won EXCEPT ![r] = FALSE]
  PROVE  Winners' = Winners
BY DEF TypeOK, Winners

-----------------------------------------------------------------------------
\* What a replica heard stays typed (Older, Observe, Sweep).
LEMMA HeardTyped ==
  ASSUME TypeOK
  PROVE  /\ Turn => seen' \in [Replicas -> [bad : BOOLEAN, age : 0..Patience]]
         /\ Tick => seen' \in [Replicas -> [bad : BOOLEAN, age : 0..Patience]]
         /\ \A r \in Replicas : Observe(r) =>
              seen' \in [Replicas -> [bad : BOOLEAN, age : 0..Patience]]
<1> USE PatienceTyped
<1>1. \A r \in Replicas : /\ seen[r] \in [bad : BOOLEAN, age : 0..Patience]
                          /\ seen[r].age \in 0..Patience
  BY DEF TypeOK
<1>2. ASSUME Tick PROVE seen' \in [Replicas -> [bad : BOOLEAN, age : 0..Patience]]
  <2>1. \A r \in Replicas : Older(seen[r].age, Patience) \in 0..Patience
    BY <1>1 DEF Older
  <2> QED BY <1>1, <1>2, <2>1 DEF Tick
<1>3. ASSUME NEW r \in Replicas, Observe(r)
      PROVE seen' \in [Replicas -> [bad : BOOLEAN, age : 0..Patience]]
  BY <1>1, <1>3 DEF Observe, TypeOK
<1>4. ASSUME Turn PROVE seen' \in [Replicas -> [bad : BOOLEAN, age : 0..Patience]]
  <2>1. \A r \in Replicas : AfterSilence(seen[r]) \in [bad : BOOLEAN, age : 0..Patience]
    BY <1>1 DEF AfterSilence
  <2> QED BY <1>1, <1>4, <2>1 DEF Turn, TypeOK
<1> QED BY <1>2, <1>3, <1>4

\* The rule's metric never changes, so nor does its patience.
LEMMA PatienceStays == UNCHANGED metric => Patience' = Patience
BY DEF Patience

LEMMA InitHolds == Init => IInv
<1> SUFFICES ASSUME Init PROVE IInv
  OBVIOUS
<1> USE PatienceTyped, Bounds
<1>1. TypeOK
  <2>1. Unheard \in [bad : BOOLEAN, age : 0..Patience]
    BY DEF Unheard
  <2>2. seen \in [Replicas -> [bad : BOOLEAN, age : 0..Patience]]
    BY <2>1 DEF Init
  <2>3. /\ firing \in [Replicas -> BOOLEAN] /\ loaded \in [Replicas -> BOOLEAN]
        /\ won \in [Replicas -> BOOLEAN]
    BY Zenon DEF Init
  <2>4. /\ pc \in [Replicas -> {"dead", "idle", "write", "queue"}]
        /\ todo \in [Replicas -> Todos \cup {None}]
    BY DEF Init
  <2>5. /\ metric \in Metrics /\ up \in BOOLEAN /\ bad \in BOOLEAN /\ doubt \in BOOLEAN
        /\ rule \in {"on", "off", "gone"} /\ row \in {"ok", "firing"} /\ rule # "gone"
    BY DEF Init
  <2>6. /\ lead \in Int /\ lost \in 0..MaxFaults /\ faults \in 0..MaxFaults
        /\ turns \in 0..MaxTurns /\ edits \in 0..MaxEdits
    BY DEF Init
  <2> QED BY <2>2, <2>3, <2>4, <2>5, <2>6 DEF TypeOK
<1>2. Winners = {}
  BY DEF Init, Winners
<1>3. Cardinality(Winners) = 0
  BY <1>2, FS_EmptySet
<1> QED BY <1>1, <1>3 DEF Init, IInv, Busy, Counted

\* The world, the user and the clock disturb no replica's count.
LEMMA WorldKeeps ==
  ASSUME IInv, Turn \/ Tick \/ \E to \in {"on", "off", "gone"} : Edit(to)
  PROVE  IInv'
<1> USE Bounds DEF IInv
<1>1. UNCHANGED <<metric, pc, todo, won, lead, lost, firing, loaded, doubt>>
  BY DEF Turn, Tick, Edit, world, memory, counts, limits, Fault
<1>2. /\ faults' \in 0..MaxFaults /\ turns' \in 0..MaxTurns /\ edits' \in 0..MaxEdits
      /\ faults <= faults'
  BY DEF Turn, Tick, Edit, Fault, TypeOK
<1>3. /\ up' \in BOOLEAN /\ bad' \in BOOLEAN /\ rule' \in {"on", "off", "gone"}
      /\ row' \in {"ok", "firing"} /\ (rule' = "gone" => row' = "ok")
  BY DEF Turn, Tick, Edit, world, TypeOK
<1>4. seen' \in [Replicas -> [bad : BOOLEAN, age : 0..Patience]]
  <2>1. ASSUME NEW to \in {"on", "off", "gone"}, Edit(to) PROVE UNCHANGED seen
    BY <2>1 DEF Edit, memory
  <2> QED BY <2>1, HeardTyped DEF TypeOK
<1>5. TypeOK'
  BY <1>1, <1>2, <1>3, <1>4, PatienceStays DEF TypeOK
<1>6. Busy'
  BY <1>1 DEF Busy
<1>7. Counted'
  BY <1>1, <1>2 DEF Counted, Winners, TypeOK
<1> QED BY <1>5, <1>6, <1>7

-----------------------------------------------------------------------------
\* What an evaluation leaves of a replica that was idle (Decide, Undecided).
Evaluated(r) ==
  /\ firing' \in [Replicas -> BOOLEAN]
  /\ todo' \in [Replicas -> Todos \cup {None}]
  /\ pc' \in [Replicas -> {"dead", "idle", "write", "queue"}]
  /\ \A s \in Replicas : s # r => pc'[s] = pc[s] /\ todo'[s] = todo[s]
  /\ pc'[r] \in {"idle", "write"}
  /\ pc'[r] = "write" => todo'[r] \in Todos

LEMMA DecideLeaves ==
  ASSUME TypeOK, NEW r \in Replicas, pc[r] = "idle", NEW mine \in BOOLEAN,
         NEW verdict, Decide(r, mine, verdict)
  PROVE  Evaluated(r)
<1> DEFINE do == CASE rule = "gone" -> None
                   [] rule = "off"  -> IF mine THEN "clear" ELSE None
                   [] verdict = mine \/ verdict = None -> None
                   [] OTHER -> IF verdict THEN "fire" ELSE "resolve"
<1>1. do \in Todos \cup {None}
  BY DEF Todos, TypeOK
<1>2. /\ todo' = [todo EXCEPT ![r] = do]
      /\ pc' = [pc EXCEPT ![r] = IF do = None THEN "idle" ELSE "write"]
      /\ firing' = [firing EXCEPT ![r] = mine /\ rule # "gone"]
  BY DEF Decide
<1> HIDE DEF do
<1> QED BY <1>1, <1>2 DEF Evaluated, TypeOK

LEMMA UndecidedLeaves ==
  ASSUME TypeOK, NEW r \in Replicas, pc[r] = "idle", NEW mine \in BOOLEAN,
         firing' = [firing EXCEPT ![r] = mine], UNCHANGED <<pc, todo>>
  PROVE  Evaluated(r)
BY DEF Evaluated, TypeOK

\* A report or a sweep leaves its replica idle or writing, owing no notice.
LEMMA EvaluationKeeps ==
  ASSUME IInv, NEW r \in Replicas, Observe(r) \/ Sweep(r)
  PROVE  IInv'
<1> USE Bounds DEF IInv
<1>1. pc[r] = "idle"
  BY DEF Observe, Sweep
<1>2. Evaluated(r)
  <2>1. ASSUME NEW mine \in BOOLEAN, SweepDecides(r, mine) PROVE Evaluated(r)
    BY <1>1, <2>1, DecideLeaves, UndecidedLeaves DEF SweepDecides
  <2>2. ASSUME NEW mine \in BOOLEAN, Undecided(r, mine) PROVE Evaluated(r)
    BY <1>1, <2>2, UndecidedLeaves DEF Undecided
  <2>3. firing[r] \in BOOLEAN /\ Loaded(r) \in BOOLEAN
    BY DEF TypeOK, Loaded
  <2>4. CASE Observe(r)
    <3>1. \/ \E verdict : Decide(r, firing[r], verdict)
          \/ Undecided(r, firing[r])
      BY <2>4 DEF Observe
    <3> QED BY <1>1, <2>2, <2>3, <3>1, DecideLeaves
  <2>5. CASE Sweep(r)
    <3>1. \E mine \in BOOLEAN : SweepDecides(r, mine) \/ Undecided(r, mine)
      BY <2>3, <2>5 DEF Sweep
    <3> QED BY <2>1, <2>2, <3>1
  <2> QED BY <2>4, <2>5
<1>3. /\ UNCHANGED <<metric, up, bad, rule, row, won, lead, lost, doubt, turns, edits>>
      /\ faults' \in 0..MaxFaults /\ faults <= faults'
  BY DEF Observe, Sweep, world, counts, Undecided, Fault, TypeOK
<1>4. loaded' \in [Replicas -> BOOLEAN]
  BY DEF Observe, Sweep, TypeOK
<1>5. seen' \in [Replicas -> [bad : BOOLEAN, age : 0..Patience]]
  <2>1. Sweep(r) => UNCHANGED seen
    BY DEF Sweep
  <2> QED BY <2>1, HeardTyped DEF TypeOK
<1>6. TypeOK'
  BY <1>2, <1>3, <1>4, <1>5, PatienceStays DEF TypeOK, Evaluated
<1>7. Busy'
  BY <1>1, <1>2, <1>3 DEF Busy, Evaluated
<1>8. Counted'
  BY <1>3 DEF Counted, Winners, TypeOK
<1> QED BY <1>6, <1>7, <1>8

-----------------------------------------------------------------------------
\* Leaving for a state of its own disturbs no other replica (Back).
LEMMA BackTyped ==
  ASSUME TypeOK, NEW r \in Replicas, NEW to \in {"dead", "idle", "queue"}, Back(r, to)
  PROVE  /\ pc' \in [Replicas -> {"dead", "idle", "write", "queue"}]
         /\ todo' \in [Replicas -> Todos \cup {None}]
         /\ pc'[r] = to
         /\ \A s \in Replicas : s # r => pc'[s] = pc[s] /\ todo'[s] = todo[s]
BY DEF Back, TypeOK

\* The replica whose write moved the row owes its notice (transition).
LEMMA WriteKeeps ==
  ASSUME IInv, NEW r \in Replicas, Write(r)
  PROVE  IInv'
<1> USE Bounds DEF IInv
<1> DEFINE moved == Moves(todo[r])
<1>1. /\ pc[r] = "write" /\ todo[r] \in Todos /\ ~won[r]
      /\ moved \in BOOLEAN
  BY DEF Write, Busy, Moves
<1>2. /\ won' = [won EXCEPT ![r] = moved]
      /\ lead' = IF moved THEN lead + 1 ELSE lead
      /\ Back(r, IF moved THEN "queue" ELSE "idle")
      /\ UNCHANGED <<metric, up, bad, loaded, seen, rule, lost, doubt, faults, turns, edits>>
  BY DEF Write, Notifies, world, limits
<1>3. row' \in {"ok", "firing"} /\ (rule' = "gone" => row' = "ok")
  BY <1>1 DEF Write, Writes, Refused, Todos
<1>4. firing' \in [Replicas -> BOOLEAN]
  BY DEF Write, TypeOK
<1> HIDE DEF moved
<1>5. /\ pc' \in [Replicas -> {"dead", "idle", "write", "queue"}]
      /\ todo' \in [Replicas -> Todos \cup {None}]
      /\ pc'[r] = IF moved THEN "queue" ELSE "idle"
      /\ \A s \in Replicas : s # r => pc'[s] = pc[s] /\ todo'[s] = todo[s]
  BY <1>2, BackTyped
<1>6. won' \in [Replicas -> BOOLEAN] /\ lead' \in Int
  BY <1>1, <1>2 DEF TypeOK
<1>7. TypeOK'
  BY <1>2, <1>3, <1>4, <1>5, <1>6, PatienceStays DEF TypeOK
<1>8. Busy'
  BY <1>1, <1>2, <1>5 DEF Busy, TypeOK
<1>9. Counted'
  <2>1. CASE moved
    <3>1. Cardinality(Winners') = Cardinality(Winners) + 1
      BY <1>1, <1>2, <2>1, OneMore
    <3> QED BY <1>2, <2>1, <3>1, WinnersFinite DEF Counted, TypeOK
  <2>2. CASE ~moved
    <3>1. Winners' = Winners
      BY <1>1, <1>2, <2>2, NoneMore
    <3> QED BY <1>2, <2>2, <3>1 DEF Counted
  <2> QED BY <1>1, <2>1, <2>2
<1> QED BY <1>7, <1>8, <1>9

\* A write whose answer was lost loses its notice with it.
LEMMA WriteFailsKeeps ==
  ASSUME IInv, NEW r \in Replicas, WriteFails(r)
  PROVE  IInv'
<1> USE Bounds DEF IInv
<1>1. pc[r] = "write" /\ todo[r] \in Todos /\ ~won[r]
  BY DEF WriteFails, Busy
<1>2. /\ Back(r, "idle")
      /\ UNCHANGED <<metric, up, bad, loaded, seen, rule, won, turns, edits>>
      /\ firing' = [firing EXCEPT ![r] = firing[r]]
  BY DEF WriteFails, AfterError, world
<1>3. row' \in {"ok", "firing"} /\ (rule' = "gone" => row' = "ok")
  BY <1>1, <1>2 DEF WriteFails, Writes, Refused, Todos, TypeOK
<1>4. /\ faults' \in 0..MaxFaults /\ lead' \in Int /\ doubt' \in BOOLEAN
      /\ lost' \in 0..MaxFaults /\ lost' <= faults'
      /\ lead' - lost' = lead - lost
  <2>1. /\ lost \in Nat /\ faults \in Nat /\ lead \in Int /\ lost <= faults
        /\ faults <= MaxFaults /\ doubt \in BOOLEAN
    BY DEF Counted, TypeOK
  <2>2. doubt' \in BOOLEAN
    BY <2>1 DEF WriteFails
  <2>3. \/ faults' = faults
        \/ faults < MaxFaults /\ faults' = faults + 1
    BY DEF WriteFails, Fault
  <2>4. \/ lead' = lead /\ lost' = lost
        \/ faults' = faults + 1 /\ lead' = lead + 1 /\ lost' = lost + 1
    <3>1. \/ UNCHANGED <<lead, lost>>
          \/ Fault /\ lead' = lead + 1 /\ lost' = lost + 1
      <4>1. CASE Refused(todo[r]) /\ UNCHANGED <<faults, row, lead, lost, doubt>>
        BY <4>1
      <4>2. CASE Fault /\ UNCHANGED <<row, lead, lost, doubt>>
        BY <4>2
      <4>3. CASE Fault /\ IF Moves(todo[r]) THEN lead' = lead + 1 /\ lost' = lost + 1
                                            ELSE UNCHANGED <<lead, lost>>
        BY <4>3
      <4> QED BY <4>1, <4>2, <4>3 DEF WriteFails
    <3> QED BY <3>1 DEF Fault
  <2> QED BY <2>1, <2>2, <2>3, <2>4
<1>5. /\ pc' \in [Replicas -> {"dead", "idle", "write", "queue"}]
      /\ todo' \in [Replicas -> Todos \cup {None}]
      /\ pc'[r] = "idle"
      /\ \A s \in Replicas : s # r => pc'[s] = pc[s] /\ todo'[s] = todo[s]
  BY <1>2, BackTyped
<1>6. TypeOK'
  BY <1>2, <1>3, <1>4, <1>5, PatienceStays DEF TypeOK
<1>7. Busy'
  BY <1>1, <1>2, <1>5 DEF Busy
<1>8. Counted'
  <2>1. Winners' = Winners
    BY <1>2 DEF Winners
  <2> QED BY <1>4, <2>1, WinnersFinite DEF Counted, TypeOK
<1> QED BY <1>6, <1>7, <1>8

\* The notice is queued or dropped (Enqueue).
LEMMA QueueKeeps ==
  ASSUME IInv, NEW r \in Replicas, Queue(r)
  PROVE  IInv'
<1> USE Bounds DEF IInv
<1>1. pc[r] = "queue" /\ won[r]
  BY DEF Queue, Busy
<1>2. /\ Back(r, "idle")
      /\ won' = [won EXCEPT ![r] = FALSE]
      /\ UNCHANGED <<metric, up, bad, rule, row, firing, loaded, seen, doubt, turns, edits>>
  BY DEF Queue, world, memory
<1>3. /\ faults' \in 0..MaxFaults /\ lead' \in Int
      /\ lost' \in 0..MaxFaults /\ lost' <= faults'
      /\ lead' - lost' = lead - lost - 1
  BY DEF Queue, Fault, Counted, TypeOK
<1>4. /\ pc' \in [Replicas -> {"dead", "idle", "write", "queue"}]
      /\ todo' \in [Replicas -> Todos \cup {None}]
      /\ pc'[r] = "idle"
      /\ \A s \in Replicas : s # r => pc'[s] = pc[s] /\ todo'[s] = todo[s]
  BY <1>2, BackTyped
<1>5. TypeOK'
  BY <1>2, <1>3, <1>4, PatienceStays DEF TypeOK
<1>6. Busy'
  BY <1>2, <1>4 DEF Busy, TypeOK
<1>7. Counted'
  <2>1. Cardinality(Winners') = Cardinality(Winners) - 1
    BY <1>1, <1>2, OneLess
  <2> QED BY <1>3, <2>1, WinnersFinite DEF Counted, TypeOK
<1> QED BY <1>5, <1>6, <1>7

\* A notice that is not queued yet dies with its process.
LEMMA CrashKeeps ==
  ASSUME IInv, NEW r \in Replicas, Crash(r)
  PROVE  IInv'
<1> USE Bounds, PatienceTyped DEF IInv
<1>1. /\ Back(r, "dead")
      /\ won' = [won EXCEPT ![r] = FALSE]
      /\ UNCHANGED <<metric, up, bad, rule, row, loaded, lead, doubt, turns, edits>>
  BY DEF Crash, world
<1>2. /\ faults' = faults + 1 /\ faults' \in 0..MaxFaults
      /\ lost' = IF won[r] THEN lost + 1 ELSE lost
      /\ lost' \in 0..MaxFaults /\ lost' <= faults'
  BY DEF Crash, Fault, Counted, TypeOK
<1>3. /\ firing' \in [Replicas -> BOOLEAN]
      /\ seen' \in [Replicas -> [bad : BOOLEAN, age : 0..Patience]]
  BY DEF Crash, Unheard, TypeOK
<1>4. /\ pc' \in [Replicas -> {"dead", "idle", "write", "queue"}]
      /\ todo' \in [Replicas -> Todos \cup {None}]
      /\ pc'[r] = "dead"
      /\ \A s \in Replicas : s # r => pc'[s] = pc[s] /\ todo'[s] = todo[s]
  BY <1>1, BackTyped
<1>5. TypeOK'
  BY <1>1, <1>2, <1>3, <1>4, PatienceStays DEF TypeOK
<1>6. Busy'
  BY <1>1, <1>4 DEF Busy, TypeOK
<1>7. Counted'
  <2>1. CASE won[r]
    <3>1. Cardinality(Winners') = Cardinality(Winners) - 1
      BY <1>1, <2>1, OneLess
    <3> QED BY <1>1, <1>2, <2>1, <3>1, WinnersFinite DEF Counted, TypeOK
  <2>2. CASE ~won[r]
    <3>1. Winners' = Winners
      BY <1>1, <2>2, NoneMore
    <3> QED BY <1>1, <1>2, <2>2, <3>1 DEF Counted
  <2> QED BY <2>1, <2>2
<1> QED BY <1>5, <1>6, <1>7

\* A replica starts with the stored states, or without them.
LEMMA LoadKeeps ==
  ASSUME IInv, NEW r \in Replicas, Load(r)
  PROVE  IInv'
<1> USE Bounds, PatienceTyped DEF IInv
<1>1. /\ pc[r] = "dead" /\ Back(r, "idle")
      /\ UNCHANGED <<metric, up, bad, rule, row, won, lead, lost, doubt, turns, edits>>
      /\ faults' \in 0..MaxFaults /\ faults <= faults'
  BY DEF Load, world, counts, Fault, TypeOK
<1>2. /\ firing' \in [Replicas -> BOOLEAN] /\ loaded' \in [Replicas -> BOOLEAN]
      /\ seen' \in [Replicas -> [bad : BOOLEAN, age : 0..Patience]]
  <2>1. Loaded(r) \in BOOLEAN
    BY DEF Loaded, TypeOK
  <2>2. Unheard \in [bad : BOOLEAN, age : 0..Patience]
    BY DEF Unheard
  <2> QED BY <2>1, <2>2 DEF Load, TypeOK
<1>3. /\ pc' \in [Replicas -> {"dead", "idle", "write", "queue"}]
      /\ todo' \in [Replicas -> Todos \cup {None}]
      /\ pc'[r] = "idle"
      /\ \A s \in Replicas : s # r => pc'[s] = pc[s] /\ todo'[s] = todo[s]
  BY <1>1, BackTyped
<1>4. TypeOK'
  BY <1>1, <1>2, <1>3, PatienceStays DEF TypeOK
<1>5. Busy'
  BY <1>1, <1>3 DEF Busy
<1>6. Counted'
  BY <1>1 DEF Counted, Winners, TypeOK
<1> QED BY <1>4, <1>5, <1>6

-----------------------------------------------------------------------------
LEMMA NextKeeps == IInv /\ [Next]_vars => IInv'
<1> SUFFICES ASSUME IInv, [Next]_vars PROVE IInv'
  OBVIOUS
<1>1. CASE Next
  <2>1. CASE Turn \/ Tick \/ \E to \in {"on", "off", "gone"} : Edit(to)
    BY <2>1, WorldKeeps
  <2>2. ASSUME NEW r \in Replicas,
               \/ Observe(r) \/ Sweep(r) \/ Write(r) \/ WriteFails(r) \/ Queue(r)
               \/ Crash(r) \/ Load(r)
        PROVE  IInv'
    BY <2>2, EvaluationKeeps, WriteKeeps, WriteFailsKeeps, QueueKeeps, CrashKeeps, LoadKeeps
  <2> QED BY <1>1, <2>1, <2>2 DEF Next
<1>2. CASE UNCHANGED vars
  BY <1>2, PatienceStays
     DEF IInv, TypeOK, Busy, Counted, Winners, vars, world, memory, counts, limits
<1> QED BY <1>1, <1>2

\* Who owes a notice is about to queue it, whatever replicas crash and writes
\* fail (transition).
THEOREM Owed == Spec => []IInv
<1> QED BY InitHolds, NextKeeps, PTL DEF Spec

\* Every recorded transition is notified once, or its notice was lost.
THEOREM EachIsNotifiedOnce == Spec => []NotifiedOnce
<1>1. IInv => NotifiedOnce
  BY DEF IInv, Counted, Winners, NotifiedOnce
<1> QED BY <1>1, Owed, PTL

-----------------------------------------------------------------------------
(* What a replica that follows the target needs (AlertFollows)             *)

\* The replica has the alert in its memory, or will read the row.
Knows(r) == firing[r] \/ ~loaded[r] \/ pc[r] = "dead"

\* Unless a write's answer was lost, a firing row has a replica that can resolve
\* it, for a resolve is decided on a remembered alert only; and while the row
\* is ok some replica does not take the alert for fired, so it can fire it.
Remembered == ~doubt =>
    /\ row = "firing" => \E r \in Replicas : Knows(r)
    /\ row = "ok" /\ rule # "gone" => \E r \in Replicas : ~firing[r]

\* A step that leaves the row, and of what any replica knows at least as much.
LEMMA SameRow ==
  ASSUME Remembered, doubt' = doubt, row' = row, rule' # "gone" => rule # "gone",
         \A r \in Replicas : row = "firing" /\ Knows(r) => Knows(r)',
         \A r \in Replicas : row = "ok" /\ rule # "gone" /\ ~firing[r] => ~firing'[r]
  PROVE  Remembered'
BY DEF Remembered

\* An evaluation remembers what it did and forgets no alert but a deleted rule's
\* (evaluate; loadFiring adds what the row says).
LEMMA EvaluationRemembers ==
  ASSUME IInv, Remembered, NEW r \in Replicas, Observe(r) \/ Sweep(r)
  PROVE  Remembered'
<1> USE DEF IInv
<1>1. pc[r] = "idle" /\ (row = "firing" => rule # "gone")
  BY DEF Observe, Sweep, TypeOK
<1>2. UNCHANGED <<row, rule, doubt>> /\ \A s \in Replicas : s # r => loaded'[s] = loaded[s]
  BY DEF Observe, Sweep, world, counts, TypeOK
<1>3. \A s \in Replicas : s # r => pc'[s] = pc[s]
  <2>1. ASSUME NEW mine, NEW verdict, Decide(r, mine, verdict) \/ Undecided(r, mine)
        PROVE  \A s \in Replicas : s # r => pc'[s] = pc[s]
    BY <2>1 DEF Decide, Undecided, TypeOK
  <2>2. ASSUME NEW mine, SweepDecides(r, mine)
        PROVE  \A s \in Replicas : s # r => pc'[s] = pc[s]
    BY <2>1, <2>2 DEF SweepDecides
  <2>3. CASE Observe(r)
    BY <2>1, <2>3 DEF Observe
  <2>4. CASE Sweep(r)
    BY <2>1, <2>2, <2>4 DEF Sweep
  <2> QED BY <2>3, <2>4
<1>4. ASSUME rule # "gone"
      PROVE  \E mine \in BOOLEAN :
               /\ firing' = [firing EXCEPT ![r] = mine]
               /\ \/ mine = firing[r] /\ loaded'[r] = loaded[r]
                  \/ mine = firing[r] /\ loaded[r]
                  \/ mine = Loaded(r)
  <2>1. ASSUME NEW mine \in BOOLEAN, NEW verdict, Decide(r, mine, verdict) \/ Undecided(r, mine)
        PROVE  firing' = [firing EXCEPT ![r] = mine]
    BY <1>4, <2>1 DEF Decide, Undecided
  <2>2. ASSUME NEW mine \in BOOLEAN, SweepDecides(r, mine)
        PROVE  firing' = [firing EXCEPT ![r] = mine]
    BY <2>1, <2>2 DEF SweepDecides
  <2>3. firing[r] \in BOOLEAN /\ Loaded(r) \in BOOLEAN
    BY DEF TypeOK, Loaded
  <2>4. CASE Observe(r)
    <3>1. \E verdict : Decide(r, firing[r], verdict) \/ Undecided(r, firing[r])
      BY <2>4 DEF Observe
    <3>2. loaded' = loaded
      BY <2>4 DEF Observe
    <3> QED BY <2>1, <2>3, <3>1, <3>2
  <2>5. CASE Sweep(r)
    <3> DEFINE mine == IF loaded[r] THEN firing[r] ELSE Loaded(r)
    <3>1. \/ SweepDecides(r, mine) \/ Undecided(r, mine)
          \/ SweepDecides(r, firing[r]) /\ loaded' = loaded
      BY <2>5 DEF Sweep
    <3>2. mine \in BOOLEAN /\ ((mine = firing[r] /\ loaded[r]) \/ mine = Loaded(r))
      BY <2>3
    <3> HIDE DEF mine
    <3> QED BY <2>1, <2>2, <2>3, <3>1, <3>2
  <2> QED BY <2>4, <2>5
<1>5. ASSUME rule # "gone", NEW s \in Replicas
      PROVE  /\ row = "firing" /\ Knows(s) => Knows(s)'
             /\ row = "ok" /\ ~firing[s] => ~firing'[s]
  <2>1. PICK mine \in BOOLEAN :
          /\ firing' = [firing EXCEPT ![r] = mine]
          /\ \/ mine = firing[r] /\ loaded'[r] = loaded[r]
             \/ mine = firing[r] /\ loaded[r]
             \/ mine = Loaded(r)
    BY <1>4, <1>5
  <2>2. CASE s # r
    BY <1>2, <1>3, <2>1, <2>2 DEF TypeOK, Knows
  <2>3. CASE s = r
    BY <1>1, <2>1, <2>3 DEF TypeOK, Knows, Loaded
  <2> QED BY <2>2, <2>3
<1> QED BY <1>1, <1>2, <1>5, SameRow

\* The replica that writes remembers what it wrote (transition, clear); one whose
\* write failed remembers what it did.
LEMMA WriteRemembers ==
  ASSUME IInv, Remembered, NEW r \in Replicas, Write(r) \/ WriteFails(r)
  PROVE  Remembered'
<1> USE DEF IInv
<1>1. CASE Write(r)
  <2>1. firing'[r] = (todo[r] = "fire") /\ row' = Writes(todo[r])
    BY <1>1 DEF Write, TypeOK
  <2> QED BY <2>1 DEF Writes, Remembered, Knows
<1>2. CASE WriteFails(r)
  <2>1. pc[r] = "write" /\ firing' = firing /\ UNCHANGED <<rule, loaded>>
    BY <1>2 DEF WriteFails, AfterError, TypeOK
  <2>2. \A s \in Replicas : pc[s] = "dead" => pc'[s] = "dead"
    BY <1>2, <2>1 DEF WriteFails, Back, TypeOK
  <2>3. doubt' \/ (doubt' = doubt /\ row' = row)
    BY <1>2 DEF WriteFails, TypeOK
  <2>4. CASE doubt'
    BY <2>4 DEF Remembered
  <2>5. CASE doubt' = doubt /\ row' = row
    BY <2>1, <2>2, <2>5, SameRow DEF Knows
  <2> QED BY <2>3, <2>4, <2>5
<1> QED BY <1>1, <1>2

\* A replica that died reads the row when it starts, or in a later sweep (Load).
LEMMA RestartRemembers ==
  ASSUME IInv, Remembered, NEW r \in Replicas, Crash(r) \/ Load(r)
  PROVE  Remembered'
<1> USE DEF IInv
<1>1. /\ UNCHANGED <<row, rule, doubt>>
      /\ \A s \in Replicas : s # r =>
           firing'[s] = firing[s] /\ loaded'[s] = loaded[s] /\ pc'[s] = pc[s]
  BY DEF Crash, Load, Back, counts, TypeOK
<1>2. CASE Crash(r)
  <2>1. pc'[r] = "dead" /\ ~firing'[r]
    BY <1>2 DEF Crash, Back, TypeOK
  <2> QED BY <1>1, <2>1, SameRow DEF Knows
<1>3. CASE Load(r)
  <2>1. \/ firing'[r] = (firing[r] \/ row = "firing")
        \/ firing' = firing /\ ~loaded'[r]
    BY <1>3 DEF Load, Loaded, TypeOK
  <2> QED BY <1>1, <2>1, SameRow DEF Knows
<1> QED BY <1>2, <1>3

LEMMA StepRemembers == IInv /\ Remembered /\ [Next]_vars => Remembered'
<1> SUFFICES ASSUME IInv, Remembered, [Next]_vars PROVE Remembered'
  OBVIOUS
<1>1. CASE Turn \/ Tick \/ UNCHANGED vars
  <2>1. UNCHANGED <<row, rule, doubt, firing, loaded, pc>>
    BY <1>1 DEF Turn, Tick, vars, world, memory, counts
  <2> QED BY <2>1, SameRow DEF Knows
<1>2. ASSUME NEW to \in {"on", "off", "gone"}, Edit(to) PROVE Remembered'
  <2>1. /\ UNCHANGED <<doubt, firing, loaded, pc>> /\ rule # "gone" /\ rule' = to
        /\ row' = IF to = "gone" THEN "ok" ELSE row
    BY <1>2 DEF Edit, memory, counts
  <2> QED BY <2>1 DEF Remembered, Knows
<1>3. ASSUME NEW r \in Replicas, Queue(r) PROVE Remembered'
  <2>1. UNCHANGED <<row, rule, doubt, firing, loaded>> /\ pc[r] = "queue"
    BY <1>3 DEF Queue, memory
  <2>2. \A s \in Replicas : pc[s] = "dead" => pc'[s] = "dead"
    BY <1>3, <2>1 DEF Queue, Back, IInv, TypeOK
  <2> QED BY <2>1, <2>2, SameRow DEF Knows
<1> QED BY <1>1, <1>2, <1>3, EvaluationRemembers, WriteRemembers, RestartRemembers DEF Next

\* Unless a write's answer was lost, a firing row has a replica that remembers the
\* alert or will load it, and a row that is ok one that can fire it
\* (transition, clear, loadFiring): what AlertFollows rests on.
THEOREM AlertIsRemembered == Spec => []Remembered
<1>1. Init => Remembered
  BY Bounds DEF Init, Remembered
<1> QED BY <1>1, StepRemembers, Owed, PTL DEF Spec
=============================================================================
