------------------------ MODULE SecretRequestsProofs ------------------------
(***************************************************************************)
(* Proofs about secret requests, for any number of saves and submitters,   *)
(* any windows and any bounds.                                             *)
(*                                                                         *)
(* What carries them is Fence: at most one save is past its gate           *)
(* (Claim.Dispatch), and while one is the row is dispatched under its      *)
(* claim or has ended: every statement that could hand the values to       *)
(* another save matches a submitted or a claimed row only.  Stored says    *)
(* the same of the values (nobody has them while the row is pending), and  *)
(* Held of a live claim (no clock read so far is past its end).            *)
(***************************************************************************)
EXTENDS SecretRequests, TLAPS

-----------------------------------------------------------------------------
\* The rows the statements write are rows.
LEMMA RowsKept ==
  ASSUME SecretRequestsAssumption, TypeOK
  PROVE  /\ \A s \in Saves, t \in Nat :
              [row EXCEPT !.status = "claimed", !.claim = s, !.claimedUntil = t] \in Rows
         /\ \A u \in Submitters, t \in Nat :
              [row EXCEPT !.status = "submitted", !.ciphertexts = u, !.expiresAt = t] \in Rows
         /\ \A t \in Nat : [row EXCEPT !.status = "dispatched", !.claimedUntil = t] \in Rows
         /\ [row EXCEPT !.status = "submitted", !.claim = NoOne, !.claimedUntil = 0] \in Rows
         /\ \A t \in Nat : Ended("used", t) \in Rows /\ Ended("expired", t) \in Rows
         /\ [row EXCEPT !.status = "gone"] \in Rows
BY DEF TypeOK, Rows, Statuses, Ended

\* A save that returns leaves well-typed locals behind.
LEMMA EndsTyped ==
  ASSUME SecretRequestsAssumption, TypeOK, NEW s \in Saves, Ends(s)
  PROVE  /\ pc' \in [Saves -> SaveSteps] /\ at' \in [Saves -> Nat]
         /\ fill' \in [Saves -> Submitters \cup {NoOne}]
         /\ tries' \in [Saves -> 0..(CommitTries - 1)]
BY SMT DEF SecretRequestsAssumption, TypeOK, Ends, SaveSteps

\* A save that goes on to a step keeps its locals.
LEMMA GoesTyped ==
  ASSUME TypeOK, NEW s \in Saves, NEW step \in SaveSteps, Goes(s, step)
  PROVE  /\ pc' \in [Saves -> SaveSteps] /\ at' \in [Saves -> Nat]
         /\ fill' \in [Saves -> Submitters \cup {NoOne}]
         /\ tries' \in [Saves -> 0..(CommitTries - 1)]
BY DEF TypeOK, Goes, SaveSteps

\* A statement counts at most one fault, within the bound.
LEMMA FaultTyped ==
  ASSUME SecretRequestsAssumption, TypeOK, NEW hit, NEW new,
         UNCHANGED faults \/ Fault(hit, new)
  PROVE  faults' \in 0..MaxFaults
BY SMT DEF SecretRequestsAssumption, TypeOK, Fault

\* A fresh request is well typed.
LEMMA TypeInit == ASSUME SecretRequestsAssumption, Init PROVE TypeOK
BY SMT DEF SecretRequestsAssumption, Init, TypeOK, Rows, Statuses, SaveSteps

\* Each step of a save keeps the types (Consume, Claim.Dispatch, Claim.Commit).
LEMMA TypeSave ==
  ASSUME SecretRequestsAssumption, TypeOK, NEW s \in Saves, SaveStep(s)
  PROVE  TypeOK'
<1>1. CASE Consume(s)
  <2>1. row' \in Rows /\ sent' \in SUBSET Saves /\ now' \in 0..MaxTime /\ faults' \in 0..MaxFaults
    BY <1>1 DEF Consume, TypeOK
  <2>2. /\ pc' \in [Saves -> SaveSteps] /\ at' \in [Saves -> Nat]
        /\ fill' \in [Saves -> Submitters \cup {NoOne}]
        /\ tries' \in [Saves -> 0..(CommitTries - 1)]
    <3>1. CASE Ends(s)
      BY <3>1, EndsTyped
    <3>2. CASE ~Ends(s)
      BY <1>1, <3>2 DEF Consume, TypeOK, SaveSteps, Rows
    <3> QED BY <3>1, <3>2
  <2> QED BY <1>1, <2>1, <2>2 DEF Consume, TypeOK, submitting, sweeping
<1>2. CASE Claim(s)
  <2> DEFINE new == [row EXCEPT !.status = "claimed", !.claim = s, !.claimedUntil = at[s] + ClaimTTL]
             hit == Claimable(at[s])
  <2>1. at[s] + ClaimTTL \in Nat
    BY SMT DEF TypeOK, SecretRequestsAssumption
  <2>2. new \in Rows
    BY <2>1, RowsKept
  <2>3. row' \in Rows /\ faults' \in 0..MaxFaults
    BY <1>2, <2>2, FaultTyped DEF Claim, TypeOK, Write, Fault
  <2>4. Goes(s, "checks") \/ Ends(s)
    BY <1>2 DEF Claim
  <2>5. /\ pc' \in [Saves -> SaveSteps] /\ at' \in [Saves -> Nat]
        /\ fill' \in [Saves -> Submitters \cup {NoOne}]
        /\ tries' \in [Saves -> 0..(CommitTries - 1)]
    BY <2>4, EndsTyped, GoesTyped DEF SaveSteps
  <2> QED BY <1>2, <2>3, <2>5 DEF Claim, TypeOK, submitting, sweeping
<1>3. CASE Refuse(s)
  <2>1. /\ pc' \in [Saves -> SaveSteps] /\ at' \in [Saves -> Nat]
        /\ fill' \in [Saves -> Submitters \cup {NoOne}]
        /\ tries' \in [Saves -> 0..(CommitTries - 1)]
    BY <1>3, GoesTyped DEF Refuse, SaveSteps
  <2> QED BY <1>3, <2>1 DEF Refuse, TypeOK, submitting, sweeping
<1>4. CASE Dispatch(s)
  <2>1. PICK until \in now..(now + ClaimTTL) :
          LET hit == HeldBy(s, "claimed")
              new == [row EXCEPT !.status = "dispatched", !.claimedUntil = until]
          IN  \/ /\ Write(hit, new)
                 /\ Goes(s, IF hit THEN "send" ELSE "release")
                 /\ UNCHANGED faults
              \/ Fault(hit, new) /\ Goes(s, "release")
    BY <1>4 DEF Dispatch
  <2>2. until \in Nat
    BY SMT DEF TypeOK, SecretRequestsAssumption
  <2>3. [row EXCEPT !.status = "dispatched", !.claimedUntil = until] \in Rows
    BY <2>2, RowsKept
  <2>4. row' \in Rows /\ faults' \in 0..MaxFaults
    BY <2>1, <2>3, FaultTyped DEF TypeOK, Write, Fault
  <2>5. Goes(s, "send") \/ Goes(s, "release")
    BY <2>1
  <2>6. /\ pc' \in [Saves -> SaveSteps] /\ at' \in [Saves -> Nat]
        /\ fill' \in [Saves -> Submitters \cup {NoOne}]
        /\ tries' \in [Saves -> 0..(CommitTries - 1)]
    BY <2>5, GoesTyped DEF SaveSteps
  <2> QED BY <1>4, <2>4, <2>6 DEF Dispatch, TypeOK, submitting, sweeping
<1>5. CASE Send(s)
  <2>1. /\ pc' \in [Saves -> SaveSteps] /\ at' \in [Saves -> Nat]
        /\ fill' \in [Saves -> Submitters \cup {NoOne}]
        /\ tries' \in [Saves -> 0..(CommitTries - 1)]
    BY <1>5, GoesTyped DEF Send, SaveSteps
  <2> QED BY <1>5, <2>1 DEF Send, TypeOK, submitting, sweeping
<1>6. CASE Use(s)
  <2>1. now \in Nat
    BY SMT DEF TypeOK, SecretRequestsAssumption
  <2> DEFINE hit == HeldBy(s, "dispatched")
             new == Ended("used", now)
  <2>2. (Write(hit, new) /\ UNCHANGED faults) \/ Fault(hit, new)
    BY <1>6 DEF Use
  <2>3. new \in Rows
    BY <2>1, RowsKept
  <2>4. row' \in Rows /\ faults' \in 0..MaxFaults
    <3> HIDE DEF new, hit
    <3>1. row' \in Rows
      BY <2>2, <2>3 DEF TypeOK, Write, Fault
    <3> QED BY <3>1, <2>2, FaultTyped
  <2>5. /\ pc' \in [Saves -> SaveSteps] /\ at' \in [Saves -> Nat]
        /\ fill' \in [Saves -> Submitters \cup {NoOne}]
        /\ tries' \in [Saves -> 0..(CommitTries - 1)]
    <3>1. CASE Ends(s)
      BY <3>1, EndsTyped
    <3>2. CASE ~Ends(s)
      <4>1. /\ ~GivesUp(s)
            /\ tries' = [tries EXCEPT ![s] = @ + 1]
            /\ UNCHANGED <<pc, at, fill>>
        BY <1>6, <3>2 DEF Use
      <4>2. tries[s] + 1 \in 0..(CommitTries - 1)
        BY <4>1, SMT DEF GivesUp, TypeOK, SecretRequestsAssumption
      <4> QED BY <4>1, <4>2 DEF TypeOK
    <3> QED BY <3>1, <3>2
  <2> QED BY <1>6, <2>4, <2>5 DEF Use, TypeOK, submitting, sweeping
<1>7. CASE Release(s)
  <2>1. row' \in Rows /\ faults' \in 0..MaxFaults
    BY <1>7, RowsKept, FaultTyped DEF Release, TypeOK, Write, Fault
  <2> QED BY <1>7, <2>1, EndsTyped DEF Release, TypeOK, submitting, sweeping
<1>8. CASE Crash(s)
  BY <1>8, EndsTyped DEF Crash, TypeOK, submitting, sweeping
<1> QED BY <1>1, <1>2, <1>3, <1>4, <1>5, <1>6, <1>7, <1>8 DEF SaveStep

\* The clock, the submitters and the sweep keep the types.
LEMMA TypeOthers ==
  ASSUME SecretRequestsAssumption, TypeOK,
         Tick \/ (\E u \in Submitters : SubmitStep(u)) \/ SweepStep
  PROVE  TypeOK'
<1>1. CASE Tick
  <2>1. now' \in 0..MaxTime
    BY <1>1, SMT DEF Tick, TypeOK, SecretRequestsAssumption
  <2> QED BY <1>1, <2>1 DEF Tick, TypeOK, saving, submitting, sweeping
<1>2. ASSUME NEW u \in Submitters, Open(u) PROVE TypeOK'
  <2>1. now \in Nat
    BY SMT DEF TypeOK, SecretRequestsAssumption
  <2> QED BY <1>2, <2>1 DEF Open, TypeOK, saving, sweeping
<1>3. ASSUME NEW u \in Submitters, Submit(u) PROVE TypeOK'
  <2>1. opened[u] + UseWindow \in Nat
    BY SMT DEF TypeOK, SecretRequestsAssumption
  <2> DEFINE hit == Submittable(opened[u])
             new == [row EXCEPT !.status = "submitted", !.ciphertexts = u,
                                !.expiresAt = opened[u] + UseWindow]
  <2>2. (Write(hit, new) /\ UNCHANGED faults) \/ Fault(hit, new)
    BY <1>3 DEF Submit
  <2>3. new \in Rows
    BY <2>1, RowsKept
  <2>4. row' \in Rows /\ faults' \in 0..MaxFaults
    <3> HIDE DEF new, hit
    <3>1. row' \in Rows
      BY <2>2, <2>3 DEF TypeOK, Write, Fault
    <3> QED BY <3>1, <2>2, FaultTyped
  <2>5. member' \in [Submitters -> {"idle", "submit", "stored", "ended"}]
    BY <1>3 DEF Submit, TypeOK
  <2> QED BY <1>3, <2>4, <2>5 DEF Submit, TypeOK, saving, sweeping
<1>4. CASE SweepStep
  <2>1. now \in Nat /\ sweepAt \in Nat
    BY SMT DEF TypeOK, SecretRequestsAssumption
  <2>2. CASE SweepBegins
    BY <2>1, <2>2 DEF SweepBegins, TypeOK, saving, submitting
  <2>3. ASSUME NEW hit, NEW new \in Rows, NEW next \in {"idle", "dispatched", "prune"},
               SweepStatement(hit, new, next)
        PROVE  TypeOK'
    <3>1. row' \in Rows /\ faults' \in 0..MaxFaults
      BY <2>3, FaultTyped DEF SweepStatement, TypeOK, Write, Fault
    <3> QED BY <2>3, <2>1, <3>1 DEF SweepStatement, TypeOK, saving, submitting
  <2>4. CASE Expire
    BY <2>4, <2>3, <2>1, RowsKept DEF Expire
  <2>5. CASE EndDispatched
    BY <2>5, <2>3, <2>1, RowsKept DEF EndDispatched
  <2>6. CASE Prune
    BY <2>6, <2>3, RowsKept DEF Prune
  <2> QED BY <1>4, <2>2, <2>4, <2>5, <2>6 DEF SweepStep
<1> QED BY <1>1, <1>2, <1>3, <1>4 DEF SubmitStep

\* Every reachable state is well typed; a save never tries MarkUsed more often
\* than commitTries.
THEOREM SecretTypes == Spec => []TypeOK
<1> USE SecretRequestsAssumption
<1>1. Init => TypeOK
  BY TypeInit
<1>2. TypeOK /\ [Next]_vars => TypeOK'
  <2> SUFFICES ASSUME TypeOK, [Next]_vars PROVE TypeOK'
    OBVIOUS
  <2>1. CASE Next
    BY <2>1, TypeSave, TypeOthers DEF Next
  <2>2. CASE UNCHANGED vars
    BY <2>2 DEF vars, saving, submitting, sweeping, TypeOK
  <2> QED BY <2>1, <2>2
<1> QED BY <1>1, <1>2, PTL DEF Spec

-----------------------------------------------------------------------------
\* A save past its gate: Claim.Dispatch answered it that the row is dispatched.
Gated(s) == pc[s] \in {"send", "use"} \/ s \in sent

Fence ==
    /\ \A s, t \in Saves : Gated(s) /\ Gated(t) => s = t
    /\ \A s \in Saves : Gated(s) =>
          HeldBy(s, "dispatched") \/ row.status \in {"used", "gone"}

\* The fence stands when no save passes its gate and the row is left alone,
\* was not dispatched yet, or ends used (or is pruned).
LEMMA FenceKept ==
  ASSUME Fence,
         \A t \in Saves : Gated(t)' => Gated(t),
         \/ row' = row
         \/ row.status \in {"pending", "submitted", "claimed"}
         \/ row'.status \in {"used", "gone"}
  PROVE  Fence'
<1>1. \A s, t \in Saves : Gated(s)' /\ Gated(t)' => s = t
  BY DEF Fence
<1>2. ASSUME NEW s \in Saves, Gated(s)'
      PROVE  HeldBy(s, "dispatched")' \/ row'.status \in {"used", "gone"}
  <2>1. HeldBy(s, "dispatched") \/ row.status \in {"used", "gone"}
    BY <1>2 DEF Fence
  <2> QED BY <2>1 DEF HeldBy
<1> QED BY <1>1, <1>2 DEF Fence

\* Claim.Dispatch lets one save pass: its row was claimed, so nobody had.
LEMMA FenceDispatch ==
  ASSUME TypeOK, Fence, NEW s \in Saves, Dispatch(s)
  PROVE  Fence'
<1>1. PICK until \in now..(now + ClaimTTL) :
        LET hit == HeldBy(s, "claimed")
            new == [row EXCEPT !.status = "dispatched", !.claimedUntil = until]
        IN  \/ /\ Write(hit, new)
               /\ Goes(s, IF hit THEN "send" ELSE "release")
               /\ UNCHANGED faults
            \/ Fault(hit, new) /\ Goes(s, "release")
  BY DEF Dispatch
<1>2. CASE HeldBy(s, "claimed")
  <2>1. \A t \in Saves : ~Gated(t)
    BY <1>2 DEF Fence, HeldBy
  <2>2. \A t \in Saves : Gated(t)' => t = s
    BY <1>1, <2>1 DEF Dispatch, Gated, Goes, TypeOK
  <2>3. Gated(s)' => HeldBy(s, "dispatched")'
    <3>1. Gated(s)' => row' = [row EXCEPT !.status = "dispatched", !.claimedUntil = until]
      BY <1>1, <1>2, <2>1 DEF Dispatch, Gated, Goes, Write, TypeOK
    <3> QED BY <3>1, <1>2 DEF HeldBy, TypeOK, Rows
  <2> QED BY <2>2, <2>3 DEF Fence
<1>3. CASE ~HeldBy(s, "claimed")
  <2>1. row' = row
    BY <1>1, <1>3 DEF Write, Fault
  <2>2. \A t \in Saves : Gated(t)' => Gated(t)
    BY <1>1, <1>3 DEF Dispatch, Gated, Goes, TypeOK
  <2> QED BY <2>1, <2>2, FenceKept
<1> QED BY <1>2, <1>3

\* Every other step of a save keeps the fence.
LEMMA FenceSave ==
  ASSUME TypeOK, Fence, NEW s \in Saves, SaveStep(s)
  PROVE  Fence'
<1>1. ASSUME Ends(s), UNCHANGED sent PROVE \A t \in Saves : Gated(t)' => Gated(t)
  BY <1>1 DEF Ends, Gated, TypeOK
<1>2. CASE Consume(s)
  BY <1>1, <1>2, FenceKept DEF Consume, Gated, TypeOK
<1>3. CASE Claim(s)
  <2>1. row' = row \/ row.status \in {"submitted", "claimed"}
    BY <1>3 DEF Claim, Claimable, Free, Write, Fault
  <2>2. \A t \in Saves : Gated(t)' => Gated(t)
    BY <1>1, <1>3 DEF Claim, Goes, Gated, TypeOK
  <2> QED BY <2>1, <2>2, FenceKept
<1>4. CASE Refuse(s)
  BY <1>4, FenceKept DEF Refuse, Goes, Gated, TypeOK
<1>5. CASE Dispatch(s)
  BY <1>5, FenceDispatch
<1>6. CASE Send(s)
  BY <1>6, FenceKept DEF Send, Goes, Gated, TypeOK
<1>7. CASE Use(s)
  <2>1. row' = row \/ row' = Ended("used", now)
    BY <1>7 DEF Use, Write, Fault
  <2>2. row' = row \/ row'.status = "used"
    BY <2>1 DEF Ended, TypeOK, Rows
  <2>3. \A t \in Saves : Gated(t)' => Gated(t)
    BY <1>1, <1>7 DEF Use, Gated
  <2> QED BY <2>2, <2>3, FenceKept
<1>8. CASE Release(s)
  <2>1. row' = row \/ row.status = "claimed"
    BY <1>8 DEF Release, HeldBy, Write, Fault
  <2>2. \A t \in Saves : Gated(t)' => Gated(t)
    BY <1>1, <1>8 DEF Release
  <2> QED BY <2>1, <2>2, FenceKept
<1>9. CASE Crash(s)
  BY <1>1, <1>9, FenceKept DEF Crash
<1> QED BY <1>2, <1>3, <1>4, <1>5, <1>6, <1>7, <1>8, <1>9 DEF SaveStep

\* The clock, the submitters and the sweep keep the fence.
LEMMA FenceOthers ==
  ASSUME TypeOK, Fence,
         Tick \/ (\E u \in Submitters : SubmitStep(u)) \/ SweepStep
  PROVE  Fence'
<1>1. UNCHANGED saving => \A t \in Saves : Gated(t)' => Gated(t)
  BY DEF saving, Gated
<1>2. CASE Tick
  BY <1>1, <1>2, FenceKept DEF Tick
<1>3. ASSUME NEW u \in Submitters, Open(u) PROVE Fence'
  BY <1>1, <1>3, FenceKept DEF Open
<1>4. ASSUME NEW u \in Submitters, Submit(u) PROVE Fence'
  <2>1. row' = row \/ row.status = "pending"
    BY <1>4 DEF Submit, Submittable, Write, Fault
  <2> QED BY <2>1, <1>1, <1>4, FenceKept DEF Submit
<1>5. CASE SweepBegins
  BY <1>1, <1>5, FenceKept DEF SweepBegins
<1>6. CASE Expire
  <2>1. row' = row \/ row.status \in {"pending", "submitted", "claimed"}
    BY <1>6 DEF Expire, SweepStatement, Expirable, Free, Write, Fault
  <2> QED BY <2>1, <1>1, <1>6, FenceKept DEF Expire, SweepStatement
<1>7. CASE EndDispatched
  <2>1. row' = row \/ row' = Ended("used", sweepAt)
    BY <1>7 DEF EndDispatched, SweepStatement, Write, Fault
  <2>2. row' = row \/ row'.status = "used"
    BY <2>1 DEF Ended, TypeOK, Rows
  <2> QED BY <2>2, <1>1, <1>7, FenceKept DEF EndDispatched, SweepStatement
<1>8. CASE Prune
  <2>1. row' = row \/ row' = [row EXCEPT !.status = "gone"]
    BY <1>8 DEF Prune, SweepStatement, Write, Fault
  <2>2. row' = row \/ row'.status = "gone"
    BY <2>1 DEF TypeOK, Rows
  <2> QED BY <2>2, <1>1, <1>8, FenceKept DEF Prune, SweepStatement
<1> QED BY <1>2, <1>3, <1>4, <1>5, <1>6, <1>7, <1>8 DEF SubmitStep, SweepStep

\* At most one save is ever past its gate.
THEOREM Fenced == Spec => []Fence
<1>1. Init => Fence
  BY DEF Init, Fence, Gated
<1>2. TypeOK /\ Fence /\ [Next]_vars => Fence'
  <2> SUFFICES ASSUME TypeOK, Fence, [Next]_vars PROVE Fence'
    OBVIOUS
  <2>1. CASE Next
    BY <2>1, FenceSave, FenceOthers DEF Next
  <2>2. CASE UNCHANGED vars
    BY <2>2 DEF vars, saving, Fence, Gated, HeldBy
  <2> QED BY <2>1, <2>2
<1> QED BY <1>1, <1>2, SecretTypes, PTL DEF Spec

\* The values are sent by one save at most: Claim.Dispatch fences the send,
\* whatever lapses, fails or crashes.
THEOREM ValuesUsedOnce == Spec => []UsedOnce
<1>1. TypeOK /\ Fence => UsedOnce
  BY DEF TypeOK, Fence, Gated, UsedOnce
<1> QED BY <1>1, SecretTypes, Fenced, PTL

\* A request whose values were sent reads used for good, or is pruned.
THEOREM ValuesSpent == Spec => []SpentReadsUsed
<1>1. TypeOK /\ Fence => SpentReadsUsed
  <2> SUFFICES ASSUME TypeOK, Fence, NEW s \in sent
               PROVE  StatusAt(now) \in {"used", "gone"}
    BY DEF SpentReadsUsed
  <2>1. row.status \in {"dispatched", "used", "gone"}
    BY DEF TypeOK, Fence, Gated, HeldBy
  <2> QED BY <2>1 DEF StatusAt, Free
<1> QED BY <1>1, SecretTypes, Fenced, PTL

-----------------------------------------------------------------------------
\* While the row is pending nobody was told of, or handed, any values.
Stored ==
    /\ row.status = "pending" => /\ \A u \in Submitters : member[u] # "stored"
                                 /\ \A s \in Saves : fill[s] = NoOne
    /\ TheirValues

\* The values stand when nobody submits: the row keeps or loses them and is
\* never pending again, and saves keep or lose theirs.
LEMMA StoredKept ==
  ASSUME TypeOK, Stored,
         \A u \in Submitters : member'[u] = "stored" => member[u] = "stored",
         \A t \in Saves : fill'[t] \in {fill[t], NoOne},
         \/ row' = row
         \/ row'.status # "pending" /\ row'.ciphertexts \in {row.ciphertexts, NoOne}
  PROVE  Stored'
BY DEF Stored, TheirValues

\* A statement that only writes such a row lets them stand too.
LEMMA StatementKeeps ==
  ASSUME TypeOK, NEW hit, NEW new \in Rows, Write(hit, new) \/ Fault(hit, new),
         new.status # "pending", new.ciphertexts \in {row.ciphertexts, NoOne}
  PROVE  \/ row' = row
         \/ row'.status # "pending" /\ row'.ciphertexts \in {row.ciphertexts, NoOne}
BY DEF Write, Fault

\* Submit stores over a pending row only (SubmitSecretRequest).
LEMMA StoredSubmit ==
  ASSUME TypeOK, Stored, NEW u \in Submitters, Submit(u)
  PROVE  Stored'
<1> DEFINE hit == Submittable(opened[u])
           new == [row EXCEPT !.status = "submitted", !.ciphertexts = u,
                              !.expiresAt = opened[u] + UseWindow]
<1>1. (Write(hit, new) /\ UNCHANGED faults) \/ Fault(hit, new)
  BY DEF Submit
<1>2. new.status = "submitted" /\ new.ciphertexts = u
  BY DEF TypeOK, Rows
<1>3. hit => row.status = "pending"
  BY DEF Submittable
<1>4. UNCHANGED fill
  BY DEF Submit, saving
<1>5. \A v \in Submitters : member'[v] = "stored" =>
        member[v] = "stored" \/ (v = u /\ hit /\ row' = new)
  BY DEF Submit, TypeOK, Write
<1> HIDE DEF hit, new
<1>6. CASE row' = row
  <2>1. ~(hit /\ row' = new)
    BY <1>2, <1>3, <1>6
  <2> QED BY <1>4, <1>5, <1>6, <2>1, StoredKept
<1>7. CASE row' # row
  <2>1. hit /\ row' = new
    BY <1>1, <1>7 DEF Write, Fault
  <2>2. /\ \A v \in Submitters : member[v] # "stored"
        /\ \A s \in Saves : fill[s] = NoOne
    BY <1>3, <2>1 DEF Stored
  <2> QED BY <1>2, <1>4, <1>5, <2>1, <2>2 DEF Stored, TheirValues
<1> QED BY <1>6, <1>7

\* Each step of a save keeps the values (Consume hands out the row's).
LEMMA StoredSave ==
  ASSUME SecretRequestsAssumption, TypeOK, Stored, NEW s \in Saves, SaveStep(s)
  PROVE  Stored'
<1>1. UNCHANGED member
  BY DEF SaveStep, Consume, Claim, Refuse, Dispatch, Send, Use, Release, Crash, submitting
<1>2. ASSUME Ends(s) PROVE \A t \in Saves : fill'[t] \in {fill[t], NoOne}
  BY <1>2 DEF Ends, TypeOK
<1>3. ASSUME NEW step, Goes(s, step) PROVE \A t \in Saves : fill'[t] \in {fill[t], NoOne}
  BY <1>3 DEF Goes
<1>4. CASE Consume(s)
  <2>1. row' = row
    BY <1>4 DEF Consume
  <2>2. CASE Ends(s)
    BY <1>1, <1>2, <2>1, <2>2, StoredKept
  <2>3. CASE ~Ends(s)
    <3>1. StatusAt(now) = "submitted" /\ fill' = [fill EXCEPT ![s] = row.ciphertexts]
      BY <1>4, <2>3 DEF Consume
    <3>2. row.status # "pending"
      BY <3>1 DEF StatusAt, Free
    <3>3. \A t \in Saves : fill'[t] \in {fill[t], row.ciphertexts}
      BY <3>1 DEF TypeOK
    <3> QED BY <1>1, <2>1, <3>2, <3>3 DEF Stored, TheirValues
  <2> QED BY <2>2, <2>3
<1>5. CASE Claim(s)
  <2> DEFINE hit == Claimable(at[s])
             new == [row EXCEPT !.status = "claimed", !.claim = s,
                                !.claimedUntil = at[s] + ClaimTTL]
  <2>1. at[s] + ClaimTTL \in Nat
    BY SMT DEF TypeOK, SecretRequestsAssumption
  <2>2. new \in Rows /\ new.status = "claimed" /\ new.ciphertexts = row.ciphertexts
    BY <2>1, RowsKept DEF TypeOK, Rows
  <2>3. Write(hit, new) \/ Fault(hit, new)
    BY <1>5 DEF Claim
  <2>4. \A t \in Saves : fill'[t] \in {fill[t], NoOne}
    BY <1>2, <1>3, <1>5 DEF Claim
  <2> HIDE DEF hit, new
  <2> QED BY <1>1, <2>2, <2>3, <2>4, StatementKeeps, StoredKept
<1>6. CASE Refuse(s)
  BY <1>1, <1>3, <1>6, StoredKept DEF Refuse
<1>7. CASE Dispatch(s)
  <2>1. PICK until \in now..(now + ClaimTTL) :
          LET hit == HeldBy(s, "claimed")
              new == [row EXCEPT !.status = "dispatched", !.claimedUntil = until]
          IN  \/ /\ Write(hit, new)
                 /\ Goes(s, IF hit THEN "send" ELSE "release")
                 /\ UNCHANGED faults
              \/ Fault(hit, new) /\ Goes(s, "release")
    BY <1>7 DEF Dispatch
  <2> DEFINE hit == HeldBy(s, "claimed")
             new == [row EXCEPT !.status = "dispatched", !.claimedUntil = until]
  <2>2. until \in Nat
    BY SMT DEF TypeOK, SecretRequestsAssumption
  <2>3. new \in Rows /\ new.status = "dispatched" /\ new.ciphertexts = row.ciphertexts
    BY <2>2, RowsKept DEF TypeOK, Rows
  <2>4. Write(hit, new) \/ Fault(hit, new)
    BY <2>1
  <2>5. \A t \in Saves : fill'[t] \in {fill[t], NoOne}
    BY <1>3, <2>1
  <2> HIDE DEF hit, new
  <2> QED BY <1>1, <2>3, <2>4, <2>5, StatementKeeps, StoredKept
<1>8. CASE Send(s)
  BY <1>1, <1>3, <1>8, StoredKept DEF Send
<1>9. CASE Use(s)
  <2> DEFINE hit == HeldBy(s, "dispatched")
             new == Ended("used", now)
  <2>1. now \in Nat
    BY SMT DEF TypeOK, SecretRequestsAssumption
  <2>2. new \in Rows /\ new.status = "used" /\ new.ciphertexts = NoOne
    BY <2>1, RowsKept DEF Ended, TypeOK, Rows
  <2>3. Write(hit, new) \/ Fault(hit, new)
    BY <1>9 DEF Use
  <2>4. \A t \in Saves : fill'[t] \in {fill[t], NoOne}
    BY <1>2, <1>9 DEF Use
  <2> HIDE DEF hit, new
  <2> QED BY <1>1, <2>2, <2>3, <2>4, StatementKeeps, StoredKept
<1>10. CASE Release(s)
  <2> DEFINE hit == HeldBy(s, "claimed")
             new == [row EXCEPT !.status = "submitted", !.claim = NoOne, !.claimedUntil = 0]
  <2>1. new \in Rows /\ new.status = "submitted" /\ new.ciphertexts = row.ciphertexts
    BY RowsKept DEF TypeOK, Rows
  <2>2. Write(hit, new) \/ Fault(hit, new)
    BY <1>10 DEF Release
  <2>3. \A t \in Saves : fill'[t] \in {fill[t], NoOne}
    BY <1>2, <1>10 DEF Release
  <2> HIDE DEF hit, new
  <2> QED BY <1>1, <2>1, <2>2, <2>3, StatementKeeps, StoredKept
<1>11. CASE Crash(s)
  BY <1>1, <1>2, <1>11, StoredKept DEF Crash
<1> QED BY <1>4, <1>5, <1>6, <1>7, <1>8, <1>9, <1>10, <1>11 DEF SaveStep

\* The sweep only ends requests, without values.
LEMMA StoredSweep ==
  ASSUME SecretRequestsAssumption, TypeOK, Stored, SweepStep
  PROVE  Stored'
<1>1. UNCHANGED <<member, fill>>
  BY DEF SweepStep, SweepBegins, Expire, EndDispatched, Prune, SweepStatement, saving, submitting
<1>2. ASSUME NEW hit, NEW new \in Rows, NEW next, SweepStatement(hit, new, next),
             new.status # "pending", new.ciphertexts \in {row.ciphertexts, NoOne}
      PROVE  Stored'
  <2>1. Write(hit, new) \/ Fault(hit, new)
    BY <1>2 DEF SweepStatement
  <2> QED BY <1>1, <1>2, <2>1, StatementKeeps, StoredKept
<1>3. sweepAt \in Nat
  BY DEF TypeOK
<1>4. CASE SweepBegins
  BY <1>1, <1>4, StoredKept DEF SweepBegins
<1>5. CASE Expire
  <2>1. /\ Ended("expired", sweepAt) \in Rows
        /\ Ended("expired", sweepAt).status = "expired"
        /\ Ended("expired", sweepAt).ciphertexts = NoOne
    BY <1>3, RowsKept DEF Ended, TypeOK, Rows
  <2> QED BY <1>5, <2>1, <1>2 DEF Expire
<1>6. CASE EndDispatched
  <2>1. /\ Ended("used", sweepAt) \in Rows
        /\ Ended("used", sweepAt).status = "used"
        /\ Ended("used", sweepAt).ciphertexts = NoOne
    BY <1>3, RowsKept DEF Ended, TypeOK, Rows
  <2> QED BY <1>6, <2>1, <1>2 DEF EndDispatched
<1>7. CASE Prune
  <2> DEFINE new == [row EXCEPT !.status = "gone"]
  <2>1. new \in Rows /\ new.status = "gone" /\ new.ciphertexts = row.ciphertexts
    BY RowsKept DEF TypeOK, Rows
  <2> QED BY <1>7, <2>1, <1>2 DEF Prune
<1> QED BY <1>4, <1>5, <1>6, <1>7 DEF SweepStep

\* Whoever was told that the values are stored, theirs are the values every
\* save carries.
THEOREM ValuesAreTheirs == Spec => []TheirValues
<1> USE SecretRequestsAssumption
<1>1. Init => Stored
  BY DEF Init, Stored, TheirValues
<1>2. TypeOK /\ Stored /\ [Next]_vars => Stored'
  <2> SUFFICES ASSUME TypeOK, Stored, [Next]_vars PROVE Stored'
    OBVIOUS
  <2>1. CASE Tick
    BY <2>1, StoredKept DEF Tick, saving, submitting
  <2>2. ASSUME NEW s \in Saves, SaveStep(s) PROVE Stored'
    BY <2>2, StoredSave
  <2>3. ASSUME NEW u \in Submitters, Open(u) PROVE Stored'
    <3>1. \A v \in Submitters : member'[v] = "stored" => member[v] = "stored"
      BY <2>3 DEF Open, TypeOK
    <3> QED BY <2>3, <3>1, StoredKept DEF Open, saving
  <2>4. ASSUME NEW u \in Submitters, Submit(u) PROVE Stored'
    BY <2>4, StoredSubmit
  <2>5. CASE SweepStep
    BY <2>5, StoredSweep
  <2>6. CASE UNCHANGED vars
    BY <2>6, StoredKept DEF vars, saving, submitting
  <2> QED BY <2>1, <2>2, <2>3, <2>4, <2>5, <2>6 DEF Next, SubmitStep
<1>3. Stored => TheirValues
  BY DEF Stored
<1> QED BY <1>1, <1>2, <1>3, SecretTypes, PTL DEF Spec

-----------------------------------------------------------------------------
\* Every clock that was read is past, and a save that checks within its TTL
\* holds the row until then.
Read == sweepAt <= now /\ \A s \in Saves : at[s] <= now

Held ==
    /\ Read
    /\ \A s \in Saves : pc[s] = "checks" /\ now < at[s] + ClaimTTL =>
          HeldBy(s, "claimed") /\ row.claimedUntil = at[s] + ClaimTTL

\* A claim stands while no save begins its checks and the row is left alone,
\* or was not under a claim that is still live now.
LEMMA HeldKept ==
  ASSUME SecretRequestsAssumption, TypeOK, Held, now' \in Nat, now <= now', Read',
         \A t \in Saves : pc'[t] = "checks" => pc[t] = "checks" /\ at'[t] = at[t],
         \/ row' = row
         \/ row.status # "claimed"
         \/ row.claimedUntil <= now
         \/ \A t \in Saves : pc'[t] = "checks" => row.claim # t
  PROVE  Held'
<1> SUFFICES ASSUME NEW t \in Saves, pc'[t] = "checks", now' < at'[t] + ClaimTTL
             PROVE  HeldBy(t, "claimed")' /\ row'.claimedUntil = at'[t] + ClaimTTL
  BY DEF Held
<1>1. now < at[t] + ClaimTTL
  BY SMT DEF TypeOK, SecretRequestsAssumption
<1>2. HeldBy(t, "claimed") /\ row.claimedUntil = at[t] + ClaimTTL
  BY <1>1 DEF Held
<1>3. row' = row
  BY <1>1, <1>2, SMT DEF HeldBy, TypeOK, SecretRequestsAssumption
<1> QED BY <1>2, <1>3 DEF HeldBy

\* Each step of a save keeps the other saves' claims.
LEMMA HeldSave ==
  ASSUME SecretRequestsAssumption, TypeOK, Held, NEW s \in Saves, SaveStep(s)
  PROVE  Held'
<1>1. UNCHANGED <<now, sweepAt>> /\ now \in Nat
  <2>1. UNCHANGED <<now, sweepAt>>
    BY DEF SaveStep, Consume, Claim, Refuse, Dispatch, Send, Use, Release, Crash, sweeping
  <2>2. now \in Nat
    BY SMT DEF TypeOK, SecretRequestsAssumption
  <2> QED BY <2>1, <2>2
<1>2. now <= now' /\ now' \in Nat
  BY <1>1, SMT
<1>3. ASSUME Ends(s)
      PROVE  /\ \A t \in Saves : pc'[t] = "checks" => t # s /\ pc[t] = "checks" /\ at'[t] = at[t]
             /\ Read'
  <2>1. \A t \in Saves : at'[t] = IF t = s THEN 0 ELSE at[t]
    BY <1>3 DEF Ends, TypeOK
  <2>2. Read'
    BY <1>1, <2>1, SMT DEF Held, Read, TypeOK
  <2> QED BY <1>3, <2>1, <2>2 DEF Ends, TypeOK
<1>4. ASSUME NEW step, step # "checks", Goes(s, step)
      PROVE  /\ \A t \in Saves : pc'[t] = "checks" => t # s /\ pc[t] = "checks" /\ at'[t] = at[t]
             /\ Read'
  BY <1>1, <1>4 DEF Goes, TypeOK, Held, Read
<1>5. ASSUME NEW hit, NEW new, Write(hit, new) \/ Fault(hit, new),
             hit => row.status # "claimed" \/ row.claim = s \/ row.claimedUntil <= now,
             Read',
             \A t \in Saves : pc'[t] = "checks" => t # s /\ pc[t] = "checks" /\ at'[t] = at[t]
      PROVE  Held'
  <2>1. row' = row \/ hit
    BY <1>5 DEF Write, Fault
  <2> QED BY <1>2, <1>5, <2>1, HeldKept
<1>6. CASE Consume(s)
  <2>1. CASE Ends(s)
    BY <1>2, <1>3, <1>6, <2>1, HeldKept DEF Consume
  <2>2. CASE ~Ends(s)
    <3>1. pc' = [pc EXCEPT ![s] = "claim"] /\ at' = [at EXCEPT ![s] = now] /\ row' = row
      BY <1>6, <2>2 DEF Consume
    <3>2. Read'
      BY <1>1, <3>1, SMT DEF Held, Read, TypeOK
    <3> QED BY <1>2, <3>1, <3>2, HeldKept DEF TypeOK
  <2> QED BY <2>1, <2>2
<1>7. CASE Claim(s)
  <2> DEFINE hit == Claimable(at[s])
             new == [row EXCEPT !.status = "claimed", !.claim = s,
                                !.claimedUntil = at[s] + ClaimTTL]
  <2>1. Write(hit, new) \/ Fault(hit, new)
    BY <1>7 DEF Claim
  <2>2. hit => row.status = "submitted" \/ row.claimedUntil <= now
    BY SMT DEF Claimable, Free, Lapsed, Held, Read, TypeOK, Rows, SecretRequestsAssumption
  <2>3. CASE Ends(s)
    <3> HIDE DEF hit, new
    <3> QED BY <1>3, <1>5, <2>1, <2>2, <2>3
  <2>4. CASE ~Ends(s)
    <3>1. hit /\ row' = new /\ Goes(s, "checks")
      BY <1>7, <2>4 DEF Claim, Write
    <3>2. Read'
      BY <1>1, <3>1 DEF Goes, Held, Read
    <3>3. ASSUME NEW t \in Saves, pc'[t] = "checks", now' < at'[t] + ClaimTTL
          PROVE  HeldBy(t, "claimed")' /\ row'.claimedUntil = at'[t] + ClaimTTL
      <4>1. CASE t = s
        BY <3>1, <4>1 DEF Goes, HeldBy, TypeOK, Rows
      <4>2. CASE t # s
        <5>1. pc[t] = "checks" /\ now < at[t] + ClaimTTL
          BY <1>1, <3>1, <3>3, <4>2 DEF Goes, TypeOK
        <5>2. row.status = "claimed" /\ row.claimedUntil = at[t] + ClaimTTL
          BY <5>1 DEF Held, HeldBy
        <5>3. row.claimedUntil <= now
          BY <2>2, <3>1, <5>2
        <5> QED BY <5>1, <5>2, <5>3, SMT DEF TypeOK, SecretRequestsAssumption
      <4> QED BY <4>1, <4>2
    <3> QED BY <3>2, <3>3 DEF Held
  <2> QED BY <2>3, <2>4
<1>8. CASE Refuse(s)
  BY <1>2, <1>4, <1>8, HeldKept DEF Refuse
<1>9. CASE Dispatch(s)
  <2>1. PICK until \in now..(now + ClaimTTL) :
          LET hit == HeldBy(s, "claimed")
              new == [row EXCEPT !.status = "dispatched", !.claimedUntil = until]
          IN  \/ /\ Write(hit, new)
                 /\ Goes(s, IF hit THEN "send" ELSE "release")
                 /\ UNCHANGED faults
              \/ Fault(hit, new) /\ Goes(s, "release")
    BY <1>9 DEF Dispatch
  <2> DEFINE new == [row EXCEPT !.status = "dispatched", !.claimedUntil = until]
  <2>2. Write(HeldBy(s, "claimed"), new) \/ Fault(HeldBy(s, "claimed"), new)
    BY <2>1
  <2>3. Goes(s, "send") \/ Goes(s, "release")
    BY <2>1
  <2>4. HeldBy(s, "claimed") => row.claim = s
    BY DEF HeldBy
  <2> HIDE DEF new
  <2> QED BY <1>4, <1>5, <2>2, <2>3, <2>4
<1>10. CASE Send(s)
  BY <1>2, <1>4, <1>10, HeldKept DEF Send
<1>11. CASE Use(s)
  <2>1. Write(HeldBy(s, "dispatched"), Ended("used", now))
          \/ Fault(HeldBy(s, "dispatched"), Ended("used", now))
    BY <1>11 DEF Use
  <2>2. HeldBy(s, "dispatched") => row.status # "claimed"
    BY DEF HeldBy
  <2>3. CASE Ends(s)
    BY <1>3, <1>5, <2>1, <2>2, <2>3
  <2>4. CASE ~Ends(s)
    <3>1. UNCHANGED <<pc, at>> /\ pc[s] = "use"
      BY <1>11, <2>4 DEF Use
    <3>2. Read'
      BY <1>1, <3>1 DEF Held, Read
    <3> QED BY <1>5, <2>1, <2>2, <3>1, <3>2
  <2> QED BY <2>3, <2>4
<1>12. CASE Release(s)
  <2> DEFINE new == [row EXCEPT !.status = "submitted", !.claim = NoOne, !.claimedUntil = 0]
  <2>1. Write(HeldBy(s, "claimed"), new) \/ Fault(HeldBy(s, "claimed"), new)
    BY <1>12 DEF Release
  <2>2. HeldBy(s, "claimed") => row.claim = s
    BY DEF HeldBy
  <2>3. Ends(s)
    BY <1>12 DEF Release
  <2> HIDE DEF new
  <2> QED BY <1>3, <1>5, <2>1, <2>2, <2>3
<1>13. CASE Crash(s)
  BY <1>2, <1>3, <1>13, HeldKept DEF Crash
<1> QED BY <1>6, <1>7, <1>8, <1>9, <1>10, <1>11, <1>12, <1>13 DEF SaveStep

\* The clock, the submitters and the sweep keep every live claim.
LEMMA HeldOthers ==
  ASSUME SecretRequestsAssumption, TypeOK, Held,
         Tick \/ (\E u \in Submitters : SubmitStep(u)) \/ SweepStep
  PROVE  Held'
<1>1. now \in Nat /\ now' \in Nat /\ now <= now' /\ UNCHANGED <<pc, at>>
  <2>1. now \in Nat
    BY SMT DEF TypeOK, SecretRequestsAssumption
  <2>2. now' = now \/ now' = now + 1
    BY DEF Tick, SubmitStep, Open, Submit, SweepStep, SweepBegins, Expire, EndDispatched,
           Prune, SweepStatement
  <2>3. UNCHANGED <<pc, at>>
    BY DEF Tick, SubmitStep, Open, Submit, SweepStep, SweepBegins, Expire, EndDispatched,
           Prune, SweepStatement, saving
  <2> QED BY <2>1, <2>2, <2>3, SMT
<1>2. Read'
  <2>1. sweepAt' \in {sweepAt, now, 0}
    BY DEF Tick, SubmitStep, Open, Submit, SweepStep, SweepBegins, Expire, EndDispatched,
           Prune, SweepStatement, sweeping
  <2> QED BY <1>1, <2>1, SMT DEF Held, Read, TypeOK
<1>3. \/ row' = row
      \/ row.status # "claimed"
      \/ row.claimedUntil <= now
  <2>1. CASE Tick \/ SweepBegins
    BY <2>1 DEF Tick, SweepBegins
  <2>2. ASSUME NEW u \in Submitters, SubmitStep(u)
        PROVE  row' = row \/ row.status # "claimed"
    BY <2>2 DEF SubmitStep, Open, Submit, Submittable, Write, Fault
  <2>3. CASE Expire
    <3>1. row' = row \/ Expirable(sweepAt)
      BY <2>3 DEF Expire, SweepStatement, Write, Fault
    <3> QED BY <3>1, SMT DEF Expirable, Free, Lapsed, Held, Read, TypeOK, Rows,
                             SecretRequestsAssumption
  <2>4. CASE EndDispatched
    BY <2>4 DEF EndDispatched, SweepStatement, Abandoned, Write, Fault
  <2>5. CASE Prune
    BY <2>5 DEF Prune, SweepStatement, Write, Fault
  <2> QED BY <2>1, <2>2, <2>3, <2>4, <2>5 DEF SweepStep
<1> QED BY <1>1, <1>2, <1>3, HeldKept

\* A save never loses its claim within ClaimTTL: not to another save, and not
\* to the sweep of a request past its own deadline.
THEOREM LiveClaimsHold == Spec => []ClaimHolds
<1> USE SecretRequestsAssumption
<1>1. Init => Held
  BY SMT DEF Init, Held, Read
<1>2. TypeOK /\ Held /\ [Next]_vars => Held'
  <2> SUFFICES ASSUME TypeOK, Held, [Next]_vars PROVE Held'
    OBVIOUS
  <2>1. CASE Next
    BY <2>1, HeldSave, HeldOthers DEF Next
  <2>2. CASE UNCHANGED vars
    BY <2>2 DEF vars, saving, sweeping, Held, Read, HeldBy
  <2> QED BY <2>1, <2>2
<1>3. Held => ClaimHolds
  BY DEF Held, ClaimHolds
<1> QED BY <1>1, <1>2, <1>3, SecretTypes, PTL DEF Spec
=============================================================================
