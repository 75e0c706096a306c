---------------------------- MODULE RolloutLife ----------------------------
(***************************************************************************)
(* What the rollout queue promises of a rollout, whichever processes drive *)
(* it: the states it goes through, that it is not done while it owes a     *)
(* look at an app somebody asked for, and that a stop lets at most one     *)
(* more step start. Rollouts implements it (Rollouts!Implements).          *)
(***************************************************************************)
EXTENDS Naturals

CONSTANTS
  Rollouts,         \* rollout ids
  Apps,             \* the apps a scope may ask for
  Revisions,        \* the revisions they may be asked at; 0 asks for nothing
  SameScope(_, _)   \* two ids are of one kind and scope_key

VARIABLES
  state,      \* per rollout: none, queued, running, done, stopped, failed, gone
  stopping,   \* per rollout: a stop was asked for
  owed,       \* per rollout, per app: the revision asked and not looked at yet
  afterStop   \* per rollout: steps started after a stop was asked for

vars == <<state, stopping, owed, afterStop>>

Active(r) == state[r] \in {"queued", "running"}
Ended(r)  == state[r] \in {"done", "stopped", "failed"}
Nothing   == [a \in Apps |-> 0]
Asks      == [Apps -> Revisions]

AtMost(s, t) == \A a \in Apps : s[a] <= t[a]

Init ==
  /\ state = [r \in Rollouts |-> "none"]
  /\ stopping = [r \in Rollouts |-> FALSE]
  /\ owed = [r \in Rollouts |-> Nothing]
  /\ afterStop = [r \in Rollouts |-> 0]

\* A scope has one active rollout.
Queue(r) ==
  /\ state[r] = "none"
  /\ \A s \in Rollouts : SameScope(r, s) => ~Active(s)
  /\ state' = [state EXCEPT ![r] = "queued"]
  /\ \E asked \in Asks : owed' = [owed EXCEPT ![r] = asked]
  /\ UNCHANGED <<stopping, afterStop>>

Take(r) ==
  /\ state[r] = "queued"
  /\ state' = [state EXCEPT ![r] = "running"]
  /\ UNCHANGED <<stopping, owed, afterStop>>

\* A rollout that is to stop takes no more: it would drop it.
Extend(r) ==
  /\ Active(r) /\ ~stopping[r]
  /\ \E asked \in Asks : AtMost(owed[r], asked) /\ owed' = [owed EXCEPT ![r] = asked]
  /\ UNCHANGED <<state, stopping, afterStop>>

Look(r) ==
  /\ \E left \in Asks : AtMost(left, owed[r]) /\ owed' = [owed EXCEPT ![r] = left]
  /\ UNCHANGED <<state, stopping, afterStop>>

\* The step that starts although a stop was asked for is the only one.
LateStep(r) ==
  /\ state[r] = "running" /\ stopping[r] /\ afterStop[r] = 0
  /\ afterStop' = [afterStop EXCEPT ![r] = 1]
  /\ UNCHANGED <<state, stopping, owed>>

AskToStop(r) ==
  /\ Active(r)
  /\ stopping' = [stopping EXCEPT ![r] = TRUE]
  /\ UNCHANGED <<state, owed, afterStop>>

\* r ended as e, and some of the ended rollouts pruned.
EndedWith(r, e) ==
  LET after == [state EXCEPT ![r] = e]
  IN {[s \in Rollouts |-> IF s \in pruned THEN "gone" ELSE after[s]] :
        pruned \in SUBSET {s \in Rollouts : s = r \/ Ended(s)}}

\* An end, with the older ended rollouts it prunes.
End(r) ==
  /\ \/ /\ state[r] = "running" /\ owed[r] = Nothing
        /\ state' \in EndedWith(r, "done")
        /\ UNCHANGED stopping
     \/ /\ Active(r)
        /\ state' \in EndedWith(r, "stopped")
        /\ stopping' = [stopping EXCEPT ![r] = TRUE]
     \/ /\ state[r] = "running"
        /\ state' \in EndedWith(r, "failed")
        /\ UNCHANGED stopping
  /\ UNCHANGED <<owed, afterStop>>

Next == \E r \in Rollouts :
  Queue(r) \/ Take(r) \/ Extend(r) \/ Look(r) \/ LateStep(r) \/ AskToStop(r) \/ End(r)

Spec == Init /\ [][Next]_vars
=============================================================================
