----------------------------- MODULE MCRollouts -----------------------------
(***************************************************************************)
(* Small instances of the rollout queue: model values for processes,       *)
(* rollouts, apps and calls.                                               *)
(***************************************************************************)
EXTENDS Rollouts, TLC

CONSTANTS w1, w2, u1, r1, a1, a2, q1, q2

TwoWorkers == {w1, w2}
OneUpgrade == {u1}
OneReload  == {r1}
OneApp     == {a1}
TwoApps    == {a1, a2}
TwoRequests == {q1, q2}
None       == {}

\* Processes, calls, apps and rollouts not yet queued are interchangeable.
Symmetric ==
  Permutations(Workers) \cup Permutations(Requests) \cup Permutations(Apps)
    \cup Permutations(Reloads)
=============================================================================
