--------------------------- MODULE SecretRequests ---------------------------
(***************************************************************************)
(* One secret link (domain/usecase/secretreq, its table and its MCP        *)
(* caller saveApp).  A member of the organization submits the values of    *)
(* the request once; a save of the app then claims the request, checks     *)
(* itself, marks the request dispatched and is sent with the values.  The  *)
(* values are to reach the agent at most once, whatever becomes of the     *)
(* save, of the database's answers and of the sweep that ends requests.    *)
(*                                                                         *)
(* The clock is a small integer.  An operation that reads the clock before *)
(* its statement keeps what it read, so a statement may land late.  A      *)
(* database error is a statement that was not applied, or one that was     *)
(* while its answer was lost; MaxFaults bounds them.  A value is named     *)
(* after who submitted it.                                                 *)
(***************************************************************************)
EXTENDS Integers

CONSTANTS
    Saves,          \* the calls of save_app that name the request
    Submitters,     \* the browsers that submit values for it
    NoOne,          \* SQL NULL in claim_id and ciphertexts
    SubmitWindow,   \* how long the request takes a submission
    UseWindow,      \* how long the values wait for a save
    ClaimTTL,       \* how long a save holds its claim
    Retention,      \* how long an ended request is kept
    CommitTries,    \* how often MarkUsed is tried
    MaxTime,        \* bound on the clock
    MaxFaults       \* bound on the database errors

ASSUME SecretRequestsAssumption ==
    /\ NoOne \notin Saves \cup Submitters
    /\ SubmitWindow \in Nat /\ UseWindow \in Nat /\ ClaimTTL \in Nat
    /\ Retention \in Nat /\ CommitTries \in Nat \ {0}
    /\ MaxTime \in Nat /\ MaxFaults \in Nat

VARIABLES
    now,      \* the clock
    row,      \* the request's row
    pc,       \* where each save is in saveApp
    at,       \* the clock a save read in Consume
    fill,     \* the values Consume handed the save
    tries,    \* how often the save tried MarkUsed
    sent,     \* the saves handed to the bus: they may have reached the agent
    member,   \* where each submitter is in Submit
    opened,   \* the clock a submitter read
    sweep,    \* the statement the sweep is at
    sweepAt,  \* the clock the sweep read
    faults    \* the database errors so far

saving == <<pc, at, fill, tries, sent>>
submitting == <<member, opened>>
sweeping == <<sweep, sweepAt>>
vars == <<now, row, saving, submitting, sweeping, faults>>

Statuses == {"pending", "submitted", "claimed", "dispatched", "used", "expired", "gone"}
SaveSteps == {"idle", "claim", "checks", "release", "send", "use", "ended"}

Rows == [status : Statuses, ciphertexts : Submitters \cup {NoOne},
         claim : Saves \cup {NoOne}, claimedUntil : Nat, expiresAt : Nat, endedAt : Nat]

TypeOK ==
    /\ now \in 0..MaxTime
    /\ row \in Rows
    /\ pc \in [Saves -> SaveSteps]
    /\ at \in [Saves -> Nat]
    /\ fill \in [Saves -> Submitters \cup {NoOne}]
    /\ tries \in [Saves -> 0..(CommitTries - 1)]
    /\ sent \in SUBSET Saves
    /\ member \in [Submitters -> {"idle", "submit", "stored", "ended"}]
    /\ opened \in [Submitters -> Nat]
    /\ sweep \in {"idle", "expire", "dispatched", "prune"}
    /\ sweepAt \in Nat
    /\ faults \in 0..MaxFaults

Init ==
    /\ now = 0
    /\ row = [status |-> "pending", ciphertexts |-> NoOne, claim |-> NoOne,
              claimedUntil |-> 0, expiresAt |-> SubmitWindow, endedAt |-> 0]
    /\ pc = [s \in Saves |-> "idle"]
    /\ at = [s \in Saves |-> 0]
    /\ fill = [s \in Saves |-> NoOne]
    /\ tries = [s \in Saves |-> 0]
    /\ sent = {}
    /\ member = [u \in Submitters |-> "idle"]
    /\ opened = [u \in Submitters |-> 0]
    /\ sweep = "idle"
    /\ sweepAt = 0
    /\ faults = 0

-----------------------------------------------------------------------------
\* The status a reader is shown at t: the deadlines count before the sweep
\* writes them.
Lapsed(t) == row.claimedUntil <= t

Free(t) == \/ row.status = "submitted"
           \/ row.status = "claimed" /\ Lapsed(t)

StatusAt(t) ==
    CASE row.status = "dispatched" -> "used"
      [] (row.status = "pending" \/ Free(t)) /\ row.expiresAt <= t -> "expired"
      [] Free(t) /\ t < row.expiresAt -> "submitted"
      [] OTHER -> row.status

\* What the statements match, and what they write.
Claimable_Abandoned(t) ==
    /\ t < row.expiresAt
    /\ \/ Free(t)
       \/ row.status = "dispatched" /\ Lapsed(t)

Claimable(t) == t < row.expiresAt /\ Free(t)

HeldBy(s, status) == row.status = status /\ row.claim = s

Ended(status, t) ==
    [row EXCEPT !.status = status, !.ciphertexts = NoOne, !.claim = NoOne,
                !.claimedUntil = 0, !.endedAt = t]

\* A statement that matches the row when hit is true, and its caller's next
\* step: on a match, on none, and on an error, after which the statement may
\* have been applied.
Write(hit, new) == row' = IF hit THEN new ELSE row

Fault(hit, new) ==
    /\ faults < MaxFaults
    /\ faults' = faults + 1
    /\ \/ row' = row
       \/ Write(hit, new)

-----------------------------------------------------------------------------
\* The clock.
Tick ==
    /\ now < MaxTime
    /\ now' = now + 1
    /\ UNCHANGED <<row, saving, submitting, sweeping, faults>>

\* Submit's read: anything but a pending request is refused.
Open(u) ==
    /\ member[u] = "idle"
    /\ \/ /\ StatusAt(now) = "pending"
          /\ member' = [member EXCEPT ![u] = "submit"]
          /\ opened' = [opened EXCEPT ![u] = now]
       \/ /\ StatusAt(now) # "pending"
          /\ member' = [member EXCEPT ![u] = "ended"]
          /\ UNCHANGED opened
    /\ UNCHANGED <<now, row, saving, sweeping, faults>>

\* Submit's statement.
Submittable_Again(t) == t < row.expiresAt

Submittable(t) == row.status = "pending" /\ t < row.expiresAt

Submit(u) ==
    LET t == opened[u]
        hit == Submittable(t)
        new == [row EXCEPT !.status = "submitted", !.ciphertexts = u,
                           !.expiresAt = t + UseWindow]
    IN  /\ member[u] = "submit"
        /\ \/ /\ Write(hit, new)
              /\ member' = [member EXCEPT ![u] = IF hit THEN "stored" ELSE "ended"]
              /\ UNCHANGED faults
           \/ /\ Fault(hit, new)
              /\ member' = [member EXCEPT ![u] = "ended"]
        /\ opened' = [opened EXCEPT ![u] = 0]
        /\ UNCHANGED <<now, saving, sweeping>>

-----------------------------------------------------------------------------
Goes(s, step) == pc' = [pc EXCEPT ![s] = step] /\ UNCHANGED <<at, fill, tries>>

\* The save returns, its locals with it.
Ends(s) ==
    /\ pc' = [pc EXCEPT ![s] = "ended"]
    /\ at' = [at EXCEPT ![s] = 0]
    /\ fill' = [fill EXCEPT ![s] = NoOne]
    /\ tries' = [tries EXCEPT ![s] = 0]

\* Consume's read: only a submitted request goes on, with its values.
Consume(s) ==
    /\ pc[s] = "idle"
    /\ \/ /\ StatusAt(now) = "submitted"
          /\ pc' = [pc EXCEPT ![s] = "claim"]
          /\ fill' = [fill EXCEPT ![s] = row.ciphertexts]
          /\ at' = [at EXCEPT ![s] = now]
          /\ UNCHANGED tries
       \/ StatusAt(now) # "submitted" /\ Ends(s)
    /\ UNCHANGED <<now, row, sent, submitting, sweeping, faults>>

\* Consume's claim, under the clock of its read.  After an error the save
\* gives up, and a claim that was applied lapses.
Claim(s) ==
    LET hit == Claimable(at[s])
        new == [row EXCEPT !.status = "claimed", !.claim = s,
                           !.claimedUntil = at[s] + ClaimTTL]
    IN  /\ pc[s] = "claim"
        /\ \/ /\ Write(hit, new)
              /\ IF hit THEN Goes(s, "checks") ELSE Ends(s)
              /\ UNCHANGED faults
           \/ Fault(hit, new) /\ Ends(s)
        /\ UNCHANGED <<now, sent, submitting, sweeping>>

\* A check of saveApp or of SaveAppGated refuses the save.
Refuse(s) ==
    /\ pc[s] = "checks"
    /\ Goes(s, "release")
    /\ UNCHANGED <<now, row, sent, submitting, sweeping, faults>>

\* Claim.Dispatch, the gate right before the send.  Its statement may land
\* after the clock it read, so the renewed claim may be shorter than the TTL.
\* Bound: no gate so late that its claim would outlive the clock.
Dispatch(s) ==
    LET hit == HeldBy(s, "claimed")
    IN  /\ pc[s] = "checks"
        /\ now + ClaimTTL <= MaxTime
        /\ \E until \in now..(now + ClaimTTL) :
              LET new == [row EXCEPT !.status = "dispatched", !.claimedUntil = until]
              IN  \/ /\ Write(hit, new)
                     /\ Goes(s, IF hit THEN "send" ELSE "release")
                     /\ UNCHANGED faults
                  \/ Fault(hit, new) /\ Goes(s, "release")
        /\ UNCHANGED <<now, sent, submitting, sweeping>>

\* DispatchSave.  The save reaches the agent or not, and the send's answer
\* does not tell: Commit(true) follows whatever it is.
Send(s) ==
    /\ pc[s] = "send"
    /\ sent' = sent \cup {s}
    /\ Goes(s, "use")
    /\ UNCHANGED <<now, row, submitting, sweeping, faults>>

\* Commit of a dispatched claim: MarkUsed, tried again after an error until
\* it gave up or the commit's own deadline passed.
GivesUp(s) == tries[s] + 1 = CommitTries

Use(s) ==
    LET hit == HeldBy(s, "dispatched")
        new == Ended("used", now)
    IN  /\ pc[s] = "use"
        /\ \/ /\ Write(hit, new)
              /\ Ends(s)
              /\ UNCHANGED faults
           \/ /\ Fault(hit, new)
              /\ \/ Ends(s)
                 \/ /\ ~GivesUp(s)
                    /\ tries' = [tries EXCEPT ![s] = @ + 1]
                    /\ UNCHANGED <<pc, at, fill>>
        /\ UNCHANGED <<now, sent, submitting, sweeping>>

\* Commit of a claim that was not dispatched: Release, tried once.
Release(s) ==
    LET hit == HeldBy(s, "claimed")
        new == [row EXCEPT !.status = "submitted", !.claim = NoOne, !.claimedUntil = 0]
    IN  /\ pc[s] = "release"
        /\ \/ Write(hit, new) /\ UNCHANGED faults
           \/ Fault(hit, new)
        /\ Ends(s)
        /\ UNCHANGED <<now, sent, submitting, sweeping>>

\* The API process dies during a save.
Crash(s) ==
    /\ pc[s] \in {"claim", "checks", "release", "send", "use"}
    /\ Ends(s)
    /\ UNCHANGED <<now, row, sent, submitting, sweeping, faults>>

-----------------------------------------------------------------------------
\* Sweep, three statements under one reading of the clock; an error ends it.
SweepBegins ==
    /\ sweep = "idle"
    /\ sweep' = "expire"
    /\ sweepAt' = now
    /\ UNCHANGED <<now, row, saving, submitting, faults>>

SweepStatement(hit, new, next) ==
    /\ \/ Write(hit, new) /\ sweep' = next /\ UNCHANGED faults
       \/ Fault(hit, new) /\ sweep' = "idle"
    /\ sweepAt' = IF sweep' = "idle" THEN 0 ELSE sweepAt
    /\ UNCHANGED <<now, saving, submitting>>

Expirable_Held(t) == row.expiresAt <= t /\ row.status \in {"pending", "submitted", "claimed"}

Expirable_Dispatched(t) ==
    /\ row.expiresAt <= t
    /\ row.status \in {"pending", "dispatched"} \/ Free(t)

Expirable(t) == row.expiresAt <= t /\ (row.status = "pending" \/ Free(t))

Expire ==
    /\ sweep = "expire"
    /\ SweepStatement(Expirable(sweepAt), Ended("expired", sweepAt), "dispatched")

Abandoned_Never(t) == FALSE

Abandoned(t) == row.status = "dispatched" /\ Lapsed(t)

EndDispatched ==
    /\ sweep = "dispatched"
    /\ SweepStatement(Abandoned(sweepAt), Ended("used", sweepAt), "prune")

Prune ==
    /\ sweep = "prune"
    /\ SweepStatement(row.status \in {"used", "expired"} /\ row.endedAt + Retention < sweepAt,
                      [row EXCEPT !.status = "gone"], "idle")

-----------------------------------------------------------------------------
SaveStep(s) ==
    \/ Consume(s) \/ Claim(s) \/ Refuse(s) \/ Dispatch(s)
    \/ Send(s) \/ Use(s) \/ Release(s) \/ Crash(s)

SubmitStep(u) == Open(u) \/ Submit(u)

SweepStep == SweepBegins \/ Expire \/ EndDispatched \/ Prune

Next ==
    \/ Tick
    \/ \E s \in Saves : SaveStep(s)
    \/ \E u \in Submitters : SubmitStep(u)
    \/ SweepStep

Spec == Init /\ [][Next]_vars

\* The clock goes on and the API sweeps every hour; nobody has to submit or
\* to save.
FairSpec == Spec /\ WF_vars(Tick) /\ WF_vars(SweepStep)

-----------------------------------------------------------------------------
\* The values are sent to the agent by one save at most, whatever the sends
\* and the database answered and whichever claims lapsed (Claim.Dispatch).
UsedOnce == \A s, t \in sent : s = t

\* Once a save was sent with the values the request reads used to everybody
\* and stays so until it is pruned: never submitted again, never expired
\* (Claim.Commit, EndDispatchedSecretRequests).
SpentReadsUsed == sent # {} => StatusAt(now) \in {"used", "gone"}

\* A member who was told that the values are stored is the one whose values
\* every save carries: no later or racing submission replaces them (Submit).
TheirValues ==
    \A u \in Submitters : member[u] = "stored" =>
        /\ row.ciphertexts \in {u, NoOne}
        /\ \A s \in Saves : fill[s] \in {u, NoOne}

\* A save that is within ClaimTTL of its claim still holds the request: no
\* other save and no sweep, not even past the request's own deadline, takes
\* it away while the save checks (ClaimTTL, ExpireSecretRequests).
ClaimHolds ==
    \A s \in Saves :
        pc[s] = "checks" /\ now < at[s] + ClaimTTL => HeldBy(s, "claimed")

\* Submitted values are deleted in the end, used or not, whichever save
\* crashed and whichever writes failed (Sweep).
ValuesGo == row.ciphertexts # NoOne ~> row.ciphertexts = NoOne
=============================================================================
