----------------------------- MODULE HubStreams -----------------------------
(***************************************************************************)
(* One server's agent among several hubs: the agent's connection loop      *)
(* (grpc/agent/agent.go, migrate.go), the hubs' registry of agents and its *)
(* draining (grpc/hub/hub.go, drain.go, status.go), the hub list in Redis  *)
(* (redis/hubs/registry.go) and the API replicas, which vouch for a        *)
(* connecting server (agentauth/check.go) and say which hub it belongs to  *)
(* (agenthub/usecase.go, hubs/picker.go).                                  *)
(*                                                                         *)
(* A connection is a slot of Conns that is reused once both ends are done  *)
(* with it; an ask of the API is a slot of Asks, which outlives the        *)
(* agent's interest in it when the agent stops waiting.  Durations are     *)
(* events: askFloor, unreachableAsk, moveResendAfter, AnnounceTTL,         *)
(* staleAgentTTL and the connection's MaxConnectionAge pass at any moment. *)
(* The hubs' certificates are valid and pinned throughout, and the server  *)
(* keeps one certificate: no code path issues a second one.                *)
(***************************************************************************)
EXTENDS Integers, FiniteSets

CONSTANTS
    Hubs,        \* the hubs
    FirstHub,    \* the hub the server enrolled on
    Conns,       \* connection slots
    Asks,        \* slots of the API's "which hub" requests
    Troubled,    \* the hubs that are drained, stopped or crash
    maxDenials,  \* denials in a row after which the agent gives up
    MaxEvents,   \* bound: drains, undrains, stops, the delete, agent restarts,
                 \* crashes, lost messages and failed calls together
    None, Gone

\* An agent in a hub's registry.
Entries == [bound : Conns \cup {None}, told : BOOLEAN]

ASSUME HubsAssumption ==
    /\ FirstHub \in Hubs
    /\ Troubled \subseteq Hubs
    /\ None \notin Hubs \cup Conns \cup Asks \cup Entries
    /\ Gone \notin Hubs
    /\ maxDenials \in Nat \ {0}
    /\ MaxEvents \in Nat

VARIABLES
    row,      \* servers.hub_id of the server, Gone once it is deleted
    list,     \* Redis: the hub's announced status
    flag,     \* Redis: the operator's drain flag of a hub
    hub,      \* each hub process: its life, its drain flag, its mover
    stale,    \* hubs whose announcer still holds a status read earlier
    entry,    \* Hub.agents[server] of each hub, None or [bound, told]
    revoking, \* hubs the revocation's broadcast is still on its way to
    heard,    \* hubs that processed the revocation
    conn,     \* each connection, seen from the hub
    ag,       \* the agent's Run loop
    ask,      \* the asks at the API
    events,   \* operations and faults so far
    bad       \* history: hubs that were at some time not listed as open

vars == <<row, list, flag, hub, stale, entry, revoking, heard, conn, ag, ask,
          events, bad>>

hubVars == <<list, flag, hub, stale>>
dbVars  == <<row, revoking>>
regVars == <<entry, heard>>

-----------------------------------------------------------------------------
Free == [st |-> "free", hub |-> None, out |-> "none", cut |-> FALSE,
         raced |-> FALSE]

NoAsk == [st |-> "free", cur |-> None, seen |-> {}, ans |-> None]

Init ==
    /\ row = FirstHub
    /\ list = [h \in Hubs |-> "open"]
    /\ flag = [h \in Hubs |-> FALSE]
    /\ hub = [h \in Hubs |-> [life |-> "up", drain |-> FALSE, mover |-> "off"]]
    /\ stale = {}
    /\ entry = [h \in Hubs |-> None]
    /\ revoking = {}
    /\ heard = {}
    /\ conn = [c \in Conns |-> Free]
    /\ ag = [pc |-> "start", conn |-> None, target |-> FirstHub, denials |-> 0,
             floor |-> TRUE, long |-> FALSE, move |-> FALSE, old |-> FALSE,
             ask |-> None]
    /\ ask = [s \in Asks |-> NoAsk]
    /\ events = 0
    /\ bad = {}

\* An operation of a user or an operator, or a fault.
Event == events < MaxEvents /\ events' = events + 1

Draining(h) == hub[h].drain \/ hub[h].life = "stopping"
Up(h)       == hub[h].life # "down"
Status(h)   == IF Draining(h) THEN "draining" ELSE "open"

\* The connection slots with c no longer used by the hub: free once the agent
\* has left it too.
Ended(c, code) == IF ag.conn = c THEN [conn[c] EXCEPT !.st = "ended", !.out = code]
                  ELSE Free

\* The connection after the agent left it: the hub's side ends in its time.
Left(c) == IF conn[c].st = "ended" THEN Free ELSE [conn[c] EXCEPT !.cut = TRUE]

-----------------------------------------------------------------------------
(* The agent: one bring-up                                                 *)

\* Only PermissionDenied counts towards giving up.
Counts_Moved(code) == code \in {"denied", "elsewhere"}

Counts(code) == code = "denied"

GivesUp(n) == n >= maxDenials

\* How Run goes on after a bring-up that failed with the given status.
Refused(code) ==
    LET n == ag.denials + 1 IN
    [ag EXCEPT !.conn = None,
               !.denials = IF Counts(code) THEN n ELSE @,
               !.pc = CASE Counts(code) /\ GivesUp(n)     -> "gaveup"
                        [] code = "elsewhere" /\ ag.floor  -> "ask"
                        [] code = "unavailable" /\ ag.long -> "ask"
                        [] OTHER                           -> "dial"]

\* How it goes on after a stream that ended; settled: the stream was up long
\* enough for its connection to reset the denials.
StreamOver(code, settled) ==
    LET n == (IF settled THEN 0 ELSE ag.denials) + 1 IN
    [ag EXCEPT !.conn = None,
               !.long = FALSE,
               !.denials = IF Counts(code) THEN n ELSE 0,
               !.pc = IF Counts(code) /\ GivesUp(n) THEN "gaveup" ELSE "dial"]

StreamGone == conn[ag.conn].st = "ended" \/ conn[ag.conn].cut

\* The bring-up or the stream ended: by the hub, or with the connection.
AgentSeesEnd ==
    LET c == ag.conn
        code == IF conn[c].st = "ended" THEN conn[c].out ELSE "unavailable" IN
    /\ ag.pc \in {"registering", "up"}
    /\ StreamGone
    /\ conn' = [conn EXCEPT ![c] = Left(c)]
    /\ \/ ag.pc = "registering" /\ ag' = Refused(code)
       \/ ag.pc = "up" /\ \E settled \in BOOLEAN : ag' = StreamOver(code, settled)
    /\ UNCHANGED <<hubVars, dbVars, regVars, ask, events>>

\* RegisterAgent refuses at once while the hub drains, else it asks the API.
Checkable(h) == ~Draining(h)

Dial(c) ==
    LET h == ag.target IN
    /\ ag.pc \in {"start", "dial"}
    /\ conn[c] = Free
    /\ Up(h)
    /\ IF Checkable(h)
       THEN /\ conn' = [conn EXCEPT ![c] = [Free EXCEPT !.st = "checking", !.hub = h]]
            /\ ag' = [ag EXCEPT !.pc = "registering", !.conn = c, !.move = FALSE]
       ELSE /\ ag' = [Refused("elsewhere") EXCEPT !.move = FALSE]
            /\ UNCHANGED conn
    /\ UNCHANGED <<hubVars, dbVars, regVars, ask, events>>

DialFails ==
    /\ ag.pc \in {"start", "dial"}
    /\ ~Up(ag.target)
    /\ ag' = [Refused("unavailable") EXCEPT !.move = FALSE]
    /\ UNCHANGED <<hubVars, dbVars, regVars, conn, ask, events>>

-----------------------------------------------------------------------------
(* The hub: RegisterAgent                                                  *)

\* agentauth.Check at an API replica.
Verdict_Unknown(h) == IF row = h THEN "allowed" ELSE "elsewhere"

Verdict(h) == CASE row = Gone -> "denied"
                [] row # h    -> "elsewhere"
                [] OTHER      -> "allowed"

Verify(c) ==
    /\ conn[c].st = "checking"
    /\ conn' = [conn EXCEPT ![c].st = "checked", ![c].out = Verdict(conn[c].hub)]
    /\ UNCHANGED <<hubVars, dbVars, regVars, ag, ask, events>>

\* No answer within AuthorizeTimeout, or the caller went away.
CheckFails(c) ==
    /\ conn[c].st = "checking"
    /\ IF conn[c].cut THEN UNCHANGED events ELSE Event
    /\ conn' = [conn EXCEPT ![c] = Ended(c, "unavailable")]
    /\ UNCHANGED <<hubVars, dbVars, regVars, ag, ask>>

\* What the section under agentsLock answers.
Recheck_Unraced(c) == CASE conn[c].out # "allowed" -> conn[c].out
                        [] Draining(conn[c].hub)   -> "elsewhere"
                        [] OTHER                   -> "allowed"

Recheck(c) == CASE conn[c].out # "allowed"      -> conn[c].out
                [] Draining(conn[c].hub)        -> "elsewhere"
                [] conn[c].raced                -> "denied"
                [] OTHER                        -> "allowed"

\* The answer to a registration; with "allowed" the agent opens its stream at
\* once (StartStream does not wait for the hub).
RegisterEnds(c) ==
    LET h == conn[c].hub IN
    /\ conn[c].st = "checked"
    /\ IF Recheck(c) # "allowed"
       THEN /\ conn' = [conn EXCEPT ![c] = Ended(c, Recheck(c))]
            /\ UNCHANGED <<entry, ag>>
       ELSE /\ entry' = [entry EXCEPT ![h] =
                            IF @ = None THEN [bound |-> None, told |-> FALSE] ELSE @]
            /\ IF ag.conn = c /\ ~conn[c].cut
               THEN /\ conn' = [conn EXCEPT ![c].st = "opening", ![c].out = "none",
                                            ![c].raced = FALSE]
                    /\ ag' = [ag EXCEPT !.pc = "up"]
               ELSE /\ conn' = [conn EXCEPT ![c] = Ended(c, "unavailable")]
                    /\ UNCHANGED ag
    /\ UNCHANGED <<hubVars, dbVars, heard, ask, events>>

-----------------------------------------------------------------------------
(* The hub: AgentStream                                                    *)

\* closeStream with a cause: the first cause a stream's context gets stays.
Closed(c, cause) == [conn[c] EXCEPT !.out = IF @ = "none" THEN cause ELSE @]

\* The handler starts: only a registered agent may stream, and its newer
\* stream closes the one bound before it.
Bind(c) ==
    LET h == conn[c].hub IN
    /\ conn[c].st = "opening"
    /\ IF entry[h] = None
       THEN /\ conn' = [conn EXCEPT ![c] = Ended(c, "unregistered")]
            /\ UNCHANGED entry
       ELSE /\ conn' = [d \in Conns |->
                          CASE d = c -> [conn[c] EXCEPT !.st = "live"]
                            [] d = entry[h].bound -> Closed(d, "replaced")
                            [] OTHER -> conn[d]]
            /\ entry' = [entry EXCEPT ![h].bound = c]
    /\ UNCHANGED <<hubVars, dbVars, heard, ag, ask, events>>

\* A stream the client gave up before its handler started.
NeverOpens(c) ==
    /\ conn[c].st = "opening" /\ conn[c].cut
    /\ conn' = [conn EXCEPT ![c] = Ended(c, "unavailable")]
    /\ UNCHANGED <<hubVars, dbVars, regVars, ag, ask, events>>

\* Only an entry that still holds this stream goes with it.
CleansUp_Any(c) == entry[conn[c].hub] # None

CleansUp(c) == entry[conn[c].hub] # None /\ entry[conn[c].hub].bound = c

HandlerEnds(c) ==
    LET h == conn[c].hub IN
    /\ conn[c].st = "live"
    /\ conn[c].out # "none" \/ conn[c].cut
    /\ entry' = IF CleansUp(c) THEN [entry EXCEPT ![h] = None] ELSE entry
    /\ conn' = [conn EXCEPT ![c] =
                  Ended(c, IF @.out = "revoked" THEN "denied" ELSE "unavailable")]
    /\ UNCHANGED <<hubVars, dbVars, heard, ag, ask, events>>

\* revoke and reapOnce: the bound stream is closed and the entry goes.
DropEntry(h, cause) ==
    /\ entry' = [entry EXCEPT ![h] = None]
    /\ conn' = [d \in Conns |->
                  LET k == IF entry[h] # None /\ d = entry[h].bound
                           THEN Closed(d, cause) ELSE conn[d] IN
                  IF cause = "revoked" /\ k.hub = h /\ k.st \in {"checking", "checked"}
                  THEN [k EXCEPT !.raced = TRUE] ELSE k]

\* The revocation's broadcast reaches a hub: revokedAt is remembered against
\* the registrations whose check is in flight.
Hear(h) ==
    /\ h \in revoking
    /\ revoking' = revoking \ {h}
    /\ IF Up(h)
       THEN heard' = heard \cup {h} /\ DropEntry(h, "revoked")
       ELSE UNCHANGED <<heard, entry, conn>>
    /\ UNCHANGED <<row, hubVars, ag, ask, events>>

\* No heartbeat for staleAgentTTL: no client is left on the entry, or (a fault)
\* one is slow to open its stream or its beats do not come through.
Attended(h) == \E c \in Conns : /\ conn[c].hub = h /\ ~conn[c].cut
                                /\ conn[c].st \in {"opening", "live"}

Reap(h) ==
    /\ entry[h] # None
    /\ IF Attended(h) THEN Event ELSE UNCHANGED events
    /\ DropEntry(h, "stale")
    /\ UNCHANGED <<hubVars, dbVars, heard, ag, ask>>

-----------------------------------------------------------------------------
(* The hub: draining, the mover, the announcer, the process                *)

\* The operator sets or clears a hub's drain flag.
SetFlag(h) ==
    /\ h \in Troubled /\ Event
    /\ flag' = [flag EXCEPT ![h] = ~@]
    /\ UNCHANGED <<list, hub, stale, dbVars, regVars, conn, ag, ask>>

\* An announcement of the state before a change may have read it and not yet
\* written it.
MayLag(h) == stale' \in {stale, stale \cup {h}}

\* drainLoop reads the flag; drainChanged starts or stops the mover.
SeesFlag(h) ==
    /\ Up(h) /\ hub[h].drain # flag[h]
    /\ hub' = [hub EXCEPT ![h].drain = flag[h],
                          ![h].mover = IF flag[h] \/ hub[h].life = "stopping"
                                       THEN (IF @ = "off" THEN "starts" ELSE @)
                                       ELSE "off"]
    /\ MayLag(h)
    /\ UNCHANGED <<list, flag, dbVars, regVars, conn, ag, ask, events>>

OtherListed(h) == \E g \in Hubs \ {h} : list[g] = "open"

\* Shutdown starts with Drain: with a stream left and another hub to go to
\* the agents are told to move.
StopBegins(h) ==
    /\ h \in Troubled /\ Event
    /\ hub[h].life = "up"
    /\ hub' = [hub EXCEPT ![h].life = "stopping",
                          ![h].mover = IF @ = "off" /\ OtherListed(h)
                                          /\ entry[h] # None /\ entry[h].bound # None
                                       THEN "starts" ELSE @]
    /\ MayLag(h)
    /\ UNCHANGED <<list, flag, dbVars, regVars, conn, ag, ask>>

\* The hub process is gone: its connections break and its memory with it.
Dies(h) ==
    /\ hub' = [hub EXCEPT ![h] = [life |-> "down", drain |-> FALSE, mover |-> "off"]]
    /\ stale' = stale \ {h}
    /\ entry' = [entry EXCEPT ![h] = None]
    /\ heard' = heard \ {h}
    /\ conn' = [d \in Conns |-> IF conn[d].hub = h /\ conn[d].st # "ended"
                                THEN Ended(d, "unavailable") ELSE conn[d]]

\* Drain has waited long enough (for its streams, its deadline, or another
\* hub), the gRPC server stops and the hub withdraws from the list, or fails to.
StopEnds(h) ==
    /\ hub[h].life = "stopping"
    /\ Dies(h)
    /\ list' \in {list, [list EXCEPT ![h] = "absent"]}
    /\ UNCHANGED <<flag, dbVars, ag, ask, events>>

Crash(h) ==
    /\ h \in Troubled /\ Event
    /\ Up(h)
    /\ Dies(h)
    /\ UNCHANGED <<list, flag, dbVars, ag, ask>>

Starts(h) ==
    /\ ~Up(h)
    /\ hub' = [hub EXCEPT ![h].life = "up"]
    /\ UNCHANGED <<list, flag, stale, dbVars, regVars, conn, ag, ask, events>>

Announce(h) ==
    /\ Up(h) /\ list[h] # Status(h)
    /\ list' = [list EXCEPT ![h] = Status(h)]
    /\ UNCHANGED <<flag, hub, stale, dbVars, regVars, conn, ag, ask, events>>

\* The announcement that lagged behind a change is written over it.
AnnounceLate(h) ==
    /\ h \in stale
    /\ stale' = stale \ {h}
    /\ list' = [list EXCEPT ![h] = IF Draining(h) THEN "open" ELSE "draining"]
    /\ UNCHANGED <<flag, hub, dbVars, regVars, conn, ag, ask, events>>

\* The entry's TTL ends: the hub is down, or could not renew it.
ListLapses(h) ==
    /\ list[h] # "absent"
    /\ IF Up(h) THEN h \in Troubled /\ Event ELSE UNCHANGED events
    /\ list' = [list EXCEPT ![h] = "absent"]
    /\ UNCHANGED <<flag, hub, stale, dbVars, regVars, conn, ag, ask>>

\* moveAgents first lists the hub as draining; the write may fail.
MoverStarts(h) ==
    /\ hub[h].mover = "starts"
    /\ hub' = [hub EXCEPT ![h].mover = "moves"]
    /\ \/ list' = [list EXCEPT ![h] = "draining"] /\ UNCHANGED events
       \/ Event /\ UNCHANGED list
    /\ UNCHANGED <<flag, stale, dbVars, regVars, conn, ag, ask>>

\* moveTargets and sendMove: a stream not yet told is told to move.
Tell(h) ==
    /\ hub[h].mover = "moves"
    /\ entry[h] # None /\ entry[h].bound # None /\ ~entry[h].told
    /\ entry' = [entry EXCEPT ![h].told = TRUE]
    /\ LET c == entry[h].bound IN
       ag' = IF ag.conn = c /\ ~conn[c].cut THEN [ag EXCEPT !.move = TRUE] ELSE ag
    /\ UNCHANGED <<hubVars, dbVars, heard, conn, ask, events>>

\* moveResendAfter: the stream is due again.
ToldLapses(h) ==
    /\ entry[h] # None /\ entry[h].told
    /\ entry' = [entry EXCEPT ![h].told = FALSE]
    /\ UNCHANGED <<hubVars, dbVars, heard, conn, ag, ask, events>>

-----------------------------------------------------------------------------
(* The agent: asking the API where to connect                              *)

Prompted == ag.pc = "up" /\ ag.move /\ ag.floor

\* Run asks: at start, after a refusal, when told to move (once askFloor has
\* passed since the last ask).  The ask at start does not count for askFloor.
AskStarts(s) ==
    /\ ag.pc \in {"start", "ask"} \/ Prompted
    /\ ask[s] = NoAsk
    /\ ask' = [ask EXCEPT ![s].st = "asked"]
    /\ ag' = [ag EXCEPT !.pc = "asking", !.ask = s,
                        !.floor = @ /\ ag.pc = "start",
                        !.long = FALSE,
                        !.move = @ /\ ag.pc # "up"]
    /\ UNCHANGED <<hubVars, dbVars, regVars, conn, events>>

\* The timer of a connected agent: pinRefresh, or 3 minutes after a failed ask.
\* A stream already over is seen first: the timer does not fire again and again.
Refresh(s) ==
    /\ ag.pc = "up" /\ ~StreamGone
    /\ ask[s] = NoAsk
    /\ ask' = [ask EXCEPT ![s].st = "asked"]
    /\ ag' = [ag EXCEPT !.pc = "asking", !.ask = s, !.floor = FALSE, !.long = FALSE]
    /\ UNCHANGED <<hubVars, dbVars, regVars, conn, events>>

\* The answer is stored in hub.json; another hub is dialed at once, without
\* waiting for the old stream's goroutine to end.
GoesTo(h) ==
    IF h = None \/ h = ag.target
    THEN /\ ag' = [ag EXCEPT !.pc = IF ag.conn = None THEN "dial" ELSE "up",
                             !.ask = None]
         /\ UNCHANGED conn
    ELSE /\ ag' = [ag EXCEPT !.pc = "dial", !.ask = None, !.target = h,
                             !.conn = None,
                             !.long = @ /\ ag.conn = None,
                             !.denials = IF ag.conn = None THEN @ ELSE 0,
                             !.old = @ \/ ag.conn # None]
         /\ conn' = IF ag.conn = None THEN conn
                    ELSE [conn EXCEPT ![ag.conn] = Left(ag.conn)]

AskReturns(s) ==
    /\ ag.ask = s /\ ask[s].st = "done"
    /\ ask' = [ask EXCEPT ![s] = NoAsk]
    /\ GoesTo(ask[s].ans)
    /\ UNCHANGED <<hubVars, dbVars, regVars, events>>

\* The asks once the agent stops waiting for its own.
Unwaited == [s \in Asks |-> IF ag.ask = s /\ ask[s].st = "done" THEN NoAsk ELSE ask[s]]

\* askTimeout, a broken connection, an error at the API: the request may go
\* on there without its caller.
AskFails ==
    /\ ag.pc = "asking" /\ Event
    /\ GoesTo(None)
    /\ ask' = Unwaited
    /\ UNCHANGED <<hubVars, dbVars, regVars>>

\* The goroutine of the stream the agent moved away from ends: it cancels
\* whatever stream is current by then.
OldStreamEnds ==
    /\ ag.old
    /\ ag' = [ag EXCEPT !.old = FALSE]
    /\ conn' = IF ag.pc \in {"up", "asking"} /\ ag.conn # None
               THEN [conn EXCEPT ![ag.conn].cut = TRUE] ELSE conn
    /\ UNCHANGED <<hubVars, dbVars, regVars, ask, events>>

FloorPasses ==
    /\ ~ag.floor
    /\ ag' = [ag EXCEPT !.floor = TRUE]
    /\ UNCHANGED <<hubVars, dbVars, regVars, conn, ask, events>>

\* No stream for unreachableAsk, and no ask either.
LongPasses ==
    /\ ag.pc \in {"dial", "registering"} /\ ~ag.long
    /\ ag' = [ag EXCEPT !.long = TRUE]
    /\ UNCHANGED <<hubVars, dbVars, regVars, conn, ask, events>>

\* The agent's process is restarted; hub.json stays.
AgentRestarts ==
    /\ ag.pc # "gaveup" /\ Event
    /\ ag' = [ag EXCEPT !.pc = "start", !.conn = None, !.denials = 0, !.floor = TRUE,
                        !.long = FALSE, !.move = FALSE, !.old = FALSE, !.ask = None]
    /\ conn' = IF ag.conn = None THEN conn ELSE [conn EXCEPT ![ag.conn] = Left(ag.conn)]
    /\ ask' = Unwaited
    /\ UNCHANGED <<hubVars, dbVars, regVars>>

\* MaxConnectionAge ends every stream in time; a fault ends one before.
Recycles(c) ==
    /\ conn[c].st = "live" /\ ~conn[c].cut
    /\ conn' = [conn EXCEPT ![c].cut = TRUE]
    /\ UNCHANGED <<hubVars, dbVars, regVars, ag, ask, events>>

Breaks(c) ==
    /\ conn[c].st \in {"checking", "checked", "opening"} /\ ~conn[c].cut /\ Event
    /\ conn' = [conn EXCEPT ![c].cut = TRUE]
    /\ UNCHANGED <<hubVars, dbVars, regVars, ag, ask>>

-----------------------------------------------------------------------------
(* The API: where an agent belongs (agenthub.locate), and the delete       *)

\* An ask that nobody waits for any more frees its slot.
Answered(s, h) == IF ag.ask = s THEN [ask[s] EXCEPT !.st = "done", !.ans = h,
                                                    !.seen = {}, !.cur = None]
                  ELSE NoAsk

Reads(s) ==
    /\ ask[s].st = "asked"
    /\ ask' = [ask EXCEPT ![s] = IF row = Gone THEN Answered(s, None)
                                 ELSE [@ EXCEPT !.st = "read", !.cur = row]]
    /\ UNCHANGED <<hubVars, dbVars, regVars, conn, ag, events>>

\* A server whose hub is listed and not draining stays.
Stays_Listed(h) == list[h] # "absent"

Stays(h) == list[h] = "open"

Looks(s) ==
    /\ ask[s].st = "read"
    /\ ask' = [ask EXCEPT ![s] =
                 IF Stays(@.cur) THEN Answered(s, @.cur)
                 ELSE [@ EXCEPT !.st = "looked",
                                !.seen = {h \in Hubs : list[h] # "absent"}]]
    /\ UNCHANGED <<hubVars, dbVars, regVars, conn, ag, events>>

\* PickExcept lists again and takes any hub with room (or the least loaded).
Choosable(h, cur) == h # cur /\ list[h] = "open"

Picks(s) ==
    LET open == {h \in Hubs : Choosable(h, ask[s].cur)} IN
    /\ ask[s].st = "looked"
    /\ IF open = {}
       THEN ask' = [ask EXCEPT ![s] = Answered(s, None)]
       ELSE \E h \in open : ask' = [ask EXCEPT ![s].st = "picked", ![s].ans = h]
    /\ UNCHANGED <<hubVars, dbVars, regVars, conn, ag, events>>

\* UPDATE servers SET hub_id = pick WHERE hub_id = current.
Moves_Any(cur) == row # Gone

Moves(cur) == row = cur

\* When another replica moved it first, that replica's hub is the answer, if it
\* was listed, or is when the list is read again.
SetServerHub(s) ==
    LET pick == ask[s].ans
        got == IF Moves(ask[s].cur) THEN pick ELSE row IN
    /\ ask[s].st = "picked"
    /\ row' = got
    /\ ask' = [ask EXCEPT ![s] =
                 IF got # Gone /\ (got \in {pick} \cup @.seen \/ list[got] # "absent")
                 THEN Answered(s, got) ELSE Answered(s, None)]
    /\ UNCHANGED <<hubVars, revoking, regVars, conn, ag, events>>

\* The user deletes the server: its row, then the broadcast to the hubs (each
\* may miss it: the bus delivers at most once).
Delete ==
    /\ row # Gone /\ Event
    /\ row' = Gone
    /\ revoking' \in SUBSET Hubs
    /\ UNCHANGED <<hubVars, regVars, conn, ag, ask>>

-----------------------------------------------------------------------------
AgentStep ==
    \/ \E c \in Conns : Dial(c)
    \/ \E s \in Asks : AskStarts(s) \/ AskReturns(s)
    \/ DialFails \/ AgentSeesEnd

ConnStep(c) == Verify(c) \/ RegisterEnds(c) \/ Bind(c)
               \/ NeverOpens(c) \/ HandlerEnds(c)

ApiStep(s) == Reads(s) \/ Looks(s) \/ Picks(s) \/ SetServerHub(s)

Step ==
    \/ AgentStep
    \/ \E s \in Asks : Refresh(s) \/ ApiStep(s)
    \/ AskFails \/ OldStreamEnds \/ FloorPasses \/ LongPasses \/ AgentRestarts
    \/ \E c \in Conns : ConnStep(c) \/ CheckFails(c) \/ Recycles(c) \/ Breaks(c)
    \/ \E h \in Hubs :
         \/ Hear(h) \/ Reap(h) \/ SetFlag(h) \/ SeesFlag(h) \/ StopBegins(h)
         \/ StopEnds(h) \/ Crash(h) \/ Starts(h) \/ Announce(h) \/ AnnounceLate(h)
         \/ ListLapses(h) \/ MoverStarts(h) \/ Tell(h) \/ ToldLapses(h)
    \/ Delete

\* The history follows the hub list.
Track == bad' = bad \cup {h \in Hubs : list'[h] # "open"}

Next == Step /\ Track

Spec == Init /\ [][Next]_vars

\* The goroutines of the agent, of each connection and of each ask go on, no
\* connection outlives MaxConnectionAge, the hubs' drain watch, announcer and
\* mover go on, and every timer runs out.
Watch == \E h \in Hubs : \/ SeesFlag(h)
                          \/ Announce(h)
                          \/ MoverStarts(h)
                          \/ (~Up(h) /\ ListLapses(h))

Fairness ==
    /\ WF_vars(AgentStep /\ Track)
    /\ \A s \in Asks : WF_vars(ApiStep(s) /\ Track)
    /\ \A c \in Conns : WF_vars((ConnStep(c) \/ Recycles(c)) /\ Track)
    /\ WF_vars(Watch /\ Track)
    /\ \A h \in Hubs : WF_vars((Tell(h) \/ ToldLapses(h)) /\ Track)
    /\ WF_vars(FloorPasses /\ Track)
    /\ WF_vars(LongPasses /\ Track)

FairSpec == Spec /\ Fairness

-----------------------------------------------------------------------------
Code == {"none", "allowed", "denied", "elsewhere", "unavailable", "unregistered",
         "revoked", "replaced", "stale"}

\* A hub process, a connection, the agent's loop and an ask.
Processes == [life : {"up", "stopping", "down"}, drain : BOOLEAN,
              mover : {"off", "starts", "moves"}]

Links == [st : {"free", "checking", "checked", "opening", "live", "ended"},
          hub : Hubs \cup {None}, out : Code, cut : BOOLEAN, raced : BOOLEAN]

Agents ==
    [pc : {"start", "dial", "registering", "up", "ask", "asking", "gaveup"},
     conn : Conns \cup {None}, target : Hubs, denials : 0..maxDenials,
     floor : BOOLEAN, long : BOOLEAN, move : BOOLEAN, old : BOOLEAN,
     ask : Asks \cup {None}]

Requests == [st : {"free", "asked", "read", "looked", "picked", "done"},
             cur : Hubs \cup {None}, seen : SUBSET Hubs, ans : Hubs \cup {None}]

\* Types of the variables.
TypeOK ==
    /\ row \in Hubs \cup {Gone}
    /\ list \in [Hubs -> {"open", "draining", "absent"}]
    /\ flag \in [Hubs -> BOOLEAN]
    /\ hub \in [Hubs -> Processes]
    /\ stale \subseteq Hubs /\ revoking \subseteq Hubs
    /\ heard \subseteq Hubs /\ bad \subseteq Hubs
    /\ entry \in [Hubs -> {None} \cup Entries]
    /\ conn \in [Conns -> Links]
    /\ ag \in Agents
    /\ ask \in [Asks -> Requests]
    /\ events \in 0..MaxEvents

\* No stream outlives its registration, through which revocation goes (reapOnce):
\* a stream handler nobody closed is the one its hub's entry holds, so a hub runs
\* one stream of the server at most, whatever order registrations, newer streams,
\* cleanups, reaps and revocations take.
StreamsRegistered ==
    /\ TypeOK
    /\ \A c \in Conns : conn[c].st = "live" /\ conn[c].out = "none" =>
          entry[conn[c].hub] # None /\ entry[conn[c].hub].bound = c
    /\ \A h \in Hubs : entry[h] # None /\ entry[h].bound # None =>
          conn[entry[h].bound].st = "live" /\ conn[entry[h].bound].hub = h

\* A hub that processed a server's revocation does not hold the server again: an
\* authorization answered before the delete does not let it back in (revokedAt).
RevokedIsOut == \A h \in heard : entry[h] = None

\* An agent gives up for good (ExitRevoked: systemd does not restart it) only when
\* its server was deleted, never for a drain, a move, a lost answer or a crash.
GivesUpOnlyWhenGone == ag.pc = "gaveup" => row = Gone

\* locate moves a server only off a hub that was draining or unlisted: of two
\* replicas that answer one agent, the later one's stale pick does not move it off
\* the hub the first one chose (the compare-and-set of SetServerHub).
LeavesOnlyBadHubs == [][row' # row => row' = Gone \/ row \in bad]_vars

\* The agent streams to the hub the API routes the server's commands to, which
\* holds that stream; and when that hub drains, no other hub could take it.
Settled ==
    /\ ag.pc \in {"up", "asking"} /\ row # Gone
    /\ LET c == ag.conn IN
       /\ c # None /\ conn[c].st = "live" /\ conn[c].out = "none" /\ ~conn[c].cut
       /\ conn[c].hub = row
       /\ entry[row] # None /\ entry[row].bound = c
    /\ Draining(row) => \A h \in Hubs \ {row} : list[h] # "open"

\* While some hub is open, the agent is again and again settled: drains, crashes,
\* lost answers and moves of the row behind its back leave it nowhere for good.
Settles == []<>(Settled \/ row = Gone \/ \A h \in Hubs : list[h] # "open")

\* The agent of a deleted server gives up in the end, even if no hub heard of the
\* revocation, unless the hub it dials is down or draining, which it asks again
\* and again.
DeletedGivesUp ==
    row = Gone ~> ag.pc = "gaveup" \/ ~Up(ag.target) \/ Draining(ag.target)
=============================================================================
