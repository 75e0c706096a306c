-------------------------- MODULE HubStreamsProofs --------------------------
(***************************************************************************)
(* The safety of one server's streams, for any hubs, connections and asks: *)
(* which hub holds the stream, which hub may refuse or close it, when the  *)
(* agent may give up, and which hub the row names.  Two kinds of lemmas    *)
(* carry the proof: what one changed record still is (...Is), and that an  *)
(* action, or a group of actions alike, keeps the invariant (...Keeps).    *)
(***************************************************************************)
EXTENDS HubStreams, TLAPS

-----------------------------------------------------------------------------
(* The inductive invariant                                                 *)

\* A slot is free as a whole, a connection in use is some hub's, and one that
\* its hub is done with waits for the agent that still holds it.
Slots == \A c \in Conns :
  /\ conn[c].st = "free" => conn[c] = Free
  /\ conn[c].st # "free" => conn[c].hub \in Hubs
  /\ conn[c].st = "ended" => ag.conn = c
  /\ conn[c].st = "opening" => conn[c].out = "none"

\* The agent holds a connection while it registers or streams, and a slot it
\* holds is in use; while it may dial or give up it holds none; and it does
\* nothing else until its registration is answered.
Holds ==
  /\ ag.conn # None => conn[ag.conn].st # "free"
  /\ ag.pc \in {"registering", "up"} => ag.conn # None
  /\ ag.pc \in {"start", "dial", "ask", "gaveup"} => ag.conn = None
  /\ ag.conn # None /\ conn[ag.conn].st \in {"checking", "checked"} =>
       ag.pc = "registering"

\* The agent gives up with the last of the denials, and waits for no ask
\* unless it asks.
Patience ==
  /\ ag.pc # "gaveup" => ag.denials < maxDenials
  /\ ag.ask # None => ag.pc = "asking"

\* A stream handler nobody closed is the one its hub's entry holds, and an
\* entry holds a live stream of its own hub or none.
Registered ==
  /\ \A c \in Conns : conn[c].st = "live" /\ conn[c].out = "none" =>
        entry[conn[c].hub] # None /\ entry[conn[c].hub].bound = c
  /\ \A h \in Hubs : entry[h] # None /\ entry[h].bound # None =>
        conn[entry[h].bound].st = "live" /\ conn[entry[h].bound].hub = h

\* A hub that heard the revocation holds no entry, and lets in no connection
\* that the API allowed before the delete.
Barred ==
  /\ \A h \in heard : entry[h] = None
  /\ \A c \in Conns : conn[c].hub \in heard /\ conn[c].st = "checked"
        /\ conn[c].out = "allowed" => conn[c].raced

\* What only a deleted server meets: a broadcast, a denial, an agent that
\* gave up.
Deleted ==
  /\ revoking \cup heard # {} => row = Gone
  /\ \A c \in Conns : conn[c].out \in {"denied", "revoked"} \/ conn[c].raced => row = Gone
  /\ ag.pc = "gaveup" => row = Gone

\* What an ask has read so far, and that it looks further only when the hub it
\* read was not open.
Asked == \A s \in Asks :
  /\ ask[s].st \in {"read", "looked", "picked"} => ask[s].cur \in Hubs
  /\ ask[s].st \in {"looked", "picked"} => ask[s].cur \in bad
  /\ ask[s].st = "picked" => ask[s].ans \in Hubs

\* The history has every hub that is not listed as open.
Tracked == \A h \in Hubs : list[h] # "open" => h \in bad

\* The inductive invariant.
IInv == TypeOK /\ Slots /\ Holds /\ Patience /\ Registered /\ Barred /\ Deleted
        /\ Asked /\ Tracked

-----------------------------------------------------------------------------
(* What one step leaves of the types and of a record                       *)

\* The history follows the list whatever a step does.
LEMMA TrackedHolds == Track => Tracked'
BY DEF Track, Tracked

\* A step that leaves the hub list's side alone keeps the types if it keeps
\* those of the server's row, the registries, the connections, the agent and
\* the asks.
LEMMA TypesKept ==
  ASSUME TypeOK, Track, UNCHANGED hubVars, UNCHANGED events \/ Event,
         row' \in Hubs \cup {Gone}, revoking' \subseteq Hubs, heard' \subseteq Hubs,
         entry' \in [Hubs -> {None} \cup Entries], conn' \in [Conns -> Links],
         ag' \in Agents, ask' \in [Asks -> Requests]
  PROVE  TypeOK'
<1>1. bad' \subseteq Hubs
  BY DEF TypeOK, Track
<1>2. events' \in 0..MaxEvents
  BY HubsAssumption DEF TypeOK, Event
<1> QED BY <1>1, <1>2, Zenon DEF TypeOK, hubVars

\* A slot nobody uses is well typed.
LEMMA FreeIs == Free \in Links
BY DEF Free, Links, Code

\* A slot of an ask nobody made is well typed.
LEMMA NoAskIs == NoAsk \in Requests
BY DEF NoAsk, Requests

\* Where the hub is done with a connection.
LEMMA EndedIs ==
  ASSUME TypeOK, NEW c \in Conns, NEW code \in Code
  PROVE  LET k == Ended(c, code) IN
         /\ k \in Links
         /\ ag.conn = c => /\ k.st = "ended" /\ k.out = code
                           /\ k.hub = conn[c].hub /\ k.raced = conn[c].raced
         /\ ag.conn # c => k = Free
<1>1. [conn[c] EXCEPT !.st = "ended", !.out = code] \in Links
  BY DEF TypeOK, Links
<1> QED BY <1>1, FreeIs DEF Ended, TypeOK, Links

\* A connection of which one or two fields change.
LEMMA LinkIs ==
  ASSUME NEW k \in Links
  PROVE  /\ [k EXCEPT !.cut = TRUE] \in Links
         /\ [k EXCEPT !.raced = TRUE] \in Links
         /\ [k EXCEPT !.st = "live"] \in Links
         /\ \A o \in Code : /\ [k EXCEPT !.out = o] \in Links
                            /\ [k EXCEPT !.st = "checked", !.out = o] \in Links
BY DEF Links

\* A connection the agent left.
LEMMA LeftIs ==
  ASSUME TypeOK, NEW c \in Conns
  PROVE  LET k == Left(c) IN
         /\ k \in Links
         /\ conn[c].st = "ended" => k = Free
         /\ conn[c].st # "ended" => /\ k.st = conn[c].st /\ k.out = conn[c].out
                                    /\ k.hub = conn[c].hub /\ k.raced = conn[c].raced
<1>1. conn[c] \in Links
  BY DEF TypeOK
<1>2. [conn[c] EXCEPT !.cut = TRUE] \in Links
  BY <1>1, LinkIs
<1> QED BY <1>1, <1>2, FreeIs DEF Left, Links

\* A stream closed with a cause.
LEMMA ClosedIs ==
  ASSUME TypeOK, NEW c \in Conns, NEW cause \in {"revoked", "replaced", "stale"}
  PROVE  LET k == Closed(c, cause) IN
         /\ k \in Links
         /\ k.st = conn[c].st /\ k.hub = conn[c].hub /\ k.raced = conn[c].raced
         /\ k.out = IF conn[c].out = "none" THEN cause ELSE conn[c].out
<1>1. cause \in Code
  BY DEF Code
<1> QED BY <1>1 DEF Closed, TypeOK, Links

\* The agent holds the same connection as before, or takes or leaves c.
Takes(c) == \/ ag'.conn = ag.conn
            \/ ag.conn \in {None, c} /\ ag'.conn \in {None, c}

\* One connection changes, and no stream starts or is closed by it: the rules
\* of the slots, of the registrations and of the revocation stand.
LEMMA OneChanges ==
  ASSUME TypeOK, Slots, Holds, Registered, Barred, Deleted,
         NEW c \in Conns, NEW k \in Links, conn' = [conn EXCEPT ![c] = k], Takes(c),
         UNCHANGED <<row, entry, heard>>,
         k.st = "free" => k = Free /\ ag'.conn # c,
         k.st # "free" => k.hub \in Hubs,
         k.st = "ended" => ag'.conn = c,
         k.st = "opening" => k.out = "none",
         k.out \in {"denied", "revoked"} \/ k.raced => row = Gone,
         \/ k.st # "live" /\ conn[c].st # "live"
         \/ k.st = conn[c].st /\ k.out = conn[c].out /\ k.hub = conn[c].hub,
         k.st = "checked" /\ k.out = "allowed" /\ k.hub \in heard => k.raced,
         k.st \in {"checking", "checked"} /\ ag'.conn = c => ag'.pc = "registering",
         ag'.conn # None /\ ag'.conn # c => ag'.pc = ag.pc
  PROVE  /\ conn' \in [Conns -> Links]
         /\ Slots' /\ Registered' /\ Barred'
         /\ ag'.conn # None =>
              /\ conn'[ag'.conn].st # "free"
              /\ conn'[ag'.conn].st \in {"checking", "checked"} => ag'.pc = "registering"
         /\ \A d \in Conns : conn'[d].out \in {"denied", "revoked"} \/ conn'[d].raced
                                => row' = Gone
<1>1. conn' \in [Conns -> Links]
  BY DEF TypeOK
<1>2. conn'[c] = k /\ \A d \in Conns : d # c => conn'[d] = conn[d]
  BY DEF TypeOK
<1>3. Slots'
  <2>1. ASSUME NEW d \in Conns, d # c
        PROVE  /\ conn'[d].st = "free" => conn'[d] = Free
               /\ conn'[d].st # "free" => conn'[d].hub \in Hubs
               /\ conn'[d].st = "ended" => ag'.conn = d
               /\ conn'[d].st = "opening" => conn'[d].out = "none"
    BY <1>2, <2>1, HubsAssumption DEF Slots, Takes
  <2> QED BY <1>2, <2>1 DEF Slots
<1>4. Registered'
  <2>1. ASSUME NEW d \in Conns, conn'[d].st = "live", conn'[d].out = "none"
        PROVE  entry'[conn'[d].hub] # None /\ entry'[conn'[d].hub].bound = d
    <3>1. conn[d].st = "live" /\ conn[d].out = "none" /\ conn[d].hub = conn'[d].hub
      BY <1>2, <2>1
    <3> QED BY <3>1 DEF Registered
  <2>2. ASSUME NEW g \in Hubs, entry'[g] # None, entry'[g].bound # None
        PROVE  conn'[entry'[g].bound].st = "live" /\ conn'[entry'[g].bound].hub = g
    <3>1. entry[g].bound \in Conns
      BY <2>2 DEF TypeOK, Entries
    <3>2. conn[entry[g].bound].st = "live" /\ conn[entry[g].bound].hub = g
      BY <2>2 DEF Registered
    <3> QED BY <1>2, <3>1, <3>2
  <2> QED BY <2>1, <2>2 DEF Registered
<1>5. Barred'
  BY <1>2 DEF Barred
<1>6. ag'.conn # None =>
        /\ conn'[ag'.conn].st # "free"
        /\ conn'[ag'.conn].st \in {"checking", "checked"} => ag'.pc = "registering"
  BY <1>2 DEF Holds, Takes, TypeOK, Agents
<1>7. \A d \in Conns : conn'[d].out \in {"denied", "revoked"} \/ conn'[d].raced
                          => row' = Gone
  BY <1>2 DEF Deleted
<1> QED BY <1>1, <1>3, <1>4, <1>5, <1>6, <1>7

\* The agent after a bring-up or a stream that failed: it holds nothing, and
\* gives up only after a denial.
LEMMA RefusedIs ==
  ASSUME TypeOK, Patience, ag.pc # "gaveup", NEW code \in Code,
         NEW a,
         a = Refused(code) \/ \E settled \in BOOLEAN : a = StreamOver(code, settled)
  PROVE  /\ a \in Agents /\ a.conn = None /\ a.ask = ag.ask
         /\ a.pc \in {"ask", "dial", "gaveup"}
         /\ a.pc # "gaveup" => a.denials < maxDenials
         /\ a.pc = "gaveup" => code = "denied"
<1>1. ag \in Agents /\ ag.denials < maxDenials /\ ag.denials \in Nat
  BY HubsAssumption DEF TypeOK, Patience, Agents
<1> DEFINE Good(b) ==
             /\ b \in Agents /\ b.conn = None /\ b.ask = ag.ask
             /\ b.pc \in {"ask", "dial", "gaveup"}
             /\ b.pc # "gaveup" => b.denials < maxDenials
             /\ b.pc = "gaveup" => code = "denied"
<1>2. ASSUME NEW n \in 0..maxDenials,
             NEW p \in {"ask", "dial", "gaveup"},
             p # "gaveup" => n < maxDenials, p = "gaveup" => code = "denied"
      PROVE  Good([ag EXCEPT !.conn = None, !.denials = n, !.pc = p])
             /\ Good([ag EXCEPT !.conn = None, !.long = FALSE, !.denials = n, !.pc = p])
  BY <1>1, <1>2 DEF Agents
<1>3. ASSUME a = Refused(code)
      PROVE  Good(a)
  <2> DEFINE n == IF Counts(code) THEN ag.denials + 1 ELSE ag.denials
             p == CASE Counts(code) /\ GivesUp(ag.denials + 1) -> "gaveup"
                    [] code = "elsewhere" /\ ag.floor  -> "ask"
                    [] code = "unavailable" /\ ag.long -> "ask"
                    [] OTHER                           -> "dial"
  <2>1. a = [ag EXCEPT !.conn = None, !.denials = n, !.pc = p]
    BY <1>1, <1>3 DEF Refused, Agents
  <2>2. n \in 0..maxDenials /\ p \in {"ask", "dial", "gaveup"}
        /\ (p # "gaveup" => n < maxDenials) /\ (p = "gaveup" => code = "denied")
    BY <1>1, HubsAssumption DEF Counts, GivesUp
  <2> HIDE DEF n, p, Good
  <2> QED BY <1>2, <2>1, <2>2
<1>4. ASSUME NEW settled \in BOOLEAN, a = StreamOver(code, settled)
      PROVE  Good(a)
  <2> DEFINE m == (IF settled THEN 0 ELSE ag.denials) + 1
             n == IF Counts(code) THEN m ELSE 0
             p == IF Counts(code) /\ GivesUp(m) THEN "gaveup" ELSE "dial"
  <2>1. a = [ag EXCEPT !.conn = None, !.long = FALSE, !.denials = n, !.pc = p]
    BY <1>1, <1>4 DEF StreamOver, Agents
  <2>2. n \in 0..maxDenials /\ p \in {"ask", "dial", "gaveup"}
        /\ (p # "gaveup" => n < maxDenials) /\ (p = "gaveup" => code = "denied")
    BY <1>1, HubsAssumption DEF Counts, GivesUp
  <2> HIDE DEF n, p, Good
  <2> QED BY <1>2, <2>1, <2>2
<1> QED BY <1>3, <1>4

-----------------------------------------------------------------------------
(* The agent and its asks                                                  *)

\* Run dials its target: a registration is under way, or the hub is not there
\* to check it and refuses.
LEMMA DialKeeps ==
  ASSUME IInv, Track, NEW c \in Conns, Dial(c)
  PROVE  IInv'
<1> USE HubsAssumption DEF IInv
<1> DEFINE k == [Free EXCEPT !.st = "checking", !.hub = ag.target]
<1>1. k \in Links /\ ag.target \in Hubs /\ ag.conn = None /\ ag.ask = None
      /\ ag.denials < maxDenials /\ ag \in Agents
  BY DEF Dial, Free, Links, Code, TypeOK, Agents, Holds, Patience
<1>2. UNCHANGED <<row, entry, heard, revoking, ask, events>> /\ UNCHANGED hubVars
  BY DEF Dial, dbVars, regVars
<1>3. Asked' /\ Tracked'
  BY <1>2, TrackedHolds DEF Asked, Track
<1>4. CASE Checkable(ag.target)
  <2>1. conn' = [conn EXCEPT ![c] = k]
        /\ ag' = [ag EXCEPT !.pc = "registering", !.conn = c, !.move = FALSE]
    BY <1>4 DEF Dial
  <2>2. ag' \in Agents /\ ag'.conn = c /\ ag'.pc = "registering" /\ ag'.ask = None
        /\ ag'.denials < maxDenials
    BY <1>1, <2>1 DEF Agents
  <2>3. conn[c].st = "free"
    BY DEF Dial, Free
  <2>4. /\ conn' \in [Conns -> Links]
        /\ Slots' /\ Registered' /\ Barred'
        /\ ag'.conn # None =>
             /\ conn'[ag'.conn].st # "free"
             /\ conn'[ag'.conn].st \in {"checking", "checked"} => ag'.pc = "registering"
        /\ \A d \in Conns : conn'[d].out \in {"denied", "revoked"} \/ conn'[d].raced
                               => row' = Gone
    BY <1>1, <1>2, <2>1, <2>2, <2>3, OneChanges DEF Takes, Free
  <2>5. TypeOK'
    BY <1>2, <2>2, <2>4, TypesKept DEF TypeOK
  <2> QED BY <1>2, <1>3, <2>2, <2>4, <2>5 DEF Holds, Patience, Deleted
<1>5. CASE ~Checkable(ag.target)
  <2>1. PICK a : a = Refused("elsewhere") /\ ag' = [a EXCEPT !.move = FALSE]
        /\ conn' = conn
    BY <1>5 DEF Dial
  <2>2. /\ a \in Agents /\ a.conn = None /\ a.ask = ag.ask
        /\ a.pc \in {"ask", "dial", "gaveup"}
        /\ a.pc # "gaveup" => a.denials < maxDenials
        /\ a.pc # "gaveup"
    BY <2>1, RefusedIs DEF Code, Dial
  <2>3. /\ ag' \in Agents /\ ag'.conn = None /\ ag'.ask = None
        /\ ag'.pc \in {"ask", "dial"} /\ ag'.denials < maxDenials
    BY <1>1, <2>1, <2>2 DEF Agents
  <2>4. Slots' /\ Registered' /\ Barred'
    BY <1>1, <1>2, <2>1, <2>3 DEF Slots, Registered, Barred
  <2>5. TypeOK'
    BY <1>2, <2>1, <2>3, TypesKept DEF TypeOK
  <2> QED BY <1>2, <1>3, <2>1, <2>3, <2>4, <2>5 DEF Holds, Patience, Deleted
<1> QED BY <1>4, <1>5

\* The agent takes up or leaves a connection it holds; the hubs' registries
\* and the server's row stay as they are.
LEMMA AgentMoves ==
  ASSUME IInv, Track, ag' \in Agents,
         UNCHANGED <<row, entry, heard, revoking>>, UNCHANGED hubVars,
         UNCHANGED events \/ Event,
         ask' \in [Asks -> Requests], Asked',
         ag.pc = "registering" => ag'.conn = None \/ ag'.pc = ag.pc,
         \/ ag'.conn = ag.conn /\ UNCHANGED conn
         \/ /\ ag'.conn = None /\ ag.conn # None
            /\ conn' = [conn EXCEPT ![ag.conn] = Left(ag.conn)],
         ag'.pc \in {"registering", "up"} => ag'.conn # None,
         ag'.pc \in {"start", "dial", "ask", "gaveup"} => ag'.conn = None,
         ag'.pc # "gaveup" => ag'.denials < maxDenials,
         ag'.ask # None => ag'.pc = "asking",
         ag'.pc = "gaveup" => row = Gone
  PROVE  IInv'
<1> USE HubsAssumption DEF IInv
<1>1. CASE ag'.conn = ag.conn /\ UNCHANGED conn
  <2>1. Slots' /\ Registered' /\ Barred' /\ Holds' /\ Deleted'
    BY <1>1 DEF Slots, Registered, Barred, Holds, Deleted
  <2>2. TypeOK'
    BY <1>1, TypesKept DEF TypeOK
  <2> QED BY <1>1, <2>1, <2>2, TrackedHolds DEF Patience
<1>2. CASE /\ ag'.conn = None /\ ag.conn # None
           /\ conn' = [conn EXCEPT ![ag.conn] = Left(ag.conn)]
  <2>1. PICK c \in Conns : c = ag.conn
    BY <1>2 DEF TypeOK, Agents
  <2>2. /\ Left(c) \in Links
        /\ conn[c].st = "ended" => Left(c) = Free
        /\ conn[c].st # "ended" =>
             /\ Left(c).st = conn[c].st /\ Left(c).out = conn[c].out
             /\ Left(c).hub = conn[c].hub /\ Left(c).raced = conn[c].raced
    BY LeftIs
  <2>3. conn[c].st # "free" /\ ag'.conn # c
    BY <1>2, <2>1 DEF Holds
  <2>4. /\ conn' \in [Conns -> Links]
        /\ Slots' /\ Registered' /\ Barred'
        /\ ag'.conn # None =>
             /\ conn'[ag'.conn].st # "free"
             /\ conn'[ag'.conn].st \in {"checking", "checked"} => ag'.pc = "registering"
        /\ \A d \in Conns : conn'[d].out \in {"denied", "revoked"} \/ conn'[d].raced
                               => row' = Gone
    <3> DEFINE k == Left(c)
    <3>1. k \in Links /\ Takes(c) /\ conn' = [conn EXCEPT ![c] = k]
      BY <1>2, <2>1, <2>2 DEF Takes
    <3>2. /\ k.st = "free" => k = Free /\ ag'.conn # c
          /\ k.st # "free" => k.hub \in Hubs
          /\ k.st # "ended"
          /\ k.st = "opening" => k.out = "none"
      BY <2>2, <2>3 DEF Slots, Free
    <3>3. /\ k.out \in {"denied", "revoked"} \/ k.raced => row = Gone
          /\ \/ k.st # "live" /\ conn[c].st # "live"
             \/ k.st = conn[c].st /\ k.out = conn[c].out /\ k.hub = conn[c].hub
          /\ k.st = "checked" /\ k.out = "allowed" /\ k.hub \in heard => k.raced
      BY <2>2 DEF Deleted, Free, Barred
    <3> HIDE DEF k
    <3> QED BY <1>2, <2>3, <3>1, <3>2, <3>3, OneChanges
  <2>5. TypeOK'
    BY <2>4, TypesKept DEF TypeOK
  <2> QED BY <1>2, <2>4, <2>5, TrackedHolds DEF Holds, Patience, Deleted
<1> QED BY <1>1, <1>2

\* A bring-up fails before any hub answers.
LEMMA DialFailsKeeps ==
  ASSUME IInv, Track, DialFails
  PROVE  IInv'
<1> USE DEF IInv
<1>1. PICK r : r = Refused("unavailable") /\ ag' = [r EXCEPT !.move = FALSE]
  BY DEF DialFails
<1>2. /\ r \in Agents /\ r.conn = None /\ r.ask = ag.ask
      /\ r.pc \in {"ask", "dial", "gaveup"}
      /\ r.pc # "gaveup" => r.denials < maxDenials
      /\ r.pc # "gaveup"
  BY <1>1, RefusedIs DEF Code, DialFails
<1>3. ag.conn = None /\ ag.ask = None
  BY DEF DialFails, Holds, Patience
<1>4. /\ ag' \in Agents /\ ag'.conn = None /\ ag'.ask = None
      /\ ag'.pc \in {"ask", "dial"} /\ ag'.denials < maxDenials
  BY <1>1, <1>2, <1>3 DEF Agents
<1>5. Asked' /\ ask' \in [Asks -> Requests]
  BY DEF DialFails, Asked, Track, TypeOK
<1>6. UNCHANGED <<row, entry, heard, revoking, conn, events>> /\ UNCHANGED hubVars
  BY DEF DialFails, dbVars, regVars
<1> QED BY <1>3, <1>4, <1>5, <1>6, AgentMoves

\* The end of a bring-up or of a stream reaches the agent; a denial comes only
\* after the delete, so it gives up only then.
LEMMA AgentSeesEndKeeps ==
  ASSUME IInv, Track, AgentSeesEnd
  PROVE  IInv'
<1> USE DEF IInv
<1>1. ag.conn \in Conns /\ ag.ask = None /\ ag.conn # None
  BY HubsAssumption DEF AgentSeesEnd, Holds, Patience, TypeOK, Agents
<1>2. PICK code \in Code :
        /\ code = IF conn[ag.conn].st = "ended" THEN conn[ag.conn].out ELSE "unavailable"
        /\ code = "denied" => row = Gone
  BY <1>1 DEF Code, TypeOK, Links, Deleted
<1>3. \/ ag' = Refused(code)
      \/ \E settled \in BOOLEAN : ag' = StreamOver(code, settled)
  BY <1>2 DEF AgentSeesEnd
<1>4. /\ ag' \in Agents /\ ag'.conn = None /\ ag'.ask = None
      /\ ag'.pc \in {"ask", "dial", "gaveup"}
      /\ ag'.pc # "gaveup" => ag'.denials < maxDenials
      /\ ag'.pc = "gaveup" => row = Gone
  <2>1. ag' = Refused(code) \/ \E settled \in BOOLEAN : ag' = StreamOver(code, settled)
    BY <1>3
  <2> QED BY <1>1, <1>2, <2>1, RefusedIs DEF AgentSeesEnd
<1>5. Asked' /\ ask' \in [Asks -> Requests]
  BY DEF AgentSeesEnd, Asked, Track, TypeOK
<1>6. /\ UNCHANGED <<row, entry, heard, revoking, events>> /\ UNCHANGED hubVars
      /\ conn' = [conn EXCEPT ![ag.conn] = Left(ag.conn)]
  BY DEF AgentSeesEnd, dbVars, regVars
<1> QED BY <1>1, <1>4, <1>5, <1>6, AgentMoves

\* An ask that starts, or whose caller no longer waits for it, is fine.
LEMMA AsksFree ==
  ASSUME IInv, Track, NEW r \in [Asks -> Requests], ask' = r,
         \A s \in Asks : r[s] = ask[s] \/ r[s].st \in {"free", "asked", "done"}
  PROVE  Asked'
BY DEF IInv, Asked, Track

\* The agent asks where its server belongs, and waits or not.
LEMMA AskStartsKeeps ==
  ASSUME IInv, Track, NEW s \in Asks, AskStarts(s) \/ Refresh(s)
  PROVE  IInv'
<1> USE DEF IInv
<1>1. ask' = [ask EXCEPT ![s].st = "asked"]
  BY DEF AskStarts, Refresh
<1>2. ask' \in [Asks -> Requests]
  BY <1>1 DEF TypeOK, Requests
<1>3. Asked'
  <2>1. \A t \in Asks : ask'[t] = ask[t] \/ ask'[t].st = "asked"
    BY <1>1 DEF TypeOK
  <2> QED BY <1>2, <2>1, AsksFree
<1>4. /\ ag' \in Agents /\ ag'.conn = ag.conn /\ ag'.pc = "asking"
      /\ ag'.denials = ag.denials
  <2>1. PICK f \in BOOLEAN, m \in BOOLEAN :
          ag' = [ag EXCEPT !.pc = "asking", !.ask = s, !.floor = f, !.long = FALSE,
                           !.move = m]
    <3>1. CASE AskStarts(s)
      BY <3>1 DEF AskStarts, TypeOK, Agents
    <3>2. CASE Refresh(s)
      BY <3>2 DEF Refresh, TypeOK, Agents
    <3> QED BY <3>1, <3>2
  <2> QED BY <2>1 DEF TypeOK, Agents
<1>5. ag.denials < maxDenials /\ ag.pc # "registering"
  BY DEF Patience, AskStarts, Refresh, Prompted
<1>6. UNCHANGED <<row, entry, heard, revoking, conn, events>> /\ UNCHANGED hubVars
  BY DEF AskStarts, Refresh, dbVars, regVars
<1> QED BY <1>2, <1>3, <1>4, <1>5, <1>6, AgentMoves

\* Where the agent goes with an answer, or without one.
LEMMA GoesToIs ==
  ASSUME IInv, ag.pc = "asking", NEW h \in Hubs \cup {None}, GoesTo(h)
  PROVE  /\ ag' \in Agents /\ ag'.ask = None /\ ag'.pc \in {"dial", "up"}
         /\ ag'.denials < maxDenials
         /\ ag'.pc = "up" => ag'.conn # None
         /\ ag'.pc = "dial" => ag'.conn = None
         /\ \/ ag'.conn = ag.conn /\ UNCHANGED conn
            \/ /\ ag'.conn = None /\ ag.conn # None
               /\ conn' = [conn EXCEPT ![ag.conn] = Left(ag.conn)]
<1> USE HubsAssumption DEF IInv
<1>1. ag \in Agents /\ ag.denials < maxDenials
  BY DEF TypeOK, Patience
<1>2. CASE h = None \/ h = ag.target
  BY <1>1, <1>2 DEF GoesTo, Agents
<1>3. CASE ~(h = None \/ h = ag.target)
  <2>1. ag' = [ag EXCEPT !.pc = "dial", !.ask = None, !.target = h,
                         !.conn = None,
                         !.long = @ /\ ag.conn = None,
                         !.denials = IF ag.conn = None THEN @ ELSE 0,
                         !.old = @ \/ ag.conn # None]
        /\ conn' = IF ag.conn = None THEN conn
                   ELSE [conn EXCEPT ![ag.conn] = Left(ag.conn)]
    BY <1>3 DEF GoesTo
  <2>2. ag' \in Agents /\ ag'.ask = None /\ ag'.pc = "dial" /\ ag'.conn = None
        /\ ag'.denials < maxDenials
    <3>1. ASSUME NEW l \in BOOLEAN, NEW o \in BOOLEAN, NEW n \in {0, ag.denials}
          PROVE  [ag EXCEPT !.pc = "dial", !.ask = None, !.target = h, !.conn = None,
                            !.long = l, !.denials = n, !.old = o] \in Agents
      <4>1. h \in Hubs /\ n \in 0..maxDenials
        BY <1>1, <1>3 DEF Agents
      <4> QED BY <1>1, <4>1 DEF Agents
    <3>2. ag' \in Agents
      BY <1>1, <2>1, <3>1 DEF Agents
    <3> QED BY <1>1, <2>1, <3>2 DEF Agents
  <2> QED BY <2>1, <2>2
<1> QED BY <1>2, <1>3

\* The ask the agent waited for ends, or goes on without it.
LEMMA UnwaitedIs ==
  ASSUME IInv, Track, ask' = Unwaited
  PROVE  ask' \in [Asks -> Requests] /\ Asked'
<1>1. ask' \in [Asks -> Requests]
  BY NoAskIs DEF IInv, TypeOK, Unwaited
<1> QED BY <1>1, AsksFree DEF Unwaited, NoAsk, IInv

\* An answer comes back to the agent that waits for it.
LEMMA AskReturnsKeeps ==
  ASSUME IInv, Track, NEW s \in Asks, AskReturns(s)
  PROVE  IInv'
<1> USE DEF IInv
<1>1. ask' \in [Asks -> Requests]
  BY NoAskIs DEF AskReturns, TypeOK
<1>2. Asked'
  BY <1>1, AsksFree DEF AskReturns, NoAsk, TypeOK
<1>3. ag.pc = "asking" /\ ask[s].ans \in Hubs \cup {None} /\ GoesTo(ask[s].ans)
  BY HubsAssumption DEF AskReturns, Patience, TypeOK, Requests
<1>4. /\ ag' \in Agents /\ ag'.ask = None /\ ag'.pc \in {"dial", "up"}
      /\ ag'.denials < maxDenials
      /\ ag'.pc = "up" => ag'.conn # None
      /\ ag'.pc = "dial" => ag'.conn = None
      /\ \/ ag'.conn = ag.conn /\ UNCHANGED conn
         \/ /\ ag'.conn = None /\ ag.conn # None
            /\ conn' = [conn EXCEPT ![ag.conn] = Left(ag.conn)]
  BY <1>3, GoesToIs
<1>5. UNCHANGED <<row, entry, heard, revoking, events>> /\ UNCHANGED hubVars
  BY DEF AskReturns, dbVars, regVars
<1> QED BY <1>1, <1>2, <1>3, <1>4, <1>5, AgentMoves

\* The agent goes on without an answer.
LEMMA AskFailsKeeps ==
  ASSUME IInv, Track, AskFails
  PROVE  IInv'
<1> USE DEF IInv
<1>1. ask' \in [Asks -> Requests] /\ Asked'
  BY UnwaitedIs DEF AskFails
<1>2. ag.pc = "asking" /\ GoesTo(None)
  BY DEF AskFails
<1>3. /\ ag' \in Agents /\ ag'.ask = None /\ ag'.pc \in {"dial", "up"}
      /\ ag'.denials < maxDenials
      /\ ag'.pc = "up" => ag'.conn # None
      /\ ag'.pc = "dial" => ag'.conn = None
      /\ \/ ag'.conn = ag.conn /\ UNCHANGED conn
         \/ /\ ag'.conn = None /\ ag.conn # None
            /\ conn' = [conn EXCEPT ![ag.conn] = Left(ag.conn)]
  BY <1>2, GoesToIs
<1>4. UNCHANGED <<row, entry, heard, revoking>> /\ UNCHANGED hubVars /\ Event
  BY DEF AskFails, dbVars, regVars
<1> QED BY <1>1, <1>2, <1>3, <1>4, AgentMoves

\* One of the two timers of Run fires.
LEMMA TimerKeeps ==
  ASSUME IInv, Track, FloorPasses \/ LongPasses
  PROVE  IInv'
<1> USE DEF IInv
<1>1. ask' \in [Asks -> Requests] /\ Asked'
  BY DEF FloorPasses, LongPasses, Asked, Track, TypeOK
<1>2. /\ ag' \in Agents /\ ag'.ask = ag.ask /\ ag'.pc = ag.pc /\ ag'.conn = ag.conn
      /\ ag'.denials = ag.denials
  BY DEF FloorPasses, LongPasses, TypeOK, Agents
<1>3. UNCHANGED <<row, entry, heard, revoking, conn, events>> /\ UNCHANGED hubVars
  BY DEF FloorPasses, LongPasses, dbVars, regVars
<1> QED BY <1>1, <1>2, <1>3, AgentMoves DEF Holds, Patience, Deleted

\* The agent restarts: its denials are forgotten, its connection is cut.
LEMMA AgentRestartsKeeps ==
  ASSUME IInv, Track, AgentRestarts
  PROVE  IInv'
<1> USE DEF IInv
<1>1. ask' \in [Asks -> Requests] /\ Asked'
  BY UnwaitedIs DEF AgentRestarts
<1>2. /\ ag' \in Agents /\ ag'.ask = None /\ ag'.pc = "start" /\ ag'.conn = None
      /\ ag'.denials < maxDenials
  <2>1. 0 \in 0..maxDenials /\ 0 < maxDenials
    BY HubsAssumption
  <2>2. ag' = [ag EXCEPT !.pc = "start", !.conn = None, !.denials = 0, !.floor = TRUE,
                         !.long = FALSE, !.move = FALSE, !.old = FALSE, !.ask = None]
    BY DEF AgentRestarts
  <2>3. ag' \in Agents
    BY <2>1, <2>2 DEF TypeOK, Agents
  <2> QED BY <2>1, <2>2, <2>3 DEF TypeOK, Agents
<1>3. UNCHANGED <<row, entry, heard, revoking>> /\ UNCHANGED hubVars /\ Event
  BY DEF AgentRestarts, dbVars, regVars
<1>4. \/ ag'.conn = ag.conn /\ UNCHANGED conn
      \/ /\ ag'.conn = None /\ ag.conn # None
         /\ conn' = [conn EXCEPT ![ag.conn] = Left(ag.conn)]
  BY <1>2 DEF AgentRestarts
<1> QED BY <1>1, <1>2, <1>3, <1>4, AgentMoves

-----------------------------------------------------------------------------
(* The API: an ask's three steps, and the delete                           *)

\* A step of the API on an ask: only the asks change.
LEMMA ApiKeeps ==
  ASSUME IInv, Track, UNCHANGED <<row, conn, ag, events>>, UNCHANGED hubVars,
         UNCHANGED dbVars, UNCHANGED regVars, ask' \in [Asks -> Requests], Asked'
  PROVE  IInv'
<1> USE DEF IInv
<1>1. Slots' /\ Holds' /\ Patience' /\ Registered' /\ Barred' /\ Deleted'
  BY DEF Slots, Holds, Patience, Registered, Barred, Deleted, dbVars, regVars
<1>2. TypeOK'
  BY TypesKept DEF TypeOK, dbVars, regVars
<1> QED BY <1>1, <1>2, TrackedHolds

\* An answered ask is well typed, and over for the API.
LEMMA AnsweredIs ==
  ASSUME TypeOK, NEW s \in Asks, NEW h \in Hubs \cup {None}
  PROVE  Answered(s, h) \in Requests /\ Answered(s, h).st \in {"free", "done"}
BY NoAskIs, HubsAssumption DEF Answered, NoAsk, TypeOK, Requests

\* The API reads the server's row.
LEMMA ReadsKeeps ==
  ASSUME IInv, Track, NEW s \in Asks, Reads(s)
  PROVE  IInv'
<1> USE DEF IInv
<1>1. PICK q \in Requests :
        /\ ask' = [ask EXCEPT ![s] = q]
        /\ \/ q.st \in {"free", "done"}
           \/ q.st = "read" /\ q.cur \in Hubs
  <2>1. CASE row = Gone
    <3>1. Answered(s, None) \in Requests /\ Answered(s, None).st \in {"free", "done"}
      BY AnsweredIs
    <3>2. ask' = [ask EXCEPT ![s] = Answered(s, None)]
      BY <2>1 DEF Reads
    <3> QED BY <3>1, <3>2
  <2>2. CASE row # Gone
    <3>1. [ask[s] EXCEPT !.st = "read", !.cur = row] \in Requests
      BY <2>2 DEF TypeOK, Requests
    <3> QED BY <2>2, <3>1 DEF Reads, TypeOK, Requests
  <2> QED BY <2>1, <2>2
<1>2. ask' \in [Asks -> Requests]
  BY <1>1 DEF TypeOK
<1>3. Asked'
  BY <1>1 DEF Asked, Track, TypeOK
<1> QED BY <1>2, <1>3, ApiKeeps DEF Reads, dbVars

\* The API looks at the hub list: a hub that is open is kept.
LEMMA LooksKeeps ==
  ASSUME IInv, Track, NEW s \in Asks, Looks(s)
  PROVE  IInv'
<1> USE DEF IInv
<1>1. ask[s].cur \in Hubs
  BY DEF Looks, Asked
<1>2. PICK q \in Requests :
        /\ ask' = [ask EXCEPT ![s] = q]
        /\ \/ q.st \in {"free", "done"}
           \/ q.st = "looked" /\ q.cur \in Hubs /\ q.cur \in bad
  <2>1. CASE Stays(ask[s].cur)
    BY <1>1, <2>1, AnsweredIs DEF Looks
  <2>2. CASE ~Stays(ask[s].cur)
    <3> DEFINE S == {h \in Hubs : list[h] # "absent"}
    <3>1. ask[s].cur \in bad
      BY <1>1, <2>2 DEF Stays, Tracked
    <3>2. [ask[s] EXCEPT !.st = "looked", !.seen = S] \in Requests
      BY DEF TypeOK, Requests
    <3>3. ask' = [ask EXCEPT ![s] = [ask[s] EXCEPT !.st = "looked", !.seen = S]]
      BY <2>2 DEF Looks
    <3> HIDE DEF S
    <3> QED BY <1>1, <3>1, <3>2, <3>3 DEF TypeOK, Requests
  <2> QED BY <2>1, <2>2
<1>3. ask' \in [Asks -> Requests]
  BY <1>2 DEF TypeOK
<1>4. Asked'
  BY <1>2 DEF Asked, Track, TypeOK
<1> QED BY <1>3, <1>4, ApiKeeps DEF Looks, dbVars

\* The API picks another hub.
LEMMA PicksKeeps ==
  ASSUME IInv, Track, NEW s \in Asks, Picks(s)
  PROVE  IInv'
<1> USE DEF IInv
<1>1. ask[s].cur \in Hubs /\ ask[s].cur \in bad
  BY DEF Picks, Asked
<1>2. PICK q \in Requests :
        /\ ask' = [ask EXCEPT ![s] = q]
        /\ \/ q.st \in {"free", "done"}
           \/ q.st = "picked" /\ q.cur \in bad /\ q.cur \in Hubs /\ q.ans \in Hubs
  <2> DEFINE open == {h \in Hubs : Choosable(h, ask[s].cur)}
  <2>1. CASE open = {}
    BY <2>1, AnsweredIs DEF Picks
  <2>2. CASE open # {}
    <3>1. PICK h \in open : ask' = [ask EXCEPT ![s].st = "picked", ![s].ans = h]
      BY <2>2 DEF Picks
    <3>2. h \in Hubs
      OBVIOUS
    <3>3. [ask[s] EXCEPT !.st = "picked", !.ans = h] \in Requests
      BY <3>2 DEF TypeOK, Requests
    <3>4. ask' = [ask EXCEPT ![s] = [ask[s] EXCEPT !.st = "picked", !.ans = h]]
      BY <3>1 DEF TypeOK
    <3> QED BY <1>1, <3>2, <3>3, <3>4 DEF TypeOK, Requests
  <2> QED BY <2>1, <2>2
<1>3. ask' \in [Asks -> Requests]
  BY <1>2 DEF TypeOK
<1>4. Asked'
  BY <1>2 DEF Asked, Track, TypeOK
<1> QED BY <1>3, <1>4, ApiKeeps DEF Picks, dbVars

\* The conditional update moves the row from a hub that was not open to
\* another hub, and never brings a deleted row back.
LEMMA SetServerHubKeeps ==
  ASSUME IInv, Track, NEW s \in Asks, SetServerHub(s)
  PROVE  IInv' /\ (row' # row => row \in bad)
<1> USE DEF IInv
<1>1. ask[s].cur \in Hubs /\ ask[s].cur \in bad /\ ask[s].ans \in Hubs
  BY DEF SetServerHub, Asked
<1>2. /\ row' \in Hubs \cup {Gone}
      /\ row = Gone <=> row' = Gone
      /\ row' # row => row \in bad
  BY <1>1, HubsAssumption DEF SetServerHub, Moves, TypeOK
<1>3. PICK q \in Requests :
        ask' = [ask EXCEPT ![s] = q] /\ q.st \in {"free", "done"}
  BY <1>2, AnsweredIs DEF SetServerHub
<1>4. ask' \in [Asks -> Requests]
  BY <1>3 DEF TypeOK
<1>5. Asked'
  BY <1>3, <1>4, AsksFree DEF TypeOK
<1>6. Slots' /\ Holds' /\ Patience' /\ Registered' /\ Barred'
  BY DEF SetServerHub, Slots, Holds, Patience, Registered, Barred, regVars
<1>7. Deleted'
  BY <1>2 DEF SetServerHub, Deleted, regVars
<1>8. TypeOK'
  BY <1>2, <1>4, TypesKept DEF SetServerHub, TypeOK, regVars
<1> QED BY <1>2, <1>5, <1>6, <1>7, <1>8, TrackedHolds

\* The server is deleted, and every hub is to hear of it.
LEMMA DeleteKeeps ==
  ASSUME IInv, Track, Delete
  PROVE  IInv'
<1> USE DEF IInv
<1>1. row' = Gone /\ revoking' \subseteq Hubs /\ Event
      /\ UNCHANGED <<conn, ag, ask, entry, heard>> /\ UNCHANGED hubVars
  BY DEF Delete, regVars
<1>2. Slots' /\ Holds' /\ Patience' /\ Registered' /\ Barred' /\ Deleted' /\ Asked'
  BY <1>1 DEF Slots, Holds, Patience, Registered, Barred, Deleted, Asked, Track
<1>3. TypeOK'
  BY <1>1, TypesKept DEF TypeOK
<1> QED BY <1>2, <1>3, TrackedHolds

-----------------------------------------------------------------------------
(* A hub and its connections                                               *)

\* A hub's step on one connection that leaves its registry alone.
LEMMA LinkKeeps ==
  ASSUME IInv, Track, NEW c \in Conns, NEW k \in Links,
         conn' = [conn EXCEPT ![c] = k],
         UNCHANGED <<row, entry, heard, revoking, ag, ask>>, UNCHANGED hubVars,
         UNCHANGED events \/ Event,
         k.st = "free" => k = Free /\ ag.conn # c,
         k.st # "free" => k.hub \in Hubs,
         k.st = "ended" => ag.conn = c,
         k.st = "opening" => k.out = "none",
         k.out \in {"denied", "revoked"} \/ k.raced => row = Gone,
         \/ k.st # "live" /\ conn[c].st # "live"
         \/ k.st = conn[c].st /\ k.out = conn[c].out /\ k.hub = conn[c].hub,
         k.st = "checked" /\ k.out = "allowed" /\ k.hub \in heard => k.raced,
         k.st \in {"checking", "checked"} => conn[c].st \in {"checking", "checked"}
  PROVE  IInv'
<1> USE DEF IInv
<1>1. /\ conn' \in [Conns -> Links]
      /\ Slots' /\ Registered' /\ Barred'
      /\ ag'.conn # None =>
           /\ conn'[ag'.conn].st # "free"
           /\ conn'[ag'.conn].st \in {"checking", "checked"} => ag'.pc = "registering"
      /\ \A d \in Conns : conn'[d].out \in {"denied", "revoked"} \/ conn'[d].raced
                             => row' = Gone
  BY OneChanges, HubsAssumption DEF Takes, Holds
<1>2. Holds' /\ Patience' /\ Deleted' /\ Asked'
  BY <1>1 DEF Holds, Patience, Deleted, Asked, Track
<1>3. TypeOK'
  BY <1>1, TypesKept DEF TypeOK
<1> QED BY <1>1, <1>2, <1>3, TrackedHolds

\* The hub answers a registration, or is done with a stream not yet open.
LEMMA EndKeeps ==
  ASSUME IInv, Track, NEW c \in Conns, NEW code \in Code,
         conn' = [conn EXCEPT ![c] = Ended(c, code)],
         conn[c].st \in {"checking", "checked", "opening"},
         code \in {"denied", "revoked"} => row = Gone,
         UNCHANGED <<row, entry, heard, revoking, ag, ask>>, UNCHANGED hubVars,
         UNCHANGED events \/ Event
  PROVE  IInv'
<1> USE DEF IInv
<1> DEFINE k == Ended(c, code)
<1>1. /\ k \in Links
      /\ ag.conn = c => /\ k.st = "ended" /\ k.out = code
                        /\ k.hub = conn[c].hub /\ k.raced = conn[c].raced
      /\ ag.conn # c => k = Free
  BY EndedIs
<1>2. /\ conn[c].hub \in Hubs
      /\ conn[c].raced => row = Gone
  BY DEF Slots, Deleted
<1>3. /\ k.st = "free" => k = Free /\ ag.conn # c
      /\ k.st # "free" => k.hub \in Hubs
      /\ k.st = "ended" => ag.conn = c
      /\ k.st \in {"free", "ended"}
      /\ k.out \in {"denied", "revoked"} \/ k.raced => row = Gone
  BY <1>1, <1>2 DEF Free
<1>4. conn' = [conn EXCEPT ![c] = k]
  OBVIOUS
<1> HIDE DEF k
<1> QED BY <1>1, <1>3, <1>4, LinkKeeps

\* The API checks the row for a hub: it denies only a deleted server, and
\* allows only one that is not.
LEMMA VerifyKeeps ==
  ASSUME IInv, Track, NEW c \in Conns, Verify(c)
  PROVE  IInv'
<1> USE HubsAssumption DEF IInv
<1> DEFINE v == Verdict(conn[c].hub)
           k == [conn[c] EXCEPT !.st = "checked", !.out = v]
<1>1. v \in Code /\ v # "revoked" /\ (v = "denied" => row = Gone)
      /\ (v = "allowed" => row # Gone)
  BY DEF Verdict, Code
<1>2. conn[c] \in Links /\ conn[c].hub \in Hubs /\ conn[c].st = "checking"
  BY DEF TypeOK, Verify, Slots
<1>3. conn' = [conn EXCEPT ![c] = k]
  BY DEF Verify, TypeOK
<1>4. /\ k \in Links /\ k.st = "checked" /\ k.out = v /\ k.hub = conn[c].hub
      /\ k.raced = conn[c].raced
  <2> HIDE DEF v
  <2> QED BY <1>1, <1>2 DEF Links
<1>5. /\ k.out \in {"denied", "revoked"} \/ k.raced => row = Gone
      /\ k.out = "allowed" /\ k.hub \in heard => k.raced
  BY <1>1, <1>4 DEF Deleted
<1>6. UNCHANGED <<row, entry, heard, revoking, ag, ask, events>> /\ UNCHANGED hubVars
  BY DEF Verify, dbVars, regVars
<1> HIDE DEF k, v
<1> QED BY <1>2, <1>3, <1>4, <1>5, <1>6, LinkKeeps

\* The check of a registration fails, or an allowed stream never opens.
LEMMA CheckFailsKeeps ==
  ASSUME IInv, Track, NEW c \in Conns, CheckFails(c) \/ NeverOpens(c)
  PROVE  IInv'
<1>1. /\ conn' = [conn EXCEPT ![c] = Ended(c, "unavailable")]
      /\ conn[c].st \in {"checking", "opening"}
      /\ UNCHANGED events \/ Event
      /\ UNCHANGED <<row, entry, heard, revoking, ag, ask>> /\ UNCHANGED hubVars
  BY DEF CheckFails, NeverOpens, dbVars, regVars
<1>2. "unavailable" \in Code
  BY DEF Code
<1> QED BY <1>1, <1>2, EndKeeps

\* A connection is cut: the agent's end, or a fault.
LEMMA CutKeeps ==
  ASSUME IInv, Track, NEW c \in Conns,
         conn' = [conn EXCEPT ![c].cut = TRUE], conn[c].st # "free",
         UNCHANGED <<row, entry, heard, revoking, ask>>, UNCHANGED hubVars,
         UNCHANGED events \/ Event,
         ag' = ag \/ ag' = [ag EXCEPT !.old = FALSE]
  PROVE  IInv'
<1> USE DEF IInv
<1>1. conn[c] \in Links
  BY DEF TypeOK
<1> DEFINE k == [conn[c] EXCEPT !.cut = TRUE]
<1>2. /\ k \in Links /\ k.st = conn[c].st /\ k.out = conn[c].out
      /\ k.hub = conn[c].hub /\ k.raced = conn[c].raced
  BY <1>1, LinkIs DEF Links
<1>3. conn' = [conn EXCEPT ![c] = k]
  BY DEF TypeOK
<1>4. /\ ag' \in Agents /\ ag'.pc = ag.pc /\ ag'.conn = ag.conn /\ ag'.ask = ag.ask
      /\ ag'.denials = ag.denials
  BY DEF TypeOK, Agents
<1>5. /\ k.st # "free" => k.hub \in Hubs
      /\ k.st = "ended" => ag'.conn = c
      /\ k.st = "opening" => k.out = "none"
      /\ k.out \in {"denied", "revoked"} \/ k.raced => row = Gone
      /\ k.st = "checked" /\ k.out = "allowed" /\ k.hub \in heard => k.raced
      /\ k.st \in {"checking", "checked"} /\ ag'.conn = c => ag'.pc = "registering"
  BY <1>2, <1>4, HubsAssumption DEF Slots, Deleted, Barred, Holds
<1> HIDE DEF k
<1>6. /\ conn' \in [Conns -> Links]
      /\ Slots' /\ Registered' /\ Barred'
      /\ ag'.conn # None =>
           /\ conn'[ag'.conn].st # "free"
           /\ conn'[ag'.conn].st \in {"checking", "checked"} => ag'.pc = "registering"
      /\ \A d \in Conns : conn'[d].out \in {"denied", "revoked"} \/ conn'[d].raced
                             => row' = Gone
  BY <1>2, <1>3, <1>4, <1>5, OneChanges DEF Takes
<1>7. Holds' /\ Patience' /\ Deleted' /\ Asked'
  BY <1>4, <1>6 DEF Holds, Patience, Deleted, Asked, Track
<1>8. TypeOK'
  BY <1>4, <1>6, TypesKept DEF TypeOK
<1> QED BY <1>6, <1>7, <1>8, TrackedHolds

\* A connection reaches its age (MaxConnectionAge), or breaks.
LEMMA BreaksKeeps ==
  ASSUME IInv, Track, NEW c \in Conns, Recycles(c) \/ Breaks(c)
  PROVE  IInv'
BY CutKeeps DEF Recycles, Breaks, dbVars, regVars

\* The goroutine of the stream the agent moved away from ends, and cancels the
\* current one.
LEMMA OldStreamEndsKeeps ==
  ASSUME IInv, Track, OldStreamEnds
  PROVE  IInv'
<1> USE DEF IInv
<1>1. ag' = [ag EXCEPT !.old = FALSE]
      /\ UNCHANGED <<row, entry, heard, revoking, ask, events>> /\ UNCHANGED hubVars
  BY DEF OldStreamEnds, dbVars, regVars
<1>2. CASE ag.pc \in {"up", "asking"} /\ ag.conn # None
  <2>1. ag.conn \in Conns /\ conn[ag.conn].st # "free"
        /\ conn' = [conn EXCEPT ![ag.conn].cut = TRUE]
    BY <1>2 DEF OldStreamEnds, Holds, TypeOK, Agents
  <2> QED BY <1>1, <2>1, CutKeeps
<1>3. CASE ~(ag.pc \in {"up", "asking"} /\ ag.conn # None)
  <2>1. conn' = conn
    BY <1>3 DEF OldStreamEnds
  <2>2. /\ ag' \in Agents /\ ag'.pc = ag.pc /\ ag'.conn = ag.conn /\ ag'.ask = ag.ask
        /\ ag'.denials = ag.denials
    BY <1>1 DEF TypeOK, Agents
  <2>3. ask' \in [Asks -> Requests] /\ Asked'
    BY <1>1 DEF Asked, Track, TypeOK
  <2> QED BY <1>1, <2>1, <2>2, <2>3, AgentMoves DEF Holds, Patience, Deleted
<1> QED BY <1>2, <1>3

\* A registration let in leaves an entry, or finds one: bound to what it was.
LEMMA RegisterEndsKeeps ==
  ASSUME IInv, Track, NEW c \in Conns, RegisterEnds(c)
  PROVE  IInv'
<1> USE HubsAssumption DEF IInv
<1>1. /\ conn[c].st = "checked" /\ conn[c].hub \in Hubs /\ conn[c] \in Links
      /\ UNCHANGED <<row, heard, revoking, ask, events>> /\ UNCHANGED hubVars
  BY DEF RegisterEnds, dbVars, Slots, TypeOK
<1> DEFINE h == conn[c].hub
<1>2. CASE Recheck(c) # "allowed"
  <2>1. /\ conn' = [conn EXCEPT ![c] = Ended(c, Recheck(c))]
        /\ UNCHANGED <<entry, ag>>
    BY <1>2 DEF RegisterEnds
  <2>2. /\ Recheck(c) \in Code
        /\ Recheck(c) \in {"denied", "revoked"} => row = Gone
    BY <1>1 DEF Recheck, Links, Code, Deleted
  <2> QED BY <1>1, <2>1, <2>2, EndKeeps
<1>3. CASE Recheck(c) = "allowed"
  <2>1. conn[c].out = "allowed" /\ ~conn[c].raced /\ h \notin heard
    BY <1>1, <1>3 DEF Recheck, Barred
  <2>2. PICK e \in Entries : e.bound = None /\ e.told = FALSE
    <3>1. [bound |-> None, told |-> FALSE] \in Entries
      BY DEF Entries
    <3> QED BY <3>1
  <2>3. /\ entry' \in [Hubs -> {None} \cup Entries]
        /\ \A g \in Hubs : \/ entry'[g] = entry[g]
                           \/ g = h /\ entry'[g].bound = None
        /\ \A g \in Hubs : entry[g] # None => entry'[g] = entry[g]
    <3>1. [bound |-> None, told |-> FALSE] \in Entries
      BY DEF Entries
    <3>2. entry' = [entry EXCEPT ![h] =
                       IF @ = None THEN [bound |-> None, told |-> FALSE] ELSE @]
      BY <1>3 DEF RegisterEnds
    <3> QED BY <1>1, <3>1, <3>2 DEF TypeOK
  <2>4. PICK k \in Links :
          /\ conn' = [conn EXCEPT ![c] = k]
          /\ \/ k = Free /\ ag.conn # c
             \/ /\ k.st \in {"opening", "ended"} /\ k.hub = h /\ ag.conn = c
                /\ k.out \in {"none", "unavailable"} /\ ~k.raced
                /\ k.st = "opening" => k.out = "none"
    <3>1. CASE ag.conn = c /\ ~conn[c].cut
      <4> DEFINE k == [conn[c] EXCEPT !.st = "opening", !.out = "none", !.raced = FALSE]
      <4>1. k \in Links /\ k.st = "opening" /\ k.hub = h /\ k.out = "none" /\ ~k.raced
        BY <1>1 DEF Links, Code
      <4>2. conn' = [conn EXCEPT ![c] = k]
        BY <1>3, <3>1 DEF RegisterEnds, TypeOK
      <4> HIDE DEF k
      <4> QED BY <3>1, <4>1, <4>2
    <3>2. CASE ~(ag.conn = c /\ ~conn[c].cut)
      <4>1. conn' = [conn EXCEPT ![c] = Ended(c, "unavailable")]
        BY <1>3, <3>2 DEF RegisterEnds
      <4>2. "unavailable" \in Code
        BY DEF Code
      <4> DEFINE k == Ended(c, "unavailable")
      <4>3. /\ k \in Links
            /\ ag.conn = c => /\ k.st = "ended" /\ k.out = "unavailable"
                              /\ k.hub = conn[c].hub /\ k.raced = conn[c].raced
            /\ ag.conn # c => k = Free
        BY <4>2, EndedIs
      <4> HIDE DEF k
      <4> QED BY <2>1, <4>1, <4>3 DEF k
    <3> QED BY <3>1, <3>2
  <2>5. /\ ag' \in Agents /\ ag'.conn = ag.conn /\ ag'.ask = ag.ask
        /\ ag'.denials = ag.denials
        /\ \/ ag' = ag
           \/ ag'.pc = "up" /\ ag.conn = c
    BY <1>3 DEF RegisterEnds, TypeOK, Agents
  <2>6. conn'[c] = k /\ \A d \in Conns : d # c => conn'[d] = conn[d]
    BY <2>4 DEF TypeOK
  <2>7. Slots'
    <3>1. ASSUME NEW d \in Conns, d # c
          PROVE  /\ conn'[d].st = "free" => conn'[d] = Free
                 /\ conn'[d].st # "free" => conn'[d].hub \in Hubs
                 /\ conn'[d].st = "ended" => ag'.conn = d
                 /\ conn'[d].st = "opening" => conn'[d].out = "none"
      BY <2>5, <2>6, <3>1 DEF Slots
    <3>2. /\ k.st = "free" => k = Free
          /\ k.st # "free" => k.hub \in Hubs
          /\ k.st = "ended" => ag'.conn = c
          /\ k.st = "opening" => k.out = "none"
      BY <1>1, <2>4, <2>5 DEF Free
    <3> QED BY <2>6, <3>1, <3>2 DEF Slots
  <2>8. Holds'
    BY <2>4, <2>5, <2>6 DEF Holds, TypeOK, Agents, Free
  <2>9. Patience'
    BY <1>1, <2>5, <2>8 DEF Patience, Holds, RegisterEnds
  <2>10. Registered'
    <3>1. k.st # "live"
      BY <2>4 DEF Free
    <3>2. ASSUME NEW d \in Conns, conn'[d].st = "live", conn'[d].out = "none"
          PROVE  entry'[conn'[d].hub] # None /\ entry'[conn'[d].hub].bound = d
      <4>1. conn'[d] = conn[d] /\ conn[d].hub \in Hubs /\ conn[d].st = "live"
        BY <2>6, <3>1, <3>2 DEF Slots
      <4> QED BY <2>3, <3>2, <4>1 DEF Registered
    <3>3. ASSUME NEW g \in Hubs, entry'[g] # None, entry'[g].bound # None
          PROVE  conn'[entry'[g].bound].st = "live" /\ conn'[entry'[g].bound].hub = g
      <4>1. entry'[g] = entry[g] /\ entry[g].bound \in Conns
        BY <2>3, <3>3 DEF Entries
      <4>2. conn[entry[g].bound].st = "live" /\ conn[entry[g].bound].hub = g
        BY <3>3, <4>1 DEF Registered
      <4> QED BY <1>1, <2>6, <4>1, <4>2
    <3> QED BY <3>2, <3>3 DEF Registered
  <2>11. Barred'
    BY <1>1, <2>1, <2>3, <2>4, <2>6 DEF Barred, Free, TypeOK
  <2>12. Deleted'
    BY <1>1, <2>4, <2>5, <2>6 DEF Deleted, Free
  <2>13. conn' \in [Conns -> Links]
    BY <2>4 DEF TypeOK
  <2>14. TypeOK' /\ Asked'
    BY <1>1, <2>3, <2>5, <2>13, TypesKept DEF TypeOK, Asked, Track
  <2> QED BY <2>7, <2>8, <2>9, <2>10, <2>11, <2>12, <2>14, TrackedHolds
<1> QED BY <1>2, <1>3

\* A newer stream takes the entry, and the one bound before it is closed.
LEMMA BindKeeps ==
  ASSUME IInv, Track, NEW c \in Conns, Bind(c)
  PROVE  IInv'
<1> USE HubsAssumption DEF IInv
<1>1. /\ conn[c].st = "opening" /\ conn[c].out = "none"
      /\ conn[c].hub \in Hubs /\ conn[c] \in Links
      /\ UNCHANGED <<row, heard, revoking, ag, ask, events>> /\ UNCHANGED hubVars
  BY DEF Bind, dbVars, Slots, TypeOK
<1> DEFINE h == conn[c].hub
<1>2. CASE entry[h] = None
  <2>1. conn' = [conn EXCEPT ![c] = Ended(c, "unregistered")] /\ UNCHANGED entry
    BY <1>2 DEF Bind
  <2>2. "unregistered" \in Code
    BY DEF Code
  <2> QED BY <1>1, <2>1, <2>2, EndKeeps
<1>3. CASE entry[h] # None
  <2>1. entry[h] \in Entries /\ h \notin heard /\ entry[h].bound # c
    BY <1>1, <1>3 DEF TypeOK, Barred, Registered
  <2>2. entry' = [entry EXCEPT ![h].bound = c]
    BY <1>3 DEF Bind
  <2>3. [entry[h] EXCEPT !.bound = c] \in Entries
    BY <2>1 DEF Entries
  <2>4. /\ entry' \in [Hubs -> {None} \cup Entries]
        /\ entry'[h] # None /\ entry'[h].bound = c
        /\ \A g \in Hubs : g # h => entry'[g] = entry[g]
    BY <1>1, <2>1, <2>2, <2>3 DEF TypeOK, Entries
  <2>5. /\ conn' \in [Conns -> Links]
        /\ conn'[c].st = "live" /\ conn'[c].hub = h /\ conn'[c].out = "none"
        /\ conn'[c].raced = conn[c].raced
        /\ \A d \in Conns : d # c => /\ conn'[d].st = conn[d].st
                                     /\ conn'[d].hub = conn[d].hub
                                     /\ conn'[d].raced = conn[d].raced
                                     /\ conn'[d] = conn[d] \/ entry[h].bound = d
        /\ entry[h].bound \in Conns \ {c} => conn'[entry[h].bound].out # "none"
        /\ \A d \in Conns : conn'[d].out \in {conn[d].out, "replaced"}
    <3>1. conn' = [d \in Conns |->
                     CASE d = c -> [conn[c] EXCEPT !.st = "live"]
                       [] d = entry[h].bound -> Closed(d, "replaced")
                       [] OTHER -> conn[d]]
      BY <1>3 DEF Bind
    <3>2. [conn[c] EXCEPT !.st = "live"] \in Links
      BY <1>1, LinkIs
    <3>3. ASSUME NEW d \in Conns
          PROVE  LET k == Closed(d, "replaced") IN
                 /\ k \in Links
                 /\ k.st = conn[d].st /\ k.hub = conn[d].hub /\ k.raced = conn[d].raced
                 /\ k.out \in {conn[d].out, "replaced"} /\ k.out # "none"
      BY ClosedIs
    <3>4. conn'[c] = [conn[c] EXCEPT !.st = "live"]
      BY <2>1, <3>1
    <3>5. \A d \in Conns : d # c =>
             conn'[d] = IF d = entry[h].bound THEN Closed(d, "replaced") ELSE conn[d]
      BY <3>1
    <3>6. conn' \in [Conns -> Links]
      BY <3>1, <3>2, <3>3 DEF TypeOK
    <3> QED BY <1>1, <3>3, <3>4, <3>5, <3>6 DEF Links
  <2>6. \A d \in Conns : conn[d].st = "live" => d # c
    BY <1>1
  <2>7. Slots'
    <3>1. ASSUME NEW d \in Conns, d # c
          PROVE  /\ conn'[d].st = "free" => conn'[d] = Free
                 /\ conn'[d].st # "free" => conn'[d].hub \in Hubs
                 /\ conn'[d].st = "ended" => ag'.conn = d
                 /\ conn'[d].st = "opening" => conn'[d].out = "none"
      <4>1. CASE conn'[d] = conn[d]
        BY <1>1, <4>1 DEF Slots
      <4>2. CASE entry[h].bound = d
        <5>1. conn[d].st = "live" /\ conn[d].hub = h
          BY <1>1, <1>3, <4>2, HubsAssumption DEF Registered
        <5> QED BY <1>1, <2>5, <3>1, <5>1
      <4> QED BY <2>5, <3>1, <4>1, <4>2
    <3> QED BY <1>1, <2>5, <3>1 DEF Slots
  <2>8. Holds' /\ Patience' /\ Asked'
    BY <1>1, <2>5 DEF Holds, Patience, Asked, Track, TypeOK, Agents
  <2>9. Registered'
    <3>1. ASSUME NEW d \in Conns, conn'[d].st = "live", conn'[d].out = "none"
          PROVE  entry'[conn'[d].hub] # None /\ entry'[conn'[d].hub].bound = d
      <4>1. CASE d = c
        BY <2>4, <2>5, <4>1
      <4>2. CASE d # c
        <5>1. conn'[d] = conn[d] /\ entry[h].bound # d
          BY <2>5, <3>1, <4>2
        <5>2. entry[conn[d].hub] # None /\ entry[conn[d].hub].bound = d
              /\ conn[d].hub \in Hubs
          BY <3>1, <5>1 DEF Registered, Slots
        <5> QED BY <2>4, <5>1, <5>2
      <4> QED BY <4>1, <4>2
    <3>2. ASSUME NEW g \in Hubs, entry'[g] # None, entry'[g].bound # None
          PROVE  conn'[entry'[g].bound].st = "live" /\ conn'[entry'[g].bound].hub = g
      <4>1. CASE g = h
        BY <2>4, <2>5, <4>1
      <4>2. CASE g # h
        <5>1. entry'[g] = entry[g] /\ entry[g].bound \in Conns
          BY <2>4, <3>2, <4>2 DEF Entries, TypeOK
        <5>2. conn[entry[g].bound].st = "live" /\ conn[entry[g].bound].hub = g
          BY <3>2, <5>1 DEF Registered
        <5> QED BY <1>1, <2>5, <5>1, <5>2
      <4> QED BY <4>1, <4>2
    <3> QED BY <3>1, <3>2 DEF Registered
  <2>10. Barred'
    BY <1>1, <2>1, <2>4, <2>5 DEF Barred, TypeOK
  <2>11. Deleted'
    BY <1>1, <2>5 DEF Deleted
  <2>12. TypeOK'
    BY <1>1, <2>4, <2>5, TypesKept DEF TypeOK
  <2> QED BY <2>7, <2>8, <2>9, <2>10, <2>11, <2>12, TrackedHolds
<1> QED BY <1>2, <1>3

\* A stream's handler ends: the entry goes with it if it still holds it.
LEMMA HandlerEndsKeeps ==
  ASSUME IInv, Track, NEW c \in Conns, HandlerEnds(c)
  PROVE  IInv'
<1> USE HubsAssumption DEF IInv
<1>1. /\ conn[c].st = "live" /\ conn[c].hub \in Hubs /\ conn[c] \in Links
      /\ UNCHANGED <<row, heard, revoking, ag, ask, events>> /\ UNCHANGED hubVars
  BY DEF HandlerEnds, dbVars, Slots, TypeOK
<1> DEFINE code == IF conn[c].out = "revoked" THEN "denied" ELSE "unavailable"
           k == Ended(c, code)
<1>2. code \in Code /\ (code = "denied" => row = Gone)
      /\ (conn[c].raced => row = Gone)
  BY DEF Code, Deleted
<1>3. conn' = [conn EXCEPT ![c] = k]
  BY DEF HandlerEnds, TypeOK
<1>4. /\ k \in Links
      /\ ag.conn = c => /\ k.st = "ended" /\ k.out = code
                        /\ k.hub = conn[c].hub /\ k.raced = conn[c].raced
      /\ ag.conn # c => k = Free
  <2> HIDE DEF code
  <2> QED BY <1>2, EndedIs
<1>5. /\ entry' \in [Hubs -> {None} \cup Entries]
      /\ \A g \in Hubs : \/ entry'[g] = entry[g]
                         \/ entry'[g] = None /\ entry[g].bound = c
      /\ \A g \in Hubs : entry'[g] # None => entry'[g].bound # c
  BY <1>1 DEF HandlerEnds, CleansUp, TypeOK, Registered
<1>6. conn'[c] = k /\ \A d \in Conns : d # c => conn'[d] = conn[d]
  BY <1>3 DEF TypeOK
<1>7. conn' \in [Conns -> Links]
  BY <1>3, <1>4 DEF TypeOK
<1>8. /\ k.st \in {"free", "ended"}
      /\ k.st = "free" => k = Free /\ ag.conn # c
      /\ k.st = "ended" => ag.conn = c /\ k.hub \in Hubs
      /\ k.out \in {"denied", "revoked"} \/ k.raced => row = Gone
  BY <1>1, <1>2, <1>4 DEF Free
<1> HIDE DEF k, code
<1>9. Slots'
  <2>1. ASSUME NEW d \in Conns, d # c
        PROVE  /\ conn'[d].st = "free" => conn'[d] = Free
               /\ conn'[d].st # "free" => conn'[d].hub \in Hubs
               /\ conn'[d].st = "ended" => ag'.conn = d
               /\ conn'[d].st = "opening" => conn'[d].out = "none"
    BY <1>1, <1>6, <2>1 DEF Slots
  <2> QED BY <1>1, <1>6, <1>8, <2>1 DEF Slots
<1>10. Holds' /\ Patience' /\ Asked'
  BY <1>1, <1>6, <1>8 DEF Holds, Patience, Asked, Track, TypeOK, Agents
<1>11. Registered'
  BY <1>5, <1>6, <1>8 DEF Registered, TypeOK, Entries, Slots
<1>12. Barred'
  BY <1>1, <1>5, <1>6, <1>8 DEF Barred, TypeOK
<1>13. Deleted'
  BY <1>1, <1>6, <1>8 DEF Deleted
<1>14. TypeOK'
  BY <1>1, <1>5, <1>7, TypesKept DEF TypeOK
<1> QED BY <1>9, <1>10, <1>11, <1>12, <1>13, <1>14, TrackedHolds

\* What revoke and reapOnce leave: no entry, and every connection as it was,
\* but for the cause of those they close.
LEMMA DropIs ==
  ASSUME IInv, NEW h \in Hubs, NEW cause \in {"revoked", "stale"}, DropEntry(h, cause)
  PROVE  /\ entry' \in [Hubs -> {None} \cup Entries]
         /\ entry'[h] = None /\ \A g \in Hubs : g # h => entry'[g] = entry[g]
         /\ conn' \in [Conns -> Links]
         /\ \A d \in Conns :
              /\ conn'[d].st = conn[d].st /\ conn'[d].hub = conn[d].hub
              /\ conn'[d].out \in {conn[d].out, cause}
              /\ conn[d].st # "live" => conn'[d].out = conn[d].out
              /\ conn[d].st = "free" => conn'[d] = conn[d]
              /\ conn[d].out # "none" => conn'[d].out # "none"
              /\ conn'[d].raced => conn[d].raced \/ cause = "revoked"
              /\ conn[d].raced => conn'[d].raced
              /\ entry[h] # None /\ entry[h].bound = d => conn'[d].out # "none"
              /\ cause = "revoked" /\ conn[d].hub = h /\ conn[d].st = "checked" =>
                   conn'[d].raced
<1> USE HubsAssumption DEF IInv
<1> DEFINE k(d) == IF entry[h] # None /\ d = entry[h].bound
                   THEN Closed(d, cause) ELSE conn[d]
<1>1. entry' = [entry EXCEPT ![h] = None]
  BY DEF DropEntry
<1>2. \A d \in Conns :
        conn'[d] = IF /\ cause = "revoked" /\ k(d).hub = h
                      /\ k(d).st \in {"checking", "checked"}
                   THEN [k(d) EXCEPT !.raced = TRUE] ELSE k(d)
  BY DEF DropEntry
<1>3. ASSUME NEW d \in Conns
      PROVE  /\ k(d) \in Links
             /\ k(d).st = conn[d].st /\ k(d).hub = conn[d].hub
             /\ k(d).raced = conn[d].raced
             /\ k(d).out \in {conn[d].out, cause}
             /\ conn[d].st # "live" => k(d) = conn[d]
             /\ conn[d].out # "none" => k(d).out # "none"
             /\ entry[h] # None /\ entry[h].bound = d => k(d).out # "none"
  <2>1. CASE entry[h] # None /\ d = entry[h].bound
    <3>1. conn[d].st = "live"
      BY <2>1 DEF Registered
    <3>2. LET q == Closed(d, cause) IN
          /\ q \in Links
          /\ q.st = conn[d].st /\ q.hub = conn[d].hub /\ q.raced = conn[d].raced
          /\ q.out = IF conn[d].out = "none" THEN cause ELSE conn[d].out
      BY ClosedIs
    <3> QED BY <2>1, <3>1, <3>2
  <2>2. CASE ~(entry[h] # None /\ d = entry[h].bound)
    BY <2>2 DEF TypeOK
  <2> QED BY <2>1, <2>2
<1> HIDE DEF k
<1>4. ASSUME NEW d \in Conns
      PROVE  /\ [k(d) EXCEPT !.raced = TRUE] \in Links
             /\ [k(d) EXCEPT !.raced = TRUE].st = k(d).st
             /\ [k(d) EXCEPT !.raced = TRUE].hub = k(d).hub
             /\ [k(d) EXCEPT !.raced = TRUE].out = k(d).out
             /\ [k(d) EXCEPT !.raced = TRUE].raced
  BY <1>3, LinkIs DEF Links
<1>5. entry' \in [Hubs -> {None} \cup Entries]
      /\ entry'[h] = None /\ \A g \in Hubs : g # h => entry'[g] = entry[g]
  BY <1>1 DEF TypeOK
<1>6. conn' \in [Conns -> Links]
  <2>1. conn' = [d \in Conns |-> conn'[d]]
    BY DEF DropEntry
  <2>2. \A d \in Conns : conn'[d] \in Links
    BY <1>2, <1>3, <1>4
  <2> QED BY <2>1, <2>2
<1>7. ASSUME NEW d \in Conns
      PROVE  /\ conn'[d].st = conn[d].st /\ conn'[d].hub = conn[d].hub
             /\ conn'[d].out \in {conn[d].out, cause}
             /\ conn[d].st # "live" => conn'[d].out = conn[d].out
             /\ conn[d].st = "free" => conn'[d] = conn[d]
             /\ conn[d].out # "none" => conn'[d].out # "none"
             /\ conn'[d].raced => conn[d].raced \/ cause = "revoked"
             /\ conn[d].raced => conn'[d].raced
             /\ entry[h] # None /\ entry[h].bound = d => conn'[d].out # "none"
             /\ cause = "revoked" /\ conn[d].hub = h /\ conn[d].st = "checked" =>
                  conn'[d].raced
  <2>1. CASE cause = "revoked" /\ k(d).hub = h /\ k(d).st \in {"checking", "checked"}
    <3>1. conn'[d] = [k(d) EXCEPT !.raced = TRUE] /\ conn[d].st \notin {"live", "free"}
      BY <1>2, <1>3, <2>1
    <3> QED BY <1>3, <1>4, <2>1, <3>1
  <2>2. CASE ~(cause = "revoked" /\ k(d).hub = h /\ k(d).st \in {"checking", "checked"})
    <3>1. conn'[d] = k(d)
      BY <1>2, <2>2
    <3> QED BY <1>3, <2>2, <3>1
  <2> QED BY <2>1, <2>2
<1> QED BY <1>5, <1>6, <1>7

\* A hub that drops its entry and closes what was bound to it.
LEMMA DropKeeps ==
  ASSUME IInv, Track, NEW h \in Hubs, NEW cause \in {"revoked", "stale"},
         DropEntry(h, cause), cause = "revoked" => row = Gone,
         UNCHANGED <<row, ag, ask>>, UNCHANGED hubVars,
         revoking' \subseteq revoking, heard' \subseteq Hubs,
         heard' \subseteq heard \/ (cause = "revoked" /\ heard' \subseteq heard \cup {h}),
         UNCHANGED events \/ Event
  PROVE  IInv'
<1> USE HubsAssumption DEF IInv
<1>1. /\ entry' \in [Hubs -> {None} \cup Entries]
      /\ entry'[h] = None /\ \A g \in Hubs : g # h => entry'[g] = entry[g]
      /\ conn' \in [Conns -> Links]
      /\ \A d \in Conns :
           /\ conn'[d].st = conn[d].st /\ conn'[d].hub = conn[d].hub
           /\ conn'[d].out \in {conn[d].out, cause}
           /\ conn[d].st # "live" => conn'[d].out = conn[d].out
           /\ conn[d].st = "free" => conn'[d] = conn[d]
           /\ conn[d].out # "none" => conn'[d].out # "none"
           /\ conn'[d].raced => conn[d].raced \/ cause = "revoked"
           /\ conn[d].raced => conn'[d].raced
           /\ entry[h] # None /\ entry[h].bound = d => conn'[d].out # "none"
           /\ cause = "revoked" /\ conn[d].hub = h /\ conn[d].st = "checked" =>
                conn'[d].raced
  BY DropIs
<1>2. Slots'
  BY <1>1 DEF Slots
<1>3. Holds' /\ Patience' /\ Asked'
  BY <1>1 DEF Holds, Patience, Asked, Track, TypeOK, Agents
<1>4. Registered'
  <2>1. ASSUME NEW d \in Conns, conn'[d].st = "live", conn'[d].out = "none"
        PROVE  entry'[conn'[d].hub] # None /\ entry'[conn'[d].hub].bound = d
    <3>1. conn[d].st = "live" /\ conn[d].out = "none" /\ conn[d].hub \in Hubs
      BY <1>1, <2>1 DEF Slots
    <3>2. entry[conn[d].hub] # None /\ entry[conn[d].hub].bound = d
      BY <3>1 DEF Registered
    <3> QED BY <1>1, <2>1, <3>1, <3>2
  <2>2. ASSUME NEW g \in Hubs, entry'[g] # None, entry'[g].bound # None
        PROVE  conn'[entry'[g].bound].st = "live" /\ conn'[entry'[g].bound].hub = g
    <3>1. g # h /\ entry'[g] = entry[g] /\ entry[g].bound \in Conns
      BY <1>1, <2>2 DEF TypeOK, Entries
    <3>2. conn[entry[g].bound].st = "live" /\ conn[entry[g].bound].hub = g
      BY <2>2, <3>1 DEF Registered
    <3> QED BY <1>1, <3>1, <3>2
  <2> QED BY <2>1, <2>2 DEF Registered
<1>5. Barred'
  <2>1. ASSUME NEW g \in heard'
        PROVE  entry'[g] = None
    BY <1>1, <2>1 DEF Barred, TypeOK
  <2>2. ASSUME NEW d \in Conns, conn'[d].hub \in heard', conn'[d].st = "checked",
               conn'[d].out = "allowed"
        PROVE  conn'[d].raced
    BY <1>1, <2>2 DEF Barred
  <2> QED BY <2>1, <2>2 DEF Barred
<1>6. Deleted'
  <2>1. \A d \in Conns : conn'[d].out \in {"denied", "revoked"} \/ conn'[d].raced
                            => row' = Gone
    BY <1>1 DEF Deleted
  <2>2. revoking' \cup heard' # {} => row' = Gone
    BY DEF Deleted
  <2> QED BY <2>1, <2>2 DEF Deleted
<1>7. TypeOK'
  BY <1>1, TypesKept DEF TypeOK
<1> QED BY <1>2, <1>3, <1>4, <1>5, <1>6, <1>7, TrackedHolds

\* A hub hears the revocation (revoke): its entry goes, and a check that the
\* delete overtook is marked, so that RegisterAgent refuses it.
LEMMA HearKeeps ==
  ASSUME IInv, Track, NEW h \in Hubs, Hear(h)
  PROVE  IInv'
<1> USE DEF IInv
<1>1. row = Gone /\ revoking' \subseteq revoking
      /\ UNCHANGED <<row, ag, ask, events>> /\ UNCHANGED hubVars
  BY DEF Hear, Deleted
<1>2. CASE Up(h)
  <2>1. heard' = heard \cup {h} /\ DropEntry(h, "revoked")
    BY <1>2 DEF Hear
  <2>2. heard' \subseteq Hubs
    BY <2>1 DEF TypeOK
  <2> QED BY <1>1, <2>1, <2>2, DropKeeps
<1>3. CASE ~Up(h)
  <2>1. UNCHANGED <<heard, entry, conn>>
    BY <1>3 DEF Hear
  <2>2. Slots' /\ Holds' /\ Patience' /\ Registered' /\ Barred' /\ Deleted' /\ Asked'
    BY <1>1, <2>1 DEF Slots, Holds, Patience, Registered, Barred, Deleted, Asked, Track
  <2>3. TypeOK'
    BY <1>1, <2>1, TypesKept DEF TypeOK
  <2> QED BY <2>2, <2>3, TrackedHolds
<1> QED BY <1>2, <1>3

\* reapOnce drops an entry nobody heard of for too long.
LEMMA ReapKeeps ==
  ASSUME IInv, Track, NEW h \in Hubs, Reap(h)
  PROVE  IInv'
<1>1. /\ DropEntry(h, "stale") /\ UNCHANGED <<row, ag, ask>> /\ UNCHANGED hubVars
      /\ revoking' \subseteq revoking /\ heard' \subseteq heard
      /\ UNCHANGED events \/ Event
  BY DEF Reap, dbVars
<1>2. heard' \subseteq Hubs
  BY <1>1 DEF IInv, TypeOK
<1> QED BY <1>1, <1>2, DropKeeps

-----------------------------------------------------------------------------
(* A hub's life, the list and the drain                                    *)

\* A step of a hub's own side keeps the types if it keeps those it writes.
LEMMA HubTypesKept ==
  ASSUME TypeOK, Track, UNCHANGED <<row, revoking, ag, ask>>,
         UNCHANGED events \/ Event,
         list' \in [Hubs -> {"open", "draining", "absent"}], flag' \in [Hubs -> BOOLEAN],
         hub' \in [Hubs -> Processes], stale' \subseteq Hubs, heard' \subseteq Hubs,
         entry' \in [Hubs -> {None} \cup Entries], conn' \in [Conns -> Links]
  PROVE  TypeOK'
<1>1. bad' \subseteq Hubs
  BY DEF TypeOK, Track
<1>2. events' \in 0..MaxEvents
  BY HubsAssumption DEF TypeOK, Event
<1> QED BY <1>1, <1>2, Zenon DEF TypeOK

\* A step of a hub that changes only the list, the flags and its process.
LEMMA WorldKeeps ==
  ASSUME IInv, Track, UNCHANGED <<row, revoking, heard, entry, conn, ag, ask>>,
         UNCHANGED events \/ Event,
         list' \in [Hubs -> {"open", "draining", "absent"}], flag' \in [Hubs -> BOOLEAN],
         hub' \in [Hubs -> Processes], stale' \subseteq Hubs
  PROVE  IInv'
<1> USE DEF IInv
<1>1. Slots' /\ Holds' /\ Patience' /\ Registered' /\ Barred' /\ Deleted' /\ Asked'
  BY DEF Slots, Holds, Patience, Registered, Barred, Deleted, Asked, Track
<1>2. TypeOK'
  BY HubTypesKept DEF TypeOK
<1> QED BY <1>1, <1>2, TrackedHolds

\* A hub's process of which some fields change.
LEMMA ProcessIs ==
  ASSUME TypeOK, NEW h \in Hubs, NEW l \in {"up", "stopping", "down"}, NEW d \in BOOLEAN,
         NEW m \in {"off", "starts", "moves"}
  PROVE  /\ [life |-> l, drain |-> d, mover |-> m] \in Processes
         /\ [hub EXCEPT ![h].life = l] \in [Hubs -> Processes]
         /\ [hub EXCEPT ![h].mover = m] \in [Hubs -> Processes]
         /\ [hub EXCEPT ![h].life = l, ![h].mover = m] \in [Hubs -> Processes]
         /\ [hub EXCEPT ![h].drain = d, ![h].mover = m] \in [Hubs -> Processes]
BY DEF TypeOK, Processes

\* The drain flag is set or cleared, and the hub sees it.
LEMMA FlagKeeps ==
  ASSUME IInv, Track, NEW h \in Hubs, SetFlag(h) \/ SeesFlag(h)
  PROVE  IInv'
<1> USE DEF IInv
<1>1. /\ UNCHANGED <<row, revoking, heard, entry, conn, ag, ask, list>>
      /\ UNCHANGED events \/ Event
  BY DEF SetFlag, SeesFlag, dbVars, regVars
<1>2. flag' \in [Hubs -> BOOLEAN]
  BY DEF SetFlag, SeesFlag, TypeOK
<1>3. stale' \subseteq Hubs
  BY DEF SetFlag, SeesFlag, MayLag, TypeOK
<1>4. hub' \in [Hubs -> Processes]
  <2>1. CASE SetFlag(h)
    BY <2>1 DEF SetFlag, TypeOK
  <2>2. CASE SeesFlag(h)
    <3> DEFINE m == IF flag[h] \/ hub[h].life = "stopping"
                    THEN (IF hub[h].mover = "off" THEN "starts" ELSE hub[h].mover)
                    ELSE "off"
    <3>1. m \in {"off", "starts", "moves"} /\ flag[h] \in BOOLEAN
      BY DEF TypeOK, Processes
    <3>2. hub' = [hub EXCEPT ![h].drain = flag[h], ![h].mover = m]
      BY <2>2 DEF SeesFlag, TypeOK, Processes
    <3> HIDE DEF m
    <3> QED BY <3>1, <3>2, ProcessIs
  <2> QED BY <2>1, <2>2
<1> QED BY <1>1, <1>2, <1>3, <1>4, WorldKeeps DEF TypeOK

\* A hub begins to stop, or starts.
LEMMA LifeKeeps ==
  ASSUME IInv, Track, NEW h \in Hubs, StopBegins(h) \/ Starts(h)
  PROVE  IInv'
<1> USE DEF IInv
<1>1. /\ UNCHANGED <<row, revoking, heard, entry, conn, ag, ask, list, flag>>
      /\ UNCHANGED events \/ Event
  BY DEF StopBegins, Starts, dbVars, regVars
<1>2. stale' \subseteq Hubs
  BY DEF StopBegins, Starts, MayLag, TypeOK
<1>3. hub' \in [Hubs -> Processes]
  <2>1. CASE StopBegins(h)
    <3> DEFINE m == IF /\ hub[h].mover = "off" /\ OtherListed(h)
                       /\ entry[h] # None /\ entry[h].bound # None
                    THEN "starts" ELSE hub[h].mover
    <3>1. m \in {"off", "starts", "moves"}
      BY DEF TypeOK, Processes
    <3>2. hub' = [hub EXCEPT ![h].life = "stopping", ![h].mover = m]
      BY <2>1 DEF StopBegins, TypeOK, Processes
    <3> HIDE DEF m
    <3> QED BY <3>1, <3>2, ProcessIs
  <2>2. CASE Starts(h)
    BY <2>2, ProcessIs DEF Starts
  <2> QED BY <2>1, <2>2
<1> QED BY <1>1, <1>2, <1>3, WorldKeeps DEF TypeOK

\* The announcer writes its status, late or in time, the entry lapses, a mover
\* starts.
LEMMA ListKeeps ==
  ASSUME IInv, Track, NEW h \in Hubs,
         Announce(h) \/ AnnounceLate(h) \/ ListLapses(h) \/ MoverStarts(h)
  PROVE  IInv'
<1> USE DEF IInv
<1>1. /\ UNCHANGED <<row, revoking, heard, entry, conn, ag, ask, flag>>
      /\ UNCHANGED events \/ Event
  BY DEF Announce, AnnounceLate, ListLapses, MoverStarts, dbVars, regVars
<1>2. stale' \subseteq Hubs
  BY DEF Announce, AnnounceLate, ListLapses, MoverStarts, TypeOK
<1>3. list' \in [Hubs -> {"open", "draining", "absent"}]
  BY DEF Announce, AnnounceLate, ListLapses, MoverStarts, Status, TypeOK
<1>4. hub' \in [Hubs -> Processes]
  <2>1. CASE MoverStarts(h)
    BY <2>1, ProcessIs DEF MoverStarts
  <2>2. CASE UNCHANGED hub
    BY <2>2 DEF TypeOK
  <2> QED BY <2>1, <2>2 DEF Announce, AnnounceLate, ListLapses
<1> QED BY <1>1, <1>2, <1>3, <1>4, WorldKeeps DEF TypeOK

\* The mover tells the bound stream, and tells it again when it is due.
LEMMA TellKeeps ==
  ASSUME IInv, Track, NEW h \in Hubs, Tell(h) \/ ToldLapses(h)
  PROVE  IInv'
<1> USE HubsAssumption DEF IInv
<1>1. PICK b \in BOOLEAN : entry' = [entry EXCEPT ![h].told = b]
  BY DEF Tell, ToldLapses
<1>2. entry[h] \in Entries
  BY DEF Tell, ToldLapses, TypeOK
<1>3. [entry[h] EXCEPT !.told = b] \in Entries
  BY <1>2 DEF Entries
<1>4. /\ entry' \in [Hubs -> {None} \cup Entries]
      /\ \A g \in Hubs : /\ entry[g] = None <=> entry'[g] = None
                         /\ entry[g] # None => entry'[g].bound = entry[g].bound
  BY <1>1, <1>2, <1>3 DEF TypeOK, Entries
<1>5. /\ ag' \in Agents /\ ag'.pc = ag.pc /\ ag'.conn = ag.conn /\ ag'.ask = ag.ask
      /\ ag'.denials = ag.denials
  <2>1. ag' = ag \/ ag' = [ag EXCEPT !.move = TRUE]
    BY DEF Tell, ToldLapses
  <2>2. ag \in Agents
    BY DEF TypeOK
  <2>3. CASE ag' = [ag EXCEPT !.move = TRUE]
    BY <2>2, <2>3 DEF Agents
  <2> QED BY <2>1, <2>2, <2>3
<1>6. UNCHANGED <<row, revoking, heard, conn, ask, events>> /\ UNCHANGED hubVars
  BY DEF Tell, ToldLapses, dbVars
<1>7. Registered'
  <2>1. ASSUME NEW d \in Conns, conn'[d].st = "live", conn'[d].out = "none"
        PROVE  entry'[conn'[d].hub] # None /\ entry'[conn'[d].hub].bound = d
    <3>1. conn[d].hub \in Hubs /\ entry[conn[d].hub] # None
          /\ entry[conn[d].hub].bound = d
      BY <1>6, <2>1 DEF Registered, Slots
    <3> QED BY <1>4, <1>6, <3>1
  <2>2. ASSUME NEW g \in Hubs, entry'[g] # None, entry'[g].bound # None
        PROVE  conn'[entry'[g].bound].st = "live" /\ conn'[entry'[g].bound].hub = g
    BY <1>4, <1>6, <2>2 DEF Registered
  <2> QED BY <2>1, <2>2 DEF Registered
<1>8. Slots' /\ Holds' /\ Patience' /\ Deleted' /\ Asked'
  BY <1>5, <1>6 DEF Slots, Holds, Patience, Deleted, Asked, Track
<1>9. Barred'
  BY <1>4, <1>6 DEF Barred, TypeOK
<1>10. TypeOK'
  BY <1>4, <1>5, <1>6, TypesKept DEF TypeOK
<1> QED BY <1>7, <1>8, <1>9, <1>10, TrackedHolds

\* A hub that stops or crashes takes its registry and its connections along.
LEMMA DiesKeeps ==
  ASSUME IInv, Track, NEW h \in Hubs, StopEnds(h) \/ Crash(h)
  PROVE  IInv'
<1> USE HubsAssumption DEF IInv
<1>1. Dies(h) /\ UNCHANGED <<row, revoking, ag, ask, flag>>
      /\ (UNCHANGED events \/ Event)
  BY DEF StopEnds, Crash, dbVars
<1>2. list' \in [Hubs -> {"open", "draining", "absent"}]
  BY DEF StopEnds, Crash, TypeOK
<1>3. hub' \in [Hubs -> Processes] /\ stale' \subseteq Hubs /\ heard' \subseteq Hubs
  BY <1>1, ProcessIs DEF Dies, TypeOK
<1>4. /\ entry' \in [Hubs -> {None} \cup Entries]
      /\ entry'[h] = None /\ \A g \in Hubs : g # h => entry'[g] = entry[g]
      /\ heard' = heard \ {h}
  BY <1>1 DEF Dies, TypeOK
<1>5. ASSUME NEW d \in Conns
      PROVE  /\ conn'[d] \in Links
             /\ \/ conn'[d] = conn[d] /\ (conn[d].hub # h \/ conn[d].st = "ended")
                \/ conn[d].hub = h /\ conn'[d] = Free /\ ag.conn # d
                \/ /\ conn[d].hub = h /\ ag.conn = d
                   /\ conn'[d].st = "ended" /\ conn'[d].hub = h
                   /\ conn'[d].out = "unavailable" /\ conn'[d].raced = conn[d].raced
  <2> DEFINE k == Ended(d, "unavailable")
  <2>1. "unavailable" \in Code
    BY DEF Code
  <2>2. /\ k \in Links
        /\ ag.conn = d => /\ k.st = "ended" /\ k.out = "unavailable"
                          /\ k.hub = conn[d].hub /\ k.raced = conn[d].raced
        /\ ag.conn # d => k = Free
    BY <2>1, EndedIs
  <2>3. conn'[d] = IF conn[d].hub = h /\ conn[d].st # "ended" THEN k ELSE conn[d]
    BY <1>1 DEF Dies
  <2>4. conn[d] \in Links
    BY DEF TypeOK
  <2> HIDE DEF k
  <2> QED BY <2>2, <2>3, <2>4
<1>6. conn' \in [Conns -> Links]
  <2>1. conn' = [d \in Conns |-> conn'[d]]
    BY <1>1 DEF Dies
  <2> QED BY <1>5, <2>1
<1>7. Slots'
  <2>1. ASSUME NEW d \in Conns
        PROVE  /\ conn'[d].st = "free" => conn'[d] = Free
               /\ conn'[d].st # "free" => conn'[d].hub \in Hubs
               /\ conn'[d].st = "ended" => ag'.conn = d
               /\ conn'[d].st = "opening" => conn'[d].out = "none"
    <3>1. CASE conn'[d] = conn[d]
      BY <1>1, <3>1 DEF Slots
    <3>2. CASE conn'[d] = Free
      BY <3>2 DEF Free
    <3> QED BY <1>1, <1>5, <3>1, <3>2
  <2> QED BY <2>1 DEF Slots
<1>8. Holds' /\ Patience' /\ Asked'
  <2>1. ag.conn # None => ag.conn \in Conns
    BY DEF TypeOK, Agents
  <2>2. Holds'
    BY <1>1, <1>5, <2>1 DEF Holds, Free
  <2> QED BY <1>1, <2>2 DEF Patience, Asked, Track
<1>9. Registered'
  <2>1. ASSUME NEW d \in Conns, conn'[d].st = "live", conn'[d].out = "none"
        PROVE  entry'[conn'[d].hub] # None /\ entry'[conn'[d].hub].bound = d
    <3>1. conn'[d] = conn[d] /\ conn[d].hub # h /\ conn[d].hub \in Hubs
      BY <1>5, <2>1 DEF Free, Slots
    <3> QED BY <1>4, <2>1, <3>1 DEF Registered
  <2>2. ASSUME NEW g \in Hubs, entry'[g] # None, entry'[g].bound # None
        PROVE  conn'[entry'[g].bound].st = "live" /\ conn'[entry'[g].bound].hub = g
    <3>1. g # h /\ entry'[g] = entry[g] /\ entry[g].bound \in Conns
      BY <1>4, <2>2 DEF TypeOK, Entries
    <3>2. conn[entry[g].bound].st = "live" /\ conn[entry[g].bound].hub = g
      BY <2>2, <3>1 DEF Registered
    <3> QED BY <1>5, <3>1, <3>2
  <2> QED BY <2>1, <2>2 DEF Registered
<1>10. Barred'
  BY <1>4, <1>5 DEF Barred, TypeOK, Free
<1>11. Deleted'
  BY <1>1, <1>4, <1>5 DEF Deleted, Free
<1>12. TypeOK'
  BY <1>1, <1>2, <1>3, <1>4, <1>6, HubTypesKept DEF TypeOK
<1> QED BY <1>7, <1>8, <1>9, <1>10, <1>11, <1>12, TrackedHolds

-----------------------------------------------------------------------------
(* The theorems                                                            *)

\* The initial states satisfy the invariant.
LEMMA InitHolds == Init => IInv
<1> USE HubsAssumption DEF Init
<1>1. ASSUME Init PROVE TypeOK
  BY <1>1, FreeIs, NoAskIs DEF TypeOK, Agents, Processes
<1>2. ASSUME Init PROVE Slots /\ Holds /\ Patience /\ Registered
  BY <1>2 DEF Slots, Holds, Patience, Registered, Free
<1>3. ASSUME Init PROVE Barred /\ Deleted /\ Asked /\ Tracked
  BY <1>3 DEF Barred, Deleted, Asked, Tracked, Free, NoAsk
<1> QED BY <1>1, <1>2, <1>3 DEF IInv

\* A stuttering step.
LEMMA StutterKeeps == IInv /\ UNCHANGED vars => IInv'
BY DEF IInv, TypeOK, Slots, Holds, Patience, Registered, Barred, Deleted, Asked, Tracked,
     vars

\* Every step keeps the invariant.
LEMMA NextKeeps == IInv /\ [Next]_vars => IInv'
<1> SUFFICES ASSUME IInv, Next
             PROVE  IInv'
  BY StutterKeeps
<1> USE DEF Next
<1>1. CASE AgentStep
  BY <1>1, DialKeeps, DialFailsKeeps, AskStartsKeeps, AskReturnsKeeps, AgentSeesEndKeeps
  DEF AgentStep
<1>2. ASSUME NEW s \in Asks, Refresh(s) \/ ApiStep(s)
      PROVE  IInv'
  BY <1>2, AskStartsKeeps, ReadsKeeps, LooksKeeps, PicksKeeps,
       SetServerHubKeeps DEF ApiStep
<1>3. CASE AskFails \/ OldStreamEnds \/ FloorPasses \/ LongPasses \/ AgentRestarts
  BY <1>3, AskFailsKeeps, OldStreamEndsKeeps, TimerKeeps, AgentRestartsKeeps
<1>4. ASSUME NEW c \in Conns, ConnStep(c) \/ CheckFails(c) \/ Recycles(c) \/ Breaks(c)
      PROVE  IInv'
  BY <1>4, VerifyKeeps, CheckFailsKeeps, RegisterEndsKeeps, BindKeeps, HandlerEndsKeeps,
     BreaksKeeps
  DEF ConnStep
<1>5. ASSUME NEW h \in Hubs,
             \/ Hear(h) \/ Reap(h) \/ SetFlag(h) \/ SeesFlag(h) \/ StopBegins(h)
             \/ StopEnds(h) \/ Crash(h) \/ Starts(h) \/ Announce(h) \/ AnnounceLate(h)
             \/ ListLapses(h) \/ MoverStarts(h) \/ Tell(h) \/ ToldLapses(h)
      PROVE  IInv'
  BY <1>5, HearKeeps, ReapKeeps, FlagKeeps, LifeKeeps, DiesKeeps, ListKeeps, TellKeeps
<1>6. CASE Delete
  BY <1>6, DeleteKeeps
<1> QED BY <1>1, <1>2, <1>3, <1>4, <1>5, <1>6 DEF Step

\* IInv is an invariant: what the agent, the connections, the registries, the
\* asks and the hub list know of each other stays true.
THEOREM HubsInvariant == Spec => []IInv
BY InitHolds, NextKeeps, PTL DEF Spec

\* A hub's handler that streams, and that nobody closed, is the stream in its
\* registry, however many replaced it, were reaped or revoked (AgentStream).
COROLLARY StreamsStayRegistered == Spec => []StreamsRegistered
<1>1. IInv => StreamsRegistered
  BY DEF IInv, StreamsRegistered, Registered
<1> QED BY <1>1, HubsInvariant, PTL

\* A hub that heard the revocation keeps no entry of the server and lets in no
\* check that the delete overtook (revoke, RegisterAgent).
COROLLARY RevokedStaysOut == Spec => []RevokedIsOut
<1>1. IInv => RevokedIsOut
  BY DEF IInv, RevokedIsOut, Barred
<1> QED BY <1>1, HubsInvariant, PTL

\* The agent gives up only when its server was deleted, whatever hubs refused
\* it and however often (Run, refused).
COROLLARY GivingUpMeansGone == Spec => []GivesUpOnlyWhenGone
<1>1. IInv => GivesUpOnlyWhenGone
  BY DEF IInv, GivesUpOnlyWhenGone, Deleted
<1> QED BY <1>1, HubsInvariant, PTL

\* The row leaves a hub only when that hub was not listed as open, or the
\* server was deleted, whatever replicas answer asks at once (SetServerHub).
THEOREM MovesOffBadHubsOnly == Spec => LeavesOnlyBadHubs
<1>1. IInv /\ [Next]_vars => [row' # row => row' = Gone \/ row \in bad]_vars
  <2> SUFFICES ASSUME IInv, Next, row' # row
               PROVE  row' = Gone \/ row \in bad
    OBVIOUS
  <2>1. Track
    BY DEF Next
  <2>2. Delete \/ \E s \in Asks : SetServerHub(s)
    BY DEF Next, Step, AgentStep, Dial, DialFails, AgentSeesEnd, AskStarts, AskReturns,
           Refresh, ApiStep, Reads, Looks, Picks, AskFails, OldStreamEnds, FloorPasses,
           LongPasses, AgentRestarts, ConnStep, Verify, RegisterEnds, Bind, NeverOpens,
           HandlerEnds, CheckFails, Recycles, Breaks, Hear, Reap, SetFlag, SeesFlag,
           StopBegins, StopEnds, Crash, Starts, Announce, AnnounceLate, ListLapses,
           MoverStarts, Tell, ToldLapses, dbVars
  <2> QED BY <2>1, <2>2, SetServerHubKeeps DEF Delete
<1> QED BY <1>1, HubsInvariant, PTL DEF Spec, LeavesOnlyBadHubs
=============================================================================
