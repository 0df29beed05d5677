----------------------------- MODULE BridgeRoute -----------------------------
(***************************************************************************)
(* The conference bridge: BridgeRoute and forwardBridgeFrameFrom in        *)
(* gateway.go.  A DMR voice frame that arrives on one leg (an upstream     *)
(* session) or from a hotspot of the local master is passed on to all the  *)
(* other legs, if the arbitration lets it: one talker holds the bridge, a  *)
(* stream that was sent to a leg is not taken back from it, and a frame    *)
(* whose contents were bridged a moment ago is a copy that came round.     *)
(*                                                                         *)
(* Every leg has its own listener goroutine and so has the local master.   *)
(* A goroutine decides under bridgeMu and writes the copies after it has   *)
(* released it, so that the route may change, a leg may go down and        *)
(* another goroutine may decide while copies are still to be written.      *)
(*                                                                         *)
(* Time is counted in ticks; a deadline is the number of ticks left.       *)
(* Rewriting the destination and repeater fields of a copy is left out.    *)
(***************************************************************************)
EXTENDS Integers

CONSTANTS
  Legs,         \* nodes of the upstream sessions
  Local,        \* the source number (-1) of the local master
  NoNode,       \* ActiveNode = 0
  Talkgroups,   \* non-zero talkgroups
  Streams,      \* stream numbers; 0 is one of them
  Payloads,     \* what dmrFingerprint tells apart
  Routes,       \* the routes operators may ask for
  ConfRoute,    \* the route of the permanent conference
  HoldTicks,        \* ActiveUntil: 2 s
  SuppressTicks,    \* Suppress: 5 s
  RememberTicks,    \* Fingerprints: 4 s
  SendTicks         \* bound: a goroutine writes its copies in so many ticks

Sources == Legs \cup {Local}

ASSUME NodeAssumption == Local \notin Legs /\ NoNode \notin Sources

\* bridgeEndpoints of a route: a talkgroup (0 if none was set) per endpoint.
Endpoints == UNION {[S -> Talkgroups \cup {0}] : S \in SUBSET Legs}

ASSUME RouteAssumption ==
  /\ Talkgroups \subseteq Nat \ {0}
  /\ Streams \subseteq Nat /\ 0 \in Streams
  /\ Routes \subseteq Endpoints
  /\ ConfRoute \in Routes

ASSUME TickAssumption ==
  /\ HoldTicks \in Nat /\ SuppressTicks \in Nat /\ RememberTicks \in Nat
  /\ SendTicks \in Nat
  /\ SendTicks < HoldTicks

VARIABLES
  active,      \* bridge.Active
  ends,        \* bridgeEndpoints(bridge)
  talker,      \* ActiveNode and ActiveStream
  hold,        \* ActiveUntil
  suppress,    \* Suppress, per leg
  prints,      \* Fingerprints, per payload; 0 when absent or expired
  ready,       \* the legs that are linked and in authRunning
  sending,     \* per goroutine: the frame it has accepted and for whom
  air          \* history, per receiver: the talker of the last copy it was
               \* sent under the present route and how long ago that was

bridge == <<active, ends, talker, hold, suppress, prints>>
bridgeVars == <<bridge, ready, sending, air>>

NoTalker == [node |-> NoNode, stream |-> 0]
NoWrites == [todo |-> {}, stream |-> 0, dst |-> 0, left |-> 0, current |-> FALSE]

\* After a copy is written the receiver must hear nobody else for so long.
GuardTicks == HoldTicks - SendTicks

Talker == [node : Sources \cup {NoNode}, stream : Streams]
Suppression == [stream : Streams, left : 0 .. SuppressTicks]
Writing == [todo : SUBSET Sources, stream : Streams,
            dst : Talkgroups \cup {0}, left : 0 .. SendTicks,
            current : BOOLEAN]
Heard == [talker : Talker, left : 0 .. GuardTicks]

BridgeTypeOK ==
  /\ active \in BOOLEAN
  /\ ends \in Endpoints
  /\ talker \in Talker
  /\ hold \in 0 .. HoldTicks
  /\ suppress \in [Legs -> Suppression]
  /\ prints \in [Payloads -> 0 .. RememberTicks]
  /\ ready \subseteq Legs
  /\ sending \in [Sources -> Writing]
  /\ air \in [Sources -> Heard]

Silence == [r \in Sources |-> [talker |-> NoTalker, left |-> 0]]
NoSuppression == [n \in Legs |-> [stream |-> 0, left |-> 0]]

BridgeInit ==
  /\ active = FALSE
  /\ ends \in {r \in Endpoints : DOMAIN r = {}}
  /\ talker = NoTalker
  /\ hold = 0
  /\ suppress = NoSuppression
  /\ prints = [p \in Payloads |-> 0]
  /\ ready = {}
  /\ sending = [s \in Sources |-> NoWrites]
  /\ air = Silence

-----------------------------------------------------------------------------
(* bridge_state and the conference install and remove routes.              *)

Install(route) ==
  /\ active' = TRUE
  /\ ends' = route
  /\ talker' = NoTalker
  /\ hold' = 0
  /\ suppress' = NoSuppression
  /\ prints' = [p \in Payloads |-> 0]
  /\ sending' = [s \in Sources |-> [sending[s] EXCEPT !.current = FALSE]]
  /\ air' = Silence
  /\ UNCHANGED ready

BridgeOn(route) == Install(route)

\* ensurePermanentYorkshireConference keeps a route that is already right.
EnsureConference ==
  /\ ~(active /\ ends = ConfRoute)
  /\ Install(ConfRoute)

BridgeOff ==
  /\ active
  /\ active' = FALSE
  /\ sending' = [s \in Sources |-> [sending[s] EXCEPT !.current = FALSE]]
  /\ air' = Silence
  /\ UNCHANGED <<ends, talker, hold, suppress, prints, ready>>

\* A session logs in or goes down.
LegChange(n) ==
  /\ ready' = IF n \in ready THEN ready \ {n} ELSE ready \cup {n}
  /\ UNCHANGED <<bridge, sending, air>>

-----------------------------------------------------------------------------
(* forwardBridgeFrameFrom: the decision, under bridgeMu.                   *)

\* A leg's frame must be for the leg's talkgroup; a hotspot's own frame
\* gives the talkgroup it is compared with.
RightTalkgroup(src, dst) ==
  /\ dst # 0
  /\ src \in Legs => src \in DOMAIN ends /\ ends[src] = dst

\* Fault: streams that were sent to a leg are taken back from it.
Suppressed_Never(src, stream) == FALSE

Suppressed(src, stream) ==
  src \in Legs /\ suppress[src].stream = stream /\ suppress[src].left > 0

\* Fault: a new stream of the node that holds the bridge is let in.
BusyWithOther_NodeOnly(src, stream) ==
  hold > 0 /\ talker.node # NoNode /\ talker.node # src

BusyWithOther(src, stream) ==
  /\ hold > 0
  /\ \/ talker.node # NoNode /\ talker.node # src
     \/ talker.node = src /\ talker.stream # 0 /\ talker.stream # stream

\* Fault: fingerprints are never looked up.
Seen_Never(payload) == FALSE

Seen(payload) == prints[payload] > 0

TakeBridge(src, stream) ==
  /\ talker' = [node |-> src, stream |-> stream]
  /\ hold' = HoldTicks

Copies(src, stream, dst) ==
  [todo |-> (DOMAIN ends \cup {Local}) \ (IF src = Local THEN {} ELSE {src}),
   stream |-> stream, dst |-> dst, left |-> SendTicks, current |-> TRUE]

Accept(src, stream, dst, payload) ==
  /\ sending[src].todo = {}
  /\ active
  /\ RightTalkgroup(src, dst)
  /\ ~Suppressed(src, stream)
  /\ ~BusyWithOther(src, stream)
  /\ ~Seen(payload)
  /\ prints' = [prints EXCEPT ![payload] = RememberTicks]
  /\ TakeBridge(src, stream)
  /\ suppress' = [n \in Legs |->
                    IF n \in DOMAIN ends \ {src}
                    THEN [stream |-> stream, left |-> SuppressTicks]
                    ELSE suppress[n]]
  /\ sending' = [sending EXCEPT ![src] = Copies(src, stream, dst)]
  /\ UNCHANGED <<active, ends, ready, air>>

(* The writes, after bridgeMu is released: first to the hotspots of the    *)
(* local master (broadcastMasterFrame), then leg by leg in the order of a  *)
(* Go map, skipping the legs that are not logged in.                       *)
SendCopy(src, r) ==
  /\ r \in sending[src].todo
  /\ r # Local => Local \notin sending[src].todo
  /\ sending' = [sending EXCEPT ![src] =
                   IF sending[src].todo = {r} THEN NoWrites
                   ELSE [sending[src] EXCEPT !.todo = sending[src].todo \ {r}]]
  /\ air' = IF sending[src].current /\ r \in ready \cup {Local}
            THEN [air EXCEPT ![r] =
                   [talker |-> [node |-> src, stream |-> sending[src].stream],
                    left |-> GuardTicks]]
            ELSE air
  /\ UNCHANGED <<bridge, ready>>

-----------------------------------------------------------------------------
Less(n) == IF n > 0 THEN n - 1 ELSE 0

Tick ==
  /\ \A s \in Sources : sending[s].todo # {} => sending[s].left > 0
  /\ hold' = Less(hold)
  /\ suppress' = [n \in Legs |->
                    [suppress[n] EXCEPT !.left = Less(suppress[n].left)]]
  /\ prints' = [p \in Payloads |-> Less(prints[p])]
  /\ sending' = [s \in Sources |->
                   [sending[s] EXCEPT !.left = Less(sending[s].left)]]
  /\ air' = [r \in Sources |-> [air[r] EXCEPT !.left = Less(air[r].left)]]
  /\ UNCHANGED <<active, ends, talker, ready>>

BridgeNext ==
  \/ \E route \in Routes : BridgeOn(route)
  \/ EnsureConference \/ BridgeOff
  \/ \E n \in Legs : LegChange(n)
  \/ \E src \in Sources, stream \in Streams, dst \in Talkgroups \cup {0},
        payload \in Payloads : Accept(src, stream, dst, payload)
  \/ \E src, r \in Sources : SendCopy(src, r)
  \/ Tick

BridgeSpec == BridgeInit /\ [][BridgeNext]_bridgeVars

-----------------------------------------------------------------------------
(* Properties                                                              *)

\* README: "Single-talker conference arbitration".  Nobody on the conference
\* hears two stations at once: as long as any receiver has been sent a copy
\* in the last GuardTicks, every such receiver was sent copies of the same
\* source, although the copies are written after the lock is released.
OneTalkerOnAir ==
  \A r, q \in Sources :
    air[r].left > 0 /\ air[q].left > 0 =>
      air[r].talker.node = air[q].talker.node

ChangesInSilence ==
  \A r \in Sources :
    air[r].left > 0 /\ air'[r].left > 0 /\ air'[r].talker # air[r].talker
      => air[r].talker.stream = 0 /\ air'[r].talker.node = air[r].talker.node

\* A receiver hears a new stream only after GuardTicks without a copy of the
\* old one.  Stream 0 is no stream to the arbitration and may be replaced by
\* another stream of the same source.
TalkerChangesInSilence == [][ChangesInSilence]_bridgeVars

\* Both together are what single-talker arbitration promises a listener.
Arbitrated == [][ChangesInSilence /\ OneTalkerOnAir']_bridgeVars
=============================================================================
