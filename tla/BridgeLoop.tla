----------------------------- MODULE BridgeLoop -----------------------------
(***************************************************************************)
(* The bridge between networks that are also linked to each other by other *)
(* bridges.  What the gateway sends to one leg comes back: from the same   *)
(* leg with the stream number it was sent with, perhaps re-encoded, or     *)
(* from any leg with its voice data untouched, perhaps as another stream,  *)
(* and possibly several times.  Everything that comes back does so within  *)
(* EchoTicks of being sent.  forwardBridgeFrameFrom must not bridge it     *)
(* again, or the copies would go round for ever.                           *)
(*                                                                         *)
(* Either operators change the routes and no copy comes back, or one route *)
(* is installed and stays: a new route forgets what would stop a copy.     *)
(* A frame an operator's radio sends is                                    *)
(* an original; originals have different voice data.  Streams are numbered *)
(* from 1: stream 0 counts as no stream in the arbitration, and a station  *)
(* using it could be replaced before its hold is over.                     *)
(***************************************************************************)
EXTENDS BridgeRoute

CONSTANTS
  Originals,   \* frames spoken by radios
  Encodings,   \* how the voice data of an original may be coded
  Spoken,       \* the encoding a radio uses
  EchoTicks,   \* bound: how long a copy can be on its way back
  Stations     \* bound: streams in use while operators change the routes

ASSUME LoopAssumption ==
  /\ Payloads = Originals \X Encodings
  /\ Spoken \in Encodings
  /\ Originals # {}
  /\ EchoTicks \in Nat
  /\ Stations \subseteq Streams

(* What the deadlines must allow for: a copy is back before its original's *)
(* fingerprint and the entry in Suppress are forgotten, and before the     *)
(* hold of the next talker, who may replace that entry, is over.           *)
ASSUME EchoAssumption ==
  /\ SendTicks + EchoTicks < RememberTicks
  /\ SendTicks + EchoTicks < SuppressTicks
  /\ SendTicks + EchoTicks < 2 * HoldTicks

VARIABLES
  looped,     \* whether the networks are linked elsewhere
  fresh,      \* originals not yet spoken
  carrying,   \* per goroutine: the payload of the frame it is writing
  abroad,     \* copies that can come back
  bridged     \* history: how often each original was accepted, up to 2

loops == <<looped, fresh, carrying, abroad, bridged>>
loopVars == <<bridgeVars, loops>>

Numbers == Streams \ {0}

Twice == CHOOSE p \in Payloads : TRUE

Still ==
  /\ looped = FALSE
  /\ BridgeInit
  /\ fresh = {} /\ abroad = {}
  /\ carrying = [s \in Sources |-> Twice]
  /\ bridged = [o \in Originals |-> 0]

Looped ==
  /\ looped = TRUE
  /\ active = TRUE
  /\ ends = ConfRoute
  /\ talker = NoTalker /\ hold = 0
  /\ suppress = NoSuppression
  /\ prints = [p \in Payloads |-> 0]
  /\ ready = Legs
  /\ sending = [s \in Sources |-> NoWrites]
  /\ air = Silence
  /\ fresh = Originals
  /\ carrying = [s \in Sources |-> Twice]
  /\ abroad = {}
  /\ bridged = [o \in Originals |-> 0]

LoopInit == Still \/ Looped

AcceptPayload(src, stream, payload) ==
  /\ \E dst \in Talkgroups : Accept(src, stream, dst, payload)
  /\ carrying' = [carrying EXCEPT ![src] = payload]
  /\ bridged' = [bridged EXCEPT ![payload[1]] = IF @ < 2 THEN @ + 1 ELSE 2]
  /\ UNCHANGED abroad

Speak(src, stream, o) ==
  /\ o \in fresh
  /\ fresh' = fresh \ {o}
  /\ AcceptPayload(src, stream, <<o, Spoken>>)

\* forwardBridgeFrameFrom gives a frame up after it has looked at it.
Discarded(src, stream, payload) ==
  /\ sending[src].todo = {}
  /\ Suppressed(src, stream) \/ BusyWithOther(src, stream) \/ Seen(payload)

(* A copy comes back and is bridged or discarded.  That it has gone for    *)
(* good is optional: it may come back again until EchoTicks have passed.   *)
ComesBack(copy, leg, stream, encoding) ==
  LET payload == <<copy.payload[1], encoding>> IN
  /\ \/ leg = copy.leg /\ stream = copy.stream
     \/ encoding = copy.payload[2]
  /\ \/ AcceptPayload(leg, stream, payload)
     \/ /\ Discarded(leg, stream, payload)
        /\ abroad' = abroad \ {copy}
        /\ UNCHANGED <<bridgeVars, carrying, bridged>>
  /\ UNCHANGED fresh

Send(src, r) ==
  /\ SendCopy(src, r)
  /\ abroad' = IF r \in ready
               THEN abroad \cup {[leg |-> r, stream |-> sending[src].stream,
                                  payload |-> carrying[src],
                                  left |-> EchoTicks]}
               ELSE abroad
  /\ UNCHANGED <<fresh, carrying, bridged>>

LoopTick ==
  /\ Tick
  /\ abroad' = {[copy EXCEPT !.left = copy.left - 1] :
                  copy \in {c \in abroad : c.left > 0}}
  /\ UNCHANGED <<fresh, carrying, bridged>>

\* Operators change the routes and the stations' frames come in; one
\* payload is enough, for frames that come twice.
Routed ==
  /\ ~looped /\ UNCHANGED loops
  /\ \/ \E route \in Routes : BridgeOn(route)
     \/ EnsureConference \/ BridgeOff
     \/ \E n \in Legs : LegChange(n)
     \/ \E src \in Sources, stream \in Stations, dst \in Talkgroups \cup {0} :
          Accept(src, stream, dst, Twice)
     \/ \E src, r \in Sources : SendCopy(src, r)
     \/ Tick

Echoes ==
  /\ looped
  /\ UNCHANGED looped
  /\ \/ \E src \in Sources, stream \in Numbers, o \in Originals :
          Speak(src, stream, o)
     \/ \E copy \in abroad, leg \in Legs, stream \in Numbers,
           encoding \in Encodings : ComesBack(copy, leg, stream, encoding)
     \/ \E src, r \in Sources : Send(src, r)
     \/ LoopTick

LoopNext == Routed \/ Echoes

LoopSpec == LoopInit /\ [][LoopNext]_loopVars

-----------------------------------------------------------------------------
\* No original is bridged twice: suppression, fingerprints and the talker's
\* hold together stop every copy that comes back within EchoTicks, even when
\* the stream number or the voice data was changed on the way, another
\* station has taken the bridge since and its stream has replaced the entry
\* in Suppress.
BridgedOnce == \A o \in Originals : bridged[o] <= 1
=============================================================================
