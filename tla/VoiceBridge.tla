----------------------------- MODULE VoiceBridge -----------------------------
(***************************************************************************)
(* The voice clients' bridge: voiceBridge in client_access.go.  Browsers   *)
(* connect over a WebSocket, press and release PTT and send 20 ms frames;  *)
(* the one that has PTT is passed on to AllStar node 1997 as USRP packets. *)
(*                                                                         *)
(* A goroutine per client (serve) reads its messages one by one; the       *)
(* watchdog runs on a ticker; every handler is one critical section of     *)
(* b.mu and so one action.  When a connection ends, serve's deferred       *)
(* function gives up PTT and then, in a second critical section, forgets   *)
(* the client.                                                             *)
(*                                                                         *)
(* Queueing a status or a frame for a client never blocks and drops what   *)
(* does not fit, so the queues and what is in them are left out, and with  *)
(* them readLoop, which only fills them; so are malformed messages, which  *)
(* only get a status.  UDP writes do not fail the handlers.                *)
(***************************************************************************)
EXTENDS Naturals

CONSTANTS
  Clients, NoClient,
  SeqMod,       \* sequence is uint32: 2^32 numbers
  AudioTicks,   \* the watchdog's limit of missing audio: 2 s
  CallTicks,    \* clientVoiceMaxCall: 3 min
  WatchTicks    \* the watchdog runs at least every so many ticks: 250 ms

ASSUME ClientAssumption == NoClient \notin Clients

ASSUME NumberAssumption ==
  /\ SeqMod \in Nat \ {0}
  /\ AudioTicks \in Nat /\ CallTicks \in Nat
  /\ WatchTicks \in Nat \ {0}

VARIABLES
  clients,     \* per client: "out", "open", or "left": PTT given up, not
               \* yet deleted from b.clients
  talker,
  talkAge,     \* time since talkStarted; saturates at MaxTalkAge
  quiet,       \* time since lastAudio; saturates at MaxQuiet
  sinceWatch,  \* time since the watchdog looked
  sequence,
  packet       \* the last packet written to the USRP socket

voice == <<talker, talkAge, quiet, sequence, packet>>
vars == <<voice, clients, sinceWatch>>

\* The longest times that are told apart: one more than can be reached.
MaxTalkAge == CallTicks + WatchTicks + 1
MaxQuiet == AudioTicks + WatchTicks + 1

Stream == INSTANCE USRPStream WITH Stations <- Clients, Nobody <- NoClient

TypeOK ==
  /\ clients \in [Clients -> {"out", "open", "left"}]
  /\ talker \in Clients \cup {NoClient}
  /\ talkAge \in 0 .. MaxTalkAge
  /\ quiet \in 0 .. MaxQuiet
  /\ sinceWatch \in 0 .. WatchTicks
  /\ sequence \in 0 .. SeqMod - 1
  /\ packet \in Stream!Packet

Init ==
  /\ clients = [c \in Clients |-> "out"]
  /\ talker = NoClient
  /\ talkAge = 0 /\ quiet = 0 /\ sinceWatch = 0
  /\ sequence = 0
  /\ packet = [kind |-> "eot", from |-> NoClient, seq |-> 0]

-----------------------------------------------------------------------------
\* b.sequence++ and a write to the socket.
Numbered(kind, c) ==
  /\ sequence' = (sequence + 1) % SeqMod
  /\ packet' = [kind |-> kind, from |-> c, seq |-> sequence']

\* stopLocked, when c is the talker.
StopTalker(c) ==
  /\ Numbered("eot", c)
  /\ talker' = NoClient
  /\ UNCHANGED <<talkAge, quiet>>

Stop(c) == IF talker = c THEN StopTalker(c) ELSE UNCHANGED voice

Connect(c) ==
  /\ clients[c] = "out"
  /\ clients' = [clients EXCEPT ![c] = "open"]
  /\ UNCHANGED <<voice, sinceWatch>>

\* ptt_start while somebody talks is answered "busy" or ignored.
Start(c) ==
  /\ clients[c] = "open"
  /\ talker = NoClient
  /\ talker' = c
  /\ talkAge' = 0 /\ quiet' = 0
  /\ Numbered("identity", c)
  /\ UNCHANGED <<clients, sinceWatch>>

\* Fault: whose audio it is is not checked while the bridge is in use.
Audio_Anyones(c) ==
  /\ clients[c] = "open"
  /\ talker # NoClient
  /\ quiet' = 0
  /\ Numbered("voice", c)
  /\ UNCHANGED <<clients, sinceWatch, talker, talkAge>>

\* A frame of the talker; audio of anybody else is "denied".
Audio(c) ==
  /\ clients[c] = "open"
  /\ talker = c
  /\ \/ /\ talkAge > CallTicks
        /\ StopTalker(c)
     \/ /\ talkAge <= CallTicks
        /\ quiet' = 0
        /\ Numbered("voice", c)
        /\ UNCHANGED <<talker, talkAge>>
  /\ UNCHANGED <<clients, sinceWatch>>

Release(c) ==
  /\ clients[c] = "open"
  /\ Stop(c)
  /\ UNCHANGED <<clients, sinceWatch>>

\* Fault: the deferred function forgets the client but not its PTT.
Disconnect_KeepsTalking(c) ==
  /\ clients[c] = "open"
  /\ clients' = [clients EXCEPT ![c] = "left"]
  /\ UNCHANGED <<voice, sinceWatch>>

\* ReadMessage fails: the deferred function's stop, then its delete.
Disconnect(c) ==
  /\ clients[c] = "open"
  /\ Stop(c)
  /\ clients' = [clients EXCEPT ![c] = "left"]
  /\ UNCHANGED sinceWatch

Forget(c) ==
  /\ clients[c] = "left"
  /\ clients' = [clients EXCEPT ![c] = "out"]
  /\ UNCHANGED <<voice, sinceWatch>>

\* Fault: the watchdog looks at the length of the call only.
Overdue_CallOnly == talkAge > CallTicks

Overdue == quiet > AudioTicks \/ talkAge > CallTicks

Watchdog ==
  /\ IF talker # NoClient /\ Overdue THEN StopTalker(talker)
     ELSE UNCHANGED voice
  /\ sinceWatch' = 0
  /\ UNCHANGED clients

Older(age, max) == IF age < max THEN age + 1 ELSE max

Tick ==
  /\ sinceWatch < WatchTicks
  /\ sinceWatch' = sinceWatch + 1
  /\ talkAge' = Older(talkAge, MaxTalkAge)
  /\ quiet' = Older(quiet, MaxQuiet)
  /\ UNCHANGED <<clients, talker, sequence, packet>>

Next ==
  \/ \E c \in Clients :
       \/ Connect(c) \/ Start(c) \/ Audio(c) \/ Release(c)
       \/ Disconnect(c) \/ Forget(c)
  \/ Watchdog
  \/ Tick

Spec == Init /\ [][Next]_vars

\* The ticker keeps running; clients need not do anything.
FairSpec == Spec /\ WF_vars(Tick) /\ WF_vars(Watchdog)

-----------------------------------------------------------------------------
(* Properties                                                              *)

\* README: "two-second missing-audio watchdog and three-minute maximum call
\* prevent stuck ... transmissions".  Whatever a client sends, or stops
\* sending, it loses PTT within a watchdog period of either limit.
BoundedTalk ==
  talker # NoClient =>
    talkAge <= CallTicks + WatchTicks /\ quiet <= AudioTicks + WatchTicks

\* PTT never outlives the connection it was given to: a client that came back
\* is a new one and must press PTT again.
TalkerConnected == talker # NoClient => clients[talker] = "open"

\* What reaches node 1997 is a sequence of whole talk spurts, each of one
\* station and opened by its identity, although releases, disconnections and
\* the watchdog race with the frames; and each of them is closed.
KeepsStream == Stream!FairSpec
=============================================================================
