----------------------------- MODULE DStarBridge -----------------------------
(***************************************************************************)
(* The D-STAR bridge of dvxbridge: dvxcode/bridge/bridge.go.  One event    *)
(* loop takes packets of a D-STAR reflector and of a DMR master and a      *)
(* tick every 20 ms.  A call in either direction is transcoded frame by    *)
(* frame into an output queue, from which the ticks send at the pace of    *)
(* the other network.  Packets may be lost, repeated and late, the ticker  *)
(* may be late, and what the bridge sent may come back.                    *)
(*                                                                         *)
(* A frame is what it does to the queues: three make a DMR burst, six      *)
(* bursts a superframe, whose bursts 1 to 4 carry one link control message *)
(* in pieces.  The transcoder (module Transcoder) gives a frame for a      *)
(* frame and holds back the last few until Flush.  A sequence number is    *)
(* the number of packets missing before it.  Handlers that panic are left  *)
(* out: none is known to.                                                  *)
(***************************************************************************)
EXTENDS Naturals, Sequences, FiniteSetsExt, SequencesExt

CONSTANTS
  DStarCalls, DMRCalls,  \* stream numbers of stations
  OwnDMR, OwnDStar,      \* stream numbers the bridge draws for its own calls
  NoCall,
  Timeout,      \* 30 ticks of silence end a call
  MaxCall,      \* 9000 ticks: the time-out timer
  OwnTicks,     \* 3000 ticks: an own stream number is remembered
  MaxQueue,     \* 150 frames
  Depth,        \* frames held by the transcoder
  Gaps,         \* so many packets missing before one; more than five are
                \* concealed as five, and a DMR superframe has six bursts
  MaxMeta,      \* bound: changes of the link control messages in a call
  MaxBacklog    \* bound: queued items before the ticker gets its turn

ASSUME BridgeAssumption ==
  /\ DStarCalls \cap OwnDStar = {} /\ DMRCalls \cap OwnDMR = {}
  /\ NoCall \notin DStarCalls \cup DMRCalls \cup OwnDMR \cup OwnDStar
  /\ Timeout \in Nat /\ MaxCall \in Nat /\ OwnTicks \in Nat
  /\ Gaps \subseteq 0 .. 5
  /\ MaxQueue \in Nat \ {0} /\ Depth \in Nat
  /\ MaxMeta \in Nat /\ MaxBacklog \in Nat

VARIABLES
  toDMR,    \* the call to DMR (dsCall), or NoCall
  toDS,     \* the call to D-STAR (dmrCall), or NoCall
  ownDM, ownDS,  \* age of the own stream numbers that are remembered
  phase,    \* tickN % 3
  air       \* history: the last burst sent to DMR in this call

dstarVars == <<toDMR, toDS, ownDM, ownDS, phase, air>>

\* Bursts 0 to 5 (A to F) of a superframe, and those with data sync.
Burst == [n : 0 .. 5, lc : 0 .. MaxMeta]
Header == [n |-> 6, lc |-> 0]
Terminator == [n |-> 7, lc |-> 0]
Bursts == Burst \cup {Header, Terminator}

DSCall == [stream : DStarCalls \cup OwnDStar, out : Seq(Bursts),
           pending : 0 .. 2, burstN : 0 .. 5, held : 0 .. Depth,
           meta : 0 .. MaxMeta, frags : 0 .. MaxMeta,
           synced : BOOLEAN, ending : BOOLEAN,
           idle : 0 .. Timeout, age : 0 .. MaxCall]
DMRCall == [stream : DMRCalls \cup OwnDMR,
            out : Seq({"header", "voice", "last"}), held : 0 .. Depth,
            synced : BOOLEAN, primed : BOOLEAN, ending : BOOLEAN,
            idle : 0 .. Timeout, age : 0 .. MaxCall]

DStarTypeOK ==
  /\ toDMR \in DSCall \cup {NoCall}
  /\ toDS \in DMRCall \cup {NoCall}
  /\ ownDM \in UNION {[S -> 0 .. OwnTicks] : S \in SUBSET OwnDMR}
  /\ ownDS \in UNION {[S -> 0 .. OwnTicks] : S \in SUBSET OwnDStar}
  /\ phase \in 0 .. 2
  /\ air \in Bursts

DStarInit ==
  /\ toDMR = NoCall /\ toDS = NoCall
  /\ ownDM = [i \in {} |-> 0] /\ ownDS = [i \in {} |-> 0]
  /\ phase = 0
  /\ air = Header

\* Own stream numbers: drawn at random, and kept by age.
Drawn(own, i) == [j \in DOMAIN own \cup {i} |-> IF j = i THEN 0 ELSE own[j]]
Aged(own) == [i \in {j \in DOMAIN own : own[j] < OwnTicks} |-> own[i] + 1]

-----------------------------------------------------------------------------
(* D-STAR to DMR                                                           *)

\* The i-th burst made from now on; burst 1 of a superframe chooses the message.
NewBurst(c, i) ==
  LET n == (c.burstN + i - 1) % 6
  IN [n |-> n, lc |-> IF n \notin 1 .. 4 THEN 0
                      ELSE IF i >= n THEN c.meta ELSE c.frags]

\* pushDMRFrame for k frames.
PushDMR(c, k) ==
  LET made == (c.pending + k) \div 3
  IN [c EXCEPT !.pending = (c.pending + k) % 3,
               !.out = @ \o [i \in 1 .. made |-> NewBurst(c, i)],
               !.frags = IF \E i \in 1 .. made : NewBurst(c, i).n = 1
                         THEN c.meta ELSE @,
               !.burstN = (@ + made) % 6]

\* Transcoder.Frame and Lost: a frame for a frame, the first Depth are silence.
Transcoded(c, k) == [c EXCEPT !.held = Min({@ + k, Depth})]

\* endToDMR: what is held back, and silence up to a whole burst.
EndToDMR(c) ==
  LET flushed == PushDMR([c EXCEPT !.held = 0], c.held)
      whole == PushDMR(flushed, (3 - flushed.pending) % 3)
  IN IF c.ending THEN c
     ELSE [whole EXCEPT !.out = Append(@, Terminator), !.ending = TRUE]

StartToDMR(stream) ==
  [stream |-> stream, out |-> <<Header>>, pending |-> 0, burstN |-> 0,
   held |-> 0, meta |-> 0, frags |-> 0, synced |-> FALSE, ending |-> FALSE,
   idle |-> 0, age |-> 0]

\* A packet of kind "voice" or "last", after so many missing ones; up to five
\* are concealed, and a repeated or late packet looks like twenty missing.
\* A voice frame may complete a new text, header or position (refreshMeta).
VoiceToDMR(c, kind, missing, news) ==
  LET gone == IF c.synced THEN missing ELSE 0
      d == [PushDMR(Transcoded(c, gone), gone) EXCEPT !.synced = TRUE]
      e == [d EXCEPT !.meta = IF news /\ @ < MaxMeta THEN @ + 1 ELSE @]
  IN IF kind = "last" THEN EndToDMR(d) ELSE PushDMR(Transcoded(e, 1), 1)

OnDStar(stream, kind, missing, news) ==
  LET Taken(c) == IF kind = "header" THEN [c EXCEPT !.idle = 0]
                  ELSE VoiceToDMR([c EXCEPT !.idle = 0], kind, missing, news)
  IN /\ stream \notin DOMAIN ownDS
     /\ \/ /\ toDMR # NoCall /\ toDMR.stream = stream
           /\ toDMR' = Taken(toDMR)
           /\ UNCHANGED <<ownDM, air>>
        \/ /\ toDMR = NoCall /\ toDS = NoCall /\ kind # "last"
           /\ toDMR' = Taken(StartToDMR(stream))
           /\ \E i \in OwnDMR \ DOMAIN ownDM : ownDM' = Drawn(ownDM, i)
           /\ air' = Header
     /\ UNCHANGED <<toDS, ownDS, phase>>

-----------------------------------------------------------------------------
(* DMR to D-STAR                                                           *)

\* pushDSFrame for k frames
PushDS(c, k) ==
  [c EXCEPT !.out = @ \o [i \in 1 .. k |-> "voice"], !.held = Min({@ + k, Depth})]

EndToDS(c) ==
  IF c.ending THEN c
  ELSE [c EXCEPT !.out = @ \o [i \in 1 .. c.held |-> "voice"] \o <<"last">>,
                 !.held = 0, !.ending = TRUE]

StartToDS(stream) ==
  [stream |-> stream, out |-> <<"header">>, held |-> 0, synced |-> FALSE,
   primed |-> FALSE, ending |-> FALSE, idle |-> 0, age |-> 0]

\* Fault: a call is started whatever the other direction does.
Free_OneWay == toDS = NoCall

Free == toDS = NoCall /\ toDMR = NoCall

\* A packet for the slot and talkgroup of the bridge.  A voice burst brings
\* three frames; so many bursts are missing before it.
OnDMR(stream, kind, missing) ==
  LET Taken(c) == CASE kind = "header" -> [c EXCEPT !.idle = 0]
                    [] kind = "end" -> EndToDS([c EXCEPT !.idle = 0])
                    [] kind = "voice" ->
                         PushDS([c EXCEPT !.idle = 0, !.synced = TRUE],
                                3 * (IF c.synced THEN missing ELSE 0) + 3)
  IN /\ stream \notin DOMAIN ownDM
     /\ \/ /\ toDS # NoCall /\ toDS.stream = stream
           /\ toDS' = Taken(toDS)
           /\ UNCHANGED ownDS
        \/ /\ Free /\ kind # "end"
           /\ toDS' = Taken(StartToDS(stream))
           /\ \E i \in OwnDStar \ DOMAIN ownDS : ownDS' = Drawn(ownDS, i)
     /\ UNCHANGED <<toDMR, ownDM, phase, air>>

-----------------------------------------------------------------------------
(* tick                                                                    *)

\* Ages stop at the limits; a call that goes over one is ended.
Older(c) == [c EXCEPT !.idle = Min({@ + 1, Timeout}), !.age = Min({@ + 1, MaxCall})]
Over(c) == c.idle = Timeout \/ c.age = MaxCall

Lim == MaxQueue \div 3

\* Fault: the oldest bursts are dropped one by one.
Capped_Bursts(c) ==
  LET h == IF Head(c.out) = Header THEN 1 ELSE 0
      n == Len(c.out) - Lim
  IN IF Len(c.out) > Lim + 6 /\ ~c.ending
     THEN [c EXCEPT !.out = SubSeq(@, 1, h) \o SubSeq(@, h + n + 1, Len(@))]
     ELSE c

\* Fault: only superframes beyond twice the limit are dropped.
Capped_Late(c) ==
  LET h == Cardinality({i \in DOMAIN c.out :
                          \A j \in 1 .. i : c.out[j].n # 0})
      n == ((Len(c.out) - 2 * Lim) \div 6) * 6
  IN IF Len(c.out) > 2 * Lim + 6 /\ ~c.ending /\ h + n <= Len(c.out)
     THEN [c EXCEPT !.out = SubSeq(@, 1, h) \o SubSeq(@, h + n + 1, Len(@))]
     ELSE c

\* A queue that is too long loses whole superframes, from its first burst 0.
Capped(c) ==
  LET h == Cardinality({i \in DOMAIN c.out :
                          \A j \in 1 .. i : c.out[j].n # 0})
      n == ((Len(c.out) - Lim) \div 6) * 6
  IN IF Len(c.out) > Lim + 6 /\ ~c.ending /\ h + n <= Len(c.out)
     THEN [c EXCEPT !.out = SubSeq(@, 1, h) \o SubSeq(@, h + n + 1, Len(@))]
     ELSE c

Checked(c) == IF Over(c) THEN EndToDMR(c) ELSE c

\* Fault: the last burst is kept back too.
TickToDMR_OneKept ==
  LET c == Capped(Checked(Older(toDMR)))
      due == phase = 2 /\ Len(c.out) >= 2
      rest == IF due THEN Tail(c.out) ELSE c.out
  IN IF toDMR = NoCall THEN UNCHANGED <<toDMR, air>>
     ELSE /\ toDMR' = IF c.ending /\ rest = <<>> THEN NoCall
                      ELSE [c EXCEPT !.out = rest]
          /\ air' = IF due THEN Head(c.out) ELSE air

\* A burst every third tick, with one kept back while the call goes on.
TickToDMR ==
  LET c == Capped(Checked(Older(toDMR)))
      due == phase = 2 /\ c.out # <<>> /\ (Len(c.out) >= 2 \/ c.ending)
      rest == IF due THEN Tail(c.out) ELSE c.out
  IN IF toDMR = NoCall THEN UNCHANGED <<toDMR, air>>
     ELSE /\ toDMR' = IF c.ending /\ rest = <<>> THEN NoCall
                      ELSE [c EXCEPT !.out = rest]
          /\ air' = IF due THEN Head(c.out) ELSE air

CappedDS(c) ==
  LET h == IF c.out # <<>> /\ Head(c.out) = "header" THEN 1 ELSE 0
      n == Len(c.out) - MaxQueue
  IN IF n > 0 /\ ~c.ending
     THEN [c EXCEPT !.out = SubSeq(@, 1, h) \o SubSeq(@, h + n + 1, Len(@))]
     ELSE c

\* The header at once, then a frame a tick after a start of four frames.
TickToDS ==
  LET c == CappedDS(IF Over(Older(toDS)) THEN EndToDS(Older(toDS)) ELSE Older(toDS))
      voice == IF c.out # <<>> /\ Head(c.out) = "header" THEN Tail(c.out) ELSE c.out
      primed == c.primed \/ Len(voice) >= 4 \/ c.ending
      rest == IF primed /\ voice # <<>> THEN Tail(voice) ELSE voice
  IN IF toDS = NoCall THEN UNCHANGED toDS
     ELSE toDS' = IF c.ending /\ rest = <<>> THEN NoCall
                  ELSE [c EXCEPT !.out = rest, !.primed = primed]

Tick ==
  /\ phase' = (phase + 1) % 3
  /\ TickToDMR /\ TickToDS
  /\ ownDM' = Aged(ownDM) /\ ownDS' = Aged(ownDS)

-----------------------------------------------------------------------------
Queued(c) == IF c = NoCall THEN 0 ELSE Len(c.out)

Receive ==
  /\ Queued(toDMR) + Queued(toDS) < MaxBacklog
  /\ \/ \E stream \in DStarCalls \cup OwnDStar, missing \in Gaps,
           kind \in {"header", "voice", "last"}, news \in BOOLEAN :
          OnDStar(stream, kind, missing, news)
     \/ \E stream \in DMRCalls \cup OwnDMR, missing \in Gaps,
           kind \in {"header", "voice", "end"} : OnDMR(stream, kind, missing)

DStarNext == Receive \/ Tick

DStarSpec == DStarInit /\ [][DStarNext]_dstarVars

\* The ticker gets its turn in the loop's select.
DStarFairSpec == DStarSpec /\ WF_dstarVars(Tick)

-----------------------------------------------------------------------------
\* One call at a time.
HalfDuplex == toDMR = NoCall \/ toDS = NoCall

Follows(b, a) ==
  \/ b \in {Header, Terminator}
  \/ a = Terminator
  \/ b.n = 0 /\ (a = Header \/ a.n = 5)
  \/ b.n \in 1 .. 5 /\ a.n = b.n - 1 /\ (b.n \in 2 .. 4 => b.lc = a.lc)

\* "DMR drops whole superframes to keep A-F/LC alignment" (dvxcode README):
\* however packets are lost or late, a DMR receiver is sent the header and
\* then the bursts of each superframe in turn, and the pieces of a link
\* control message are all of one message, also when the text or position
\* changes in the middle and when bursts are dropped from a queue.  What is
\* sent after a terminator is left out.
SuperframesWhole ==
  toDMR # NoCall =>
    LET line == <<air>> \o toDMR.out
    IN \A i \in 2 .. Len(line) : Follows(line[i], line[i - 1])

CallsWhole == HalfDuplex /\ SuperframesWhole

\* "Output queues capped": after a tick a call that goes on has no more than
\* MaxQueue frames before it, and six bursts.
LatencyBounded ==
  [][phase' # phase =>
       /\ toDMR' # NoCall /\ ~toDMR'.ending => Len(toDMR'.out) <= Lim + 6
       /\ toDS' # NoCall /\ ~toDS'.ending => Len(toDS'.out) <= MaxQueue]_dstarVars

Silent(c) == c # NoCall /\ c.idle = Timeout

\* A station that vanishes without a terminator cannot hold the bridge: it
\* becomes free when nothing comes, whatever the call had got to.
FreeAgain ==
  Silent(toDMR) \/ Silent(toDS) ~> Free \/ ~(Silent(toDMR) \/ Silent(toDS))
=============================================================================
