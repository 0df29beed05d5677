----------------------------- MODULE USRPStream -----------------------------
(***************************************************************************)
(* What AllStar node 1997 is promised of the packets it gets from the      *)
(* gateway's voice bridge (client_access.go): talk spurts, one after the   *)
(* other.  A spurt opens with the station's identity, goes on with voice   *)
(* of the same station, and is closed; packets are numbered one by one     *)
(* across spurts; and no spurt goes on for ever.                           *)
(***************************************************************************)
EXTENDS Naturals

CONSTANTS Stations, Nobody, SeqMod

VARIABLE packet    \* the last packet sent

Packet == [kind : {"identity", "voice", "eot"},
           from : Stations \cup {Nobody}, seq : 0 .. SeqMod - 1]

Quiet == packet.kind = "eot"

Emit(kind, station) ==
  packet' = [kind |-> kind, from |-> station, seq |-> (packet.seq + 1) % SeqMod]

\* Before the first spurt the line is as it is after one.
Init == packet = [kind |-> "eot", from |-> Nobody, seq |-> 0]

Open(station) == Quiet /\ Emit("identity", station)
Voice == ~Quiet /\ Emit("voice", packet.from)
Close == ~Quiet /\ Emit("eot", packet.from)

Next == (\E station \in Stations : Open(station)) \/ Voice \/ Close

Spec == Init /\ [][Next]_packet
FairSpec == Spec /\ WF_packet(Close)
=============================================================================
