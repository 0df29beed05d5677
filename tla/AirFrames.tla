------------------------------ MODULE AirFrames ------------------------------
(***************************************************************************)
(* A voice frame, or a burst with the header or the terminator of a call,  *)
(* on its way through the air: what ambe.Decode and dmr.DecodeFullLC make  *)
(* of it after bits were hit by noise, here and there or one after another.*)
(***************************************************************************)
EXTENDS Codes

CONSTANTS
  Voices,      \* parameter bits of voice frames
  Calls,       \* pairs of a source and a talkgroup
  ColourCode,
  Noisy,       \* bound, per kind of frame: bits hit one by one
  MaxFlips,    \* bound, per kind: so many of them
  Fades        \* bound: so many bits one after another

ASSUME AirAssumption ==
  /\ \A k \in {"dstar", "dmr"} : Noisy[k] \subseteq 0 .. 71
  /\ \A k \in {"header", "terminator"} : Noisy[k] \subseteq 0 .. 263
  /\ Fades \subseteq Nat /\ ColourCode \in 0 .. 15

VARIABLES
  frame,  \* what was sent: its kind and content, and the bits in the air
  hit     \* the bits that noise has turned over

VoiceKinds == {"dstar", "dmr"}
LCKinds == {"header", "terminator"}

VoiceFrames ==
  {[kind |-> m, of |-> d, air |-> EncodeFrame(m, d)] : m \in VoiceKinds, d \in Voices}

LCFrames ==
  {[kind |-> k, of |-> VoiceLC(c[1], c[2]),
    air |-> EncodeFullLC(VoiceLC(c[1], c[2]), k, ColourCode)] :
     k \in LCKinds, c \in Calls}

AirInit ==
  /\ frame \in VoiceFrames \cup LCFrames
  /\ hit = {}

Length == IF frame.kind \in VoiceKinds THEN 72 ELSE 264

Flip(i) ==
  /\ Cardinality(hit) < MaxFlips[frame.kind]
  /\ hit \subseteq Noisy[frame.kind] \ {i}
  /\ hit' = hit \cup {i}
  /\ UNCHANGED frame

Fade(i, n) ==
  /\ hit = {} /\ i + n <= Length
  /\ hit' = i .. i + n - 1
  /\ UNCHANGED frame

NextFrame ==
  /\ hit # {} /\ hit' = {}
  /\ frame' \in VoiceFrames \cup LCFrames

AirNext ==
  \/ NextFrame
  \/ \E i \in Noisy[frame.kind] : Flip(i)
  \/ \E i \in 0 .. 263, n \in Fades : Fade(i, n)

Received == Add(frame.air, hit)

Protected(bits) == bits \cap 0 .. 23

-----------------------------------------------------------------------------
\* The bits hit of the two protected words, the second with its parity bit,
\* which D-STAR has in the third.
HitFirst == {i \in hit : Place(frame.kind, i)[1] = 0}
HitSecond ==
  {i \in hit : \/ Place(frame.kind, i)[1] = 1
               \/ frame.kind = "dstar" /\ Place(frame.kind, i) = <<2, 10>>}

\* ambe.Decode: with up to three bits turned over in each of the two protected
\* words the protected parameters are the ones that were sent, and with four
\* in the first, which decides on pitch and voicing, the frame is not trusted.
VoiceRight ==
  frame.kind \in VoiceKinds =>
    LET st == DecodeFrame(frame.kind, Received)
    IN /\ Cardinality(HitFirst) <= 3 /\ Cardinality(HitSecond) <= 3 =>
            Protected(st.bits) = Protected(frame.of)
       /\ Cardinality(HitFirst) = 4 => ~reliable(frame.kind, st)

\* A fade of up to five bits of a voice frame does no harm: neighbours in the
\* air belong to different words.
VoiceFadeHarmless ==
  frame.kind \in VoiceKinds /\ (\E i \in hit : hit \subseteq i .. i + 4) =>
    Protected(DecodeFrame(frame.kind, Received).bits) = Protected(frame.of)

\* dmr.SlotType: three bits are corrected, so that the receiver knows the kind.
SlotTypeRight ==
  frame.kind \in LCKinds
  /\ Cardinality({i \in 0 .. 19 : SlotTypeAt(i) \in hit}) <= 3 =>
       SlotType(Received) = Bits(16 * ColourCode + DataType(frame.kind))

\* dmr.DecodeFullLC: nor does a fade of up to eight bits of the information of a
\* link control burst: of eight neighbours only the first and the last can be in
\* one column, seven rows apart, and the rows correct what the column leaves.
LCFadeHarmless ==
  frame.kind \in LCKinds /\ (\E i \in hit : hit \subseteq i .. i + 7) =>
    DecodeFullLC(Received, frame.kind) = [lc |-> frame.of, ok |-> TRUE]

\* What the codes correct, wherever the noise hits: the four together.
NoiseCorrected == VoiceRight /\ VoiceFadeHarmless /\ SlotTypeRight /\ LCFadeHarmless

\* dmr.DecodeFullLC: whatever is received, what it accepts was sent, and a
\* header is not taken for a terminator, which would end the call.
AcceptedLCSent ==
  frame.kind \in LCKinds =>
    \A dt \in LCKinds :
      LET r == DecodeFullLC(Received, dt)
      IN r.ok => r.lc = frame.of /\ dt = frame.kind
=============================================================================
