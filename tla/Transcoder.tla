----------------------------- MODULE Transcoder -----------------------------
(***************************************************************************)
(* The transcoder of one call: dvxcode/xcode/xcode.go.  Frames come whole, *)
(* damaged or not at all; what comes in is held for a few frames so that a *)
(* frame can be judged by those around it.                                 *)
(*                                                                         *)
(* Of a frame's parameters the pitch is kept, in twentieths of an octave   *)
(* from the talker's own, which does not move, and the voicing; spectrum   *)
(* and level go with them.  The Golay words are taken at their word        *)
(* (module AirFrames): up to three errors are corrected, four detected,    *)
(* more may look like two or three.                                        *)
(***************************************************************************)
EXTENDS Integers, Sequences

CONSTANTS
  Mode,        \* "dstar" or "dmr": the network it comes from
  Window,      \* 2: LookaheadFrames
  MaxRepeats,  \* 3
  Wrong        \* pitches of frames whose first word is not what was sent

\* Wrong pitches are an octave or two off: each more than a third as far as the
\* farthest, by a quarter of an octave.  Some of all sizes, as {16, 32, 48}, would
\* lead repairs step by step to where a whole frame looks like the jump.
ASSUME TranscoderAssumption ==
  /\ Window \in Nat /\ Window >= 2 /\ MaxRepeats \in Nat
  /\ Wrong \subseteq Nat
  /\ \E m \in Wrong : \A w \in Wrong : w <= m /\ 6 * w > 2 * m + 33

VARIABLES
  last,     \* parameters to repeat, or Silence
  repeats,
  q,        \* frames in the window
  trusted,  \* the last trusted frame sent on, or Silence
  trustAge, \* frames since
  out,      \* the frame sent on last
  ended     \* the call has ended, and the window is flushed

xcVars == <<last, repeats, q, trusted, trustAge, out, ended>>

Highest == CHOOSE m \in Wrong : \A w \in Wrong : w <= m

\* garbage: the parameters come from a word known to be wrong.
Params == [silence : {FALSE}, pitch : 0 .. Highest, voiced : BOOLEAN, garbage : BOOLEAN]
Silence == [silence |-> TRUE, pitch |-> 0, voiced |-> FALSE, garbage |-> FALSE]
Item(p, suspect, concealed) == [p |-> p, suspect |-> suspect, concealed |-> concealed]

XcInit ==
  /\ last = Silence /\ trusted = Silence
  /\ repeats = 0 /\ trustAge = 0 /\ ended = FALSE
  /\ q = <<>> /\ out = Item(Silence, FALSE, FALSE)

\* A frame as decoded: its kind, the errors found in the two words, and what it
\* says.  With a wrong first word all of it is arbitrary.
Frames ==
  [kind : {"voice"}, C0 : {0, 3}, ok0 : {TRUE}, C1 : {0, 3}, ok1 : BOOLEAN,
   pitch : {0}, voiced : {TRUE}]
  \cup [kind : {"voice"}, C0 : {0}, ok0 : {TRUE}, C1 : {0}, ok1 : {TRUE},
        pitch : Wrong, voiced : {FALSE}]
  \cup [kind : {"voice"}, C0 : {2, 3}, ok0 : {TRUE}, C1 : {3}, ok1 : {TRUE},
        pitch : Wrong, voiced : BOOLEAN]
  \cup [kind : {"voice", "silence", "tone", "erasure"}, C0 : {4}, ok0 : {FALSE},
        C1 : {3}, ok1 : {TRUE}, pitch : Wrong, voiced : {TRUE}]
  \cup [kind : {"silence", "tone", "erasure"}, C0 : {0}, ok0 : {TRUE}, C1 : {0},
        ok1 : {TRUE}, pitch : {0}, voiced : {TRUE}]

\* Fault: a frame is trusted whatever its first word looks like.
Good_Always(f) == Mode = "dstar" => f.ok1

\* reliable
Good(f) ==
  /\ f.ok0
  /\ Mode = "dstar" => f.ok1
  /\ Mode = "dmr" => ~(f.C0 = 3 /\ f.C1 = 3)

Suspect(f) == f.C0 >= 3 \/ (f.C0 = 2 /\ (f.C1 >= 3 \/ ~f.ok1))

ParamsOf(f) ==
  [silence |-> FALSE, pitch |-> f.pitch, voiced |-> f.voiced, garbage |-> ~f.ok0]

\* A D-STAR frame of which only the shape is unreliable borrows that.
Partial(f) ==
  /\ f.kind = "voice" /\ Mode = "dstar"
  /\ f.ok0 /\ f.C0 < 3 /\ ~last.silence

\* What takes the place of a frame: the last parameters, some times, or silence.
\* (Level and shape are not kept apart from the pitch.)
Repeats == ~last.silence /\ repeats < MaxRepeats
Replacement == Item(IF Repeats THEN last ELSE Silence, FALSE, Repeats)
Replace ==
  /\ repeats' = IF Repeats THEN repeats + 1 ELSE repeats
  /\ last' = IF Repeats THEN last ELSE Silence

-----------------------------------------------------------------------------
(* What leaves the window                                                  *)

Abs(x) == IF x < 0 THEN -x ELSE x
Voiced(i) == ~i.p.silence /\ i.p.voiced
Apart(i, p) == Abs(i.p.pitch - p.pitch)

First(places) == CHOOSE j \in places : \A i \in places : j <= i

\* anchorAhead: the first frame before the next silence that can be trusted, or
\* else a suspect one whose pitch is not far, for the k frames from the trusted.
Ahead(k, ahead) ==
  LET before == {j \in DOMAIN ahead : \A i \in 1 .. j : ~ahead[i].p.silence}
      own == {j \in before : ~ahead[j].concealed}
      sure == {j \in own : ~ahead[j].suspect}
      close == {j \in own : /\ trusted.voiced /\ Voiced(ahead[j])
                            /\ Apart(ahead[j], trusted) <= 5 * (k + j)}
  IN IF sure # {} THEN First(sure) ELSE IF close # {} THEN First(close) ELSE 0

\* The pitch expected k of the k + j frames on from a to c.
Expected(a, c, k, j) == (a * j + c * k) \div (k + j)

\* Parameters as many frames on; pitch from voiced ones.
Between(a, c, k, j) ==
  [a EXCEPT !.pitch =
     IF a.voiced /\ ~c.voiced THEN a.pitch
     ELSE IF c.voiced /\ ~a.voiced THEN c.pitch
     ELSE Expected(a.pitch, c.pitch, k, j),
   !.voiced = IF a.voiced = c.voiced THEN a.voiced
              ELSE IF a.voiced THEN 2 * j >= k + j ELSE 2 * k >= k + j,
   !.garbage = a.garbage \/ c.garbage]

\* Fault: pitches an octave apart are close enough.
Off_Wide(p, want) == Abs(p.pitch - want) > 30

Off(p, want) == Abs(p.pitch - want) > 3

\* finish: a repeated frame is drawn between its neighbours, a suspect one is
\* compared with them, and a jump of the pitch that is undone is repaired.
Finished(b, ahead) ==
  LET k == trustAge + 1
      j == Ahead(k, ahead)
      c == ahead[j]
      want == Expected(trusted.pitch, c.p.pitch, k, j)
      mean == (trusted.pitch + ahead[1].p.pitch) \div 2
  IN IF b.p.silence \/ trusted.silence \/ trustAge > 6 THEN b
     ELSE IF b.concealed
     THEN IF j = 0 THEN b ELSE Item(Between(trusted, c.p, k, j), b.suspect, FALSE)
     ELSE IF b.suspect /\ ~trusted.voiced THEN b
     ELSE IF b.suspect /\ j # 0 /\ Voiced(c)
     THEN Item(IF Off(b.p, want) THEN Between(trusted, c.p, k, j) ELSE b.p,
               FALSE, FALSE)
     ELSE IF b.suspect
     THEN IF Voiced(b) /\ Apart(b, trusted) > 8 * k
          THEN Item([b.p EXCEPT !.pitch = trusted.pitch], FALSE, FALSE) ELSE b
     ELSE IF /\ ahead # <<>> /\ trustAge = 0
             /\ trusted.voiced /\ Voiced(b) /\ Voiced(ahead[1])
             /\ Apart(ahead[1], trusted) <= 4 /\ Abs(b.p.pitch - mean) > 14
     THEN Item([b.p EXCEPT !.pitch = mean], FALSE, FALSE)
     ELSE b

\* Fault: whatever was sent on is trusted.
Trusted_All(b) == TRUE

Trusted(b) == ~b.suspect /\ ~b.concealed

\* release, of the first of these
Released(items) ==
  LET b == Finished(Head(items), Tail(items))
  IN /\ q' = Tail(items)
     /\ out' = b
     /\ IF b.p.silence THEN trusted' = Silence /\ trustAge' = trustAge
        ELSE IF Trusted(b) THEN trusted' = b.p /\ trustAge' = 0
        ELSE trusted' = trusted /\ trustAge' = IF trustAge < 7 THEN trustAge + 1 ELSE 7

Push(item) ==
  IF Len(q) < Window
  THEN /\ q' = Append(q, item)
       /\ out' = Item(Silence, FALSE, FALSE)
       /\ UNCHANGED <<trusted, trustAge>>
  ELSE Released(Append(q, item))

-----------------------------------------------------------------------------
\* Frame: decodeOne, and what it pushes.
Frame(f) ==
  \/ /\ Good(f) /\ f.kind \in {"silence", "tone"}
     /\ last' = Silence
     /\ repeats' = IF f.kind = "silence" THEN 0 ELSE repeats
     /\ Push(Item(Silence, FALSE, FALSE))
  \/ /\ f.kind = "voice" /\ (Good(f) \/ Partial(f))
     /\ last' = ParamsOf(f) /\ repeats' = 0
     /\ Push(Item(ParamsOf(f), IF Good(f) THEN Suspect(f) ELSE f.C0 >= 2, FALSE))
  \/ /\ (~Good(f) /\ ~Partial(f)) \/ f.kind = "erasure"
     /\ Replace
     /\ Push(Replacement)

Lost == Replace /\ Push(Replacement)

\* Flush, frame by frame, and the transcoder of the next call.
Flush ==
  IF q # <<>>
  THEN Released(q) /\ ended' = TRUE /\ UNCHANGED <<last, repeats>>
  ELSE /\ last' = Silence /\ trusted' = Silence /\ repeats' = 0 /\ trustAge' = 0
       /\ q' = <<>> /\ out' = Item(Silence, FALSE, FALSE) /\ ended' = FALSE

XcNext ==
  \/ ~ended /\ (Lost \/ \E f \in Frames : Frame(f)) /\ UNCHANGED ended
  \/ Flush

XcSpec == XcInit /\ [][XcNext]_xcVars

-----------------------------------------------------------------------------
\* "Never pass corrupted parameters on": nothing that is sent on was taken from
\* a word known to be wrong, neither directly nor by repeating or interpolating.
NoGarbage == ~out.p.garbage

Right(p) == ~p.silence /\ p.voiced /\ p.pitch = 0

\* A frame with errors that were corrected, if they were, sends the pitch an
\* octave off for 20 ms when they were not.  It is found out and drawn to its
\* neighbours if the last trusted frame and the next one received agree.
OctaveRepaired ==
  Len(q) = Window /\ ~ended /\ ~ended' /\ Right(trusted) /\ trustAge <= 6
  /\ ~q[1].p.silence /\ q[1].p.voiced /\ q[1].p.pitch \in Wrong
  /\ Right(q[2].p) /\ ~q[2].suspect /\ ~q[2].concealed
    => out'.p.pitch <= 3

\* No error of earlier frames, however they were repaired, changes a frame that
\* came whole.
GoodKept ==
  Len(q) = Window /\ Right(q[1].p) /\ ~q[1].suspect /\ ~q[1].concealed
    => Right(out'.p)

\* What the transcoder sends on, and what errors before and behind a frame do
\* to it.
VoiceClean == [][NoGarbage' /\ OctaveRepaired /\ GoodKept]_xcVars
=============================================================================
