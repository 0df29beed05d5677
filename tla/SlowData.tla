------------------------------- MODULE SlowData -------------------------------
(***************************************************************************)
(* Text and radio header of a D-STAR call, carried three bytes at a time   *)
(* beside its voice frames: Muxer and Demuxer of dstar/slowdata.go, and    *)
(* the header's checksum of dstar/header.go.  Of 21 frames the first is    *)
(* for synchronisation; two of the others carry a block of six bytes.      *)
(* Frames are lost, and a listener may come in the middle.  Scrambling is  *)
(* undone by itself, and positions, which go the same way, are left out.   *)
(***************************************************************************)
EXTENDS Integers, Sequences, FiniteSetsExt

CONSTANTS
  Text,        \* 20 characters
  Station,     \* the 39 bytes of its header
  Starts,      \* bound: frames of the cycle at which the listener comes
  MaxLost      \* bound: frames lost

VARIABLES
  mux,    \* blocks that were begun, whether one is half sent, next frame 0 to 20
  demux,  \* Demuxer
  lost,   \* frames lost
  clear   \* history: frames heard since the start or the last one lost

\* CRC: reflected 0x8408, from 0xffff, inverted; eight bits at a time.
Xor16(a, b) ==
  SumFunction([i \in 0 .. 15 |-> IF (a \div 2^i) % 2 # (b \div 2^i) % 2 THEN 2^i ELSE 0])
Shifted8 ==
  LET sh[x \in 0 .. 255, i \in 0 .. 8] ==
        IF i = 0 THEN x
        ELSE LET y == sh[x, i - 1]
             IN IF y % 2 = 1 THEN Xor16(y \div 2, \h8408) ELSE y \div 2
  IN [x \in 0 .. 255 |-> sh[x, 8]]
\* Of n bytes from the i-th, onto c; by halves.
CRC(bytes) ==
  LET crc[c \in 0 .. 65535, i \in 1 .. Len(bytes) + 1, n \in 0 .. Len(bytes)] ==
        IF n = 1 THEN Xor16(c \div 256, Shifted8[Xor16(c % 256, bytes[i])])
        ELSE crc[crc[c, i, n \div 2], i + (n \div 2), n - (n \div 2)]
  IN 65535 - crc[65535, 1, Len(bytes)]

\* Header.Bytes, and ParseHeader's verdict.
HeaderBytes ==
  Station \o <<CRC(Station) % 256, CRC(Station) \div 256>>

\* Fault: the checksum is not looked at.
Parses_Any(b) == Len(b) = 41

Parses(b) ==
  LET crc == CRC(SubSeq(b, 1, 39)) IN b[40] = crc % 256 /\ b[41] = crc \div 256

\* NewMuxer: four blocks of text and nine of the header, again and again.
typeText == \h40
typeHeader == \h50
filler == \h66

TextBlock(i) == <<typeText + i>> \o SubSeq(Text, 5 * i + 1, 5 * i + 5)
HeaderBlock(i) ==
  LET n == Min({5, 41 - 5 * i})
  IN <<typeHeader + n>> \o SubSeq(HeaderBytes, 5 * i + 1, 5 * i + n)
     \o [k \in 1 .. 5 - n |-> filler]
blocks == [i \in 0 .. 12 |-> IF i < 4 THEN TextBlock(i) ELSE HeaderBlock(i - 4)]

ASSUME SlowAssumption ==
  /\ Text \in [1 .. 20 -> 0 .. 127]
  /\ Station \in Seq(0 .. 255) /\ Len(Station) = 39
  /\ CRC(Station) \in Nat
  /\ \A m \in Starts :
       m = [pos |-> m.pos, second |-> FALSE, seq |-> 0] /\ m.pos \in 0 .. 12

NewDemuxer ==
  [buf |-> <<>>, second |-> FALSE, text |-> [i \in 1 .. 20 |-> 0],
   have |-> {}, Text |-> <<>>, header |-> <<>>, Header |-> <<>>]

SlowInit ==
  /\ mux \in Starts
  /\ demux = NewDemuxer
  /\ lost = 0 /\ clear = 0

-----------------------------------------------------------------------------
\* Muxer.Next: nothing, or half of the block that is or was begun.
Next3(m) ==
  IF m.seq = 0 THEN <<>>
  ELSE IF m.second THEN SubSeq(blocks[(m.pos + 12) % 13], 4, 6)
  ELSE SubSeq(blocks[m.pos], 1, 3)

Muxed(m) ==
  [seq |-> (m.seq + 1) % 21,
   second |-> m.seq # 0 /\ ~m.second,
   pos |-> IF m.seq # 0 /\ ~m.second THEN (m.pos + 1) % 13 ELSE m.pos]

\* A block is complete.
OnBlock(d, b) ==
  LET kind == (b[1] \div 16) * 16
      i == b[1] % 16
      text == [k \in 1 .. 20 |-> IF k \in 5 * i + 1 .. 5 * i + 5
                                 THEN b[k - 5 * i + 1] % 128 ELSE d.text[k]]
      have == d.have \cup {i}
      header == d.header \o SubSeq(b, 2, 6)
  IN IF kind = typeText /\ i < 4
     THEN [d EXCEPT !.text = text, !.have = have,
                    !.Text = IF have = 0 .. 3 THEN text ELSE @]
     ELSE IF kind = typeHeader /\ Len(d.header) < 45
     THEN [d EXCEPT !.header = header,
                    !.Header = IF Len(header) >= 41 /\ Parses(SubSeq(header, 1, 41))
                               THEN SubSeq(header, 1, 41) ELSE @]
     ELSE d

\* Fault: the first frame of a superframe does not begin a new block.
Synced_Not(d) == d

Synced(d) == [d EXCEPT !.second = FALSE]

\* Demuxer.Add
Demuxed(d, seq, half) ==
  IF seq = 0 THEN Synced(d)
  ELSE IF ~d.second THEN [d EXCEPT !.buf = half, !.second = TRUE]
  ELSE OnBlock([d EXCEPT !.buf = <<>>, !.second = FALSE], d.buf \o half)

Cycle == 4 * 21

Hear ==
  /\ clear < Cycle
  /\ mux' = Muxed(mux)
  /\ demux' = Demuxed(demux, mux.seq, Next3(mux))
  /\ clear' = Min({clear + 1, Cycle})
  /\ UNCHANGED lost

Miss ==
  /\ clear < Cycle /\ lost < MaxLost
  /\ mux' = Muxed(mux)
  /\ lost' = lost + 1 /\ clear' = 0
  /\ UNCHANGED demux

\* The call ends and another begins, with a new Demuxer.
NextCall ==
  /\ clear = Cycle
  /\ mux' \in Starts /\ demux' = NewDemuxer
  /\ lost' = 0 /\ clear' = 0

SlowNext == Hear \/ Miss \/ NextCall

SlowSpec == SlowInit /\ [][SlowNext]_<<mux, demux, lost, clear>>

-----------------------------------------------------------------------------
\* After a lost frame the halves of different blocks are put together until
\* the next synchronisation, and characters of the text are taken for the type
\* of a block; but however that went, the text is right after every block has
\* come again: a superframe to get in step, and the thirteen blocks.
TextHeals == clear = Cycle => demux.Text = Text

\* A header that is shown is the station's, although the pieces of it may have
\* been put together from others in any order.
HeaderTrue == demux.Header \in {<<>>, HeaderBytes}
=============================================================================
