----------------------------- MODULE MCDVXCode -----------------------------
(* Small instances of every part.                                          *)
EXTENDS DVXCode

\* Parameter bits of all words, and bit 24, in whose place D-STAR sends a parity.
MCVoices == {{0, 3, 5, 11, 12, 14, 23, 24, 30, 34, 35, 48}}

\* M0ABC, from its DMR identity to a talkgroup.
MCCalls == {<<2345678, 2350>>}

\* Bits of both protected words; of rows, columns and slot type.
MCNoisy ==
  [dstar |-> {0, 1, 4, 6, 7, 9, 10, 11, 20, 21, 60},
   dmr |-> {0, 1, 2, 3, 4, 5, 6, 8, 10, 62, 63},
   header |-> {0, 60, 100, 101, 163, 170, 250},
   terminator |-> {1, 60, 98, 157}]
MCMaxFlips == [dstar |-> 4, dmr |-> 4, header |-> 3, terminator |-> 2]

\* "M0ABC /ID51" and "M0ABC /ID51 Hello": two blocks and three.
Call == <<77, 48, 65, 66, 67, 32, 47, 73, 68, 53, 49>>
MCAliases == <<Call, Call \o <<32, 72, 101, 108, 108, 111>>>>

\* None, one bit of the fragment, two of it, two and three of the EMB.
MCHits == {{}, {120}, {140, 141}, {108, 150}, {108, 109, 149}}

\* A text some letters of which look like types of blocks, and a header.
MCText == <<65, 80, 66, 67, 32, 77, 79, 66, 73, 76, 69, 32, 73, 78, 32, 76, 69, 69, 68, 83>>
MCStation ==
  <<0, 0, 0, 77, 66, 54, 69, 82, 32, 32, 71, 77, 66, 54, 69, 82, 32, 32, 66,
    67, 81, 67, 81, 67, 81, 32, 32, 77, 48, 65, 66, 67, 32, 32, 32,
    73, 68, 53, 49>>

\* From the first block of the text, or in the middle of the header.
MCStarts == {[pos |-> p, second |-> FALSE, seq |-> 0] : p \in {0, 7}}
=============================================================================
