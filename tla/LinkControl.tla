----------------------------- MODULE LinkControl -----------------------------
(***************************************************************************)
(* The alias of a talker on its way from one bridge to another over DMR.   *)
(* The near one (dsCall: buildLCs, pushDMRFrame of bridge.go) sends its    *)
(* link control words in turn, each in pieces in the bursts of a           *)
(* superframe; the far one (embedded, onLC) puts pieces and blocks         *)
(* together.  Bursts are lost and bits turned over on the way.  Positions  *)
(* and the aliases of other formats than 7 bits, which go the same way,    *)
(* are left out.                                                           *)
(***************************************************************************)
EXTENDS Codes

CONSTANTS
  Aliases,     \* the aliases of the call, in turn, as characters
  Src, Dst,
  Turns,       \* bound: a multiple of the lengths of the rotations
  Hits,        \* bound: bits of a burst that may be turned over
  MaxNoise     \* bound: bursts hit or lost

VARIABLES
  near,   \* the current alias; lcIdx, the next burst of the superframe, frags
  far,    \* frags, the blocks of the alias, and the last alias and word heard
  noise,  \* bursts hit or lost so far
  quiet   \* history: bursts since the last of them or a new alias

\* TalkerAliasLCs: length and characters of up to 31 printable ones, seven
\* bytes to a word.
Printable(text) ==
  SubSeq([i \in DOMAIN text |-> IF text[i] \in 32 .. 126 THEN text[i] ELSE 63],
         1, Min({Len(text), 31}))

TalkerAliasLCs(text) ==
  LET t == Printable(text)
      buf == Number(Len(t), 2, 5) \cup UNION {Number(t[i], 7 * i, 7) : i \in DOMAIN t}
  IN [n \in 1 .. ((7 + 7 * Len(t) + 55) \div 56) |->
        Number(3 + n, 0, 8) \cup {16 + j : j \in {k \in 0 .. 55 : 56 * (n - 1) + k \in buf}}]

LCs(a) == <<VoiceLC(Src, Dst)>> \o TalkerAliasLCs(Aliases[a])
lcs == [a \in DOMAIN Aliases |-> LCs(a)]

ASSUME LinkAssumption ==
  /\ Aliases \in Seq(Seq(Nat)) /\ Aliases # <<>>
  /\ Turns \in Nat \ {0} /\ \A a \in DOMAIN Aliases : Turns % Len(lcs[a]) = 0
  /\ {} \in Hits

fragments == [lc \in UNION {Range(lcs[a]) : a \in DOMAIN Aliases} |-> EmbeddedFragments(lc)]

\* Enough bursts for a whole rotation.
Rest == 6 * (Max({Len(lcs[a]) : a \in DOMAIN Aliases}) + 1)

LinkInit ==
  /\ near = [alias |-> 1, lcIdx |-> 0, n |-> 0, frags |-> lcs[1][1]]
  /\ far = [frags |-> <<>>, buf |-> [n \in 0 .. 3 |-> {}], have |-> {},
            text |-> <<>>, heard |-> {}]
  /\ noise = 0 /\ quiet = 0

-----------------------------------------------------------------------------
\* Size field and characters of an alias put together from its blocks.
SizeOf(buf) == Num({6 - i : i \in buf[0] \cap 2 .. 6})
TextOf(buf) ==
  LET all == UNION {{56 * n + j : j \in buf[n]} : n \in 0 .. 3}
  IN [i \in 1 .. SizeOf(buf) |-> Num({6 - j : j \in {k \in 0 .. 6 : 7 * i + k \in all}})]

\* Fault: a block that is there is not replaced.
Stored_Once(f, n, lc) ==
  [f EXCEPT !.buf[n] = IF n \in f.have THEN @ ELSE {i - 16 : i \in lc \cap 16 .. 71},
            !.have = @ \cup {n}]

Stored(f, n, lc) ==
  [f EXCEPT !.buf[n] = {i - 16 : i \in lc \cap 16 .. 71}, !.have = @ \cup {n}]

\* Fault: a block begun does not count.
Needed_Floor(size) == Max({1, (7 + 7 * size) \div 56})

\* Blocks in which an alias of that size comes.
Needed(size) == Max({1, (7 + 7 * size + 55) \div 56})

\* TalkerAlias.Add and onLC.
OnLC(f, lc) ==
  LET g == Stored(f, FLCO(lc) - 4, lc)
      need == Needed(SizeOf(g.buf))
  IN IF FLCO(lc) \notin 4 .. 7 THEN f
     ELSE IF 0 \in g.have /\ need <= 4 /\ 0 .. need - 1 \subseteq g.have
     THEN [g EXCEPT !.text = TextOf(g.buf)]
     ELSE g

\* Bursts 1 to 5 of a superframe, and what dmr.EMB makes of them when bits were
\* turned over.
VoiceBurst(lc, n) ==
  SetEMB(1, <<0, 1, 3, 3, 2, 0>>[n + 1], IF n = 5 THEN {} ELSE fragments[lc][n])
Piece == [lc \in DOMAIN fragments |-> [n \in 1 .. 5 |-> [hits \in Hits |->
            EMB(Add(VoiceBurst(lc, n), hits))]]]

\* embedded: the pieces are marked first, middle, middle and last.
Embedded(f, e) ==
  LET word == DecodeEmbedded(Append(f.frags, e.frag))
  IN CASE e.errs > 2 -> [f EXCEPT !.frags = <<>>]
       [] e.errs <= 2 /\ e.lcss = 1 -> [f EXCEPT !.frags = <<e.frag>>]
       [] e.errs <= 2 /\ e.lcss = 3 ->
            [f EXCEPT !.frags = IF Len(@) \in {1, 2} THEN Append(@, e.frag) ELSE @]
       [] e.errs <= 2 /\ e.lcss = 2 ->
            LET g == [f EXCEPT !.frags = <<>>]
            IN IF Len(f.frags) = 3 /\ word.ok
               THEN OnLC([g EXCEPT !.heard = word.lc], word.lc) ELSE g
       [] OTHER -> f

\* The near bridge sends its next burst.  It is lost, or bits are turned over;
\* the first of a superframe has sync in place of all this.
SendBurst(gone, hits) ==
  LET n == near.n
      frags == IF n = 1 THEN lcs[near.alias][(near.lcIdx % Len(lcs[near.alias])) + 1]
               ELSE near.frags
      clean == ~gone /\ hits = {}
  IN /\ clean \/ noise < MaxNoise
     /\ near' = [near EXCEPT !.n = (n + 1) % 6, !.frags = frags,
                             !.lcIdx = IF n = 1 THEN (@ + 1) % Turns ELSE @]
     /\ far' = IF gone \/ n = 0 THEN far ELSE Embedded(far, Piece[frags][n][hits])
     /\ noise' = IF clean THEN noise ELSE noise + 1
     /\ quiet' = IF clean THEN Min({quiet + 1, Rest}) ELSE 0

\* refreshMeta: a text or the header has come, buildLCs.
NewAlias ==
  /\ near.alias < Len(Aliases)
  /\ near' = [near EXCEPT !.alias = @ + 1]
  /\ quiet' = 0
  /\ UNCHANGED <<far, noise>>

LinkNext ==
  \/ \E hits \in Hits : SendBurst(FALSE, hits)
  \/ SendBurst(TRUE, {})
  \/ NewAlias

LinkSpec == LinkInit /\ [][LinkNext]_<<near, far, noise, quiet>>

-----------------------------------------------------------------------------
\* A link control word that the far bridge accepts is one of those the near one
\* has been sending, although pieces of several may come together: two in the
\* middle of a superframe are marked alike, and lost bursts are not noticed.
WordsHeardWereSent ==
  far.heard = {} \/ \E a \in 1 .. near.alias : far.heard \in Range(lcs[a])

\* Whatever was lost or mixed up before, and also when the alias has changed in
\* the middle of the call: after a rotation of the words in peace the far
\* bridge shows the alias.
AliasHeals ==
  quiet >= 6 * (Len(lcs[near.alias]) + 1) =>
    far.text = Printable(Aliases[near.alias])

\* Until the alias changes, what is shown is the alias.  (Afterwards blocks of
\* the old and the new one can be shown together, until AliasHeals.)
AliasShownWhole ==
  near.alias = 1 => far.text \in {<<>>, Printable(Aliases[1])}
=============================================================================
