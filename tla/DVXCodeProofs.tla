--------------------------- MODULE DVXCodeProofs ----------------------------
(***************************************************************************)
(* Proofs about dvxbridge (DVXCode): its call logic, for any limits, depth *)
(* of the transcoder and numbers of stations and packets; its transcoder,  *)
(* for any window and wrong pitches; its codes, for every voice frame and  *)
(* all noise that they correct; and what is shown of a caller, for every   *)
(* alias and text and however much was lost before.  Of the codes' tables  *)
(* the proofs take what Codes assumes of them, finite facts which do not   *)
(* depend on the constants and which TLC evaluates in full.                *)
(***************************************************************************)
EXTENDS DVXCode, FiniteSetTheorems, SequenceTheorems, WellFoundedInduction, TLAPS

-----------------------------------------------------------------------------
(* The D-STAR bridge.  The bursts before a receiver, with the one that was *)
(* sent last, follow each other; the next one to be made will follow the   *)
(* last of them; and while the call goes on each is numbered from the end  *)
(* of the queue, so that bursts can be taken from the middle by sixes.     *)

Final(c, a) == IF c.out = <<>> THEN a ELSE c.out[Len(c.out)]
Before(c, a, i) == IF i = 1 THEN a ELSE c.out[i - 1]

InTurn(c, a) == \A i \in DOMAIN c.out : Follows(c.out[i], Before(c, a, i))

Prepared(c, b) ==
  \/ b = Terminator
  \/ b = Header /\ c.burstN = 0
  \/ /\ b \in Burst
     /\ c.burstN = (b.n + 1) % 6
     /\ c.burstN \in 2 .. 4 => b.lc = c.frags

Counted(c, i) ==
  \/ i = 1 /\ c.out[i] = Header
  \/ /\ c.out[i] \in Burst
     /\ (c.out[i].n + ((Len(c.out) + 1) - i)) % 6 = c.burstN

Numbered(c, a) == ~c.ending => a # Terminator /\ \A i \in DOMAIN c.out : Counted(c, i)

WholeCall(c, a) == InTurn(c, a) /\ Prepared(c, Final(c, a)) /\ Numbered(c, a)

CallsInv ==
  /\ DStarTypeOK /\ HalfDuplex
  /\ toDMR # NoCall => WholeCall(toDMR, air)

LEMMA SixPlus ==
  ASSUME NEW a \in Nat, NEW k \in Nat
  PROVE  /\ a % 6 \in 0 .. 5
         /\ ((a % 6) + k) % 6 = (a + k) % 6
OBVIOUS

LEMMA ThreeParts ==
  ASSUME NEW a \in Nat
  PROVE  /\ a \div 3 \in Nat /\ a % 3 \in 0 .. 2
         /\ a = (3 * (a \div 3)) + (a % 3)
OBVIOUS

LEMMA SmallerOf ==
  ASSUME NEW a \in Nat, NEW b \in Nat
  PROVE  Min({a, b}) \in 0 .. b /\ Min({a, b}) = IF a <= b THEN a ELSE b
<1>1. IF a <= b THEN a = Min({a, b}) ELSE b = Min({a, b})
  BY DEF Min
<1> QED
  BY <1>1

LEMMA BurstKinds ==
  /\ Header \in Bursts /\ Terminator \in Bursts
  /\ Header.n = 6 /\ Terminator.n = 7
  /\ \A b \in Bursts : /\ b.n \in 0 .. 7 /\ b.lc \in 0 .. MaxMeta
                       /\ b \in Burst <=> b.n \in 0 .. 5
                       /\ b = Header <=> b.n = 6
                       /\ b = Terminator <=> b.n = 7
  /\ \A b \in Burst : b.n \in 0 .. 5 /\ b.lc \in 0 .. MaxMeta
BY BridgeAssumption DEF Bursts, Burst, Header, Terminator

\* The k-th burst from now on.
LEMMA BurstMade ==
  ASSUME NEW c \in DSCall, NEW i \in Nat \ {0}
  PROVE  /\ NewBurst(c, i) \in Burst
         /\ NewBurst(c, i).n = (c.burstN + (i - 1)) % 6
         /\ NewBurst(c, i).n \in 1 .. 4 =>
              NewBurst(c, i).lc = IF i >= NewBurst(c, i).n THEN c.meta ELSE c.frags
<1> DEFINE n == (c.burstN + (i - 1)) % 6
<1>1. c.burstN \in 0 .. 5 /\ c.meta \in 0 .. MaxMeta /\ c.frags \in 0 .. MaxMeta
  BY DEF DSCall
<1>2. n \in 0 .. 5
  BY <1>1, SixPlus
<1>3. (c.burstN + i - 1) % 6 = n
  BY <1>1
<1>4. NewBurst(c, i) = [n |-> n, lc |-> IF n \notin 1 .. 4 THEN 0
                                        ELSE IF i >= n THEN c.meta ELSE c.frags]
  BY <1>3 DEF NewBurst
<1> HIDE DEF n
<1>5. 0 \in 0 .. MaxMeta
  BY BridgeAssumption
<1>6. NewBurst(c, i) \in Burst /\ NewBurst(c, i).n = n
  BY <1>1, <1>2, <1>4, <1>5 DEF Burst
<1>7. n \in 1 .. 4 => NewBurst(c, i).lc = IF i >= n THEN c.meta ELSE c.frags
  BY <1>4
<1> QED
  BY <1>6, <1>7 DEF n

\* What pushDMRFrame does to a call, field by field.
LEMMA Pushed ==
  ASSUME NEW c \in DSCall, NEW k \in Nat, NEW made, made = (c.pending + k) \div 3,
         NEW d, d = PushDMR(c, k)
  PROVE  /\ made \in Nat /\ d \in DSCall /\ d.ending = c.ending /\ d.stream = c.stream
         /\ Len(d.out) = Len(c.out) + made
         /\ \A i \in 1 .. Len(c.out) : d.out[i] = c.out[i]
         /\ \A i \in 1 .. made : d.out[Len(c.out) + i] = NewBurst(c, i)
         /\ d.burstN = (c.burstN + made) % 6
         /\ d.frags = IF \E i \in 1 .. made : NewBurst(c, i).n = 1
                      THEN c.meta ELSE c.frags
         /\ d.pending = (c.pending + k) % 3
<1> DEFINE s == [i \in 1 .. made |-> NewBurst(c, i)]
           frags == IF \E i \in 1 .. made : NewBurst(c, i).n = 1
                    THEN c.meta ELSE c.frags
<1>1. /\ c.pending \in 0 .. 2 /\ c.burstN \in 0 .. 5 /\ c.out \in Seq(Bursts)
      /\ c.meta \in 0 .. MaxMeta /\ c.frags \in 0 .. MaxMeta
  BY DEF DSCall
<1>2. made \in Nat /\ (c.pending + k) % 3 \in 0 .. 2
  <2>1. c.pending + k \in Nat
    BY <1>1
  <2> QED
    BY <2>1, ThreeParts
<1>3. (c.burstN + made) % 6 \in 0 .. 5
  <2>1. c.burstN + made \in Nat
    <3>1. c.burstN \in 0 .. 5 /\ made \in Nat
      BY <1>1, <1>2
    <3> QED
      BY <3>1
  <2> QED
    BY <2>1, SixPlus
<1>4. \A i \in 1 .. made : NewBurst(c, i) \in Bursts
  BY <1>2, BurstMade DEF Bursts
<1>5. s \in Seq(Bursts) /\ Len(s) = made /\ \A i \in 1 .. made : s[i] = NewBurst(c, i)
  BY <1>2, <1>4, SeqDef
<1>6. frags \in 0 .. MaxMeta
  BY <1>1
<1>7. d = [c EXCEPT !.pending = (c.pending + k) % 3, !.out = c.out \o s,
                    !.frags = frags, !.burstN = (c.burstN + made) % 6]
  BY DEF PushDMR
<1> HIDE DEF s, frags
<1>8. c.out \o s \in Seq(Bursts)
  BY <1>1, <1>5
<1>9. d \in DSCall
  BY <1>2, <1>3, <1>6, <1>7, <1>8 DEF DSCall
<1>10. /\ d.out = c.out \o s /\ d.burstN = (c.burstN + made) % 6 /\ d.frags = frags
       /\ d.ending = c.ending /\ d.pending = (c.pending + k) % 3 /\ d.stream = c.stream
  BY <1>7 DEF DSCall
<1>11. /\ Len(d.out) = Len(c.out) + made
       /\ \A i \in 1 .. Len(c.out) : d.out[i] = c.out[i]
       /\ \A i \in 1 .. made : d.out[Len(c.out) + i] = s[i]
  <2>1. c.out \in Seq(Bursts) /\ s \in Seq(Bursts) /\ Len(c.out) \in Nat
    BY <1>1, <1>5
  <2>2. /\ Len(d.out) = Len(c.out) + Len(s)
        /\ \A i \in 1 .. Len(c.out) + Len(s) :
             d.out[i] = IF i <= Len(c.out) THEN c.out[i] ELSE s[i - Len(c.out)]
    BY <1>10, <2>1, ConcatProperties
  <2>3. ASSUME NEW i \in 1 .. Len(c.out) PROVE d.out[i] = c.out[i]
    BY <1>2, <1>5, <2>1, <2>2
  <2>4. ASSUME NEW i \in 1 .. made PROVE d.out[Len(c.out) + i] = s[i]
    <3>1. /\ Len(c.out) + i \in 1 .. Len(c.out) + Len(s)
          /\ ~ (Len(c.out) + i <= Len(c.out)) /\ (Len(c.out) + i) - Len(c.out) = i
      BY <1>2, <1>5, <2>1
    <3> QED
      BY <2>2, <3>1
  <2> QED
    BY <1>5, <2>2, <2>3, <2>4
<1> QED
  BY <1>2, <1>5, <1>9, <1>10, <1>11 DEF frags

\* The call goes on being whole when the queue, and what tells the next burst,
\* are as they were.
LEMMA SameQueue ==
  ASSUME NEW c \in DSCall, NEW d \in DSCall, NEW a,
         d.out = c.out, d.burstN = c.burstN, d.frags = c.frags, d.ending = c.ending,
         WholeCall(c, a)
  PROVE  WholeCall(d, a)
<1>1. Final(d, a) = Final(c, a) /\ \A i : Before(d, a, i) = Before(c, a, i)
  BY DEF Final, Before
<1>2. InTurn(d, a)
  BY <1>1 DEF WholeCall, InTurn
<1>3. Prepared(d, Final(d, a))
  BY <1>1 DEF WholeCall, Prepared
<1>4. Numbered(d, a)
  BY DEF WholeCall, Numbered, Counted
<1> QED
  BY <1>2, <1>3, <1>4 DEF WholeCall

LEMMA QueueType ==
  ASSUME NEW c \in DSCall, NEW a \in Bursts
  PROVE  /\ Len(c.out) \in Nat /\ DOMAIN c.out = 1 .. Len(c.out)
         /\ \A i \in 1 .. Len(c.out) : c.out[i] \in Bursts
         /\ c.out = <<>> <=> Len(c.out) = 0
         /\ Final(c, a) \in Bursts
<1>1. c.out \in Seq(Bursts)
  BY DEF DSCall
<1>2. /\ Len(c.out) \in Nat /\ DOMAIN c.out = 1 .. Len(c.out)
      /\ \A i \in 1 .. Len(c.out) : c.out[i] \in Bursts
      /\ (c.out = <<>>) <=> (Len(c.out) = 0)
  BY <1>1
<1> QED
  BY <1>2 DEF Final

\* The burst made next follows the last one, and each the one before.
LEMMA NextFollows ==
  ASSUME NEW c \in DSCall, NEW b \in Bursts, Prepared(c, b)
  PROVE  Follows(NewBurst(c, 1), b)
<1> DEFINE e == NewBurst(c, 1)
<1>1. c.burstN \in 0 .. 5
  BY DEF DSCall
<1>2. /\ e \in Burst /\ e.n = (c.burstN + (1 - 1)) % 6
      /\ e.n \in 1 .. 4 => e.lc = IF 1 >= e.n THEN c.meta ELSE c.frags
  BY BurstMade
<1>3. e.n = c.burstN
  BY <1>1, <1>2
<1> HIDE DEF e
<1>4. CASE b = Terminator
  BY <1>4 DEF Follows, e
<1>5. CASE b = Header /\ c.burstN = 0
  BY <1>3, <1>5 DEF Follows, e
<1>6. CASE /\ b \in Burst /\ c.burstN = (b.n + 1) % 6
           /\ c.burstN \in 2 .. 4 => b.lc = c.frags
  <2>1. b.n \in 0 .. 5
    BY <1>6, BurstKinds
  <2>2. IF b.n = 5 THEN e.n = 0 ELSE e.n = b.n + 1
    BY <1>3, <1>6, <2>1
  <2>3. e.n \in 2 .. 4 => e.lc = b.lc
    BY <1>1, <1>2, <1>3, <1>6
  <2> QED
    BY <1>1, <1>3, <2>1, <2>2, <2>3 DEF Follows, e
<1> QED
  BY <1>4, <1>5, <1>6 DEF Prepared

LEMMA MadeFollows ==
  ASSUME NEW c \in DSCall, NEW i \in Nat \ {0}
  PROVE  Follows(NewBurst(c, i + 1), NewBurst(c, i))
<1> DEFINE b == NewBurst(c, i)
           e == NewBurst(c, i + 1)
           x == c.burstN + (i - 1)
<1>1. c.burstN \in 0 .. 5 /\ x \in Nat
  BY DEF DSCall
<1>2. /\ b.n = x % 6 /\ e.n = (x + 1) % 6
      /\ b.n \in 1 .. 4 => b.lc = IF i >= b.n THEN c.meta ELSE c.frags
      /\ e.n \in 1 .. 4 => e.lc = IF i + 1 >= e.n THEN c.meta ELSE c.frags
  <2>1. i + 1 \in Nat \ {0} /\ c.burstN + ((i + 1) - 1) = x + 1
    BY <1>1
  <2> QED
    BY <2>1, BurstMade
<1> HIDE DEF b, e, x
<1>3. b.n \in 0 .. 5 /\ IF b.n = 5 THEN e.n = 0 ELSE e.n = b.n + 1
  BY <1>1, <1>2
<1>4. e.n \in 2 .. 4 => e.lc = b.lc
  BY <1>2, <1>3
<1> QED
  BY <1>3, <1>4 DEF Follows, b, e

(* Numbers modulo six: of the last of some bursts made, of the first one   *)
(* of a superframe among them, and of a burst counted from the end.        *)
LEMMA NextNumber ==
  ASSUME NEW b \in 0 .. 5, NEW made \in Nat \ {0}, NEW n,
         n = (b + (made - 1)) % 6
  PROVE  (b + made) % 6 = (n + 1) % 6
OBVIOUS

LEMMA NumberOne ==
  ASSUME NEW b \in 0 .. 5, NEW made \in Nat \ {0}, NEW n \in 1 .. 3,
         n = (b + (made - 1)) % 6, made >= n
  PROVE  (b + (((made - n) + 1) - 1)) % 6 = 1
OBVIOUS

LEMMA NoNumberOne ==
  ASSUME NEW b \in 0 .. 5, NEW made \in Nat \ {0}, NEW n \in 1 .. 3,
         n = (b + (made - 1)) % 6, ~ (made >= n), NEW i \in 1 .. made
  PROVE  (b + (i - 1)) % 6 # 1
OBVIOUS

LEMMA NumberKept ==
  ASSUME NEW b \in 0 .. 5, NEW x \in 0 .. 5, NEW L \in Nat, NEW made \in Nat,
         NEW i \in 1 .. L, (x + ((L + 1) - i)) % 6 = b
  PROVE  (x + (((L + made) + 1) - i)) % 6 = (b + made) % 6
OBVIOUS

LEMMA NumberGiven ==
  ASSUME NEW b \in 0 .. 5, NEW L \in Nat, NEW made \in Nat, NEW j \in 1 .. made
  PROVE  (((b + (j - 1)) % 6) + (((L + made) + 1) - (L + j))) % 6 = (b + made) % 6
OBVIOUS

LEMMA PushWhole ==
  ASSUME NEW c \in DSCall, NEW a \in Bursts, NEW k \in Nat, WholeCall(c, a)
  PROVE  /\ PushDMR(c, k) \in DSCall /\ PushDMR(c, k).ending = c.ending
         /\ PushDMR(c, k).stream = c.stream
         /\ WholeCall(PushDMR(c, k), a)
<1> DEFINE d == PushDMR(c, k)
           made == (c.pending + k) \div 3
           L == Len(c.out)
           New(i) == NewBurst(c, i)
           frags == IF \E i \in 1 .. made : New(i).n = 1 THEN c.meta ELSE c.frags
<1>1. /\ made \in Nat /\ d \in DSCall /\ d.ending = c.ending /\ d.stream = c.stream
      /\ Len(d.out) = L + made
      /\ \A i \in 1 .. L : d.out[i] = c.out[i]
      /\ \A i \in 1 .. made : d.out[L + i] = New(i)
      /\ d.burstN = (c.burstN + made) % 6
      /\ d.frags = frags
  <2> HIDE DEF d, made
  <2>1. d = PushDMR(c, k) /\ made = (c.pending + k) \div 3
    BY DEF d, made
  <2>2. /\ made \in Nat /\ d \in DSCall /\ d.ending = c.ending /\ d.stream = c.stream
        /\ Len(d.out) = Len(c.out) + made
        /\ \A i \in 1 .. Len(c.out) : d.out[i] = c.out[i]
        /\ \A i \in 1 .. made : d.out[Len(c.out) + i] = NewBurst(c, i)
        /\ d.burstN = (c.burstN + made) % 6
        /\ d.frags = IF \E i \in 1 .. made : NewBurst(c, i).n = 1
                     THEN c.meta ELSE c.frags
        /\ d.pending = (c.pending + k) % 3
    BY <2>1, Pushed, SMTT(30)
  <2> QED
    BY <2>2
<1>2. /\ L \in Nat /\ DOMAIN c.out = 1 .. L /\ DOMAIN d.out = 1 .. L + made
      /\ \A i \in 1 .. L : c.out[i] \in Bursts
      /\ (c.out = <<>>) <=> (L = 0)
      /\ (d.out = <<>>) <=> (L + made = 0)
      /\ Final(c, a) \in Bursts
  BY <1>1, QueueType
<1>3. /\ c.burstN \in 0 .. 5
      /\ c.burstN + made \in Nat
  <2>1. c.burstN \in 0 .. 5
    BY DEF DSCall
  <2> QED
    BY <1>1, <2>1
<1>4. \A i \in 1 .. made : New(i) \in Burst /\ New(i).n = (c.burstN + (i - 1)) % 6
  BY <1>1, BurstMade
<1> HIDE DEF d, made, L, New, frags
<1>5. InTurn(d, a)
  <2>1. ASSUME NEW i \in 1 .. L PROVE Follows(d.out[i], Before(d, a, i))
    <3>1. Follows(c.out[i], Before(c, a, i))
      BY <1>2 DEF WholeCall, InTurn
    <3>2. d.out[i] = c.out[i] /\ (i = 1 \/ d.out[i - 1] = c.out[i - 1])
      BY <1>1, <1>2
    <3> QED
      BY <3>1, <3>2 DEF Before
  <2>2. ASSUME 1 \in 1 .. made PROVE Follows(d.out[L + 1], Before(d, a, L + 1))
    <3>1. Follows(New(1), Final(c, a))
      BY <1>2, NextFollows DEF WholeCall, New
    <3>2. d.out[L + 1] = New(1)
      BY <1>1, <2>2
    <3>3. Before(d, a, L + 1) = Final(c, a)
      <4>1. CASE L = 0
        BY <1>2, <4>1 DEF Before, Final
      <4>2. CASE L # 0
        <5>1. /\ L \in 1 .. L /\ (L + 1) - 1 = L /\ L + 1 # 1 /\ c.out # <<>>
          BY <1>2, <4>2
        <5>2. d.out[L] = c.out[L]
          BY <1>1, <5>1
        <5> QED
          BY <5>1, <5>2 DEF Before, Final, L
      <4> QED
        BY <4>1, <4>2
    <3> QED
      BY <3>1, <3>2, <3>3
  <2>3. ASSUME NEW j \in Nat \ {0}, j + 1 \in 1 .. made
        PROVE  Follows(d.out[L + (j + 1)], Before(d, a, L + (j + 1)))
    <3>1. Follows(New(j + 1), New(j))
      BY MadeFollows DEF New
    <3>2. /\ j \in 1 .. made /\ L + (j + 1) # 1 /\ (L + (j + 1)) - 1 = L + j
      BY <1>1, <1>2, <2>3
    <3>3. d.out[L + (j + 1)] = New(j + 1) /\ d.out[L + j] = New(j)
      BY <1>1, <2>3, <3>2
    <3> QED
      BY <3>1, <3>2, <3>3 DEF Before
  <2>4. ASSUME NEW i \in 1 .. L + made PROVE Follows(d.out[i], Before(d, a, i))
    <3>1. CASE i <= L
      BY <1>1, <1>2, <2>1, <3>1
    <3>2. CASE i = L + 1
      <4>1. 1 \in 1 .. made
        BY <1>1, <1>2, <3>2
      <4> QED
        BY <2>2, <3>2, <4>1
    <3>3. CASE i > L + 1
      <4>1. /\ (i - L) - 1 \in Nat \ {0} /\ ((i - L) - 1) + 1 \in 1 .. made
            /\ L + (((i - L) - 1) + 1) = i
        BY <1>1, <1>2, <3>3
      <4> QED
        BY <2>3, <4>1
    <3> QED
      BY <1>1, <1>2, <3>1, <3>2, <3>3
  <2> QED
    BY <1>2, <2>4 DEF InTurn
<1>6. Prepared(d, Final(d, a))
  <2>1. CASE made = 0
    <3>1. d.burstN = c.burstN /\ d.frags = c.frags
      BY <1>1, <1>3, <2>1 DEF frags
    <3>2. Final(d, a) = Final(c, a)
      <4>1. Len(d.out) = L
        BY <1>1, <1>2, <2>1
      <4>2. L = 0 \/ d.out[L] = c.out[L]
        BY <1>1, <1>2
      <4> QED
        BY <1>1, <1>2, <2>1, <4>1, <4>2 DEF Final, L
    <3> QED
      BY <3>1, <3>2 DEF WholeCall, Prepared
  <2>2. CASE made # 0
    <3>1. made \in Nat \ {0} /\ made \in 1 .. made /\ L + made # 0
      BY <1>1, <1>2, <2>2
    <3>2. Final(d, a) = New(made)
      BY <1>1, <1>2, <3>1 DEF Final
    <3>3. /\ New(made) \in Burst
          /\ New(made).n = (c.burstN + (made - 1)) % 6
          /\ New(made).n \in 1 .. 4 =>
               New(made).lc = IF made >= New(made).n THEN c.meta ELSE c.frags
      BY <3>1, BurstMade DEF New
    <3> DEFINE n == New(made).n
    <3>4. n \in 0 .. 5 /\ n = (c.burstN + (made - 1)) % 6
      BY <3>3, BurstKinds
    <3> HIDE DEF n
    <3>5. d.burstN = (n + 1) % 6
      BY <1>1, <1>3, <3>1, <3>4, NextNumber
    <3>6. ASSUME n \in 1 .. 3 PROVE New(made).lc = d.frags
      <4>1. CASE made >= n
        <5>1. (made - n) + 1 \in 1 .. made
          BY <1>1, <3>6, <4>1
        <5>2. New((made - n) + 1).n = (c.burstN + (((made - n) + 1) - 1)) % 6
          BY <1>4, <5>1
        <5>3. (c.burstN + (((made - n) + 1) - 1)) % 6 = 1
          BY <1>1, <1>3, <3>1, <3>4, <3>6, <4>1, NumberOne
        <5> QED
          BY <1>1, <3>3, <3>6, <4>1, <5>1, <5>2, <5>3 DEF n, frags
      <4>2. CASE ~ (made >= n)
        <5>1. ASSUME NEW i \in 1 .. made PROVE New(i).n # 1
          <6>1. New(i).n = (c.burstN + (i - 1)) % 6
            BY <1>4
          <6> QED
            BY <1>1, <1>3, <3>1, <3>4, <3>6, <4>2, <6>1, NoNumberOne
        <5> QED
          BY <1>1, <3>3, <3>6, <4>2, <5>1 DEF n, frags
      <4> QED
        BY <4>1, <4>2
    <3>7. d.burstN \in 2 .. 4 => n \in 1 .. 3
      BY <3>4, <3>5
    <3> QED
      BY <3>2, <3>3, <3>5, <3>6, <3>7 DEF Prepared, n
  <2> QED
    BY <2>1, <2>2
<1>7. Numbered(d, a)
  <2> SUFFICES ASSUME ~d.ending
               PROVE  a # Terminator /\ \A i \in DOMAIN d.out : Counted(d, i)
    BY DEF Numbered
  <2>1. a # Terminator /\ \A i \in DOMAIN c.out : Counted(c, i)
    BY <1>1 DEF WholeCall, Numbered
  <2>2. ASSUME NEW i \in 1 .. L PROVE Counted(d, i)
    <3>1. Counted(c, i) /\ d.out[i] = c.out[i]
      BY <1>1, <1>2, <2>1
    <3>2. CASE i = 1 /\ c.out[i] = Header
      BY <3>1, <3>2 DEF Counted
    <3>3. CASE c.out[i] \in Burst /\ (c.out[i].n + ((Len(c.out) + 1) - i)) % 6 = c.burstN
      <4>1. c.out[i].n \in 0 .. 5
        BY <3>3, BurstKinds
      <4>2. (c.out[i].n + ((L + 1) - i)) % 6 = c.burstN
        BY <3>3 DEF L
      <4>3. (c.out[i].n + (((L + made) + 1) - i)) % 6 = (c.burstN + made) % 6
        BY <1>1, <1>2, <1>3, <4>1, <4>2, NumberKept, ZenonT(30)
      <4> QED
        BY <1>1, <3>1, <3>3, <4>3 DEF Counted
    <3> QED
      BY <3>1, <3>2, <3>3 DEF Counted
  <2>3. ASSUME NEW j \in 1 .. made PROVE Counted(d, L + j)
    <3>1. d.out[L + j] = New(j) /\ New(j) \in Burst /\ New(j).n = (c.burstN + (j - 1)) % 6
      BY <1>1, <1>4
    <3>2. (New(j).n + (((L + made) + 1) - (L + j))) % 6 = (c.burstN + made) % 6
      <4>1. (((c.burstN + (j - 1)) % 6) + (((L + made) + 1) - (L + j))) % 6
              = (c.burstN + made) % 6
        BY <1>1, <1>2, <1>3, NumberGiven
      <4> QED
        BY <3>1, <4>1
    <3> QED
      BY <1>1, <3>1, <3>2 DEF Counted
  <2>4. ASSUME NEW i \in 1 .. L + made PROVE Counted(d, i)
    <3>1. CASE i <= L
      BY <1>1, <1>2, <2>2, <3>1
    <3>2. CASE ~ (i <= L)
      <4>1. i - L \in 1 .. made /\ L + (i - L) = i
        BY <1>1, <1>2, <3>2
      <4> QED
        BY <2>3, <4>1
    <3> QED
      BY <3>1, <3>2
  <2> QED
    BY <1>2, <2>1, <2>4
<1> QED
  BY <1>1, <1>5, <1>6, <1>7 DEF WholeCall, d

\* The other steps of the handlers.
LEMMA TranscodedWhole ==
  ASSUME NEW c \in DSCall, NEW a \in Bursts, NEW k \in Nat, WholeCall(c, a)
  PROVE  /\ Transcoded(c, k) \in DSCall /\ Transcoded(c, k).ending = c.ending
         /\ Transcoded(c, k).stream = c.stream
         /\ WholeCall(Transcoded(c, k), a)
<1>1. c.held \in 0 .. Depth
  BY DEF DSCall
<1>2. Min({c.held + k, Depth}) \in 0 .. Depth
  <2>1. c.held + k \in Nat /\ Depth \in Nat
    BY <1>1, BridgeAssumption
  <2> QED
    BY <2>1, SmallerOf
<1>3. Transcoded(c, k) = [c EXCEPT !.held = Min({c.held + k, Depth})]
  BY DEF Transcoded
<1>4. /\ Transcoded(c, k) \in DSCall
      /\ Transcoded(c, k).out = c.out /\ Transcoded(c, k).burstN = c.burstN
      /\ Transcoded(c, k).frags = c.frags /\ Transcoded(c, k).ending = c.ending
      /\ Transcoded(c, k).stream = c.stream
  BY <1>2, <1>3 DEF DSCall
<1> QED
  BY <1>4, SameQueue

LEMMA EndWhole ==
  ASSUME NEW c \in DSCall, NEW a \in Bursts, WholeCall(c, a)
  PROVE  /\ EndToDMR(c) \in DSCall /\ EndToDMR(c).ending = TRUE
         /\ EndToDMR(c).stream = c.stream
         /\ WholeCall(EndToDMR(c), a)
<1>1. CASE c.ending
  <2>1. EndToDMR(c) = c
    BY <1>1 DEF EndToDMR
  <2>2. c.ending = TRUE
    BY <1>1 DEF DSCall
  <2> QED
    BY <2>1, <2>2
<1>2. CASE ~c.ending
  <2> DEFINE b == [c EXCEPT !.held = 0]
             flushed == PushDMR(b, c.held)
             whole == PushDMR(flushed, (3 - flushed.pending) % 3)
             d == EndToDMR(c)
  <2>1. b \in DSCall /\ WholeCall(b, a) /\ b.stream = c.stream
    <3>1. 0 \in 0 .. Depth
      BY BridgeAssumption
    <3>2. /\ b \in DSCall /\ b.out = c.out /\ b.burstN = c.burstN
          /\ b.frags = c.frags /\ b.ending = c.ending /\ b.stream = c.stream
      BY <3>1 DEF DSCall
    <3> QED
      BY <3>2, SameQueue
  <2>2. c.held \in Nat
    BY BridgeAssumption DEF DSCall
  <2> HIDE DEF b
  <2>3. flushed \in DSCall /\ WholeCall(flushed, a) /\ flushed.stream = c.stream
    BY <2>1, <2>2, PushWhole
  <2> HIDE DEF flushed
  <2>4. (3 - flushed.pending) % 3 \in Nat
    <3>1. flushed.pending \in 0 .. 2
      BY <2>3 DEF DSCall
    <3> QED
      BY <3>1
  <2>5. whole \in DSCall /\ WholeCall(whole, a) /\ whole.stream = c.stream
    BY <2>3, <2>4, PushWhole
  <2>6. d = [whole EXCEPT !.out = Append(whole.out, Terminator), !.ending = TRUE]
    BY <1>2 DEF EndToDMR, whole, flushed, b
  <2> HIDE DEF whole, d
  <2> DEFINE L == Len(whole.out)
  <2>7. whole.out \in Seq(Bursts) /\ Terminator \in Bursts
    BY <2>5, BurstKinds DEF DSCall
  <2>8. /\ d \in DSCall /\ d.out = Append(whole.out, Terminator) /\ d.ending = TRUE
        /\ d.stream = c.stream
    <3>1. Append(whole.out, Terminator) \in Seq(Bursts)
      BY <2>7
    <3> DEFINE s == Append(whole.out, Terminator)
    <3> HIDE DEF s
    <3>2. s \in Seq(Bursts) /\ d = [whole EXCEPT !.out = s, !.ending = TRUE]
      BY <2>6, <3>1 DEF s
    <3>3. d \in DSCall /\ d.out = s /\ d.ending = TRUE /\ d.stream = whole.stream
      BY <2>5, <3>2 DEF DSCall
    <3> QED
      BY <2>5, <3>3 DEF s
  <2>9. /\ L \in Nat /\ Len(d.out) = L + 1 /\ d.out[L + 1] = Terminator
        /\ \A i \in 1 .. L : d.out[i] = whole.out[i]
        /\ DOMAIN d.out = 1 .. L + 1 /\ DOMAIN whole.out = 1 .. L
        /\ d.out # <<>>
    BY <2>7, <2>8
  <2> HIDE DEF L
  <2>10. InTurn(d, a)
    <3>1. ASSUME NEW i \in 1 .. L PROVE Follows(d.out[i], Before(d, a, i))
      <4>1. Follows(whole.out[i], Before(whole, a, i))
        BY <2>5, <2>9 DEF WholeCall, InTurn
      <4>2. d.out[i] = whole.out[i] /\ (i = 1 \/ d.out[i - 1] = whole.out[i - 1])
        <5>1. L \in Nat /\ \A j \in 1 .. L : d.out[j] = whole.out[j]
          BY <2>9
        <5>2. i = 1 \/ i - 1 \in 1 .. L
          BY <5>1
        <5> QED
          BY <5>1, <5>2
      <4> QED
        BY <4>1, <4>2 DEF Before
    <3>2. Follows(d.out[L + 1], Before(d, a, L + 1))
      BY <2>9 DEF Follows
    <3>3. \A i \in 1 .. L + 1 : i \in 1 .. L \/ i = L + 1
      BY <2>9
    <3> QED
      BY <2>9, <3>1, <3>2, <3>3 DEF InTurn
  <2>11. Prepared(d, Final(d, a))
    BY <2>9 DEF Prepared, Final
  <2>12. Numbered(d, a)
    BY <2>8 DEF Numbered
  <2> QED
    BY <2>8, <2>10, <2>11, <2>12 DEF WholeCall, d
<1> QED
  BY <1>1, <1>2 DEF DSCall

\* A packet, for any number of missing ones.
LEMMA VoiceWhole ==
  ASSUME NEW c \in DSCall, NEW a \in Bursts, WholeCall(c, a),
         NEW kind, NEW missing \in Gaps, NEW news
  PROVE  /\ VoiceToDMR(c, kind, missing, news) \in DSCall
         /\ VoiceToDMR(c, kind, missing, news).stream = c.stream
         /\ WholeCall(VoiceToDMR(c, kind, missing, news), a)
<1> DEFINE gone == IF c.synced THEN missing ELSE 0
           b == PushDMR(Transcoded(c, gone), gone)
           d == [b EXCEPT !.synced = TRUE]
           meta == IF news /\ d.meta < MaxMeta THEN d.meta + 1 ELSE d.meta
           e == [d EXCEPT !.meta = meta]
<1>1. gone \in Nat
  BY BridgeAssumption
<1> HIDE DEF gone
<1>2. /\ Transcoded(c, gone) \in DSCall /\ WholeCall(Transcoded(c, gone), a)
      /\ Transcoded(c, gone).stream = c.stream
  BY <1>1, TranscodedWhole
<1>3. b \in DSCall /\ WholeCall(b, a) /\ b.stream = c.stream
  BY <1>1, <1>2, PushWhole
<1> HIDE DEF b
<1>4. d \in DSCall /\ WholeCall(d, a) /\ d.stream = c.stream
  <2>1. /\ d \in DSCall /\ d.out = b.out /\ d.burstN = b.burstN
        /\ d.frags = b.frags /\ d.ending = b.ending /\ d.stream = b.stream
    BY <1>3 DEF DSCall
  <2> QED
    BY <1>3, <2>1, SameQueue
<1> HIDE DEF d
<1>5. e \in DSCall /\ WholeCall(e, a) /\ e.stream = c.stream
  <2>1. meta \in 0 .. MaxMeta
    <3>1. d.meta \in 0 .. MaxMeta /\ MaxMeta \in Nat
      BY <1>4, BridgeAssumption DEF DSCall
    <3> QED
      BY <3>1
  <2> HIDE DEF meta
  <2>2. /\ e \in DSCall /\ e.out = d.out /\ e.burstN = d.burstN
        /\ e.frags = d.frags /\ e.ending = d.ending /\ e.stream = d.stream
    BY <1>4, <2>1 DEF DSCall
  <2> QED
    BY <1>4, <2>2, SameQueue
<1>6. VoiceToDMR(c, kind, missing, news) =
        IF kind = "last" THEN EndToDMR(d) ELSE PushDMR(Transcoded(e, 1), 1)
  BY DEF VoiceToDMR, e, d, b, gone
<1> HIDE DEF e
<1>7. EndToDMR(d) \in DSCall /\ WholeCall(EndToDMR(d), a) /\ EndToDMR(d).stream = c.stream
  BY <1>4, EndWhole
<1>8. /\ PushDMR(Transcoded(e, 1), 1) \in DSCall
      /\ WholeCall(PushDMR(Transcoded(e, 1), 1), a)
      /\ PushDMR(Transcoded(e, 1), 1).stream = c.stream
  <2>1. /\ Transcoded(e, 1) \in DSCall /\ WholeCall(Transcoded(e, 1), a)
        /\ Transcoded(e, 1).stream = c.stream
    BY <1>5, TranscodedWhole
  <2> QED
    BY <2>1, PushWhole
<1> QED
  BY <1>6, <1>7, <1>8

(* Dropping from a queue: what is taken out of its middle is a number of   *)
(* whole superframes, from the first burst 0 on, which is near.            *)
LEMMA Removed ==
  ASSUME NEW S, NEW s \in Seq(S), NEW h \in Nat, NEW n \in Nat, h + n <= Len(s)
  PROVE  LET r == SubSeq(s, 1, h) \o SubSeq(s, (h + n) + 1, Len(s))
         IN  /\ r \in Seq(S) /\ Len(r) = Len(s) - n
             /\ \A i \in 1 .. h : r[i] = s[i]
             /\ \A i \in h + 1 .. Len(s) - n : r[i] = s[i + n]
<1> DEFINE a == SubSeq(s, 1, h)
           b == SubSeq(s, (h + n) + 1, Len(s))
           L == Len(s)
<1>1. L \in Nat /\ h + n <= L /\ \A i \in 1 .. L : s[i] \in S
  OBVIOUS
<1>2. \A i \in 1 .. h : s[i] \in S
  BY <1>1
<1>3. a \in Seq(S) /\ Len(a) = h /\ \A i \in 1 .. h : a[i] = s[i]
  <2>1. /\ a \in Seq(S)
        /\ Len(a) = IF 1 <= h THEN h - 1 + 1 ELSE 0
        /\ \A i \in 1 .. h - 1 + 1 : a[i] = s[1 + i - 1]
    BY <1>2, SubSeqProperties
  <2> HIDE DEF a
  <2> QED
    BY <2>1
<1>4. /\ b \in Seq(S) /\ Len(b) = (L - n) - h
      /\ \A i \in 1 .. (L - n) - h : b[i] = s[(h + n) + i]
  <2>1. (h + n) + 1 \in Int /\ \A i \in (h + n) + 1 .. L : s[i] \in S
    BY <1>1
  <2> DEFINE m == (h + n) + 1
  <2>2. m \in Int /\ \A i \in m .. L : s[i] \in S
    BY <2>1
  <2>3. b = SubSeq(s, m, L)
    OBVIOUS
  <2>4. L \in Int
    BY <1>1
  <2> HIDE DEF b, m, L
  <2>5. /\ b \in Seq(S)
        /\ Len(b) = IF m <= L THEN L - m + 1 ELSE 0
        /\ \A i \in 1 .. L - m + 1 : b[i] = s[m + i - 1]
    BY <2>2, <2>3, <2>4, SubSeqProperties
  <2>6. Len(b) = (L - n) - h
    BY <1>1, <2>5 DEF m, L
  <2>7. ASSUME NEW i \in 1 .. (L - n) - h PROVE b[i] = s[(h + n) + i]
    <3>1. i \in 1 .. L - m + 1 /\ m + i - 1 = (h + n) + i
      BY <1>1 DEF m
    <3> QED
      BY <2>5, <3>1
  <2> QED
    BY <2>5, <2>6, <2>7
<1> HIDE DEF a, b, L
<1> DEFINE r == a \o b
<1>5. /\ r \in Seq(S) /\ Len(r) = Len(a) + Len(b)
      /\ \A i \in 1 .. Len(a) + Len(b) :
           r[i] = IF i <= Len(a) THEN a[i] ELSE b[i - Len(a)]
  <2>1. a \in Seq(S) /\ b \in Seq(S)
    BY <1>3, <1>4
  <2> QED
    BY <2>1, ConcatProperties
<1> HIDE DEF r
<1>6. Len(r) = L - n /\ h <= L - n /\ Len(a) + Len(b) = L - n
  <2>1. /\ L \in Nat /\ h + n <= L /\ Len(a) = h /\ Len(b) = (L - n) - h
        /\ Len(r) = Len(a) + Len(b)
    BY <1>1, <1>3, <1>4, <1>5
  <2> QED
    BY <2>1
<1>7. ASSUME NEW i \in 1 .. h PROVE r[i] = s[i]
  <2>1. i \in 1 .. Len(a) + Len(b) /\ i <= Len(a)
    BY <1>1, <1>3, <1>6
  <2> QED
    BY <1>3, <1>5, <2>1
<1>8. ASSUME NEW i \in h + 1 .. L - n PROVE r[i] = s[i + n]
  <2>1. /\ i \in 1 .. L - n /\ ~ (i <= h) /\ i - h \in 1 .. (L - n) - h
        /\ (h + n) + (i - h) = i + n
    BY <1>1, <1>6
  <2> QED
    BY <1>3, <1>4, <1>5, <1>6, <2>1
<1> QED
  BY <1>5, <1>6, <1>7, <1>8 DEF L, r, a, b

LEMMA NumberAhead ==
  ASSUME NEW m \in 0 .. 5, NEW x \in 0 .. 5, NEW L \in Nat, NEW j \in 1 .. 6, j <= L,
         (m + L) % 6 = (x + ((L + 1) - j)) % 6
  PROVE  x = (m + (j - 1)) % 6
OBVIOUS

LEMMA NumberDropped ==
  ASSUME NEW x \in 0 .. 5, NEW L \in Nat, NEW turns \in Nat, NEW i \in Nat,
         i + (6 * turns) <= L
  PROVE  (x + (((L - (6 * turns)) + 1) - i)) % 6 = (x + ((L + 1) - i)) % 6
OBVIOUS

LEMMA NumberSame ==
  ASSUME NEW x \in 0 .. 5, NEW L \in Nat, NEW turns \in Nat, NEW f \in Nat \ {0},
         f + (6 * turns) <= L, NEW b,
         (0 + ((L + 1) - f)) % 6 = b, (x + ((L + 1) - (f + (6 * turns)))) % 6 = b
  PROVE  x = 0
OBVIOUS

\* A queue of six bursts or more has a burst 0 among the first six.
LEMMA FirstZero ==
  ASSUME NEW c \in DSCall, NEW a \in Bursts, WholeCall(c, a), ~c.ending, Len(c.out) >= 6
  PROVE  \E f \in 1 .. 6 : /\ c.out[f] \in Burst /\ c.out[f].n = 0
                           /\ \A j \in 1 .. f - 1 : c.out[j].n # 0
<1> DEFINE L == Len(c.out)
           N(j) == c.out[j].n
<1>1. L \in Nat /\ DOMAIN c.out = 1 .. L /\ \A i \in 1 .. L : c.out[i] \in Bursts
  BY QueueType
<1>2. \A i \in 1 .. L : Counted(c, i) /\ Follows(c.out[i], Before(c, a, i))
  BY <1>1 DEF WholeCall, Numbered, InTurn
<1>3. \A j \in 2 .. 6 : /\ c.out[j] \in Burst /\ N(j) \in 0 .. 5
                        /\ (N(j) + ((L + 1) - j)) % 6 = c.burstN
  <2>1. ASSUME NEW j \in 2 .. 6
        PROVE  c.out[j] \in Burst /\ (N(j) + ((L + 1) - j)) % 6 = c.burstN
    <3>1. j \in 1 .. L /\ j # 1
      BY <1>1
    <3> QED
      BY <1>2, <3>1 DEF Counted
  <2> QED
    BY <2>1, BurstKinds
<1>4. CASE c.out[1] = Header
  <2>1. Follows(c.out[2], Header)
    <3>1. 2 \in 1 .. L /\ 2 # 1 /\ 2 - 1 = 1
      BY <1>1
    <3> QED
      BY <1>2, <1>4, <3>1 DEF Before
  <2>2. N(2) = 0
    <3>1. c.out[2] # Header /\ c.out[2] # Terminator /\ Header # Terminator
      <4>1. c.out[2] \in Bursts /\ N(2) \in 0 .. 5
        BY <1>3 DEF Bursts
      <4> QED
        BY <4>1, BurstKinds
    <3>2. N(2) = 0 \/ Header.n = N(2) - 1
      BY <2>1, <3>1 DEF Follows
    <3>3. N(2) \in 0 .. 5 /\ Header.n = 6
      BY <1>3, BurstKinds
    <3> HIDE DEF N
    <3> QED
      BY <3>2, <3>3
  <2>3. N(1) # 0
    BY <1>4, BurstKinds
  <2>4. \A j \in 1 .. 2 - 1 : N(j) # 0
    BY <2>3
  <2> QED
    BY <1>3, <2>2, <2>4
<1>5. CASE c.out[1] \in Burst /\ (N(1) + ((L + 1) - 1)) % 6 = c.burstN
  <2>1. N(1) \in 0 .. 5
    BY <1>5, BurstKinds
  <2>2. \A j \in 1 .. 6 : N(j) = (N(1) + (j - 1)) % 6
    <3>1. ASSUME NEW j \in 1 .. 6 PROVE N(j) = (N(1) + (j - 1)) % 6
      <4> DEFINE m == N(1)
                 x == N(j)
      <4>1. x \in 0 .. 5 /\ (x + ((L + 1) - j)) % 6 = c.burstN
        <5>1. CASE j = 1
          BY <1>5, <2>1, <5>1
        <5>2. CASE j # 1
          <6>1. j \in 2 .. 6
            BY <5>2
          <6> QED
            BY <1>3, <6>1
        <5> QED
          BY <5>1, <5>2
      <4>2. j <= L
        BY <1>1
      <4>3. m \in 0 .. 5 /\ (m + ((L + 1) - 1)) % 6 = c.burstN
        BY <1>5, <2>1
      <4> HIDE DEF m, x, L
      <4>4. L \in Nat /\ (m + L) % 6 = (x + ((L + 1) - j)) % 6
        BY <1>1, <4>1, <4>3
      <4>5. x = (m + (j - 1)) % 6
        BY <4>1, <4>2, <4>3, <4>4, NumberAhead
      <4> QED
        BY <4>5 DEF m, x
    <3> QED
      BY <3>1
  <2>3. CASE N(1) = 0
    <3>1. \A j \in 1 .. 1 - 1 : c.out[j].n # 0
      OBVIOUS
    <3> QED
      BY <1>5, <2>3, <3>1
  <2>4. CASE N(1) # 0
    <3> DEFINE f == 7 - N(1)
    <3>1. f \in 2 .. 6
      BY <2>1, <2>4
    <3>2. N(f) = 0 /\ \A j \in 1 .. f - 1 : N(j) # 0
      <4>1. N(f) = (N(1) + (f - 1)) % 6
        BY <2>2, <3>1
      <4>2. ASSUME NEW j \in 1 .. f - 1 PROVE N(j) # 0
        <5>1. N(j) = (N(1) + (j - 1)) % 6
          BY <2>2, <3>1
        <5> HIDE DEF N
        <5> QED
          BY <2>1, <2>4, <5>1
      <4> HIDE DEF N
      <4> QED
        BY <2>1, <4>1, <4>2
    <3> HIDE DEF f
    <3>3. f \in 1 .. 6 /\ c.out[f] \in Burst
      BY <1>3, <3>1, SMTT(30)
    <3> QED
      BY <3>2, <3>3
  <2> QED
    BY <2>3, <2>4
<1>6. Counted(c, 1)
  BY <1>1, <1>2
<1> QED
  BY <1>4, <1>5, <1>6 DEF Counted

LEMMA CappedWhole ==
  ASSUME NEW c \in DSCall, NEW a \in Bursts, WholeCall(c, a)
  PROVE  /\ Capped(c) \in DSCall /\ Capped(c).ending = c.ending
         /\ WholeCall(Capped(c), a)
         /\ MaxQueue >= 15 /\ ~c.ending => Len(Capped(c).out) <= Lim + 6
<1> DEFINE L == Len(c.out)
           h == Cardinality({i \in DOMAIN c.out : \A j \in 1 .. i : c.out[j].n # 0})
           n == ((L - Lim) \div 6) * 6
           d == [c EXCEPT !.out = SubSeq(c.out, 1, h) \o SubSeq(c.out, h + n + 1, L)]
<1>1. /\ L \in Nat /\ DOMAIN c.out = 1 .. L /\ \A i \in 1 .. L : c.out[i] \in Bursts
      /\ c.out \in Seq(Bursts)
  BY QueueType DEF DSCall
<1>2. /\ Lim \in Nat
      /\ MaxQueue >= 15 => Lim >= 5
  BY BridgeAssumption DEF Lim
<1>3. Capped(c) = IF L > Lim + 6 /\ ~c.ending /\ h + n <= L THEN d ELSE c
  BY DEF Capped
<1> HIDE DEF L, h, n, d
<1>4. CASE ~ (L > Lim + 6 /\ ~c.ending)
  <2>1. Capped(c) = c
    BY <1>3, <1>4
  <2>2. ~c.ending => L <= Lim + 6
    BY <1>1, <1>2, <1>4
  <2> QED
    BY <2>1, <2>2 DEF L
<1>5. CASE L > Lim + 6 /\ ~c.ending
  <2>1. PICK turns \in Nat : n = 6 * turns /\ turns >= 1 /\ n <= L - Lim
    <3>1. (L - Lim) \div 6 \in Nat /\ (L - Lim) \div 6 >= 1
          /\ ((L - Lim) \div 6) * 6 <= L - Lim
      BY <1>1, <1>2, <1>5
    <3>2. n = 6 * ((L - Lim) \div 6)
      BY <3>1 DEF n
    <3> QED
      BY <3>1, <3>2
  <2>2. L >= 7
    BY <1>1, <1>2, <1>5
  <2>3. PICK f \in 1 .. 6 : /\ c.out[f] \in Burst /\ c.out[f].n = 0
                            /\ \A j \in 1 .. f - 1 : c.out[j].n # 0
    BY <1>1, <1>5, <2>2, FirstZero DEF L
  <2>4. h = f - 1
    <3>1. {i \in DOMAIN c.out : \A j \in 1 .. i : c.out[j].n # 0} = 1 .. f - 1
      <4>1. ASSUME NEW i \in 1 .. L, \A j \in 1 .. i : c.out[j].n # 0 PROVE i \in 1 .. f - 1
        <5>1. ~ (f <= i)
          BY <2>3, <4>1
        <5> QED
          BY <1>1, <5>1
      <4>2. ASSUME NEW i \in 1 .. f - 1
            PROVE  i \in 1 .. L /\ \A j \in 1 .. i : c.out[j].n # 0
        BY <1>1, <2>2, <2>3
      <4> QED
        BY <1>1, <4>1, <4>2
    <3>2. Cardinality(1 .. f - 1) = f - 1
      <4>1. 1 \in Int /\ f - 1 \in Int
        OBVIOUS
      <4>2. Cardinality(1 .. f - 1) = IF 1 > f - 1 THEN 0 ELSE ((f - 1) - 1) + 1
        BY <4>1, FS_Interval
      <4> QED
        BY <4>2
    <3> QED
      BY <3>1, <3>2 DEF h
  <2>5. CASE ~ (h + n <= L)
    <3>1. Capped(c) = c
      BY <1>3, <2>5
    <3>2. ~ (MaxQueue >= 15)
      BY <1>1, <1>2, <2>1, <2>4, <2>5
    <3> QED
      BY <3>1, <3>2
  <2>6. CASE h + n <= L
    <3>1. Capped(c) = d
      BY <1>3, <1>5, <2>6
    <3>2. h \in 0 .. 5 /\ h \in Nat /\ n \in Nat /\ h + n + 1 = (h + n) + 1 /\ h + 1 = f
      BY <2>1, <2>4
    <3> DEFINE r == SubSeq(c.out, 1, h) \o SubSeq(c.out, (h + n) + 1, Len(c.out))
    <3>3. /\ r \in Seq(Bursts) /\ Len(r) = L - n
          /\ \A i \in 1 .. h : r[i] = c.out[i]
          /\ \A i \in h + 1 .. L - n : r[i] = c.out[i + n]
      BY <1>1, <2>6, <3>2, Removed, ZenonT(30) DEF L
    <3>4. d = [c EXCEPT !.out = r]
      BY <3>2 DEF d, L
    <3> HIDE DEF r
    <3>5. /\ d \in DSCall /\ d.out = r /\ d.ending = c.ending /\ d.burstN = c.burstN
          /\ d.frags = c.frags
      BY <3>3, <3>4 DEF DSCall
    <3>6. L - n \in Nat /\ DOMAIN d.out = 1 .. L - n /\ Len(d.out) = L - n
      BY <3>3, <3>5
    <3>7. \A i \in 1 .. L : Counted(c, i) /\ Follows(c.out[i], Before(c, a, i))
      BY <1>1, <1>5 DEF WholeCall, Numbered, InTurn
    <3>8. \A i \in 2 .. L : /\ c.out[i] \in Burst /\ c.out[i].n \in 0 .. 5
                            /\ (c.out[i].n + ((L + 1) - i)) % 6 = c.burstN
      <4>1. ASSUME NEW i \in 2 .. L
            PROVE  c.out[i] \in Burst /\ (c.out[i].n + ((L + 1) - i)) % 6 = c.burstN
        <5>1. i \in 1 .. L /\ i # 1
          BY <1>1
        <5> QED
          BY <3>7, <5>1 DEF Counted, L
      <4> QED
        BY <4>1, BurstKinds
    <3>9. /\ f \in 1 .. L /\ (0 + ((L + 1) - f)) % 6 = c.burstN
          /\ Before(c, a, f) \in Bursts
          /\ Before(c, a, f) = Terminator \/ Before(c, a, f) = Header
             \/ Before(c, a, f).n = 5
      <4>1. f \in 1 .. L
        BY <1>1, <2>2
      <4>2. c.out[f] # Header /\ c.out[f] # Terminator
        <5>1. c.out[f] \in Bursts
          BY <1>1, <4>1
        <5> QED
          BY <2>3, <5>1, BurstKinds
      <4>3. (0 + ((L + 1) - f)) % 6 = c.burstN
        BY <2>3, <3>7, <4>1, <4>2 DEF Counted, L
      <4>4. Before(c, a, f) \in Bursts
        <5>1. f = 1 \/ f - 1 \in 1 .. L
          BY <1>1, <4>1
        <5> QED
          BY <1>1, <5>1 DEF Before
      <4>5. Follows(c.out[f], Before(c, a, f))
        BY <3>7, <4>1
      <4> QED
        BY <2>3, <4>1, <4>2, <4>3, <4>4, <4>5 DEF Follows
    <3>10. InTurn(d, a)
      <4>1. ASSUME NEW i \in 1 .. h PROVE Follows(d.out[i], Before(d, a, i))
        <5>1. i \in 1 .. L /\ (i = 1 \/ i - 1 \in 1 .. h)
          BY <1>1, <2>2, <3>2
        <5>2. Follows(c.out[i], Before(c, a, i))
          BY <3>7, <5>1
        <5> QED
          BY <3>3, <3>5, <5>1, <5>2 DEF Before
      <4>2. ASSUME f \in 1 .. L - n PROVE Follows(d.out[f], Before(d, a, f))
        <5>1. d.out[f] = c.out[f + n] /\ f + n \in 2 .. L
          BY <1>1, <2>1, <3>2, <3>3, <3>5, <4>2
        <5>2. c.out[f + n].n = 0
          <6>1. /\ c.out[f + n].n \in 0 .. 5
                /\ (c.out[f + n].n + ((L + 1) - (f + (6 * turns)))) % 6 = c.burstN
                /\ f + (6 * turns) <= L /\ f \in Nat \ {0}
            <7>1. f + n \in 2 .. L /\ n = 6 * turns
              BY <2>1, <5>1
            <7>2. /\ c.out[f + n].n \in 0 .. 5
                  /\ (c.out[f + n].n + ((L + 1) - (f + n))) % 6 = c.burstN
              BY <3>8, <7>1
            <7> QED
              BY <7>1, <7>2
          <6> DEFINE x == c.out[f + n].n
          <6> HIDE DEF x
          <6>2. x \in 0 .. 5 /\ (x + ((L + 1) - (f + (6 * turns)))) % 6 = c.burstN
            BY <6>1 DEF x
          <6>3. x = 0
            BY <1>1, <3>9, <6>1, <6>2, NumberSame
          <6> QED
            BY <6>3 DEF x
        <5>3. Before(d, a, f) = Before(c, a, f)
          <6>1. f = 1 \/ f - 1 \in 1 .. h
            BY <3>2
          <6> QED
            BY <3>3, <3>5, <6>1 DEF Before
        <5> QED
          BY <3>9, <5>1, <5>2, <5>3 DEF Follows
      <4>3. ASSUME NEW i \in f + 1 .. L - n PROVE Follows(d.out[i], Before(d, a, i))
        <5>1. /\ i \in h + 1 .. L - n /\ i - 1 \in h + 1 .. L - n
              /\ i + n \in 1 .. L /\ (i + n) - 1 = (i - 1) + n /\ i # 1 /\ i + n # 1
          BY <1>1, <3>2
        <5>2. d.out[i] = c.out[i + n] /\ d.out[i - 1] = c.out[(i + n) - 1]
          BY <3>3, <3>5, <5>1
        <5>3. Follows(c.out[i + n], Before(c, a, i + n))
          BY <3>7, <5>1
        <5> QED
          BY <5>1, <5>2, <5>3 DEF Before
      <4>4. \A i \in 1 .. L - n : i \in 1 .. h \/ i = f \/ i \in f + 1 .. L - n
        BY <3>2, <3>6
      <4> QED
        BY <3>6, <4>1, <4>2, <4>3, <4>4 DEF InTurn
    <3>11. Prepared(d, Final(d, a))
      <4>1. CASE h + n < L
        <5>1. L - n \in h + 1 .. L - n /\ (L - n) + n = L /\ L - n # 0 /\ L # 0
          BY <1>1, <3>2, <4>1
        <5>2. Final(d, a) = Final(c, a)
          BY <1>1, <3>3, <3>5, <3>6, <5>1 DEF Final, L
        <5> QED
          BY <3>5, <5>2 DEF WholeCall, Prepared
      <4>2. CASE h + n = L
        <5>1. Final(d, a) = Before(c, a, f)
          <6>1. L - n = h /\ f - 1 = h
            BY <1>1, <3>2, <4>2
          <6>2. CASE h = 0
            BY <3>3, <3>5, <3>6, <6>1, <6>2 DEF Final, Before
          <6>3. CASE h # 0
            <7>1. h \in 1 .. h /\ f # 1
              BY <3>2, <6>3
            <7>2. d.out # <<>>
              BY <3>6, <6>1, <6>3
            <7> QED
              BY <3>3, <3>5, <3>6, <6>1, <7>1, <7>2 DEF Final, Before
          <6> QED
            BY <6>2, <6>3
        <5>2. d.burstN = 0
          <6>1. (L + 1) - f = 6 * turns
            BY <1>1, <2>1, <3>2, <4>2
          <6>2. (6 * turns) % 6 = 0
            OBVIOUS
          <6> QED
            BY <3>5, <3>9, <6>1, <6>2
        <5>3. ASSUME Before(c, a, f).n = 5 PROVE Before(c, a, f) \in Burst
          BY <3>9, <5>3, BurstKinds
        <5> QED
          BY <3>9, <5>1, <5>2, <5>3 DEF Prepared
      <4> QED
        BY <1>1, <2>6, <3>2, <4>1, <4>2
    <3>12. Numbered(d, a)
      <4>1. ASSUME NEW i \in 1 .. h PROVE Counted(d, i)
        <5>1. i \in 1 .. L /\ d.out[i] = c.out[i] /\ i + (6 * turns) <= L
          BY <1>1, <2>1, <2>2, <2>6, <3>2, <3>3, <3>5
        <5>2. CASE i = 1 /\ c.out[i] = Header
          BY <5>1, <5>2 DEF Counted
        <5>3. CASE c.out[i] \in Burst /\ (c.out[i].n + ((L + 1) - i)) % 6 = c.burstN
          <6>1. c.out[i].n \in 0 .. 5
            BY <5>3, BurstKinds
          <6> DEFINE x == c.out[i].n
          <6> HIDE DEF x
          <6>2. x \in 0 .. 5 /\ (x + ((L + 1) - i)) % 6 = c.burstN /\ i \in Nat
            BY <3>2, <5>3, <6>1 DEF x
          <6>3. (x + (((L - (6 * turns)) + 1) - i)) % 6 = (x + ((L + 1) - i)) % 6
            BY <1>1, <5>1, <6>2, NumberDropped
          <6>4. (c.out[i].n + (((L - n) + 1) - i)) % 6 = c.burstN
            BY <2>1, <6>2, <6>3 DEF x
          <6> QED
            BY <3>5, <3>6, <5>1, <5>3, <6>4 DEF Counted
        <5> QED
          BY <3>7, <5>1, <5>2, <5>3 DEF Counted, L
      <4>2. ASSUME NEW i \in h + 1 .. L - n PROVE Counted(d, i)
        <5>1. /\ i + n \in 2 .. L /\ d.out[i] = c.out[i + n]
              /\ ((L - n) + 1) - i = (L + 1) - (i + n)
          BY <1>1, <2>1, <3>2, <3>3, <3>5
        <5> QED
          BY <3>5, <3>6, <3>8, <5>1 DEF Counted
      <4>3. \A i \in 1 .. L - n : i \in 1 .. h \/ i \in h + 1 .. L - n
        BY <3>2, <3>6
      <4>4. a # Terminator
        BY <1>5 DEF WholeCall, Numbered
      <4> QED
        BY <3>6, <4>1, <4>2, <4>3, <4>4 DEF Numbered
    <3>13. Len(d.out) <= Lim + 6
      <4>1. L - n <= Lim + 6
        BY <1>1, <1>2 DEF n
      <4> QED
        BY <3>6, <4>1
    <3> QED
      BY <3>1, <3>5, <3>10, <3>11, <3>12, <3>13 DEF WholeCall
  <2> QED
    BY <2>5, <2>6
<1> QED
  BY <1>4, <1>5

(* The call to D-STAR, and the own stream numbers.                         *)
LEMMA VoiceType ==
  ASSUME NEW s \in Seq({"header", "voice", "last"}), NEW k \in Nat
  PROVE  LET r == s \o [i \in 1 .. k |-> "voice"]
         IN  /\ r \in Seq({"header", "voice", "last"})
             /\ r \o <<"last">> \in Seq({"header", "voice", "last"})
<1> DEFINE K == {"header", "voice", "last"}
           v == [i \in 1 .. k |-> "voice"]
<1>1. v \in Seq(K)
  <2>1. v \in [1 .. k -> K]
    OBVIOUS
  <2> QED
    BY <2>1, SeqDef
<1>2. <<"last">> \in Seq(K)
  OBVIOUS
<1> HIDE DEF v, K
<1>3. s \o v \in Seq(K)
  BY <1>1 DEF K
<1> QED
  BY <1>1, <1>2, <1>3 DEF v, K

LEMMA PushDSType ==
  ASSUME NEW c \in DMRCall, NEW k \in Nat
  PROVE  PushDS(c, k) \in DMRCall /\ PushDS(c, k).stream = c.stream
<1> DEFINE queued == c.out \o [i \in 1 .. k |-> "voice"]
           held == Min({c.held + k, Depth})
<1>1. c.held + k \in Nat /\ Depth \in Nat
  BY BridgeAssumption DEF DMRCall
<1>2. held \in 0 .. Depth
  BY <1>1, SmallerOf
<1>3. queued \in Seq({"header", "voice", "last"})
  BY VoiceType DEF DMRCall
<1>4. PushDS(c, k) = [c EXCEPT !.out = queued, !.held = held]
  BY DEF PushDS
<1> HIDE DEF queued, held
<1> QED
  BY <1>2, <1>3, <1>4 DEF DMRCall

LEMMA EndToDSType ==
  ASSUME NEW c \in DMRCall
  PROVE  EndToDS(c) \in DMRCall /\ EndToDS(c).stream = c.stream
<1> DEFINE queued == c.out \o [i \in 1 .. c.held |-> "voice"] \o <<"last">>
<1>1. c.held \in Nat /\ 0 \in 0 .. Depth
  BY BridgeAssumption DEF DMRCall
<1>2. queued \in Seq({"header", "voice", "last"})
  BY <1>1, VoiceType DEF DMRCall
<1>3. EndToDS(c) = IF c.ending THEN c
                   ELSE [c EXCEPT !.out = queued, !.held = 0, !.ending = TRUE]
  BY DEF EndToDS
<1> HIDE DEF queued
<1> QED
  BY <1>1, <1>2, <1>3 DEF DMRCall

LEMMA CappedDSType ==
  ASSUME NEW c \in DMRCall
  PROVE  /\ CappedDS(c) \in DMRCall /\ CappedDS(c).ending = c.ending
         /\ ~c.ending => Len(CappedDS(c).out) <= MaxQueue
<1> DEFINE L == Len(c.out)
           K == {"header", "voice", "last"}
           h == IF c.out # <<>> /\ Head(c.out) = "header" THEN 1 ELSE 0
           n == L - MaxQueue
           r == SubSeq(c.out, 1, h) \o SubSeq(c.out, (h + n) + 1, L)
<1>1. c.out \in Seq(K) /\ L \in Nat /\ MaxQueue \in Nat /\ MaxQueue >= 1
  BY BridgeAssumption DEF DMRCall
<1>2. h \in 0 .. 1
  OBVIOUS
<1>3. CappedDS(c) = IF n > 0 /\ ~c.ending THEN [c EXCEPT !.out = r] ELSE c
  <2>1. h + n + 1 = (h + n) + 1
    BY <1>1, <1>2
  <2> QED
    BY <2>1 DEF CappedDS
<1>4. n > 0 => r \in Seq(K) /\ Len(r) = L - n
  <2> SUFFICES ASSUME n > 0 PROVE r \in Seq(K) /\ Len(r) = L - n
    OBVIOUS
  <2> HIDE DEF h, K
  <2>1. h \in Nat /\ n \in Nat /\ h + n <= L
    BY <1>1, <1>2
  <2> HIDE DEF n, r, L
  <2>2. r = SubSeq(c.out, 1, h) \o SubSeq(c.out, (h + n) + 1, Len(c.out))
    BY DEF r, L
  <2>3. c.out \in Seq(K) /\ h \in Nat /\ n \in Nat /\ h + n <= Len(c.out)
    BY <1>1, <2>1 DEF L
  <2> QED
    BY <2>2, <2>3, Removed, ZenonT(30) DEF L
<1> HIDE DEF r, h
<1>5. n \in Int /\ (~ (n > 0) => L <= MaxQueue) /\ L - n = MaxQueue
  BY <1>1
<1> HIDE DEF n
<1> QED
  BY <1>1, <1>3, <1>4, <1>5, SMTT(30) DEF DMRCall

LEMMA NumbersKept ==
  ASSUME NEW Mine, NEW own \in UNION {[S -> 0 .. OwnTicks] : S \in SUBSET Mine}
  PROVE  /\ Aged(own) \in UNION {[S -> 0 .. OwnTicks] : S \in SUBSET Mine}
         /\ \A i \in Mine : Drawn(own, i) \in UNION {[S -> 0 .. OwnTicks] : S \in SUBSET Mine}
<1>1. PICK S \in SUBSET Mine : own \in [S -> 0 .. OwnTicks]
  OBVIOUS
<1>2. Aged(own) \in UNION {[T -> 0 .. OwnTicks] : T \in SUBSET Mine}
  <2> DEFINE T == {j \in DOMAIN own : own[j] < OwnTicks}
  <2>1. T \in SUBSET Mine
    BY <1>1
  <2>2. ASSUME NEW i \in T PROVE own[i] + 1 \in 0 .. OwnTicks
    BY <1>1, <2>2, BridgeAssumption
  <2>3. Aged(own) \in [T -> 0 .. OwnTicks]
    BY <2>2 DEF Aged
  <2> QED
    BY <2>1, <2>3
<1>3. ASSUME NEW i \in Mine
      PROVE  Drawn(own, i) \in UNION {[T -> 0 .. OwnTicks] : T \in SUBSET Mine}
  <2> DEFINE T == DOMAIN own \cup {i}
  <2>1. T \in SUBSET Mine
    BY <1>1
  <2>2. 0 \in 0 .. OwnTicks
    BY BridgeAssumption
  <2>3. Drawn(own, i) \in [T -> 0 .. OwnTicks]
    BY <1>1, <2>2 DEF Drawn
  <2> QED
    BY <2>1, <2>3
<1> QED
  BY <1>2, <1>3

(* The ticks.                                                              *)
LEMMA OlderType ==
  /\ \A c \in DSCall : /\ Older(c) \in DSCall /\ Older(c).out = c.out
                       /\ Older(c).burstN = c.burstN /\ Older(c).frags = c.frags
                       /\ Older(c).ending = c.ending
  /\ \A c \in DMRCall : Older(c) \in DMRCall
<1>1. ASSUME NEW c, c \in DSCall \/ c \in DMRCall
      PROVE  /\ Min({c.idle + 1, Timeout}) \in 0 .. Timeout
             /\ Min({c.age + 1, MaxCall}) \in 0 .. MaxCall
  <2>1. c.idle + 1 \in Nat /\ c.age + 1 \in Nat /\ Timeout \in Nat /\ MaxCall \in Nat
    BY <1>1, BridgeAssumption DEF DSCall, DMRCall
  <2> QED
    BY <2>1, SmallerOf
<1>2. ASSUME NEW c PROVE Older(c) = [c EXCEPT !.idle = Min({c.idle + 1, Timeout}),
                                              !.age = Min({c.age + 1, MaxCall})]
  BY DEF Older
<1>3. ASSUME NEW c \in DSCall
      PROVE  /\ Older(c) \in DSCall /\ Older(c).out = c.out
             /\ Older(c).burstN = c.burstN /\ Older(c).frags = c.frags
             /\ Older(c).ending = c.ending
  BY <1>1, <1>2 DEF DSCall
<1>4. ASSUME NEW c \in DMRCall PROVE Older(c) \in DMRCall
  BY <1>1, <1>2 DEF DMRCall
<1> QED
  BY <1>3, <1>4

LEMMA CheckedWhole ==
  ASSUME NEW c \in DSCall, NEW a \in Bursts, WholeCall(c, a)
  PROVE  LET d == Capped(Checked(Older(c)))
         IN  /\ d \in DSCall /\ WholeCall(d, a)
             /\ MaxQueue >= 15 /\ ~d.ending => Len(d.out) <= Lim + 6
<1> DEFINE o == Older(c)
           e == Checked(o)
<1>1. o \in DSCall /\ WholeCall(o, a)
  BY OlderType, SameQueue
<1> HIDE DEF o
<1>2. e \in DSCall /\ WholeCall(e, a)
  BY <1>1, EndWhole DEF Checked
<1> HIDE DEF e
<1>3. /\ Capped(e) \in DSCall /\ Capped(e).ending = e.ending /\ WholeCall(Capped(e), a)
      /\ MaxQueue >= 15 /\ ~e.ending => Len(Capped(e).out) <= Lim + 6
  BY <1>2, CappedWhole
<1> QED
  BY <1>3 DEF e, o

\* The oldest burst is sent, and the call goes on with the rest.
LEMMA SentWhole ==
  ASSUME NEW c \in DSCall, NEW a \in Bursts, WholeCall(c, a), c.out # <<>>
  PROVE  LET d == [c EXCEPT !.out = Tail(c.out)]
         IN  /\ d \in DSCall /\ WholeCall(d, Head(c.out)) /\ Head(c.out) \in Bursts
             /\ d.ending = c.ending /\ Len(d.out) <= Len(c.out)
<1> DEFINE d == [c EXCEPT !.out = Tail(c.out)]
           L == Len(c.out)
           b == c.out[1]
<1>1. /\ L \in Nat \ {0} /\ DOMAIN c.out = 1 .. L /\ \A i \in 1 .. L : c.out[i] \in Bursts
      /\ c.out \in Seq(Bursts)
  BY QueueType DEF DSCall
<1>2. /\ Tail(c.out) \in Seq(Bursts) /\ Len(Tail(c.out)) = L - 1
      /\ \A i \in 1 .. L - 1 : Tail(c.out)[i] = c.out[i + 1]
      /\ Head(c.out) = b
  BY <1>1, HeadTailProperties
<1>3. /\ d \in DSCall /\ d.out = Tail(c.out) /\ d.burstN = c.burstN /\ d.frags = c.frags
      /\ d.ending = c.ending
  BY <1>2 DEF DSCall
<1> HIDE DEF d, L, b
<1>4. /\ Len(d.out) = L - 1 /\ DOMAIN d.out = 1 .. L - 1
      /\ (d.out = <<>>) <=> (L = 1)
      /\ \A i \in 1 .. L - 1 : d.out[i] = c.out[i + 1]
      /\ b = c.out[1] /\ b \in Bursts
  <2>1. Len(d.out) = L - 1 /\ d.out \in Seq(Bursts)
    BY <1>2, <1>3
  <2>2. DOMAIN d.out = 1 .. L - 1 /\ ((d.out = <<>>) <=> (Len(d.out) = 0))
    BY <1>3, <2>1, QueueType
  <2>3. (d.out = <<>>) <=> (L = 1)
    BY <1>1, <2>1, <2>2
  <2>4. \A i \in 1 .. L - 1 : d.out[i] = c.out[i + 1]
    BY <1>2, <1>3
  <2>5. b = c.out[1] /\ b \in Bursts
    BY <1>1 DEF b
  <2> QED
    BY <2>1, <2>2, <2>3, <2>4, <2>5
<1>5. InTurn(d, b)
  <2>1. ASSUME NEW i \in 1 .. L - 1 PROVE Follows(d.out[i], Before(d, b, i))
    <3>1. /\ i + 1 \in 1 .. L /\ i + 1 # 1 /\ (i + 1) - 1 = i
          /\ i = 1 \/ (i - 1 \in 1 .. L - 1 /\ (i - 1) + 1 = i)
      BY <1>1
    <3>2. Follows(c.out[i + 1], Before(c, a, i + 1))
      BY <1>1, <3>1 DEF WholeCall, InTurn
    <3>3. Before(c, a, i + 1) = c.out[i]
      BY <3>1 DEF Before
    <3>4. Before(d, b, i) = c.out[i]
      BY <1>4, <3>1 DEF Before
    <3> QED
      BY <1>4, <3>2, <3>3, <3>4
  <2> QED
    BY <1>4, <2>1 DEF InTurn
<1>6. Final(d, b) = Final(c, a)
  <2>1. c.out # <<>> /\ Final(c, a) = c.out[L]
    BY DEF Final, L
  <2>2. CASE L = 1
    BY <1>4, <2>1, <2>2 DEF Final
  <2>3. CASE L # 1
    <3>1. L - 1 \in 1 .. L - 1 /\ (L - 1) + 1 = L
      BY <1>1, <2>3
    <3> QED
      BY <1>4, <2>1, <2>3, <3>1 DEF Final
  <2> QED
    BY <2>2, <2>3
<1>7. Prepared(d, Final(d, b))
  BY <1>3, <1>6 DEF WholeCall, Prepared
<1>8. Numbered(d, b)
  <2> SUFFICES ASSUME ~c.ending
               PROVE  b # Terminator /\ \A i \in 1 .. L - 1 : Counted(d, i)
    BY <1>3, <1>4 DEF Numbered
  <2>1. \A i \in 1 .. L : Counted(c, i)
    BY <1>1 DEF WholeCall, Numbered
  <2>2. b # Terminator
    <3>1. Counted(c, 1)
      BY <1>1, <2>1
    <3>2. b = Header \/ b \in Burst
      BY <3>1 DEF Counted, b
    <3>3. b.n # 7
      BY <3>2, BurstKinds
    <3> QED
      BY <3>3, BurstKinds
  <2>3. ASSUME NEW i \in 1 .. L - 1 PROVE Counted(d, i)
    <3>1. /\ i + 1 \in 1 .. L /\ i + 1 # 1
          /\ ((L - 1) + 1) - i = (L + 1) - (i + 1)
      <4>1. L \in Nat \ {0}
        BY <1>1
      <4> QED
        BY <4>1
    <3>2. c.out[i + 1] \in Burst /\ (c.out[i + 1].n + ((L + 1) - (i + 1))) % 6 = c.burstN
      BY <2>1, <3>1 DEF Counted, L
    <3> QED
      BY <1>3, <1>4, <3>1, <3>2 DEF Counted
  <2> QED
    BY <2>2, <2>3
<1>9. Len(d.out) <= Len(c.out)
  BY <1>1, <1>4 DEF L
<1> QED
  BY <1>2, <1>3, <1>4, <1>5, <1>7, <1>8, <1>9 DEF WholeCall, d

LEMMA TickToDMRKept ==
  ASSUME CallsInv, TickToDMR
  PROVE  /\ toDMR' \in DSCall \cup {NoCall} /\ air' \in Bursts
         /\ toDMR = NoCall => toDMR' = NoCall
         /\ toDMR' # NoCall => WholeCall(toDMR', air')
         /\ MaxQueue >= 15 =>
              (toDMR' # NoCall /\ ~toDMR'.ending => Len(toDMR'.out) <= Lim + 6)
<1>1. CASE toDMR = NoCall
  BY <1>1 DEF TickToDMR, CallsInv, DStarTypeOK
<1>2. CASE toDMR # NoCall
  <2> DEFINE c == Capped(Checked(Older(toDMR)))
             due == phase = 2 /\ c.out # <<>> /\ (Len(c.out) >= 2 \/ c.ending)
             rest == IF due THEN Tail(c.out) ELSE c.out
             d == [c EXCEPT !.out = rest]
  <2>1. toDMR \in DSCall /\ air \in Bursts /\ WholeCall(toDMR, air)
    BY <1>2 DEF CallsInv, DStarTypeOK
  <2>2. /\ c \in DSCall /\ WholeCall(c, air)
        /\ MaxQueue >= 15 /\ ~c.ending => Len(c.out) <= Lim + 6
    BY <2>1, CheckedWhole
  <2>3. /\ toDMR' = IF c.ending /\ rest = <<>> THEN NoCall ELSE d
        /\ air' = IF due THEN Head(c.out) ELSE air
    BY <1>2 DEF TickToDMR
  <2> HIDE DEF c
  <2>4. Len(c.out) \in Nat /\ Lim \in Nat
    BY <2>2, QueueType, BridgeAssumption DEF Lim
  <2>5. /\ d \in DSCall /\ d.ending = c.ending /\ Len(d.out) \in Nat
        /\ Len(d.out) <= Len(c.out)
        /\ air' \in Bursts /\ WholeCall(d, air')
    <3>1. CASE due
      <4> DEFINE e == [c EXCEPT !.out = Tail(c.out)]
      <4>1. d = e /\ air' = Head(c.out)
        BY <2>3, <3>1
      <4>2. /\ e \in DSCall /\ WholeCall(e, Head(c.out)) /\ Head(c.out) \in Bursts
            /\ e.ending = c.ending /\ Len(e.out) <= Len(c.out)
        BY <2>1, <2>2, <3>1, SentWhole
      <4> HIDE DEF d, e
      <4> QED
        BY <4>1, <4>2, QueueType
    <3>2. CASE ~due
      <4>1. d = [c EXCEPT !.out = c.out] /\ air' = air
        BY <2>3, <3>2
      <4>2. /\ d \in DSCall /\ d.out = c.out /\ d.burstN = c.burstN
            /\ d.frags = c.frags /\ d.ending = c.ending
        BY <2>2, <4>1 DEF DSCall
      <4> HIDE DEF d
      <4> QED
        <5>1. WholeCall(d, air)
          BY <2>2, <4>2, SameQueue
        <5> QED
          BY <2>1, <2>4, <4>1, <4>2, <5>1
    <3> QED
      BY <3>1, <3>2
  <2> HIDE DEF d, rest, due
  <2> QED
    BY <1>2, <2>2, <2>3, <2>4, <2>5
<1> QED
  BY <1>1, <1>2

LEMMA TickToDSKept ==
  ASSUME CallsInv, TickToDS
  PROVE  /\ toDS' \in DMRCall \cup {NoCall}
         /\ toDS = NoCall => toDS' = NoCall
         /\ toDS' # NoCall /\ ~toDS'.ending => Len(toDS'.out) <= MaxQueue
<1>1. CASE toDS = NoCall
  BY <1>1 DEF TickToDS
<1>2. CASE toDS # NoCall
  <2> DEFINE K == {"header", "voice", "last"}
             o == Older(toDS)
             e == IF Over(o) THEN EndToDS(o) ELSE o
             c == CappedDS(e)
             voice == IF c.out # <<>> /\ Head(c.out) = "header" THEN Tail(c.out) ELSE c.out
             primed == c.primed \/ Len(voice) >= 4 \/ c.ending
             rest == IF primed /\ voice # <<>> THEN Tail(voice) ELSE voice
             d == [c EXCEPT !.out = rest, !.primed = primed]
  <2>1. toDS' = IF c.ending /\ rest = <<>> THEN NoCall ELSE d
    BY <1>2 DEF TickToDS
  <2>2. toDS \in DMRCall
    BY <1>2 DEF CallsInv, DStarTypeOK
  <2>3. o \in DMRCall
    BY <2>2, OlderType
  <2> HIDE DEF o
  <2>4. e \in DMRCall
    BY <2>3, EndToDSType
  <2> HIDE DEF e
  <2>5. /\ c \in DMRCall /\ c.ending = e.ending
        /\ ~c.ending => Len(c.out) <= MaxQueue
    BY <2>4, CappedDSType
  <2> HIDE DEF c
  <2>6. c.out \in Seq(K) /\ c.primed \in BOOLEAN /\ c.ending \in BOOLEAN /\ Len(c.out) \in Nat
    BY <2>5 DEF DMRCall
  <2> HIDE DEF K
  <2>7. voice \in Seq(K) /\ Len(voice) \in Nat /\ Len(voice) <= Len(c.out)
    BY <2>6, HeadTailProperties
  <2> HIDE DEF voice
  <2>8. rest \in Seq(K) /\ Len(rest) \in Nat /\ Len(rest) <= Len(c.out)
    BY <2>6, <2>7, HeadTailProperties
  <2> HIDE DEF rest
  <2>9. primed \in BOOLEAN
    BY <2>6
  <2> HIDE DEF primed
  <2>10. d \in DMRCall /\ d.ending = c.ending /\ d.out = rest
    BY <2>5, <2>8, <2>9 DEF DMRCall, K
  <2> HIDE DEF d
  <2>11. MaxQueue \in Nat
    BY BridgeAssumption
  <2> QED
    BY <1>2, <2>1, <2>5, <2>6, <2>8, <2>10, <2>11
<1> QED
  BY <1>1, <1>2

LEMMA TickKept ==
  ASSUME CallsInv, Tick
  PROVE  /\ CallsInv'
         /\ MaxQueue >= 15 =>
              (toDMR' # NoCall /\ ~toDMR'.ending => Len(toDMR'.out) <= Lim + 6)
         /\ toDS' # NoCall /\ ~toDS'.ending => Len(toDS'.out) <= MaxQueue
<1>1. /\ phase' = (phase + 1) % 3 /\ TickToDMR /\ TickToDS
      /\ ownDM' = Aged(ownDM) /\ ownDS' = Aged(ownDS)
  BY DEF Tick
<1>2. /\ toDMR' \in DSCall \cup {NoCall} /\ air' \in Bursts
      /\ toDMR = NoCall => toDMR' = NoCall
      /\ toDMR' # NoCall => WholeCall(toDMR', air')
      /\ MaxQueue >= 15 =>
           (toDMR' # NoCall /\ ~toDMR'.ending => Len(toDMR'.out) <= Lim + 6)
  BY <1>1, TickToDMRKept
<1>3. /\ toDS' \in DMRCall \cup {NoCall}
      /\ toDS = NoCall => toDS' = NoCall
      /\ toDS' # NoCall /\ ~toDS'.ending => Len(toDS'.out) <= MaxQueue
  BY <1>1, TickToDSKept
<1>4. phase' \in 0 .. 2
  BY <1>1 DEF CallsInv, DStarTypeOK
<1>5. /\ ownDM' \in UNION {[S -> 0 .. OwnTicks] : S \in SUBSET OwnDMR}
      /\ ownDS' \in UNION {[S -> 0 .. OwnTicks] : S \in SUBSET OwnDStar}
  <2>1. /\ ownDM \in UNION {[S -> 0 .. OwnTicks] : S \in SUBSET OwnDMR}
        /\ ownDS \in UNION {[S -> 0 .. OwnTicks] : S \in SUBSET OwnDStar}
    BY DEF CallsInv, DStarTypeOK
  <2> QED
    BY <1>1, <2>1, NumbersKept
<1>6. HalfDuplex'
  BY <1>2, <1>3 DEF CallsInv, HalfDuplex
<1> QED
  BY <1>2, <1>3, <1>4, <1>5, <1>6 DEF CallsInv, DStarTypeOK

\* A packet of a D-STAR reflector.
LEMMA DStarTaken ==
  ASSUME NEW c \in DSCall, NEW a \in Bursts, WholeCall(c, a),
         NEW kind, NEW missing \in Gaps, NEW news
  PROVE  LET b == [c EXCEPT !.idle = 0]
             d == IF kind = "header" THEN b ELSE VoiceToDMR(b, kind, missing, news)
         IN  d \in DSCall /\ d.stream = c.stream /\ WholeCall(d, a)
<1> DEFINE b == [c EXCEPT !.idle = 0]
<1>1. b \in DSCall /\ b.stream = c.stream /\ WholeCall(b, a)
  <2>1. 0 \in 0 .. Timeout
    BY BridgeAssumption
  <2>2. /\ b \in DSCall /\ b.out = c.out /\ b.burstN = c.burstN /\ b.frags = c.frags
        /\ b.ending = c.ending /\ b.stream = c.stream
    BY <2>1 DEF DSCall
  <2> QED
    BY <2>2, SameQueue
<1> HIDE DEF b
<1>2. /\ VoiceToDMR(b, kind, missing, news) \in DSCall
      /\ VoiceToDMR(b, kind, missing, news).stream = b.stream
      /\ WholeCall(VoiceToDMR(b, kind, missing, news), a)
  BY <1>1, VoiceWhole
<1> QED
  BY <1>1, <1>2 DEF b

LEMMA StartWhole ==
  ASSUME NEW stream \in DStarCalls \cup OwnDStar
  PROVE  StartToDMR(stream) \in DSCall /\ WholeCall(StartToDMR(stream), Header)
<1> DEFINE c == StartToDMR(stream)
<1>1. c = [stream |-> stream, out |-> <<Header>>, pending |-> 0, burstN |-> 0,
           held |-> 0, meta |-> 0, frags |-> 0, synced |-> FALSE, ending |-> FALSE,
           idle |-> 0, age |-> 0]
  BY DEF StartToDMR
<1>2. /\ 0 \in 0 .. Depth /\ 0 \in 0 .. MaxMeta /\ 0 \in 0 .. Timeout /\ 0 \in 0 .. MaxCall
      /\ 0 \in 0 .. 2 /\ 0 \in 0 .. 5
  BY BridgeAssumption
<1>3. <<Header>> \in Seq(Bursts)
  BY BurstKinds
<1> HIDE DEF c
<1>4. c \in DSCall
  BY <1>1, <1>2, <1>3 DEF DSCall
<1>5. /\ c.out = <<Header>> /\ c.burstN = 0
  BY <1>1
<1>6. DOMAIN c.out = {1} /\ c.out[1] = Header /\ Len(c.out) = 1 /\ c.out # <<>>
  BY <1>5
<1>7. InTurn(c, Header)
  BY <1>6 DEF InTurn, Follows
<1>8. Prepared(c, Final(c, Header))
  BY <1>5, <1>6 DEF Prepared, Final
<1>9. Numbered(c, Header)
  <2>1. Header # Terminator
    BY BurstKinds
  <2> QED
    BY <1>6, <2>1 DEF Numbered, Counted
<1> QED
  BY <1>4, <1>7, <1>8, <1>9 DEF WholeCall, c

LEMMA OnDStarKept ==
  ASSUME CallsInv, NEW stream \in DStarCalls \cup OwnDStar, NEW kind, NEW missing \in Gaps,
         NEW news, OnDStar(stream, kind, missing, news)
  PROVE  CallsInv' /\ phase' = phase
<1> DEFINE Taken(c) == IF kind = "header" THEN [c EXCEPT !.idle = 0]
                       ELSE VoiceToDMR([c EXCEPT !.idle = 0], kind, missing, news)
<1>1. /\ \/ /\ toDMR # NoCall /\ toDMR.stream = stream
            /\ toDMR' = Taken(toDMR)
            /\ UNCHANGED <<ownDM, air>>
         \/ /\ toDMR = NoCall /\ toDS = NoCall /\ kind # "last"
            /\ toDMR' = Taken(StartToDMR(stream))
            /\ \E i \in OwnDMR \ DOMAIN ownDM : ownDM' = Drawn(ownDM, i)
            /\ air' = Header
      /\ UNCHANGED <<toDS, ownDS, phase>>
  BY DEF OnDStar
<1>2. /\ toDS' = toDS /\ ownDS' = ownDS /\ phase' = phase
  BY <1>1
<1>3. \A c \in DSCall : \A a \in Bursts :
        WholeCall(c, a) => Taken(c) \in DSCall /\ WholeCall(Taken(c), a)
  BY DStarTaken
<1> HIDE DEF Taken
<1>4. /\ toDMR' \in DSCall /\ WholeCall(toDMR', air') /\ air' \in Bursts
      /\ ownDM' \in UNION {[S -> 0 .. OwnTicks] : S \in SUBSET OwnDMR}
      /\ toDS = NoCall
  <2>1. CASE toDMR # NoCall /\ toDMR' = Taken(toDMR) /\ UNCHANGED <<ownDM, air>>
    <3>1. /\ toDMR \in DSCall /\ WholeCall(toDMR, air) /\ air \in Bursts /\ toDS = NoCall
          /\ ownDM \in UNION {[S -> 0 .. OwnTicks] : S \in SUBSET OwnDMR}
      BY <2>1 DEF CallsInv, DStarTypeOK, HalfDuplex
    <3>2. air' = air /\ ownDM' = ownDM /\ toDMR' = Taken(toDMR)
      BY <2>1
    <3>3. Taken(toDMR) \in DSCall /\ WholeCall(Taken(toDMR), air)
      BY <1>3, <3>1
    <3> QED
      BY <3>1, <3>2, <3>3
  <2>2. CASE /\ toDS = NoCall /\ toDMR' = Taken(StartToDMR(stream))
             /\ \E i \in OwnDMR \ DOMAIN ownDM : ownDM' = Drawn(ownDM, i)
             /\ air' = Header
    <3>1. Header \in Bursts
      BY BurstKinds
    <3>2. Taken(StartToDMR(stream)) \in DSCall /\ WholeCall(Taken(StartToDMR(stream)), Header)
      BY <1>3, <3>1, StartWhole
    <3>3. ownDM \in UNION {[S -> 0 .. OwnTicks] : S \in SUBSET OwnDMR}
      BY DEF CallsInv, DStarTypeOK
    <3>4. ownDM' \in UNION {[S -> 0 .. OwnTicks] : S \in SUBSET OwnDMR}
      <4>1. PICK i \in OwnDMR : ownDM' = Drawn(ownDM, i)
        BY <2>2
      <4> QED
        BY <3>3, <4>1, NumbersKept
    <3> QED
      BY <2>2, <3>1, <3>2, <3>4
  <2> QED
    BY <1>1, <2>1, <2>2
<1> QED
  BY <1>2, <1>4 DEF CallsInv, DStarTypeOK, HalfDuplex

\* A packet of a DMR master.
LEMMA DMRTaken ==
  ASSUME NEW c \in DMRCall, NEW missing \in Gaps
  PROVE  LET b == [c EXCEPT !.idle = 0]
             v == [c EXCEPT !.idle = 0, !.synced = TRUE]
             k == 3 * (IF c.synced THEN missing ELSE 0) + 3
         IN  b \in DMRCall /\ EndToDS(b) \in DMRCall /\ PushDS(v, k) \in DMRCall
<1> DEFINE b == [c EXCEPT !.idle = 0]
           v == [c EXCEPT !.idle = 0, !.synced = TRUE]
           k == 3 * (IF c.synced THEN missing ELSE 0) + 3
<1>1. 0 \in 0 .. Timeout
  BY BridgeAssumption
<1>2. b \in DMRCall /\ v \in DMRCall
  BY <1>1 DEF DMRCall
<1>3. k \in Nat
  BY BridgeAssumption
<1> HIDE DEF b, v, k
<1>4. EndToDS(b) \in DMRCall /\ PushDS(v, k) \in DMRCall
  BY <1>2, <1>3, EndToDSType, PushDSType
<1> QED
  BY <1>2, <1>4 DEF b, v, k

LEMMA OnDMRKept ==
  ASSUME CallsInv, NEW stream \in DMRCalls \cup OwnDMR, NEW kind \in {"header", "voice", "end"},
         NEW missing \in Gaps, OnDMR(stream, kind, missing)
  PROVE  CallsInv' /\ phase' = phase
<1> DEFINE Taken(c) ==
             CASE kind = "header" -> [c EXCEPT !.idle = 0]
               [] kind = "end" -> EndToDS([c EXCEPT !.idle = 0])
               [] kind = "voice" ->
                    PushDS([c EXCEPT !.idle = 0, !.synced = TRUE],
                           3 * (IF c.synced THEN missing ELSE 0) + 3)
<1>1. /\ \/ /\ toDS # NoCall /\ toDS.stream = stream
            /\ toDS' = Taken(toDS)
            /\ UNCHANGED ownDS
         \/ /\ Free /\ kind # "end"
            /\ toDS' = Taken(StartToDS(stream))
            /\ \E i \in OwnDStar \ DOMAIN ownDS : ownDS' = Drawn(ownDS, i)
      /\ UNCHANGED <<toDMR, ownDM, phase, air>>
  BY DEF OnDMR
<1>2. /\ toDMR' = toDMR /\ ownDM' = ownDM /\ phase' = phase /\ air' = air
  BY <1>1
<1>3. \A c \in DMRCall : Taken(c) \in DMRCall
  <2>1. ASSUME NEW c \in DMRCall PROVE Taken(c) \in DMRCall
    <3>1. CASE kind = "header"
      <4>1. Taken(c) = [c EXCEPT !.idle = 0]
        BY <3>1
      <4> QED
        BY <4>1, DMRTaken
    <3>2. CASE kind = "end"
      <4>1. Taken(c) = EndToDS([c EXCEPT !.idle = 0])
        BY <3>2
      <4> QED
        BY <4>1, DMRTaken
    <3>3. CASE kind = "voice"
      <4>1. Taken(c) = PushDS([c EXCEPT !.idle = 0, !.synced = TRUE],
                              3 * (IF c.synced THEN missing ELSE 0) + 3)
        BY <3>3
      <4> QED
        BY <4>1, DMRTaken
    <3> QED
      BY <3>1, <3>2, <3>3
  <2> QED
    BY <2>1
<1> HIDE DEF Taken
<1>4. /\ toDS' \in DMRCall /\ toDMR = NoCall
      /\ ownDS' \in UNION {[S -> 0 .. OwnTicks] : S \in SUBSET OwnDStar}
  <2>1. CASE toDS # NoCall /\ toDS' = Taken(toDS) /\ UNCHANGED ownDS
    <3>1. toDS \in DMRCall /\ toDMR = NoCall
      BY <2>1 DEF CallsInv, DStarTypeOK, HalfDuplex
    <3> QED
      BY <1>3, <2>1, <3>1 DEF CallsInv, DStarTypeOK
  <2>2. CASE /\ Free /\ toDS' = Taken(StartToDS(stream))
             /\ \E i \in OwnDStar \ DOMAIN ownDS : ownDS' = Drawn(ownDS, i)
    <3>1. StartToDS(stream) \in DMRCall
      <4>1. 0 \in 0 .. Depth /\ 0 \in 0 .. Timeout /\ 0 \in 0 .. MaxCall
        BY BridgeAssumption
      <4>2. <<"header">> \in Seq({"header", "voice", "last"})
        OBVIOUS
      <4> QED
        BY <4>1, <4>2 DEF StartToDS, DMRCall
    <3>2. ownDS \in UNION {[S -> 0 .. OwnTicks] : S \in SUBSET OwnDStar}
      BY DEF CallsInv, DStarTypeOK
    <3>3. ownDS' \in UNION {[S -> 0 .. OwnTicks] : S \in SUBSET OwnDStar}
      <4>1. PICK i \in OwnDStar : ownDS' = Drawn(ownDS, i)
        BY <2>2
      <4> QED
        BY <3>2, <4>1, NumbersKept
    <3> QED
      BY <1>3, <2>2, <3>1, <3>3 DEF Free
  <2> QED
    BY <1>1, <2>1, <2>2
<1> QED
  BY <1>2, <1>4 DEF CallsInv, DStarTypeOK, HalfDuplex

LEMMA CallsStart == DStarInit => CallsInv
<1> SUFFICES ASSUME DStarInit PROVE CallsInv
  OBVIOUS
<1>1. [i \in {} |-> 0] \in [{} -> 0 .. OwnTicks]
  OBVIOUS
<1>2. /\ {} \in SUBSET OwnDMR /\ {} \in SUBSET OwnDStar
  OBVIOUS
<1>3. /\ ownDM \in UNION {[S -> 0 .. OwnTicks] : S \in SUBSET OwnDMR}
      /\ ownDS \in UNION {[S -> 0 .. OwnTicks] : S \in SUBSET OwnDStar}
  BY <1>1, <1>2 DEF DStarInit
<1>4. toDMR = NoCall /\ toDS = NoCall /\ phase = 0 /\ air \in Bursts
  BY BurstKinds DEF DStarInit
<1>5. DStarTypeOK
  BY <1>3, <1>4 DEF DStarTypeOK
<1> QED
  BY <1>4, <1>5 DEF CallsInv, HalfDuplex

LEMMA CallsNext == CallsInv /\ [DStarNext]_dstarVars => CallsInv'
<1> SUFFICES ASSUME CallsInv, [DStarNext]_dstarVars PROVE CallsInv'
  OBVIOUS
<1>1. CASE Receive
  BY <1>1, OnDStarKept, OnDMRKept DEF Receive
<1>2. CASE Tick
  BY <1>2, TickKept
<1>3. CASE UNCHANGED dstarVars
  BY <1>3 DEF dstarVars, CallsInv, DStarTypeOK, HalfDuplex, WholeCall, InTurn, Prepared,
              Numbered, Final, Before, Counted
<1> QED
  BY <1>1, <1>2, <1>3 DEF DStarNext

LEMMA CallsImplied == CallsInv => CallsWhole
<1> SUFFICES ASSUME CallsInv, toDMR # NoCall
             PROVE  \A i \in 2 .. Len(<<air>> \o toDMR.out) :
                      Follows((<<air>> \o toDMR.out)[i], (<<air>> \o toDMR.out)[i - 1])
  BY DEF CallsWhole, SuperframesWhole, CallsInv
<1> DEFINE queued == toDMR.out
           line == <<air>> \o queued
           L == Len(queued)
<1>1. /\ toDMR \in DSCall /\ air \in Bursts /\ WholeCall(toDMR, air)
  BY DEF CallsInv, DStarTypeOK
<1>2. queued \in Seq(Bursts) /\ L \in Nat /\ DOMAIN queued = 1 .. L
  BY <1>1, QueueType DEF DSCall
<1>3. <<air>> \in Seq(Bursts) /\ Len(<<air>>) = 1 /\ <<air>>[1] = air
  BY <1>1
<1>4. /\ Len(line) = 1 + L
      /\ \A i \in 1 .. 1 + L : line[i] = IF i <= 1 THEN <<air>>[i] ELSE queued[i - 1]
  <2>1. /\ Len(line) = Len(<<air>>) + Len(queued)
        /\ \A i \in 1 .. Len(<<air>>) + Len(queued) :
             line[i] = IF i <= Len(<<air>>) THEN <<air>>[i] ELSE queued[i - Len(<<air>>)]
    BY <1>2, <1>3, ConcatProperties
  <2> HIDE DEF line
  <2> QED
    BY <1>2, <1>3, <2>1
<1> HIDE DEF line
<1>5. ASSUME NEW i \in 2 .. Len(line) PROVE Follows(line[i], line[i - 1])
  <2>1. /\ i - 1 \in 1 .. L /\ i \in 1 .. 1 + L /\ i - 1 \in 1 .. 1 + L
        /\ ~ (i <= 1) /\ (i = 2 \/ ~ (i - 1 <= 1)) /\ (i = 2 <=> i - 1 = 1)
    BY <1>2, <1>4
  <2>2. Follows(queued[i - 1], Before(toDMR, air, i - 1))
    BY <1>1, <1>2, <2>1 DEF WholeCall, InTurn
  <2>3. line[i] = queued[i - 1]
    BY <1>4, <2>1
  <2>4. line[i - 1] = Before(toDMR, air, i - 1)
    <3>1. CASE i = 2
      BY <1>3, <1>4, <2>1, <3>1 DEF Before
    <3>2. CASE i # 2
      BY <1>4, <2>1, <3>2 DEF Before
    <3> QED
      BY <3>1, <3>2
  <2> QED
    BY <2>2, <2>3, <2>4
<1> QED
  BY <1>5 DEF line

\* One call at a time, and a DMR receiver is sent each superframe in turn, with
\* one link control message in it, however many packets are lost, however deep
\* the transcoder's window and however short the queues (CallsWhole).
THEOREM CallsStayWhole == DStarSpec => []CallsWhole
<1>1. DStarSpec => []CallsInv
  BY CallsStart, CallsNext, PTL DEF DStarSpec
<1> QED
  BY <1>1, CallsImplied, PTL

\* The queues are bounded after each tick (LatencyBounded).  A superframe can be
\* dropped whole once the limit in bursts is more than five: MaxQueue is 150.
THEOREM QueuesCapped ==
  ASSUME MaxQueue >= 15
  PROVE  DStarSpec => LatencyBounded
<1>1. DStarSpec => []CallsInv
  BY CallsStart, CallsNext, PTL DEF DStarSpec
<1>2. ASSUME CallsInv, [DStarNext]_dstarVars
      PROVE  [phase' # phase =>
                /\ toDMR' # NoCall /\ ~toDMR'.ending => Len(toDMR'.out) <= Lim + 6
                /\ toDS' # NoCall /\ ~toDS'.ending => Len(toDS'.out) <= MaxQueue]_dstarVars
  <2>1. CASE Receive
    <3>1. phase' = phase
      BY <1>2, <2>1, OnDStarKept, OnDMRKept DEF Receive
    <3> QED
      BY <3>1
  <2>2. CASE Tick
    BY <1>2, <2>2, TickKept
  <2>3. CASE UNCHANGED dstarVars
    BY <2>3
  <2> QED
    BY <1>2, <2>1, <2>2, <2>3 DEF DStarNext
<1> QED
  BY <1>1, <1>2, PTL DEF DStarSpec, LatencyBounded

(***************************************************************************)
(* The transcoder.                                                         *)
(***************************************************************************)
Heard == Params \cup {Silence}
Entry == [p : Heard, suspect : BOOLEAN, concealed : BOOLEAN]

(* A frame as it waits in the window: nothing of it is garbage, its pitch  *)
(* is the talker's or wrong, and the talker's if it is trusted.            *)
Waiting(i) ==
  /\ i \in Entry /\ ~i.p.garbage
  /\ i.p.voiced => i.p.pitch \in {0} \cup Wrong
  /\ i.p.voiced /\ Trusted(i) => i.p.pitch = 0

(* A frame that came whole.                                                *)
Whole(i) == Right(i.p) /\ Trusted(i)

(* Before a whole frame the trusted pitch has been drawn to it: two thirds *)
(* of the way by the frame before the last, and half of the rest.          *)
Pulled(items) ==
  trustAge = 0 /\ trusted.voiced =>
    /\ Len(items) >= 1 /\ Whole(items[1]) => 6 * trusted.pitch <= 2 * Highest + 9
    /\ Len(items) >= 2 /\ ~items[1].p.silence /\ ~Trusted(items[1]) /\ Whole(items[2]) =>
         3 * trusted.pitch <= 2 * Highest + 9

XcType ==
  /\ last \in Heard /\ ~last.garbage /\ (last.voiced => last.pitch \in {0} \cup Wrong)
  /\ trusted \in Heard /\ ~trusted.garbage
  /\ trustAge \in 0 .. 7 /\ repeats \in Nat /\ ended \in BOOLEAN
  /\ q \in Seq(Entry) /\ Len(q) <= Window
  /\ \A i \in 1 .. Len(q) : Waiting(q[i])
  /\ ~ended /\ Len(q) < Window => trusted = Silence

XcInv == XcType /\ Pulled(q)

LEMMA FirstOf ==
  ASSUME NEW T, T \subseteq Nat, T # {}
  PROVE  First(T) \in T
<1> DEFINE R == OpToRel(<, Nat)
<1>1. IsWellFoundedOn(R, Nat)
  BY NatLessThanWellFounded
<1>2. PICK x \in T : \A y \in T : ~(<<y, x>> \in R)
  <2> HIDE DEF R
  <2> QED BY <1>1, WFMin
<1>3. R = {p \in Nat \X Nat : p[1] < p[2]}
  BY DEF OpToRel
<1>4. \A y \in T : x <= y
  <2>1. SUFFICES ASSUME NEW y \in T PROVE x <= y
    OBVIOUS
  <2>2. ~(<<y, x>> \in R) /\ x \in Nat /\ y \in Nat
    BY <1>2
  <2> HIDE DEF R
  <2> QED BY <2>2, <1>3
<1> QED BY <1>4 DEF First

LEMMA HighestWrong ==
  /\ Highest \in Nat /\ Wrong \subseteq 0 .. Highest /\ Highest >= 9
  /\ \A w \in Wrong : 6 * w > 2 * Highest + 33
<1>1. PICK m \in Wrong : \A w \in Wrong : w <= m /\ 6 * w > 2 * m + 33
  BY TranscoderAssumption
<1>2. Highest \in Wrong /\ \A w \in Wrong : w <= Highest
  BY <1>1 DEF Highest
<1>3. Highest <= m /\ m <= Highest /\ m \in Nat /\ Highest \in Nat
  BY <1>1, <1>2, TranscoderAssumption
<1>4. Highest = m
  BY <1>3
<1>5. 6 * m > 2 * m + 33
  BY <1>1
<1>6. m >= 9
  BY <1>3, <1>5
<1>7. Wrong \subseteq 0 .. Highest
  BY <1>2, <1>3, TranscoderAssumption
<1> QED BY <1>1, <1>3, <1>4, <1>6, <1>7

LEMMA Distributes ==
  ASSUME NEW x \in Int, NEW y \in Int, NEW z \in Int
  PROVE  x * (y - z) = x * y - x * z
OBVIOUS

(* What is expected on the way lies between.                               *)
LEMMA ExpectedBetween ==
  ASSUME NEW M \in Nat, NEW a \in 0 .. M, NEW c \in 0 .. M,
         NEW k \in Nat \ {0}, NEW j \in Nat \ {0}
  PROVE  Expected(a, c, k, j) \in 0 .. M
<1> DEFINE s == a * j + c * k
           d == k + j
           e == s \div d
<1>1. a * j \in Nat /\ c * k \in Nat /\ M * j \in Nat /\ M * k \in Nat
  OBVIOUS
<1>2. a * j <= M * j
  <2>1. (M - a) * j \in Nat /\ (M - a) * j = M * j - a * j
    OBVIOUS
  <2> QED BY <1>1, <2>1
<1>3. c * k <= M * k
  <2>1. (M - c) * k \in Nat /\ (M - c) * k = M * k - c * k
    OBVIOUS
  <2> QED BY <1>1, <2>1
<1>4. s \in Nat /\ s <= M * d
  <2>1. M * d = M * k + M * j
    OBVIOUS
  <2> QED BY <1>1, <1>2, <1>3, <2>1
<1>5. d \in Nat \ {0}
  OBVIOUS
<1> HIDE DEF s, d
<1>6. e \in Nat /\ d * e <= s
  BY <1>4, <1>5
<1>7. e <= M
  <2>1. SUFFICES ASSUME e >= M + 1 PROVE FALSE
    BY <1>6
  <2>2. d * e >= d * (M + 1)
    <3>1. e - (M + 1) \in Nat
      BY <1>6, <2>1
    <3>2. d * (e - (M + 1)) \in Nat
      BY <1>5, <3>1
    <3>3. d * (e - (M + 1)) = d * e - d * (M + 1)
      BY <1>5, <1>6, Distributes
    <3>4. d * e \in Nat /\ d * (M + 1) \in Nat
      BY <1>5, <1>6
    <3> QED BY <3>2, <3>3, <3>4
  <2>3. d * (M + 1) = M * d + d
    BY <1>5
  <2>4. M * d \in Nat /\ d * e \in Nat
    BY <1>5, <1>6
  <2> QED BY <1>4, <1>5, <1>6, <2>2, <2>3, <2>4
<1>8. Expected(a, c, k, j) = e
  BY DEF Expected, s, d
<1> QED BY <1>6, <1>7, <1>8

(* Towards the talker's own pitch in the next frame, and in the one after. *)
LEMMA ExpectedNext ==
  ASSUME NEW M \in Nat, NEW a \in 0 .. M, NEW k \in 1 .. 7,
         k = 1 => 3 * a <= 2 * M + 9
  PROVE  Expected(a, 0, k, 1) \in Nat /\ 6 * Expected(a, 0, k, 1) <= 2 * M + 9
<1>1. k = 1 \/ k = 2 \/ k = 3 \/ k = 4 \/ k = 5 \/ k = 6 \/ k = 7
  OBVIOUS
<1>2. a * 1 + 0 * k = a
  OBVIOUS
<1>3. Expected(a, 0, k, 1) = a \div (k + 1)
  BY <1>2 DEF Expected
<1> QED BY <1>1, <1>3

LEMMA ExpectedAfter ==
  ASSUME NEW M \in Nat, NEW a \in 0 .. M, NEW k \in 1 .. 7
  PROVE  Expected(a, 0, k, 2) \in Nat /\ 3 * Expected(a, 0, k, 2) <= 2 * M
<1>1. k = 1 \/ k = 2 \/ k = 3 \/ k = 4 \/ k = 5 \/ k = 6 \/ k = 7
  OBVIOUS
<1>2. a * 2 + 0 * k = 2 * a
  OBVIOUS
<1>3. Expected(a, 0, k, 2) = (2 * a) \div (k + 2)
  BY <1>2 DEF Expected
<1> QED BY <1>1, <1>3

LEMMA HeardFields ==
  ASSUME NEW p \in Heard
  PROVE  /\ p.pitch \in 0 .. Highest /\ p.voiced \in BOOLEAN
         /\ p.silence \in BOOLEAN /\ p.garbage \in BOOLEAN
         /\ p.silence => p = Silence
         /\ ~p.silence => p \in Params
<1>1. Highest \in Nat
  BY HighestWrong
<1>2. CASE p = Silence
  BY <1>1, <1>2 DEF Silence
<1>3. CASE p \in Params
  BY <1>3 DEF Params
<1> QED BY <1>2, <1>3 DEF Heard

LEMMA WaitingFields ==
  ASSUME NEW i, Waiting(i)
  PROVE  /\ i = [p |-> i.p, suspect |-> i.suspect, concealed |-> i.concealed]
         /\ i.p \in Heard /\ i.suspect \in BOOLEAN /\ i.concealed \in BOOLEAN
         /\ i.p.pitch \in 0 .. Highest /\ i.p.voiced \in BOOLEAN
         /\ i.p.silence \in BOOLEAN /\ i.p.garbage = FALSE
         /\ i.p.silence => i.p = Silence
         /\ ~i.p.silence => i.p \in Params
<1>1. i \in Entry /\ i.p \in Heard /\ ~i.p.garbage
  BY DEF Waiting, Entry
<1>2. /\ i = [p |-> i.p, suspect |-> i.suspect, concealed |-> i.concealed]
      /\ i.suspect \in BOOLEAN /\ i.concealed \in BOOLEAN
  BY <1>1 DEF Entry
<1> QED BY <1>1, <1>2, HeardFields

(* anchorAhead: a whole frame is the anchor of those before it, up to the  *)
(* first of them.                                                          *)
LEMMA AheadIndex ==
  ASSUME NEW k, NEW ahead, NEW n \in Nat, DOMAIN ahead = 1 .. n
  PROVE  Ahead(k, ahead) \in 0 .. n
<1> DEFINE before == {j \in DOMAIN ahead : \A i \in 1 .. j : ~ahead[i].p.silence}
           own == {j \in before : ~ahead[j].concealed}
           sure == {j \in own : ~ahead[j].suspect}
           close == {j \in own : /\ trusted.voiced /\ Voiced(ahead[j])
                                 /\ Apart(ahead[j], trusted) <= 5 * (k + j)}
<1>1. sure \subseteq 1 .. n /\ close \subseteq 1 .. n /\ 1 .. n \subseteq Nat
  OBVIOUS
<1>2. Ahead(k, ahead) = IF sure # {} THEN First(sure)
                        ELSE IF close # {} THEN First(close) ELSE 0
  BY DEF Ahead
<1> HIDE DEF sure, close
<1>3. sure # {} => First(sure) \in 1 .. n
  BY <1>1, FirstOf
<1>4. close # {} => First(close) \in 1 .. n
  BY <1>1, FirstOf
<1> QED BY <1>2, <1>3, <1>4

LEMMA AheadSure ==
  ASSUME NEW k, NEW ahead, NEW n \in Nat, DOMAIN ahead = 1 .. n, NEW m \in 1 .. n,
         \A i \in 1 .. m : ~ahead[i].p.silence, Trusted(ahead[m]),
         \A i \in 1 .. m - 1 : ~Trusted(ahead[i])
  PROVE  Ahead(k, ahead) = m
<1> DEFINE before == {j \in DOMAIN ahead : \A i \in 1 .. j : ~ahead[i].p.silence}
           own == {j \in before : ~ahead[j].concealed}
           sure == {j \in own : ~ahead[j].suspect}
           close == {j \in own : /\ trusted.voiced /\ Voiced(ahead[j])
                                 /\ Apart(ahead[j], trusted) <= 5 * (k + j)}
<1>1. m \in sure
  BY DEF Trusted
<1>2. \A j \in sure : j \in 1 .. n /\ Trusted(ahead[j])
  BY DEF Trusted
<1>3. Ahead(k, ahead) = IF sure # {} THEN First(sure)
                        ELSE IF close # {} THEN First(close) ELSE 0
  BY DEF Ahead
<1> HIDE DEF sure, close
<1>4. First(sure) \in sure /\ \A i \in sure : First(sure) <= i
  <2>1. \A j \in sure : m <= j
    BY <1>2
  <2> QED BY <1>1, <2>1 DEF First
<1>5. First(sure) = m
  <2> DEFINE f == First(sure)
  <2>1. f \in 1 .. n /\ Trusted(ahead[f]) /\ f <= m
    BY <1>1, <1>2, <1>4
  <2> HIDE DEF f
  <2>2. ~(f \in 1 .. m - 1)
    BY <2>1
  <2>3. f = m
    BY <2>1, <2>2
  <2> QED BY <2>3 DEF f
<1> QED BY <1>1, <1>3, <1>5

LEMMA BetweenSound ==
  ASSUME NEW a \in Params, ~a.garbage, NEW c \in Heard, ~c.garbage,
         NEW k \in Nat \ {0}, NEW j \in Nat \ {0}
  PROVE  Between(a, c, k, j) \in Params /\ ~Between(a, c, k, j).garbage
<1>1. Highest \in Nat
  BY HighestWrong
<1>2. a.pitch \in 0 .. Highest /\ c.pitch \in 0 .. Highest
  BY HeardFields DEF Heard
<1>3. Expected(a.pitch, c.pitch, k, j) \in 0 .. Highest
  BY <1>1, <1>2, ExpectedBetween
<1>4. a.voiced \in BOOLEAN /\ c.voiced \in BOOLEAN
  BY HeardFields DEF Heard
<1> DEFINE P == IF a.voiced /\ ~c.voiced THEN a.pitch
                ELSE IF c.voiced /\ ~a.voiced THEN c.pitch
                ELSE Expected(a.pitch, c.pitch, k, j)
           V == IF a.voiced = c.voiced THEN a.voiced
                ELSE IF a.voiced THEN 2 * j >= k + j ELSE 2 * k >= k + j
           G == a.garbage \/ c.garbage
<1>5. P \in 0 .. Highest
  BY <1>2, <1>3
<1>6. V \in BOOLEAN
  BY <1>4
<1>7. G = FALSE
  <2>1. a.garbage = FALSE /\ c.garbage = FALSE
    BY HeardFields DEF Heard
  <2> QED BY <2>1
<1>8. Between(a, c, k, j) = [a EXCEPT !.pitch = P, !.voiced = V, !.garbage = G]
  BY DEF Between
<1> HIDE DEF P, V, G
<1> QED BY <1>5, <1>6, <1>7, <1>8 DEF Params

\* The pitch halfway between two is no further out than they are.
LEMMA MeanBetween ==
  ASSUME NEW h \in Nat, NEW x \in 0 .. h, NEW y \in 0 .. h
  PROVE  (x + y) \div 2 \in 0 .. h
<1>1. PICK s \in Nat : s = x + y
  OBVIOUS
<1>2. s <= 2 * h /\ s \div 2 \in Nat /\ s \div 2 <= h
  BY <1>1
<1> QED BY <1>1, <1>2

LEMMA FinishedSound ==
  ASSUME NEW b, Waiting(b), NEW ahead \in Seq(Entry),
         \A i \in 1 .. Len(ahead) : Waiting(ahead[i]),
         trusted \in Heard, ~trusted.garbage, trustAge \in 0 .. 7
  PROVE  /\ Finished(b, ahead) \in Entry /\ ~Finished(b, ahead).p.garbage
         /\ Finished(b, ahead).p.silence = b.p.silence
<1> DEFINE r == Finished(b, ahead)
           k == trustAge + 1
           j == Ahead(k, ahead)
           c == ahead[j]
           want == Expected(trusted.pitch, c.p.pitch, k, j)
           mean == (trusted.pitch + ahead[1].p.pitch) \div 2
<1>1. /\ b = [p |-> b.p, suspect |-> b.suspect, concealed |-> b.concealed]
      /\ b.p \in Heard /\ b.suspect \in BOOLEAN /\ b.concealed \in BOOLEAN
      /\ b.p.garbage = FALSE /\ b.p.silence \in BOOLEAN
      /\ (~b.p.silence => b.p \in Params) /\ b \in Entry
  BY WaitingFields DEF Waiting
<1>2. k \in Nat \ {0} /\ j \in 0 .. Len(ahead) /\ Highest \in Nat
  BY AheadIndex, LenProperties, HighestWrong
<1>3. ASSUME ~trusted.silence, j # 0
      PROVE  /\ Between(trusted, c.p, k, j) \in Params
             /\ ~Between(trusted, c.p, k, j).garbage
  <2>1. Waiting(c) /\ j \in Nat \ {0}
    BY <1>2, <1>3
  <2>2. trusted \in Params /\ c.p \in Heard /\ ~c.p.garbage
    BY <1>3, <2>1, HeardFields, WaitingFields DEF Waiting
  <2> QED BY <1>2, <2>1, <2>2, BetweenSound
<1>4. ASSUME ~b.p.silence, NEW w \in 0 .. Highest
      PROVE  /\ [b.p EXCEPT !.pitch = w] \in Params
             /\ ~[b.p EXCEPT !.pitch = w].garbage
  BY <1>1, <1>4 DEF Params
<1>5. trusted.pitch \in 0 .. Highest
  BY HeardFields
<1>6. ASSUME ahead # <<>> PROVE mean \in 0 .. Highest
  <2>1. Len(ahead) \in Nat \ {0}
    BY <1>6, EmptySeq
  <2>2. Waiting(ahead[1])
    BY <2>1
  <2>3. ahead[1].p.pitch \in 0 .. Highest
    BY <2>2, WaitingFields
  <2> HIDE DEF r, j, k, c, want
  <2> QED BY <1>2, <1>5, <2>3, MeanBetween
<1>7. \A p \in Params, s \in BOOLEAN :
        ~p.garbage => /\ Item(p, s, FALSE) \in Entry /\ ~Item(p, s, FALSE).p.garbage
                      /\ Item(p, s, FALSE).p.silence = FALSE
  BY DEF Item, Entry, Heard, Params
<1> DEFINE Sound == r \in Entry /\ ~r.p.garbage /\ r.p.silence = b.p.silence
<1> SUFFICES Sound
  OBVIOUS
<1>8. r = b => Sound
  BY <1>1
<1>9. CASE b.p.silence \/ trusted.silence \/ trustAge > 6
  BY <1>8, <1>9 DEF Finished
<1>10. CASE ~(b.p.silence \/ trusted.silence \/ trustAge > 6)
  <2>0. b.p.silence = FALSE
    BY <1>1, <1>10
  <2>1. ASSUME NEW p \in Params, ~p.garbage, NEW s \in BOOLEAN, r = Item(p, s, FALSE)
        PROVE  Sound
    BY <1>7, <2>0, <2>1
  <2>2. \/ r = b
        \/ j # 0 /\ r = Item(Between(trusted, c.p, k, j), b.suspect, FALSE)
        \/ j # 0 /\ r = Item(Between(trusted, c.p, k, j), FALSE, FALSE)
        \/ r = Item(b.p, FALSE, FALSE)
        \/ r = Item([b.p EXCEPT !.pitch = trusted.pitch], FALSE, FALSE)
        \/ ahead # <<>> /\ r = Item([b.p EXCEPT !.pitch = mean], FALSE, FALSE)
    BY <1>10 DEF Finished
  <2> HIDE DEF r, j, k, c, mean, Sound
  <2>3. CASE r = b
    BY <1>8, <2>3
  <2>4. ASSUME j # 0, NEW s \in BOOLEAN, r = Item(Between(trusted, c.p, k, j), s, FALSE)
        PROVE  Sound
    BY <1>3, <1>10, <2>1, <2>4
  <2>5. CASE r = Item(b.p, FALSE, FALSE)
    BY <1>1, <2>0, <2>1, <2>5
  <2>6. CASE r = Item([b.p EXCEPT !.pitch = trusted.pitch], FALSE, FALSE)
    BY <1>4, <1>5, <2>0, <2>1, <2>6
  <2>7. CASE ahead # <<>> /\ r = Item([b.p EXCEPT !.pitch = mean], FALSE, FALSE)
    BY <1>4, <1>6, <2>0, <2>1, <2>7
  <2> QED BY <1>1, <2>2, <2>3, <2>4, <2>5, <2>6, <2>7
<1> QED BY <1>9, <1>10

(* A jump of the pitch that is undone is none of a whole frame: what has   *)
(* been drawn to it and a wrong pitch behind it are too far apart.         *)
LEMMA TrustedKept ==
  ASSUME NEW b, Waiting(b), Trusted(b), NEW ahead \in Seq(Entry),
         \A i \in 1 .. Len(ahead) : Waiting(ahead[i]),
         trusted \in Heard, trustAge \in 0 .. 7,
         Whole(b) /\ trustAge = 0 /\ trusted.voiced =>
           6 * trusted.pitch <= 2 * Highest + 9
  PROVE  Finished(b, ahead) = b
<1> DEFINE mean == (trusted.pitch + ahead[1].p.pitch) \div 2
           Jump == /\ ahead # <<>> /\ trustAge = 0
                   /\ trusted.voiced /\ Voiced(b) /\ Voiced(ahead[1])
                   /\ Apart(ahead[1], trusted) <= 4 /\ Abs(b.p.pitch - mean) > 14
<1>1. b.suspect = FALSE /\ b.concealed = FALSE /\ (Voiced(b) => Whole(b) /\ b.p.pitch = 0)
  BY WaitingFields DEF Whole, Right, Trusted, Waiting, Voiced
<1>2. Finished(b, ahead) =
        IF b.p.silence \/ trusted.silence \/ trustAge > 6 THEN b
        ELSE IF Jump THEN Item([b.p EXCEPT !.pitch = mean], FALSE, FALSE) ELSE b
  BY <1>1 DEF Finished
<1>3. ~Jump
  <2>1. SUFFICES ASSUME Jump PROVE FALSE
    OBVIOUS
  <2>2. Len(ahead) \in Nat \ {0}
    BY <2>1, EmptySeq
  <2>3. Waiting(ahead[1])
    BY <2>2
  <2> DEFINE x == ahead[1].p.pitch
  <2>4. x \in {0} \cup Wrong /\ x \in 0 .. Highest
    BY <2>1, <2>3, WaitingFields DEF Waiting, Voiced
  <2>5. trusted.pitch \in 0 .. Highest /\ 6 * trusted.pitch <= 2 * Highest + 9
    BY <1>1, <2>1, HeardFields
  <2>6. Highest \in Nat /\ (x = 0 \/ 6 * x > 2 * Highest + 33)
    BY <2>4, HighestWrong
  <2>7. Abs(x - trusted.pitch) <= 4 /\ Abs(0 - (trusted.pitch + x) \div 2) > 14
    BY <1>1, <2>1 DEF Apart
  <2> HIDE DEF x
  <2>8. x <= trusted.pitch + 4
    BY <2>4, <2>5, <2>6, <2>7 DEF Abs
  <2>9. x = 0
    BY <2>4, <2>5, <2>6, <2>8
  <2>10. trusted.pitch <= 4
    BY <2>5, <2>6, <2>7, <2>9 DEF Abs
  <2> QED BY <2>5, <2>6, <2>7, <2>9, <2>10 DEF Abs
<1> QED BY <1>2, <1>3

(* A frame that is not trusted is drawn to the whole frame that anchors it *)
(* or was near what is expected.                                           *)
LEMMA DrawnTo ==
  ASSUME NEW b, Waiting(b), ~Trusted(b), NEW ahead \in Seq(Entry),
         NEW m \in 1 .. Len(ahead), Waiting(ahead[m]), Whole(ahead[m]),
         Ahead(trustAge + 1, ahead) = m, trusted \in Heard, trustAge \in 0 .. 7
  PROVE  LET r == Finished(b, ahead)
             e == Expected(trusted.pitch, 0, trustAge + 1, m)
         IN \/ r = b /\ (b.p.silence \/ trusted.silence \/ ~trusted.voiced \/ trustAge > 6)
            \/ ~trusted.voiced /\ r.p.pitch = 0
            \/ /\ trusted.voiced /\ trustAge <= 6
               /\ \/ r.p.pitch = e
                  \/ r.p = b.p /\ Abs(b.p.pitch - e) <= 3
<1> DEFINE k == trustAge + 1
           c == ahead[m]
           e == Expected(trusted.pitch, 0, k, m)
           r == Finished(b, ahead)
<1>1. /\ c.p.silence = FALSE /\ c.p.voiced = TRUE /\ c.p.pitch = 0
      /\ c.suspect = FALSE /\ c.concealed = FALSE /\ m # 0
  BY WaitingFields DEF Whole, Right, Trusted
<1>2. /\ b.suspect \in BOOLEAN /\ b.concealed \in BOOLEAN
      /\ (b.suspect = TRUE \/ b.concealed = TRUE) /\ b.p.silence \in BOOLEAN
  BY WaitingFields DEF Trusted
<1>3. trusted.voiced \in BOOLEAN /\ trusted.silence \in BOOLEAN
  BY HeardFields
<1>4. CASE b.p.silence \/ trusted.silence \/ trustAge > 6
  <2>1. r = b
    BY <1>4 DEF Finished
  <2> QED BY <1>4, <2>1
<1>5. CASE ~(b.p.silence \/ trusted.silence \/ trustAge > 6)
  <2>1. trusted \in Params
    BY <1>5, HeardFields
  <2>2. Between(trusted, c.p, k, m).pitch = IF trusted.voiced THEN e ELSE 0
    BY <1>1, <1>3, <2>1 DEF Between, Params
  <2>3. Voiced(c)
    BY <1>1 DEF Voiced
  <2>4. CASE b.concealed
    <3>1. r = Item(Between(trusted, c.p, k, m), b.suspect, FALSE)
      BY <1>1, <1>5, <2>4 DEF Finished
    <3>2. r.p = Between(trusted, c.p, k, m)
      BY <3>1 DEF Item
    <3> QED BY <1>3, <1>5, <2>2, <3>2
  <2>5. CASE ~b.concealed
    <3>1. b.suspect
      BY <1>2, <2>5
    <3>2. CASE ~trusted.voiced
      <4>1. r = b
        BY <1>5, <2>5, <3>1, <3>2 DEF Finished
      <4> QED BY <3>2, <4>1
    <3>3. CASE trusted.voiced
      <4>1. r = Item(IF Off(b.p, e) THEN Between(trusted, c.p, k, m) ELSE b.p, FALSE, FALSE)
        BY <1>1, <1>5, <2>3, <2>5, <3>1, <3>3 DEF Finished
      <4>2. r.p = IF Off(b.p, e) THEN Between(trusted, c.p, k, m) ELSE b.p
        BY <4>1 DEF Item
      <4>3. CASE Off(b.p, e)
        BY <1>5, <2>2, <3>3, <4>2, <4>3
      <4>4. CASE ~Off(b.p, e)
        <5>1. r.p = b.p /\ ~(Abs(b.p.pitch - e) > 3)
          BY <4>2, <4>4 DEF Off
        <5>2. b.p.pitch \in Nat /\ e \in Int
          <6>1. b.p.pitch \in 0 .. Highest /\ Highest \in Nat
            BY WaitingFields, HighestWrong
          <6>2. trusted.pitch \in 0 .. Highest
            BY HeardFields
          <6>3. trustAge + 1 \in Nat \ {0} /\ m \in Nat \ {0} /\ 0 \in 0 .. Highest
            BY <6>1
          <6>4. e \in 0 .. Highest
            BY <6>1, <6>2, <6>3, ExpectedBetween
          <6> QED BY <6>1, <6>4
        <5>3. Abs(b.p.pitch - e) <= 3
          BY <5>1, <5>2 DEF Abs
        <5> QED BY <1>5, <3>3, <5>1, <5>3
      <4> QED BY <4>3, <4>4
    <3> QED BY <1>3, <3>2, <3>3
  <2> QED BY <1>2, <2>4, <2>5
<1> QED BY <1>4, <1>5

(* What is then trusted is nearer to the talker's pitch than any wrong one. *)
LEMMA DrawnNext ==
  ASSUME NEW b, Waiting(b), ~Trusted(b), NEW ahead \in Seq(Entry), Len(ahead) >= 1,
         Waiting(ahead[1]), Whole(ahead[1]), trusted \in Heard, trustAge \in 0 .. 7,
         trustAge = 0 /\ trusted.voiced /\ ~b.p.silence => 3 * trusted.pitch <= 2 * Highest + 9,
         ~b.p.silence, Trusted(Finished(b, ahead)), Finished(b, ahead).p.voiced
  PROVE  6 * Finished(b, ahead).p.pitch <= 2 * Highest + 9
<1> DEFINE r == Finished(b, ahead)
           e == Expected(trusted.pitch, 0, trustAge + 1, 1)
<1>1. Len(ahead) \in Nat /\ DOMAIN ahead = 1 .. Len(ahead) /\ 1 \in 1 .. Len(ahead)
  BY LenProperties
<1>2. Ahead(trustAge + 1, ahead) = 1
  <2>1. /\ \A i \in 1 .. 1 : ~ahead[i].p.silence
        /\ Trusted(ahead[1]) /\ \A i \in 1 .. 1 - 1 : ~Trusted(ahead[i])
    BY DEF Whole, Right
  <2> QED BY <1>1, <2>1, AheadSure
<1>3. Highest \in Nat /\ Highest >= 9 /\ \A w \in Wrong : 6 * w > 2 * Highest + 33 /\ w \in Nat
  BY HighestWrong, TranscoderAssumption
<1>4. r # b
  OBVIOUS
<1>5. \/ r.p.pitch = 0
      \/ /\ trusted.voiced /\ trustAge <= 6
         /\ r.p.pitch = e \/ (r.p = b.p /\ Abs(b.p.pitch - e) <= 3)
  BY <1>1, <1>2, <1>4, DrawnTo
<1>6. CASE r.p.pitch = 0
  BY <1>3, <1>6
<1>7. CASE trusted.voiced /\ trustAge <= 6
  <2>1. trusted.pitch \in 0 .. Highest /\ trustAge + 1 \in 1 .. 7
    BY <1>7, HeardFields
  <2>2. trustAge + 1 = 1 => 3 * trusted.pitch <= 2 * Highest + 9
    BY <1>7
  <2>3. e \in Nat /\ 6 * e <= 2 * Highest + 9
    BY <1>3, <2>1, <2>2, ExpectedNext
  <2> HIDE DEF r, e
  <2>4. ASSUME r.p = b.p, Abs(b.p.pitch - e) <= 3 PROVE b.p.pitch = 0
    <3>1. b.p.pitch \in {0} \cup Wrong
      BY <2>4 DEF Waiting, r
    <3>2. ASSUME b.p.pitch \in Wrong PROVE FALSE
      <4>1. b.p.pitch \in Nat /\ 6 * b.p.pitch > 2 * Highest + 33
        BY <1>3, <3>2
      <4>2. b.p.pitch <= e + 3
        BY <2>3, <2>4, <4>1 DEF Abs
      <4> QED BY <1>3, <2>3, <4>1, <4>2
    <3> QED BY <3>1, <3>2
  <2>5. 6 * r.p.pitch <= 2 * Highest + 9
    BY <1>3, <1>5, <2>3, <2>4
  <2> QED BY <2>5 DEF r
<1> QED BY <1>5, <1>6, <1>7

LEMMA DrawnAfter ==
  ASSUME NEW b, Waiting(b), ~Trusted(b), NEW ahead \in Seq(Entry), Len(ahead) >= 2,
         Waiting(ahead[2]), Whole(ahead[2]), ~Trusted(ahead[1]), ~ahead[1].p.silence,
         trusted \in Heard, trustAge \in 0 .. 7,
         ~b.p.silence, Trusted(Finished(b, ahead)), Finished(b, ahead).p.voiced
  PROVE  3 * Finished(b, ahead).p.pitch <= 2 * Highest + 9
<1> DEFINE r == Finished(b, ahead)
           e == Expected(trusted.pitch, 0, trustAge + 1, 2)
<1>1. Len(ahead) \in Nat /\ DOMAIN ahead = 1 .. Len(ahead) /\ 2 \in 1 .. Len(ahead)
  BY LenProperties
<1>2. Ahead(trustAge + 1, ahead) = 2
  <2>1. ~ahead[2].p.silence /\ Trusted(ahead[2])
    BY DEF Whole, Right
  <2>2. /\ \A i \in 1 .. 2 : ~ahead[i].p.silence
        /\ \A i \in 1 .. 2 - 1 : ~Trusted(ahead[i])
    <3>1. \A i \in 1 .. 2 : i = 1 \/ i = 2
      OBVIOUS
    <3>2. \A i \in 1 .. 2 - 1 : i = 1
      OBVIOUS
    <3> QED BY <2>1, <3>1, <3>2
  <2> QED BY <1>1, <2>1, <2>2, AheadSure
<1>3. Highest \in Nat /\ Highest >= 9
  BY HighestWrong
<1>4. r # b
  OBVIOUS
<1>5. \/ r.p.pitch = 0
      \/ /\ trusted.voiced /\ trustAge <= 6
         /\ r.p.pitch = e \/ (r.p = b.p /\ Abs(b.p.pitch - e) <= 3)
  BY <1>1, <1>2, <1>4, DrawnTo
<1>6. CASE r.p.pitch = 0
  BY <1>3, <1>6
<1>7. CASE trusted.voiced /\ trustAge <= 6
  <2>1. trusted.pitch \in 0 .. Highest /\ trustAge + 1 \in 1 .. 7
    BY <1>7, HeardFields
  <2>2. e \in Nat /\ 3 * e <= 2 * Highest
    BY <1>3, <2>1, ExpectedAfter
  <2>3. b.p.pitch \in Nat
    <3>1. b.p.pitch \in 0 .. Highest
      BY WaitingFields
    <3> QED BY <1>3, <3>1
  <2> HIDE DEF r, e
  <2>4. Abs(b.p.pitch - e) <= 3 => b.p.pitch <= e + 3
    BY <2>2, <2>3 DEF Abs
  <2>5. 3 * r.p.pitch <= 2 * Highest + 9
    BY <1>3, <1>5, <2>2, <2>3, <2>4
  <2> QED BY <2>5 DEF r
<1> QED BY <1>5, <1>6, <1>7

(* A frame leaves the window.                                              *)
Sendable == out'.p.garbage = FALSE
TrustKept == trusted' \in Heard /\ ~trusted'.garbage /\ trustAge' \in 0 .. 7

LEMMA ReleaseStep ==
  ASSUME trusted \in Heard, ~trusted.garbage, trustAge \in 0 .. 7,
         NEW items \in Seq(Entry), Len(items) >= 1,
         \A i \in 1 .. Len(items) : Waiting(items[i]),
         Pulled(items), Released(items)
  PROVE  /\ q' \in Seq(Entry) /\ Len(q') = Len(items) - 1
         /\ \A i \in 1 .. Len(q') : q'[i] = items[i + 1]
         /\ Sendable /\ TrustKept /\ Pulled(q)'
         /\ Whole(items[1]) => out' = items[1]
<1> DEFINE b == items[1]
           ahead == Tail(items)
           r == Finished(b, ahead)
<1>1. /\ Len(items) \in Nat /\ items # <<>> /\ Head(items) = b
      /\ ahead \in Seq(Entry) /\ Len(ahead) = Len(items) - 1
      /\ \A i \in 1 .. Len(ahead) : ahead[i] = items[i + 1]
  BY HeadTailProperties, LenProperties, EmptySeq
<1>2. Waiting(b) /\ \A i \in 1 .. Len(ahead) : Waiting(ahead[i])
  BY <1>1
<1>3. /\ q' = ahead /\ out' = r
      /\ IF b.p.silence THEN trusted' = Silence /\ trustAge' = trustAge
         ELSE IF Trusted(r) THEN trusted' = r.p /\ trustAge' = 0
         ELSE trusted' = trusted /\ trustAge' = IF trustAge < 7 THEN trustAge + 1 ELSE 7
  <2>1. Finished(Head(items), Tail(items)) = r
    BY <1>1
  <2>2. r.p.silence = b.p.silence
    BY <1>1, <1>2, FinishedSound
  <2> QED BY <2>1, <2>2 DEF Released
<1>4. r \in Entry /\ ~r.p.garbage /\ r.p \in Heard /\ r.p.garbage = FALSE
  <2>1. r \in Entry /\ ~r.p.garbage
    BY <1>1, <1>2, FinishedSound
  <2>2. r.p \in Heard
    BY <2>1 DEF Entry
  <2> QED BY <2>1, <2>2, HeardFields
<1>5. b.p.silence \in BOOLEAN /\ b.p.voiced \in BOOLEAN
  BY <1>2, WaitingFields
<1>6. TrustKept
  BY <1>3, <1>4 DEF TrustKept, Heard, Silence
<1>7. Trusted(b) => r = b
  <2>1. SUFFICES ASSUME Trusted(b) PROVE r = b
    OBVIOUS
  <2>2. Whole(b) /\ trustAge = 0 /\ trusted.voiced => 6 * trusted.pitch <= 2 * Highest + 9
    BY <1>1 DEF Pulled
  <2> QED BY <1>1, <1>2, <2>1, <2>2, TrustedKept
<1>8. ASSUME trustAge' = 0, trusted'.voiced
      PROVE  /\ b.p.silence = FALSE /\ Trusted(r) /\ trusted' = r.p /\ r.p.voiced
  <2>1. b.p.silence = FALSE
    BY <1>3, <1>5, <1>8 DEF Silence
  <2>2. Trusted(r) /\ trusted' = r.p
    BY <1>3, <1>8, <2>1
  <2> QED BY <1>8, <2>1, <2>2
<1>9. ASSUME trustAge' = 0, trusted'.voiced, Trusted(b)
      PROVE  trusted'.pitch = 0
  BY <1>2, <1>7, <1>8, <1>9 DEF Waiting
<1>10. ASSUME trustAge' = 0, trusted'.voiced, Len(ahead) >= 1, Whole(ahead[1])
       PROVE  6 * trusted'.pitch <= 2 * Highest + 9
  <2>1. CASE Trusted(b)
    BY <1>9, <1>10, <2>1, HighestWrong
  <2>2. CASE ~Trusted(b)
    <3>1. /\ ahead[1] = items[2] /\ Len(items) >= 2 /\ Waiting(ahead[1])
      BY <1>1, <1>2, <1>10
    <3>2. trustAge = 0 /\ trusted.voiced /\ ~b.p.silence =>
            3 * trusted.pitch <= 2 * Highest + 9
      BY <1>10, <2>2, <3>1 DEF Pulled
    <3>3. Trusted(r) /\ r.p.voiced /\ ~b.p.silence /\ trusted' = r.p
      BY <1>8, <1>10
    <3>4. 6 * r.p.pitch <= 2 * Highest + 9
      BY <1>1, <1>2, <1>10, <2>2, <3>1, <3>2, <3>3, DrawnNext
    <3> QED BY <3>3, <3>4
  <2> QED BY <2>1, <2>2
<1>11. ASSUME trustAge' = 0, trusted'.voiced, Len(ahead) >= 2, ~ahead[1].p.silence,
              ~Trusted(ahead[1]), Whole(ahead[2])
       PROVE  3 * trusted'.pitch <= 2 * Highest + 9
  <2>1. CASE Trusted(b)
    BY <1>9, <1>11, <2>1, HighestWrong
  <2>2. CASE ~Trusted(b)
    <3>1. Waiting(ahead[2])
      BY <1>1, <1>2, <1>11
    <3>2. Trusted(r) /\ r.p.voiced /\ ~b.p.silence /\ trusted' = r.p
      BY <1>8, <1>11
    <3>3. 3 * r.p.pitch <= 2 * Highest + 9
      BY <1>1, <1>2, <1>11, <2>2, <3>1, <3>2, DrawnAfter
    <3> QED BY <3>2, <3>3
  <2> QED BY <2>1, <2>2
<1>12. Pulled(q)'
  BY <1>3, <1>10, <1>11 DEF Pulled, Whole, Right, Trusted
<1>13. Sendable
  BY <1>3, <1>4 DEF Sendable
<1>14. Whole(b) => out' = b
  BY <1>3, <1>7 DEF Whole
<1> QED BY <1>1, <1>3, <1>6, <1>12, <1>13, <1>14

(* The octave: before a whole frame a wrong pitch is drawn to it.          *)
LEMMA OctaveDrawn ==
  ASSUME XcInv, NEW items \in Seq(Entry), Len(items) >= 2, items[1] = q[1], items[2] = q[2],
         Waiting(q[1]), Waiting(q[2]), Released(items)
  PROVE  OctaveRepaired
<1> DEFINE b == items[1]
           ahead == Tail(items)
           r == Finished(b, ahead)
<1>1. /\ Head(items) = b /\ ahead \in Seq(Entry) /\ Len(ahead) = Len(items) - 1
      /\ ahead[1] = items[2] /\ Len(items) \in Nat
  <2>1. Len(items) \in Nat /\ items # <<>>
    BY LenProperties, EmptySeq
  <2>2. /\ Head(items) = b /\ ahead \in Seq(Entry) /\ Len(ahead) = Len(items) - 1
        /\ \A i \in 1 .. Len(ahead) : ahead[i] = items[i + 1]
    BY <2>1, HeadTailProperties
  <2> QED BY <2>1, <2>2
<1>2. SUFFICES ASSUME Right(trusted), trustAge <= 6, ~b.p.silence, b.p.voiced, b.p.pitch \in Wrong,
                      Right(q[2].p), ~q[2].suspect, ~q[2].concealed
               PROVE  out'.p.pitch <= 3
  BY DEF OctaveRepaired
<1>3. out' = r
  BY <1>1 DEF Released
<1>4. /\ Highest \in Nat /\ b.p.pitch \in Nat /\ 6 * b.p.pitch > 2 * Highest + 33
      /\ trusted \in Heard /\ trustAge \in 0 .. 7
  <2>1. trusted \in Heard /\ trustAge \in 0 .. 7
    BY DEF XcInv, XcType
  <2>2. b.p.pitch \in 0 .. Highest /\ 6 * b.p.pitch > 2 * Highest + 33 /\ Highest \in Nat
    BY <1>2, HighestWrong
  <2> QED BY <2>1, <2>2
<1>5. ~Trusted(b)
  BY <1>2, <1>4 DEF Waiting
<1>6. Waiting(ahead[1]) /\ Whole(ahead[1]) /\ 1 \in 1 .. Len(ahead)
  BY <1>1, <1>2 DEF Whole, Trusted
<1>7. Ahead(trustAge + 1, ahead) = 1
  <2>1. /\ \A i \in 1 .. 1 : ~ahead[i].p.silence
        /\ Trusted(ahead[1]) /\ \A i \in 1 .. 1 - 1 : ~Trusted(ahead[i])
    BY <1>6 DEF Whole, Right
  <2>2. DOMAIN ahead = 1 .. Len(ahead) /\ Len(ahead) \in Nat
    BY <1>1, LenProperties
  <2> QED BY <1>6, <2>1, <2>2, AheadSure
<1> DEFINE e == Expected(trusted.pitch, 0, trustAge + 1, 1)
<1>8. e \in Nat /\ 6 * e <= 9
  <2>1. trusted.pitch \in 0 .. 0 /\ trustAge + 1 \in 1 .. 7
    BY <1>2, <1>4 DEF Right
  <2>2. /\ trustAge + 1 = 1 => 3 * trusted.pitch <= 2 * 0 + 9
        /\ 0 \in Nat
    BY <2>1
  <2>3. e \in Nat /\ 6 * e <= 2 * 0 + 9
    BY <2>1, <2>2, ExpectedNext
  <2> QED BY <2>3
<1>9. \/ r = b /\ (b.p.silence \/ trusted.silence \/ ~trusted.voiced \/ trustAge > 6)
      \/ ~trusted.voiced /\ r.p.pitch = 0
      \/ /\ trusted.voiced /\ trustAge <= 6
         /\ \/ r.p.pitch = e
            \/ r.p = b.p /\ Abs(b.p.pitch - e) <= 3
  BY <1>1, <1>4, <1>5, <1>6, <1>7, DrawnTo
<1> HIDE DEF e, r
<1>10. ~(Abs(b.p.pitch - e) <= 3)
  BY <1>4, <1>8, SMTT(30) DEF Abs
<1>11. ~(trustAge > 6)
  BY <1>2, <1>4
<1>12. r.p.pitch = e
  BY <1>2, <1>9, <1>10, <1>11 DEF Right
<1> QED BY <1>3, <1>8, <1>12

Steady == XcInv' /\ NoGarbage' /\ OctaveRepaired /\ GoodKept

LastKept ==
  last' \in Heard /\ ~last'.garbage /\ (last'.voiced => last'.pitch \in {0} \cup Wrong)

LEMMA PushStep ==
  ASSUME XcInv, ~ended, NEW item, Waiting(item), Push(item), UNCHANGED ended,
         LastKept, repeats' \in Nat
  PROVE  Steady
<1>1. /\ q \in Seq(Entry) /\ Len(q) \in Nat /\ Len(q) <= Window /\ Window \in Nat
      /\ \A i \in 1 .. Len(q) : Waiting(q[i])
      /\ trusted \in Heard /\ ~trusted.garbage /\ trustAge \in 0 .. 7 /\ ended = FALSE
      /\ Window >= 2
  BY LenProperties, TranscoderAssumption DEF XcInv, XcType
<1> DEFINE items == Append(q, item)
<1>2. item \in Entry
  BY DEF Waiting
<1>3. /\ items \in Seq(Entry) /\ Len(items) = Len(q) + 1
      /\ \A i \in 1 .. Len(q) : items[i] = q[i]
      /\ items[Len(q) + 1] = item
  BY <1>1, <1>2, AppendProperties
<1>4. \A i \in 1 .. Len(items) : Waiting(items[i])
  <2>1. SUFFICES ASSUME NEW i \in 1 .. Len(items) PROVE Waiting(items[i])
    OBVIOUS
  <2>2. i \in 1 .. Len(q) \/ i = Len(q) + 1
    BY <1>1, <1>3
  <2> QED BY <1>1, <1>3, <2>2
<1>5. CASE Len(q) < Window
  <2>1. q' = items /\ out' = Item(Silence, FALSE, FALSE) /\ UNCHANGED <<trusted, trustAge>>
    BY <1>5 DEF Push
  <2>2. trusted = Silence
    BY <1>5 DEF XcInv, XcType
  <2>3. Pulled(q)'
    BY <2>1, <2>2 DEF Pulled, Silence
  <2>4. XcType'
    <3>1. LastKept /\ repeats' \in Nat /\ ended' \in BOOLEAN
      BY <1>1
    <3>2. trusted' \in Heard /\ ~trusted'.garbage /\ trustAge' \in 0 .. 7
      BY <1>1, <2>1
    <3>3. q' \in Seq(Entry) /\ Len(q') <= Window /\ trusted' = Silence
      BY <1>1, <1>3, <1>5, <2>1, <2>2
    <3>4. \A i \in 1 .. Len(q') : Waiting(q'[i])
      BY <1>4, <2>1
    <3> QED BY <3>1, <3>2, <3>3, <3>4 DEF XcType, LastKept, Waiting, Trusted
  <2>5. NoGarbage'
    BY <2>1 DEF NoGarbage, Item, Silence
  <2>6. OctaveRepaired /\ GoodKept
    BY <1>1, <1>5 DEF OctaveRepaired, GoodKept
  <2> QED BY <2>3, <2>4, <2>5, <2>6 DEF XcInv, Steady
<1>6. CASE ~(Len(q) < Window)
  <2>1. Released(items) /\ Len(q) = Window
    BY <1>1, <1>6 DEF Push
  <2>2. /\ items[1] = q[1] /\ items[2] = q[2] /\ Len(items) >= 2
        /\ Waiting(q[1]) /\ Waiting(q[2])
    BY <1>1, <1>3, <2>1
  <2>3. Pulled(items)
    BY <1>1, <2>1, <2>2 DEF XcInv, Pulled
  <2> HIDE DEF items
  <2>4. /\ q' \in Seq(Entry) /\ Len(q') = Len(items) - 1
        /\ \A i \in 1 .. Len(q') : q'[i] = items[i + 1]
        /\ Sendable /\ TrustKept /\ Pulled(q)'
        /\ Whole(items[1]) => out' = items[1]
    BY <1>1, <1>3, <1>4, <2>1, <2>2, <2>3, ReleaseStep
  <2>5. XcType'
    <3>1. LastKept /\ repeats' \in Nat /\ ended' \in BOOLEAN
      BY <1>1
    <3>2. trusted' \in Heard /\ ~trusted'.garbage /\ trustAge' \in 0 .. 7
      BY <2>4 DEF TrustKept
    <3>3. q' \in Seq(Entry) /\ Len(q') = Window
      BY <1>1, <1>3, <2>1, <2>4
    <3>4. \A i \in 1 .. Len(q') : Waiting(q'[i])
      BY <1>1, <1>3, <1>4, <2>1, <2>4
    <3> QED BY <1>1, <3>1, <3>2, <3>3, <3>4 DEF XcType, LastKept, Waiting, Trusted
  <2>6. NoGarbage'
    BY <2>4 DEF NoGarbage, Sendable
  <2>7. OctaveRepaired
    BY <1>3, <2>1, <2>2, OctaveDrawn
  <2>8. GoodKept
    BY <2>2, <2>4 DEF GoodKept, Whole, Trusted
  <2> QED BY <2>4, <2>5, <2>6, <2>7, <2>8 DEF XcInv, Steady
<1> QED BY <1>5, <1>6

(* decodeOne: what a frame of the air becomes in the window.               *)
LEMMA DecodedWaits ==
  ASSUME NEW f \in Frames, f.kind = "voice", Good(f) \/ Partial(f)
  PROVE  /\ Waiting(Item(ParamsOf(f), IF Good(f) THEN Suspect(f) ELSE f.C0 >= 2, FALSE))
         /\ ParamsOf(f) \in Heard /\ ~ParamsOf(f).garbage
         /\ ParamsOf(f).pitch \in {0} \cup Wrong
<1>1. /\ f.ok0 = TRUE /\ f.pitch \in {0} \cup Wrong /\ f.voiced \in BOOLEAN
      /\ f.C0 \in {0, 2, 3}
      /\ f.pitch = 0 \/ f.voiced = FALSE \/ (f.C0 \in {2, 3} /\ f.C1 = 3 /\ f.ok1 = TRUE)
  BY DEF Frames, Good, Partial
<1> DEFINE p == ParamsOf(f)
           s == IF Good(f) THEN Suspect(f) ELSE f.C0 >= 2
<1>2. p = [silence |-> FALSE, pitch |-> f.pitch, voiced |-> f.voiced, garbage |-> FALSE]
  BY <1>1 DEF ParamsOf
<1>3. p \in Params
  <2>1. f.pitch \in 0 .. Highest
    <3>1. {0} \cup Wrong \subseteq 0 .. Highest
      BY HighestWrong
    <3> QED BY <1>1, <3>1
  <2> QED BY <1>1, <1>2, <2>1 DEF Params
<1>4. s \in BOOLEAN
  <2>1. (f.C0 >= 2) \in BOOLEAN /\ Suspect(f) \in BOOLEAN
    BY <1>1 DEF Suspect
  <2> QED BY <2>1
<1>5. f.voiced /\ ~s => f.pitch = 0
  <2>1. SUFFICES ASSUME f.C0 \in {2, 3}, f.C1 = 3 PROVE s
    BY <1>1
  <2>2. CASE f.C0 = 2
    BY <2>1, <2>2 DEF Suspect
  <2>3. CASE f.C0 = 3
    BY <2>1, <2>3 DEF Suspect
  <2> QED BY <2>1, <2>2, <2>3
<1>6. /\ p.silence = FALSE /\ p.pitch = f.pitch /\ p.voiced = f.voiced /\ p.garbage = FALSE
  BY <1>2
<1> HIDE DEF p, s
<1>7. /\ Item(p, s, FALSE) \in Entry /\ Item(p, s, FALSE).p = p
      /\ Item(p, s, FALSE).suspect = s
  BY <1>3, <1>4 DEF Item, Entry, Heard
<1>8. Waiting(Item(p, s, FALSE))
  BY <1>1, <1>5, <1>6, <1>7 DEF Waiting, Trusted
<1> QED BY <1>1, <1>3, <1>6, <1>8 DEF p, s, Heard

LEMMA ReplacementWaits ==
  ASSUME XcInv, Replace
  PROVE  Waiting(Replacement) /\ LastKept /\ repeats' \in Nat
<1>1. /\ last \in Heard /\ ~last.garbage /\ (last.voiced => last.pitch \in {0} \cup Wrong)
      /\ repeats \in Nat
  BY DEF XcInv, XcType
<1>2. Silence \in Heard /\ ~Silence.garbage /\ ~Silence.voiced
  BY DEF Heard, Silence
<1>3. LastKept /\ repeats' \in Nat
  BY <1>1, <1>2 DEF Replace, LastKept
<1>4. CASE Repeats
  <2>1. Replacement = Item(last, FALSE, TRUE)
    BY <1>4 DEF Replacement
  <2> QED BY <1>1, <1>3, <2>1 DEF Item, Waiting, Entry, Trusted
<1>5. CASE ~Repeats
  <2>1. Repeats = FALSE
    BY <1>5 DEF Repeats
  <2>2. Replacement = Item(Silence, FALSE, FALSE)
    BY <2>1 DEF Replacement
  <2> QED BY <1>2, <1>3, <2>2 DEF Item, Waiting, Entry, Trusted
<1> QED BY <1>4, <1>5

LEMMA SilenceWaits == Waiting(Item(Silence, FALSE, FALSE))
BY DEF Item, Silence, Waiting, Entry, Heard, Trusted

LEMMA LostStep ==
  ASSUME XcInv, ~ended, Lost, UNCHANGED ended
  PROVE  Steady
BY ReplacementWaits, PushStep DEF Lost

LEMMA FrameStep ==
  ASSUME XcInv, ~ended, NEW f \in Frames, Frame(f), UNCHANGED ended
  PROVE  Steady
<1>1. CASE /\ Good(f) /\ f.kind \in {"silence", "tone"}
           /\ last' = Silence
           /\ repeats' = IF f.kind = "silence" THEN 0 ELSE repeats
           /\ Push(Item(Silence, FALSE, FALSE))
  <2>1. LastKept
    BY <1>1 DEF LastKept, Heard, Silence
  <2>2. repeats' \in Nat
    BY <1>1 DEF XcInv, XcType
  <2> QED BY <1>1, <2>1, <2>2, SilenceWaits, PushStep
<1>2. CASE /\ f.kind = "voice" /\ (Good(f) \/ Partial(f))
           /\ last' = ParamsOf(f) /\ repeats' = 0
           /\ Push(Item(ParamsOf(f), IF Good(f) THEN Suspect(f) ELSE f.C0 >= 2, FALSE))
  <2> DEFINE item == Item(ParamsOf(f), IF Good(f) THEN Suspect(f) ELSE f.C0 >= 2, FALSE)
  <2>1. Waiting(item) /\ LastKept
    BY <1>2, DecodedWaits DEF LastKept
  <2>2. Push(item) /\ repeats' \in Nat
    BY <1>2
  <2> HIDE DEF item
  <2> QED BY <2>1, <2>2, PushStep
<1>3. CASE Replace /\ Push(Replacement)
  BY <1>3, ReplacementWaits, PushStep
<1> QED BY <1>1, <1>2, <1>3 DEF Frame

LEMMA FlushStep ==
  ASSUME XcInv, Flush
  PROVE  Steady
<1>1. /\ q \in Seq(Entry) /\ Len(q) \in Nat /\ Len(q) <= Window /\ Window \in Nat
      /\ \A i \in 1 .. Len(q) : Waiting(q[i])
      /\ trusted \in Heard /\ ~trusted.garbage /\ trustAge \in 0 .. 7
      /\ Window >= 2 /\ Pulled(q)
  BY LenProperties, TranscoderAssumption DEF XcInv, XcType
<1>2. CASE q # <<>>
  <2>1. Released(q) /\ ended' = TRUE /\ UNCHANGED <<last, repeats>> /\ Len(q) >= 1
    BY <1>1, <1>2, EmptySeq DEF Flush
  <2>2. /\ q' \in Seq(Entry) /\ Len(q') = Len(q) - 1
        /\ \A i \in 1 .. Len(q') : q'[i] = q[i + 1]
        /\ Sendable /\ TrustKept /\ Pulled(q)'
        /\ Whole(q[1]) => out' = q[1]
    BY <1>1, <2>1, ReleaseStep
  <2>3. XcType'
    <3>1. LastKept /\ repeats' \in Nat
      BY <2>1 DEF XcInv, XcType, LastKept
    <3>2. trusted' \in Heard /\ ~trusted'.garbage /\ trustAge' \in 0 .. 7
      BY <2>2 DEF TrustKept
    <3>3. \A i \in 1 .. Len(q') : Waiting(q'[i])
      BY <1>1, <2>2
    <3>4. Len(q') <= Window /\ q' \in Seq(Entry) /\ ended' = TRUE
      BY <1>1, <2>1, <2>2
    <3> QED BY <3>1, <3>2, <3>3, <3>4 DEF XcType, LastKept, Waiting, Trusted
  <2>4. NoGarbage'
    BY <2>2 DEF NoGarbage, Sendable
  <2>5. OctaveRepaired
    BY <2>1 DEF OctaveRepaired
  <2>6. GoodKept
    BY <2>2 DEF GoodKept, Whole, Trusted
  <2> QED BY <2>2, <2>3, <2>4, <2>5, <2>6 DEF XcInv, Steady
<1>3. CASE q = <<>>
  <2>1. /\ last' = Silence /\ trusted' = Silence /\ repeats' = 0 /\ trustAge' = 0
        /\ q' = <<>> /\ out' = Item(Silence, FALSE, FALSE) /\ ended' = FALSE
    BY <1>3 DEF Flush
  <2>2. Len(q') = 0 /\ q' \in Seq(Entry)
    BY <2>1, EmptySeq
  <2>3. XcType'
    <3>1. Silence \in Heard /\ ~Silence.garbage /\ ~Silence.voiced
      BY DEF Heard, Silence
    <3>2. Len(q') <= Window /\ \A i \in 1 .. Len(q') : Waiting(q'[i])
      BY <1>1, <2>2
    <3>3. /\ last' \in Heard /\ ~last'.garbage /\ ~last'.voiced
          /\ trusted' \in Heard /\ ~trusted'.garbage
      BY <2>1, <3>1
    <3>4. trustAge' \in 0 .. 7 /\ repeats' \in Nat
      BY <2>1
    <3>5. ended' \in BOOLEAN
      BY <2>1, Zenon
    <3> QED BY <2>1, <2>2, <3>2, <3>3, <3>4, <3>5 DEF XcType, Waiting, Trusted
  <2>4. Pulled(q)'
    BY <2>1 DEF Pulled, Silence
  <2>5. NoGarbage'
    BY <2>1 DEF NoGarbage, Item, Silence
  <2>6. Len(q) = 0
    BY <1>3, EmptySeq
  <2>7. OctaveRepaired /\ GoodKept
    BY <1>1, <2>6 DEF OctaveRepaired, GoodKept
  <2> QED BY <2>3, <2>4, <2>5, <2>7 DEF XcInv, Steady
<1> QED BY <1>2, <1>3

LEMMA XcStarts == XcInit => XcInv
<1> SUFFICES ASSUME XcInit PROVE XcInv
  OBVIOUS
<1>1. Len(q) = 0 /\ q \in Seq(Entry) /\ q = <<>>
  BY EmptySeq DEF XcInit
<1>2. Silence \in Heard /\ ~Silence.garbage /\ ~Silence.voiced
  BY DEF Heard, Silence
<1>3. XcType
  <2>1. Window \in Nat /\ \A i \in 1 .. Len(q) : Waiting(q[i])
    BY <1>1, TranscoderAssumption
  <2>2. last = Silence /\ trusted = Silence
    BY DEF XcInit
  <2>3. trustAge = 0 /\ repeats = 0 /\ ended = FALSE
    BY DEF XcInit
  <2>4. last \in Heard /\ ~last.garbage /\ ~last.voiced /\ trusted \in Heard /\ ~trusted.garbage
    BY <1>2, <2>2
  <2>5. trustAge \in 0 .. 7 /\ repeats \in Nat /\ Len(q) <= Window
    BY <1>1, <2>1, <2>3
  <2>6. ended \in BOOLEAN
    BY <2>3, Zenon
  <2> QED BY <1>1, <2>1, <2>2, <2>4, <2>5, <2>6 DEF XcType
<1>4. Pulled(q)
  BY <1>2 DEF XcInit, Pulled
<1> QED BY <1>3, <1>4 DEF XcInv

LEMMA XcSteps == XcInv /\ XcNext => Steady
<1> SUFFICES ASSUME XcInv, XcNext PROVE Steady
  OBVIOUS
<1>1. CASE Flush
  BY <1>1, FlushStep
<1>2. CASE ~ended /\ Lost /\ UNCHANGED ended
  BY <1>2, LostStep
<1>3. ASSUME NEW f \in Frames, ~ended, Frame(f), UNCHANGED ended PROVE Steady
  BY <1>3, FrameStep
<1> QED BY <1>1, <1>2, <1>3 DEF XcNext

(* Nothing taken from a word known to be wrong is sent on; an octave error *)
(* before a whole frame is drawn to it; and a frame that came whole leaves *)
(* as it came, whatever errors are before and behind it: for any window of *)
(* two frames or more, and any wrong pitches an octave or two off.         *)
THEOREM VoiceStaysClean == XcSpec => VoiceClean
<1>1. XcInv /\ UNCHANGED xcVars => XcInv'
  BY DEF XcInv, XcType, Pulled, xcVars, Waiting, Whole, Trusted, Right
<1>2. XcInv /\ [XcNext]_xcVars =>
        XcInv' /\ [NoGarbage' /\ OctaveRepaired /\ GoodKept]_xcVars
  BY <1>1, XcSteps DEF Steady
<1> QED
  BY XcStarts, <1>2, PTL DEF XcSpec, VoiceClean

-----------------------------------------------------------------------------
(* The codes: sums of rows, Golay(23,12) and (24,12), the places of bits   *)

LEMMA OddSum ==
  ASSUME NEW x \in Nat, NEW y \in Nat, NEW z \in Nat
  PROVE  (x + y) % 2 = 1 <=> ~((x + z) % 2 = 1 <=> (y + z) % 2 = 1)
<1>1. /\ (x + z) % 2 = 1 \/ (x + z) % 2 = 0
      /\ (y + z) % 2 = 1 \/ (y + z) % 2 = 0
      /\ (x + y) % 2 = 1 \/ (x + y) % 2 = 0
  OBVIOUS
<1>2. ((x + z) + (y + z)) % 2 = (x + y) % 2
  OBVIOUS
<1> QED BY <1>1, <1>2

LEMMA OddAdd ==
  ASSUME NEW A, NEW B, IsFiniteSet(A), IsFiniteSet(B)
  PROVE  /\ IsFiniteSet(Add(A, B))
         /\ Odd(Add(A, B)) <=> ~(Odd(A) <=> Odd(B))
<1> DEFINE X == A \ B
           Y == B \ A
           Z == A \cap B
<1>1. IsFiniteSet(X) /\ IsFiniteSet(Y) /\ IsFiniteSet(Z)
  BY FS_Subset
<1>2. X \cap Y = {} /\ X \cap Z = {} /\ Y \cap Z = {}
  OBVIOUS
<1>3. A = X \cup Z /\ B = Y \cup Z /\ Add(A, B) = X \cup Y
  BY DEF Add, SymDiff
<1> HIDE DEF X, Y, Z
<1>4. /\ Cardinality(X) \in Nat /\ Cardinality(Y) \in Nat /\ Cardinality(Z) \in Nat
      /\ Cardinality({}) = 0
  BY <1>1, FS_CardinalityType, FS_EmptySet
<1>5. /\ Cardinality(X \cup Z) = Cardinality(X) + Cardinality(Z) - Cardinality(X \cap Z)
      /\ Cardinality(Y \cup Z) = Cardinality(Y) + Cardinality(Z) - Cardinality(Y \cap Z)
      /\ Cardinality(X \cup Y) = Cardinality(X) + Cardinality(Y) - Cardinality(X \cap Y)
      /\ IsFiniteSet(X \cup Y)
  BY <1>1, FS_Union
<1>a. /\ Cardinality(X \cap Z) = 0
      /\ Cardinality(Y \cap Z) = 0
      /\ Cardinality(X \cap Y) = 0
  BY <1>2, <1>4, Zenon
<1>6. /\ Cardinality(X \cup Z) = Cardinality(X) + Cardinality(Z)
      /\ Cardinality(Y \cup Z) = Cardinality(Y) + Cardinality(Z)
      /\ Cardinality(X \cup Y) = Cardinality(X) + Cardinality(Y)
  BY <1>a, <1>4, <1>5
<1>7. /\ Odd(A) <=> (Cardinality(X) + Cardinality(Z)) % 2 = 1
      /\ Odd(B) <=> (Cardinality(Y) + Cardinality(Z)) % 2 = 1
      /\ Odd(Add(A, B)) <=> (Cardinality(X) + Cardinality(Y)) % 2 = 1
  BY <1>3, <1>6 DEF Odd
<1>8. (Cardinality(X) + Cardinality(Y)) % 2 = 1
        <=> ~((Cardinality(X) + Cardinality(Z)) % 2 = 1
                <=> (Cardinality(Y) + Cardinality(Z)) % 2 = 1)
  BY <1>4, OddSum
<1>9. IsFiniteSet(Add(A, B))
  BY <1>3, <1>5
<1> QED BY <1>7, <1>8, <1>9

LEMMA RowsMember ==
  ASSUME NEW row, NEW D, IsFiniteSet(D), NEW j
  PROVE  j \in Rows(row, D) <=> Odd({b \in D : j \in row[b]})
<1>1. ASSUME Odd({b \in D : j \in row[b]}) PROVE j \in UNION {row[b] : b \in D}
  <2>1. {b \in D : j \in row[b]} # {}
    <3>1. SUFFICES ASSUME {b \in D : j \in row[b]} = {} PROVE FALSE
      OBVIOUS
    <3>2. Cardinality({b \in D : j \in row[b]}) = 0
      BY <3>1, FS_EmptySet, Zenon
    <3> QED BY <1>1, <3>2 DEF Odd
  <2> QED BY <2>1
<1> QED BY <1>1 DEF Rows

LEMMA RowsAdd ==
  ASSUME NEW row, NEW A, NEW B, IsFiniteSet(A), IsFiniteSet(B)
  PROVE  Rows(row, Add(A, B)) = Add(Rows(row, A), Rows(row, B))
<1>1. ASSUME NEW j
      PROVE  j \in Rows(row, Add(A, B)) <=> ~(j \in Rows(row, A) <=> j \in Rows(row, B))
  <2> DEFINE X == {b \in A : j \in row[b]}
             Y == {b \in B : j \in row[b]}
  <2>1. IsFiniteSet(X) /\ IsFiniteSet(Y) /\ IsFiniteSet(Add(A, B))
    BY FS_Subset, OddAdd
  <2>2. {b \in Add(A, B) : j \in row[b]} = Add(X, Y)
    BY DEF Add, SymDiff
  <2> HIDE DEF X, Y
  <2>3. Odd(Add(X, Y)) <=> ~(Odd(X) <=> Odd(Y))
    BY <2>1, OddAdd
  <2>4. j \in Rows(row, Add(A, B)) <=> Odd(Add(X, Y))
    <3>1. j \in Rows(row, Add(A, B)) <=> Odd({b \in Add(A, B) : j \in row[b]})
      BY <2>1, RowsMember, Zenon
    <3> QED BY <3>1, <2>2, Zenon
  <2>5. (j \in Rows(row, A) <=> Odd(X)) /\ (j \in Rows(row, B) <=> Odd(Y))
    BY RowsMember, Zenon DEF X, Y
  <2> QED BY <2>3, <2>4, <2>5
<1> QED BY <1>1 DEF Add, SymDiff

LEMMA RowsNone == \A row : Rows(row, {}) = {}
  BY DEF Rows

LEMMA RowsIn ==
  \A D \in SUBSET (11 .. 22) : Rows(gen, D) \subseteq 0 .. 10
  BY GolayFacts DEF Rows

LEMMA FiniteInterval ==
  ASSUME NEW a \in Int, NEW b \in Int
  PROVE  IsFiniteSet(a .. b)
BY FS_Interval

LEMMA Few ==
  ASSUME NEW A \in SUBSET (0 .. 263)
  PROVE  IsFiniteSet(A) /\ Cardinality(A) \in Nat
<1>1. IsFiniteSet(0 .. 263)
  <2>1. PICK n \in Int : n = 263
    OBVIOUS
  <2>2. IsFiniteSet(0 .. n)
    BY FiniteInterval
  <2> QED BY <2>1, <2>2, Zenon
<1>2. A \subseteq 0 .. 263
  OBVIOUS
<1> QED BY <1>1, <1>2, FS_Subset, FS_CardinalityType, Zenon

LEMMA SyndromeAdd ==
  ASSUME NEW w \in SUBSET (0 .. 22), NEW e \in SUBSET (0 .. 22)
  PROVE  /\ Add(w, e) \in SUBSET (0 .. 22)
         /\ Syndrome(Add(w, e)) = Add(Syndrome(w), Syndrome(e))
         /\ Syndrome(w) \in SUBSET (0 .. 10)
<1> DEFINE W == w \cap 11 .. 22
           E == e \cap 11 .. 22
<1>1. IsFiniteSet(W) /\ IsFiniteSet(E)
  BY Few
<1>2. Add(w, e) \cap 11 .. 22 = Add(W, E)
  BY DEF Add, SymDiff
<1>3. Rows(gen, Add(W, E)) = Add(Rows(gen, W), Rows(gen, E))
  <2> HIDE DEF W, E
  <2> QED BY <1>1, RowsAdd
<1>4. Syndrome(Add(w, e)) = Add(Rows(gen, Add(W, E)), Add(w, e) \cap 0 .. 10)
  BY <1>2 DEF Syndrome
<1>5. Rows(gen, W) \subseteq 0 .. 10
  BY RowsIn
<1>6. Add(w, e) \in SUBSET (0 .. 22)
  BY DEF Add, SymDiff
<1> QED BY <1>3, <1>4, <1>5, <1>6 DEF Add, SymDiff, Syndrome

LEMMA Halves ==
  /\ \A x \in 0 .. 22 : x \in 0 .. 10 \/ x \in 11 .. 22
  /\ \A x \in 11 .. 22 : x \in 0 .. 22 /\ x \notin 0 .. 10
  /\ \A x \in 0 .. 10 : x \in 0 .. 22 /\ x \notin 11 .. 22
OBVIOUS

LEMMA Encode23Word ==
  ASSUME NEW D \in SUBSET (11 .. 22)
  PROVE  /\ Encode23(D) \in SUBSET (0 .. 22)
         /\ Encode23(D) \cap 11 .. 22 = D
         /\ Syndrome(Encode23(D)) = {}
<1>1. Rows(gen, D) \subseteq 0 .. 10
  BY RowsIn
<1>2. /\ Encode23(D) \in SUBSET (0 .. 22)
      /\ Encode23(D) \cap 11 .. 22 = D
      /\ Encode23(D) \cap 0 .. 10 = Rows(gen, D)
  <2>1. D \subseteq 11 .. 22
    OBVIOUS
  <2> QED BY <1>1, <2>1, Halves, Zenon DEF Encode23
<1> QED BY <1>2 DEF Syndrome, Add, SymDiff

LEMMA Codeword ==
  ASSUME NEW w \in SUBSET (0 .. 22), Syndrome(w) = {}
  PROVE  w = Encode23(w \cap 11 .. 22)
<1>1. Rows(gen, w \cap 11 .. 22) = w \cap 0 .. 10
  BY DEF Syndrome, Add, SymDiff
<1>2. w = (w \cap 11 .. 22) \cup (w \cap 0 .. 10)
  BY Halves, Zenon
<1> QED BY <1>1, <1>2, Zenon DEF Encode23

LEMMA Distance ==
  ASSUME NEW w \in SUBSET (0 .. 22), Syndrome(w) = {}, w # {}
  PROVE  Cardinality(w) >= 7
<1>1. w = Encode23(w \cap 11 .. 22)
  BY Codeword
<1>2. w \cap 11 .. 22 # {}
  BY <1>1, RowsNone DEF Encode23
<1>3. w \cap 11 .. 22 \in SUBSET (11 .. 22)
  OBVIOUS
<1>4. Cardinality(Encode23(w \cap 11 .. 22)) >= 7
  BY <1>2, <1>3, GolayFacts
<1> QED BY <1>1, <1>4

\* Errors add up, or cancel each other.
LEMMA AddCard ==
  ASSUME NEW A \in SUBSET (0 .. 263), NEW B \in SUBSET (0 .. 263)
  PROVE  /\ Cardinality(A) \in Nat /\ Cardinality(B) \in Nat
         /\ Cardinality(Add(A, B)) \in Nat
         /\ Cardinality(Add(A, B)) <= Cardinality(A) + Cardinality(B)
         /\ (Add(A, B) = {} <=> A = B)
<1> DEFINE X == A \ B
           Y == B \ A
<1>1. X \in SUBSET (0 .. 263) /\ Y \in SUBSET (0 .. 263)
  OBVIOUS
<1>2. Add(A, B) = X \cup Y /\ X \subseteq A /\ Y \subseteq B
  BY DEF Add, SymDiff
<1>3. Add(A, B) = {} <=> A = B
  BY DEF Add, SymDiff
<1>3a. A \in SUBSET (0 .. 263) /\ B \in SUBSET (0 .. 263) /\ Add(A, B) \in SUBSET (0 .. 263)
  BY DEF Add, SymDiff
<1> HIDE DEF X, Y
<1>4. /\ IsFiniteSet(A) /\ Cardinality(A) \in Nat
      /\ IsFiniteSet(B) /\ Cardinality(B) \in Nat
      /\ IsFiniteSet(X) /\ Cardinality(X) \in Nat
      /\ IsFiniteSet(Y) /\ Cardinality(Y) \in Nat
      /\ IsFiniteSet(X \cap Y) /\ Cardinality(X \cap Y) \in Nat
      /\ Cardinality(Add(A, B)) \in Nat
  <2>1. X \cap Y \in SUBSET (0 .. 263)
    BY <1>1
  <2> QED BY <1>1, <2>1, <1>3a, Few
<1>5. Cardinality(X) <= Cardinality(A) /\ Cardinality(Y) <= Cardinality(B)
  BY <1>2, <1>4, FS_Subset
<1>6. Cardinality(X \cup Y) = Cardinality(X) + Cardinality(Y) - Cardinality(X \cap Y)
  BY <1>4, FS_Union
<1>7. Cardinality(Add(A, B)) = Cardinality(X) + Cardinality(Y) - Cardinality(X \cap Y)
  BY <1>2, <1>6
<1> QED BY <1>3, <1>4, <1>5, <1>7

LEMMA Corrected ==
  ASSUME NEW D \in SUBSET (11 .. 22), NEW e \in SUBSET (0 .. 22)
  PROVE  LET w == Add(Encode23(D), e)
             r == Decode23(w)
         IN /\ r.data \in SUBSET (11 .. 22) /\ r.errs \in 0 .. 3
            /\ Cardinality(e) <= 3 => r.data = D /\ r.errs = Cardinality(e)
            /\ Cardinality(e) = 4 =>
                 r.errs = 3 /\ (Odd(Encode23(r.data)) <=> ~Odd(Encode23(D)))
<1> DEFINE c == Encode23(D)
           w == Add(c, e)
           f == syn[Syndrome(w)]
           x == Add(w, f)
<1>1. /\ c \in SUBSET (0 .. 22) /\ c \cap 11 .. 22 = D /\ Syndrome(c) = {}
  BY Encode23Word
<1> HIDE DEF c
<1>2. w \in SUBSET (0 .. 22) /\ Syndrome(w) \in SUBSET (0 .. 10)
  BY <1>1, SyndromeAdd
<1>3. Syndrome(w) = Syndrome(e)
  <2>1. Syndrome(w) = Add({}, Syndrome(e))
    BY <1>1, SyndromeAdd
  <2> QED BY <2>1 DEF Add, SymDiff
<1> HIDE DEF w
<1>4. f \in SUBSET (0 .. 22) /\ Cardinality(f) <= 3 /\ Syndrome(f) = Syndrome(w)
  BY <1>2, GolayFacts
<1> HIDE DEF f
<1>5. x \in SUBSET (0 .. 22) /\ Syndrome(x) = {}
  <2>1. x \in SUBSET (0 .. 22) /\ Syndrome(x) = Add(Syndrome(w), Syndrome(f))
    BY <1>2, <1>4, SyndromeAdd
  <2> QED BY <2>1, <1>4 DEF Add, SymDiff
<1> DEFINE y == Add(e, f)
<1>6. y \in SUBSET (0 .. 22) /\ Syndrome(y) = {}
  <2>1. y \in SUBSET (0 .. 22) /\ Syndrome(y) = Add(Syndrome(e), Syndrome(f))
    BY <1>4, SyndromeAdd
  <2> QED BY <2>1, <1>3, <1>4 DEF Add, SymDiff
<1>7. x = Add(c, y)
  BY DEF Add, SymDiff, w
<1>8. y # {} => Cardinality(y) >= 7
  BY <1>6, Distance
<1>9. c \in SUBSET (0 .. 263) /\ e \in SUBSET (0 .. 263) /\ f \in SUBSET (0 .. 263)
      /\ y \in SUBSET (0 .. 263)
  BY <1>1, <1>4, <1>6
<1>10. /\ Cardinality(e) \in Nat /\ Cardinality(f) \in Nat /\ Cardinality(y) \in Nat
       /\ Cardinality(y) <= Cardinality(e) + Cardinality(f)
       /\ (y = {} <=> e = f)
  <2> DEFINE z == Add(e, f)
  <2>1. /\ Cardinality(e) \in Nat /\ Cardinality(f) \in Nat /\ Cardinality(z) \in Nat
        /\ Cardinality(z) <= Cardinality(e) + Cardinality(f)
        /\ (z = {} <=> e = f)
    <3>1. Cardinality(e) \in Nat /\ Cardinality(f) \in Nat /\ Cardinality(z) \in Nat
      <4>1. Cardinality(e) \in Nat
        BY <1>9, AddCard, ZenonT(30)
      <4>2. Cardinality(f) \in Nat
        BY <1>9, AddCard, ZenonT(30)
      <4>3. Cardinality(z) \in Nat
        BY <1>9, AddCard, ZenonT(30)
      <4> QED BY <4>1, <4>2, <4>3, Zenon
    <3>2. Cardinality(z) <= Cardinality(e) + Cardinality(f)
      BY <1>9, AddCard, ZenonT(30)
    <3>3. z = {} <=> e = f
      BY <1>9, AddCard, ZenonT(30)
    <3> QED BY <3>1, <3>2, <3>3, Zenon
  <2> QED BY <2>1
<1>11. x = Encode23(x \cap 11 .. 22)
  BY <1>5, Codeword
<1>12. Decode23(w) = [data |-> x \cap 11 .. 22, errs |-> Cardinality(f)]
  BY DEF Decode23, f
<1> HIDE DEF x, y
<1>13. ASSUME Cardinality(e) <= 3 PROVE x \cap 11 .. 22 = D /\ Cardinality(f) = Cardinality(e)
  <2>1. y = {} /\ e = f
    BY <1>4, <1>8, <1>10, <1>13
  <2>2. x = c
    BY <1>7, <2>1 DEF Add, SymDiff
  <2> QED BY <1>1, <2>1, <2>2
<1>14. ASSUME Cardinality(e) = 4
       PROVE  Cardinality(f) = 3 /\ (Odd(Encode23(x \cap 11 .. 22)) <=> ~Odd(c))
  <2>1. Cardinality(y) >= 7
    BY <1>4, <1>8, <1>10, <1>14
  <2>2. Cardinality(y) = 7 /\ Cardinality(f) = 3
    BY <1>4, <1>10, <1>14, <2>1
  <2>3. Odd(y)
    BY <2>2 DEF Odd
  <2>4. IsFiniteSet(c) /\ IsFiniteSet(y)
    BY <1>9, Few
  <2>5. Odd(Add(c, y)) <=> ~(Odd(c) <=> Odd(y))
    BY <2>4, OddAdd
  <2> QED BY <1>7, <1>11, <2>2, <2>3, <2>5
<1>15. Cardinality(f) \in 0 .. 3
  BY <1>4, <1>10
<1> QED BY <1>12, <1>13, <1>14, <1>15 DEF w, c

LEMMA ImageCard ==
  ASSUME NEW S, IsFiniteSet(S), NEW f, \A x, y \in S : f[x] = f[y] => x = y
  PROVE  /\ IsFiniteSet({f[x] : x \in S})
         /\ Cardinality({f[x] : x \in S}) = Cardinality(S)
<1> DEFINE T == {f[x] : x \in S}
           g == [x \in S |-> f[x]]
<1>1. g \in Bijection(S, T)
  BY DEF Bijection, Injection, Surjection, IsInjective
<1>2. ExistsBijection(S, T)
  BY <1>1 DEF ExistsBijection
<1> QED BY <1>2, FS_Bijection

LEMMA Shifted ==
  ASSUME NEW S \in SUBSET (1 .. 23)
  PROVE  /\ {b - 1 : b \in S} \in SUBSET (0 .. 22)
         /\ Cardinality({b - 1 : b \in S}) = Cardinality(S)
<1> DEFINE f == [b \in S |-> b - 1]
<1>1. \A x, y \in S : f[x] = f[y] => x = y
  OBVIOUS
<1>2. {f[x] : x \in S} = {b - 1 : b \in S}
  OBVIOUS
<1>3. IsFiniteSet(S)
  BY Few
<1>4. Cardinality({f[x] : x \in S}) = Cardinality(S)
  <2> HIDE DEF f
  <2> QED BY <1>1, <1>3, ImageCard
<1> QED BY <1>2, <1>4

LEMMA Encode24Word ==
  ASSUME NEW D \in SUBSET (11 .. 22)
  PROVE  /\ Encode24(D) \in SUBSET (0 .. 23)
         /\ 0 \in Encode24(D) <=> Odd(Encode23(D))
         /\ \A b \in 0 .. 22 : b + 1 \in Encode24(D) <=> b \in Encode23(D)
<1>1. Encode23(D) \in SUBSET (0 .. 22)
  BY Encode23Word
<1> DEFINE c == Encode23(D)
<1>2. Encode24(D) = {b + 1 : b \in c} \cup {b \in {0} : Odd(c)}
  BY DEF Encode24
<1> HIDE DEF c
<1>3. c \in SUBSET (0 .. 22)
  BY <1>1 DEF c
<1>4. Encode24(D) \in SUBSET (0 .. 23)
  BY <1>2, <1>3
<1>5. 0 \in Encode24(D) <=> Odd(c)
  <2>1. 0 \notin {b + 1 : b \in c}
    BY <1>3
  <2>2. 0 \in {b \in {0} : Odd(c)} <=> Odd(c)
    BY Zenon
  <2> QED BY <1>2, <2>1, <2>2, Zenon
<1>6. ASSUME NEW b \in 0 .. 22 PROVE b + 1 \in Encode24(D) <=> b \in c
  <2>1. b + 1 \in {a + 1 : a \in c} <=> b \in c
    BY <1>3
  <2>2. b + 1 # 0
    OBVIOUS
  <2> QED BY <1>2, <2>1, <2>2, Zenon
<1> QED BY <1>4, <1>5, <1>6 DEF c

LEMMA Corrected24 ==
  ASSUME NEW D \in SUBSET (11 .. 22), NEW h \in SUBSET (0 .. 23)
  PROVE  LET r == Decode24(Add(Encode24(D), h))
         IN /\ r.data \in SUBSET (11 .. 22)
            /\ Cardinality(h) <= 3 => r.data = D
            /\ Cardinality(h) = 4 => ~r.ok
<1> DEFINE c == Encode23(D)
           w == Add(Encode24(D), h)
           k == h \ {0}
           e == {b - 1 : b \in k}
           p == Decode23(Add(c, e))
           same == (0 \in Encode24(p.data)) = (0 \in w)
<1>1. k \in SUBSET (1 .. 23)
  OBVIOUS
<1>2. e \in SUBSET (0 .. 22) /\ Cardinality(e) = Cardinality(k)
  <2> HIDE DEF k
  <2> QED BY <1>1, Shifted
<1>3. {b - 1 : b \in w \ {0}} = Add(c, e)
  <2>1. \A b \in 0 .. 22 : b + 1 \in Encode24(D) <=> b \in c
    BY Encode24Word
  <2>2. \A b \in 0 .. 22 : b + 1 \in h <=> b \in e
    OBVIOUS
  <2>3. \A b \in 0 .. 22 : b + 1 \in w <=> b \in Add(c, e)
    BY <2>1, <2>2 DEF Add, SymDiff
  <2>4. w \in SUBSET (0 .. 23)
    BY Encode24Word DEF Add, SymDiff
  <2>5. Add(c, e) \in SUBSET (0 .. 22)
    BY <1>2, Encode23Word DEF Add, SymDiff
  <2> HIDE DEF w, c, e
  <2> QED BY <2>3, <2>4, <2>5
<1>4. Decode24(w) = [data |-> p.data, errs |-> IF same THEN p.errs ELSE p.errs + 1,
                     ok |-> same \/ p.errs < 3]
  BY <1>3 DEF Decode24
<1>5. /\ p.data \in SUBSET (11 .. 22)
      /\ Cardinality(e) <= 3 => p.data = D /\ p.errs = Cardinality(e)
      /\ Cardinality(e) = 4 => p.errs = 3 /\ (Odd(Encode23(p.data)) <=> ~Odd(c))
  <2> HIDE DEF e
  <2> QED BY <1>2, Corrected
<1>6. /\ 0 \in w <=> ~(Odd(c) <=> 0 \in h)
      /\ 0 \in Encode24(p.data) <=> Odd(Encode23(p.data))
  BY <1>5, Encode24Word DEF Add, SymDiff
<1>7. /\ Cardinality(h) \in Nat /\ Cardinality(k) \in Nat
      /\ 0 \in h => Cardinality(k) = Cardinality(h) - 1
      /\ 0 \notin h => Cardinality(k) = Cardinality(h)
  <2>1. IsFiniteSet(h) /\ Cardinality(h) \in Nat /\ IsFiniteSet(k) /\ Cardinality(k) \in Nat
    <3>1. h \in SUBSET (0 .. 263) /\ k \in SUBSET (0 .. 263)
      OBVIOUS
    <3> HIDE DEF k
    <3> QED BY <3>1, Few
  <2>2. 0 \in h => Cardinality(k) = Cardinality(h) - 1
    BY <2>1, FS_RemoveElement
  <2>3. 0 \notin h => k = h
    OBVIOUS
  <2> QED BY <2>1, <2>2, <2>3
<1> HIDE DEF e, k, c, w
<1>8. ASSUME Cardinality(h) <= 3 PROVE p.data = D
  BY <1>2, <1>5, <1>7, <1>8
<1>9. ASSUME Cardinality(h) = 4 PROVE ~same /\ p.errs = 3
  <2>1. CASE 0 \in h
    <3>1. Cardinality(e) = 3
      BY <1>2, <1>7, <1>9, <2>1
    <3>2. p.data = D /\ p.errs = 3
      BY <1>5, <3>1
    <3>3. Odd(Encode23(p.data)) <=> Odd(c)
      BY <3>2 DEF c
    <3> QED BY <1>6, <2>1, <3>2, <3>3
  <2>2. CASE 0 \notin h
    <3>1. Cardinality(e) = 4
      BY <1>2, <1>7, <1>9, <2>2
    <3> QED BY <1>5, <1>6, <2>2, <3>1
  <2> QED BY <2>1, <2>2
<1>10. /\ Decode24(w).data = p.data
       /\ p.errs = 3 /\ ~same => ~Decode24(w).ok
  <2> HIDE DEF p, same
  <2>1. Decode24(w).data = p.data /\ Decode24(w).ok = (same \/ p.errs < 3)
    BY <1>4
  <2>2. p.errs = 3 => ~(p.errs < 3)
    OBVIOUS
  <2> QED BY <2>1, <2>2, Zenon
<1> QED BY <1>5, <1>8, <1>9, <1>10 DEF w

Modes == {"dstar", "dmr"}

LEMMA WordsFields ==
  \A b \in Words :
    /\ b = <<b[1], b[2]>> /\ b[1] \in 0 .. 3 /\ b[2] \in 0 .. 23
    /\ b[1] = 1 => b[2] \in 0 .. 22
    /\ b[1] = 2 => b[2] \in 0 .. 10
    /\ b[1] = 3 => b[2] \in 0 .. 13
  BY DEF Words

LEMMA WordsMember ==
  /\ \A b \in 0 .. 23 : <<0, b>> \in Words
  /\ \A b \in 0 .. 22 : <<1, b>> \in Words
  /\ \A b \in 0 .. 10 : <<2, b>> \in Words
  /\ \A b \in 0 .. 13 : <<3, b>> \in Words
  BY DEF Words

LEMMA WordMember ==
  ASSUME NEW c \in SUBSET Words, NEW w, NEW x
  PROVE  x \in Word(c, w) <=> <<w, x>> \in c
<1>1. ASSUME x \in Word(c, w) PROVE <<w, x>> \in c
  <2>1. PICK b \in c : b[1] = w /\ b[2] = x
    BY <1>1 DEF Word
  <2> QED BY <2>1, WordsFields
<1>2. ASSUME <<w, x>> \in c PROVE x \in Word(c, w)
  <2>1. <<w, x>>[1] = w /\ <<w, x>>[2] = x
    OBVIOUS
  <2> QED BY <1>2, <2>1, Zenon DEF Word
<1> QED BY <1>1, <1>2

LEMMA WordIn ==
  ASSUME NEW c \in SUBSET Words
  PROVE  /\ Word(c, 0) \in SUBSET (0 .. 23)
         /\ Word(c, 1) \in SUBSET (0 .. 22)
         /\ Word(c, 2) \in SUBSET (0 .. 10)
         /\ Word(c, 3) \in SUBSET (0 .. 13)
  BY WordsFields DEF Word

LEMMA WordAdd ==
  ASSUME NEW c \in SUBSET Words, NEW h \in SUBSET Words, NEW w
  PROVE  /\ Add(c, h) \in SUBSET Words
         /\ Word(Add(c, h), w) = Add(Word(c, w), Word(h, w))
<1>1. Add(c, h) \in SUBSET Words
  BY Zenon DEF Add, SymDiff
<1>2. ASSUME NEW x
      PROVE  x \in Word(Add(c, h), w) <=> ~(x \in Word(c, w) <=> x \in Word(h, w))
  <2>1. <<w, x>> \in Add(c, h) <=> ~(<<w, x>> \in c <=> <<w, x>> \in h)
    BY Zenon DEF Add, SymDiff
  <2> QED BY <1>1, <2>1, WordMember, Zenon
<1> QED BY <1>1, <1>2, Zenon DEF Add, SymDiff

LEMMA PlaceFacts ==
  ASSUME NEW mode \in Modes
  PROVE  /\ \A i, j \in 0 .. 71 : Place(mode, i) = Place(mode, j) => i = j
         /\ \A i \in 0 .. 71 : Place(mode, i) \in Words
         /\ \A b \in Words : \E i \in 0 .. 71 : Place(mode, i) = b
<1>1. {Place(mode, i) : i \in 0 .. 71} = Words
  BY TableFacts, Zenon DEF Modes
<1>2. \A i, j \in 0 .. 71 : Place(mode, i) = Place(mode, j) => i = j
  BY TableFacts, Zenon DEF Modes
<1> QED BY <1>1, <1>2, Zenon

LEMMA FrameBitsAdd ==
  ASSUME NEW mode \in Modes, NEW F \in SUBSET (0 .. 71), NEW H \in SUBSET (0 .. 71)
  PROVE  /\ FrameBits(mode, F) \in SUBSET Words
         /\ FrameBits(mode, Add(F, H)) = Add(FrameBits(mode, F), FrameBits(mode, H))
<1>1. ASSUME NEW G \in SUBSET (0 .. 71) PROVE FrameBits(mode, G) \in SUBSET Words
  <2>1. \A i \in G : Place(mode, i) \in Words
    BY PlaceFacts
  <2> QED BY <2>1, Zenon DEF FrameBits
<1>2. \A G \in SUBSET (0 .. 71) : \A i \in 0 .. 71 :
        Place(mode, i) \in FrameBits(mode, G) <=> i \in G
  BY PlaceFacts, SMT DEF FrameBits
<1>3. Add(F, H) \in SUBSET (0 .. 71)
  BY Zenon DEF Add, SymDiff
<1>4. ASSUME NEW b \in Words
      PROVE  b \in FrameBits(mode, Add(F, H))
               <=> b \in Add(FrameBits(mode, F), FrameBits(mode, H))
  <2>1. PICK i \in 0 .. 71 : Place(mode, i) = b
    BY PlaceFacts, Zenon
  <2>2. i \in Add(F, H) <=> ~(i \in F <=> i \in H)
    BY Zenon DEF Add, SymDiff
  <2>3. b \in Add(FrameBits(mode, F), FrameBits(mode, H)) <=>
          ~(b \in FrameBits(mode, F) <=> b \in FrameBits(mode, H))
    BY Zenon DEF Add, SymDiff
  <2> QED BY <1>2, <1>3, <2>1, <2>2, <2>3, Zenon
<1>5. /\ FrameBits(mode, Add(F, H)) \in SUBSET Words
      /\ Add(FrameBits(mode, F), FrameBits(mode, H)) \in SUBSET Words
  BY <1>1, <1>3, Zenon DEF Add, SymDiff
<1> QED BY <1>1, <1>4, <1>5, Zenon

LEMMA FrameBitsInAir ==
  ASSUME NEW mode \in Modes, NEW c \in SUBSET Words
  PROVE  /\ InAir(mode, c) \in SUBSET (0 .. 71)
         /\ FrameBits(mode, InAir(mode, c)) = c
<1>1. InAir(mode, c) \in SUBSET (0 .. 71)
  BY Zenon DEF InAir
<1>2. ASSUME NEW b \in c PROVE b \in FrameBits(mode, InAir(mode, c))
  <2>1. PICK i \in 0 .. 71 : Place(mode, i) = b
    BY PlaceFacts
  <2> QED BY <2>1, Zenon DEF InAir, FrameBits
<1>3. ASSUME NEW b \in FrameBits(mode, InAir(mode, c)) PROVE b \in c
  BY <1>3, Zenon DEF InAir, FrameBits
<1> QED BY <1>1, <1>2, <1>3, Zenon

\* Noise hits as many bits of a word as of those in the air that belong to it.
LEMMA HitCard ==
  ASSUME NEW mode \in Modes, NEW H \in SUBSET (0 .. 71), NEW w
  PROVE  Cardinality(Word(FrameBits(mode, H), w))
           = Cardinality({i \in H : Place(mode, i)[1] = w})
<1> DEFINE S == {i \in H : Place(mode, i)[1] = w}
           f == [i \in S |-> Place(mode, i)[2]]
<1>1. S \in SUBSET (0 .. 71) /\ S \in SUBSET (0 .. 263)
  <2>1. \A i \in S : i \in 0 .. 71
    OBVIOUS
  <2>2. \A i \in 0 .. 71 : i \in 0 .. 263
    OBVIOUS
  <2> QED BY <2>1, <2>2, ZenonT(30)
<1>2. IsFiniteSet(S)
  <2> HIDE DEF S
  <2> QED BY <1>1, Few
<1>3. \A i, j \in S : f[i] = f[j] => i = j
  <2> SUFFICES ASSUME NEW i \in S, NEW j \in S, f[i] = f[j] PROVE i = j
    OBVIOUS
  <2>1. Place(mode, i) \in Words /\ Place(mode, j) \in Words
    BY PlaceFacts, <1>1
  <2>2. /\ Place(mode, i)[1] = w /\ Place(mode, j)[1] = w
        /\ Place(mode, i)[2] = Place(mode, j)[2]
    OBVIOUS
  <2>3. Place(mode, i) = Place(mode, j)
    BY <2>1, <2>2, WordsFields
  <2> QED BY <2>3, PlaceFacts
<1>4. {f[i] : i \in S} = Word(FrameBits(mode, H), w)
  BY DEF Word, FrameBits
<1>5. Cardinality({f[i] : i \in S}) = Cardinality(S)
  <2> HIDE DEF f, S
  <2> QED BY <1>2, <1>3, ImageCard
<1> QED BY <1>4, <1>5

-----------------------------------------------------------------------------
(* A voice frame: whitened, its two words, what a fade can hit             *)

White(mode, D) ==
  {<<1, 22 - k>> : k \in pn(D) \ {23}}
  \cup {<<2, 10>> : k \in pn(D) \cap (IF mode = "dstar" THEN {23} ELSE {})}

LEMMA Whitened ==
  ASSUME NEW mode, NEW D
  PROVE  /\ \A c : Whiten(mode, D, c) = Add(c, White(mode, D))
         /\ White(mode, D) \in SUBSET Words
         /\ Word(White(mode, D), 0) = {}
<1>1. \A k \in pn(D) : k \in 0 .. 23
  BY DEF pn
<1>2. \A k \in pn(D) \ {23} : 22 - k \in 0 .. 22
  BY <1>1
<1>3. <<2, 10>> \in Words
  BY WordsMember
<1>4. \A c : Whiten(mode, D, c) = Add(c, White(mode, D))
  BY Zenon DEF Whiten, White
<1>5. White(mode, D) \in SUBSET Words
  <2>1. {<<1, 22 - k>> : k \in pn(D) \ {23}} \subseteq Words
    BY <1>2, WordsMember, Zenon
  <2> QED BY <2>1, <1>3, Zenon DEF White
<1>6. \A b \in White(mode, D) : b[1] \in {1, 2}
  BY DEF White
<1>7. Word(White(mode, D), 0) = {}
  BY <1>6 DEF Word
<1> QED BY <1>4, <1>5, <1>7

Data0(d) == {22 - i : i \in d \cap 0 .. 11}
Data1(d) == {34 - i : i \in d \cap 12 .. 23}
Matrix(mode, d) ==
  LET C2 == {34 - i : i \in d \cap 24 .. 34}
      Parity == IF 0 \in Encode24(Data1(d)) THEN C2 \cup {10} ELSE C2 \ {10}
  IN {<<0, b>> : b \in Encode24(Data0(d))} \cup {<<1, b>> : b \in Encode23(Data1(d))}
     \cup {<<2, b>> : b \in IF mode = "dstar" THEN Parity ELSE C2}
     \cup {<<3, 48 - i>> : i \in d \cap 35 .. 48}

LEMMA EncodedFrame ==
  \A mode, d :
    EncodeFrame(mode, d) = InAir(mode, Whiten(mode, Data0(d), Matrix(mode, d)))
BY Zenon DEF EncodeFrame, Data0, Data1, Matrix

LEMMA DataIn ==
  ASSUME NEW d
  PROVE  Data0(d) \in SUBSET (11 .. 22) /\ Data1(d) \in SUBSET (11 .. 22)
BY DEF Data0, Data1

LEMMA MatrixWords ==
  ASSUME NEW mode \in Modes, NEW d
  PROVE  /\ Matrix(mode, d) \in SUBSET Words
         /\ Word(Matrix(mode, d), 0) = Encode24(Data0(d))
         /\ Word(Matrix(mode, d), 1) = Encode23(Data1(d))
         /\ mode = "dstar" =>
              (<<2, 10>> \in Matrix(mode, d) <=> 0 \in Encode24(Data1(d)))
<1> DEFINE C2 == {34 - i : i \in d \cap 24 .. 34}
           Parity == IF 0 \in Encode24(Data1(d)) THEN C2 \cup {10} ELSE C2 \ {10}
           M0 == {<<0, b>> : b \in Encode24(Data0(d))}
           M1 == {<<1, b>> : b \in Encode23(Data1(d))}
           M2 == {<<2, b>> : b \in IF mode = "dstar" THEN Parity ELSE C2}
           M3 == {<<3, 48 - i>> : i \in d \cap 35 .. 48}
           M == Matrix(mode, d)
<1>1. M = M0 \cup M1 \cup M2 \cup M3
  BY Zenon DEF Matrix
<1>2. Encode24(Data0(d)) \in SUBSET (0 .. 23) /\ Encode23(Data1(d)) \in SUBSET (0 .. 22)
  BY DataIn, Encode23Word, Encode24Word
<1>3. C2 \in SUBSET (0 .. 10)
  OBVIOUS
<1>4. Parity \in SUBSET (0 .. 10)
  <2>1. 10 \in 0 .. 10
    OBVIOUS
  <2> HIDE DEF C2
  <2> QED BY <1>3, <2>1
<1>5. M0 \subseteq Words /\ M1 \subseteq Words
  BY <1>2, WordsMember
<1>6. M2 \subseteq Words
  <2> HIDE DEF C2, Parity
  <2> QED BY <1>3, <1>4, WordsMember
<1>7. M3 \subseteq Words
  <2>1. \A i \in d \cap 35 .. 48 : 48 - i \in 0 .. 13
    OBVIOUS
  <2> QED BY <2>1, WordsMember
<1>8. M \in SUBSET Words
  <2> HIDE DEF M0, M1, M2, M3, M
  <2> QED BY <1>1, <1>5, <1>6, <1>7
<1>9. ASSUME NEW b PROVE <<0, b>> \in M <=> b \in Encode24(Data0(d))
  BY <1>1
<1>10. ASSUME NEW b PROVE <<1, b>> \in M <=> b \in Encode23(Data1(d))
  BY <1>1
<1>11. ASSUME mode = "dstar" PROVE <<2, 10>> \in M <=> 0 \in Encode24(Data1(d))
  <2>1. <<2, 10>> \in M <=> <<2, 10>> \in M2
    BY <1>1
  <2>2. <<2, 10>> \in M2 <=> 10 \in Parity
    BY <1>11
  <2>3. 10 \in Parity <=> 0 \in Encode24(Data1(d))
    BY Zenon
  <2> QED BY <2>1, <2>2, <2>3
<1> HIDE DEF M
<1>12. /\ \A b : b \in Word(M, 0) <=> b \in Encode24(Data0(d))
       /\ \A b : b \in Word(M, 1) <=> b \in Encode23(Data1(d))
  BY <1>8, <1>9, <1>10, WordMember, Zenon
<1>13. Word(M, 0) = Encode24(Data0(d)) /\ Word(M, 1) = Encode23(Data1(d))
  BY <1>12, Zenon
<1> QED BY <1>8, <1>11, <1>13 DEF M

\* What is decoded of a frame hit by noise: the whitening is undone once the
\* data of the first word are right.
LEMMA Unwhitened ==
  ASSUME NEW mode \in Modes, NEW d, NEW H \in SUBSET (0 .. 71)
  PROVE  LET c == FrameBits(mode, Add(EncodeFrame(mode, d), H))
             h == FrameBits(mode, H)
         IN /\ Word(c, 0) = Add(Encode24(Data0(d)), Word(h, 0))
            /\ Whiten(mode, Data0(d), c) = Add(Matrix(mode, d), h)
            /\ h \in SUBSET Words
            /\ \A D : Whiten(mode, D, c) \in SUBSET Words
<1> DEFINE m == Matrix(mode, d)
           p == White(mode, Data0(d))
           c == FrameBits(mode, Add(EncodeFrame(mode, d), H))
           h == FrameBits(mode, H)
           s == Add(m, p)
<1>1. m \in SUBSET Words /\ p \in SUBSET Words /\ Word(p, 0) = {}
  BY MatrixWords, Whitened
<1>2. Whiten(mode, Data0(d), m) = s /\ Whiten(mode, Data0(d), c) = Add(c, p)
  BY Whitened
<1>3. EncodeFrame(mode, d) = InAir(mode, s)
  BY <1>2, EncodedFrame
<1> HIDE DEF m, p
<1>4. s \in SUBSET Words /\ Word(s, 0) = Add(Word(m, 0), {})
  BY <1>1, WordAdd
<1> HIDE DEF s
<1>5. InAir(mode, s) \in SUBSET (0 .. 71) /\ FrameBits(mode, InAir(mode, s)) = s
  BY <1>4, FrameBitsInAir
<1>6. h \in SUBSET Words /\ c = Add(s, h)
  BY <1>3, <1>5, FrameBitsAdd
<1> HIDE DEF c, h
<1>7. c \in SUBSET Words /\ Word(c, 0) = Add(Word(s, 0), Word(h, 0))
  BY <1>4, <1>6, WordAdd
<1>8. Word(s, 0) = Encode24(Data0(d))
  <2>1. Word(m, 0) = Encode24(Data0(d))
    BY MatrixWords DEF m
  <2> QED BY <1>4, <2>1, Zenon DEF Add, SymDiff
<1>9. Add(c, p) = Add(m, h)
  BY <1>6, Zenon DEF Add, SymDiff, s
<1>10. ASSUME NEW D PROVE Whiten(mode, D, c) \in SUBSET Words
  <2>1. White(mode, D) \in SUBSET Words /\ Whiten(mode, D, c) = Add(c, White(mode, D))
    BY Whitened
  <2> QED BY <1>7, <2>1, WordAdd
<1> QED BY <1>2, <1>6, <1>7, <1>8, <1>9, <1>10 DEF c, h, m

\* The bits of the second word that noise hits, with its parity bit for D-STAR.
Hit1(mode, h) ==
  IF mode = "dstar" THEN {b + 1 : b \in Word(h, 1)} \cup {b \in {0} : <<2, 10>> \in h}
  ELSE Word(h, 1)

LEMMA Word1Decoded ==
  ASSUME NEW mode \in Modes, NEW d, NEW h \in SUBSET Words
  PROVE  LET m == Add(Matrix(mode, d), h)
             w1 == Word(m, 1)
             r == IF mode = "dstar"
                  THEN Decode24({b + 1 : b \in w1} \cup {b \in {0} : <<2, 10>> \in m}).data
                  ELSE Decode23(w1).data
         IN /\ r \in SUBSET (11 .. 22)
            /\ Cardinality(Hit1(mode, h)) <= 3 => r = Data1(d)
<1> DEFINE m == Add(Matrix(mode, d), h)
           w1 == Word(m, 1)
           D == Data1(d)
           g == Word(h, 1)
<1>1. D \in SUBSET (11 .. 22)
  BY DataIn
<1>2. w1 = Add(Encode23(D), g) /\ g \in SUBSET (0 .. 22)
  <2>1. w1 = Add(Word(Matrix(mode, d), 1), g)
    BY MatrixWords, WordAdd
  <2> QED BY <2>1, MatrixWords, WordIn
<1>3. CASE mode = "dmr"
  <2> HIDE DEF D, g, m, w1
  <2>1. /\ Decode23(w1).data \in SUBSET (11 .. 22)
        /\ Cardinality(g) <= 3 => Decode23(w1).data = D
    BY <1>1, <1>2, Corrected
  <2>2. Hit1(mode, h) = g
    BY <1>3 DEF Hit1, g
  <2> QED BY <1>3, <2>1, <2>2 DEF D, w1, m
<1>4. CASE mode = "dstar"
  <2> DEFINE k == Hit1(mode, h)
             w == {b + 1 : b \in w1} \cup {b \in {0} : <<2, 10>> \in m}
  <2>1. k = {b + 1 : b \in g} \cup {b \in {0} : <<2, 10>> \in h}
    BY <1>4 DEF Hit1
  <2>2. k \in SUBSET (0 .. 23)
    BY <1>2, <2>1
  <2>3. w = Add(Encode24(D), k)
    <3>1. /\ 0 \in w <=> <<2, 10>> \in m
          /\ 0 \in k <=> <<2, 10>> \in h
      <4> HIDE DEF k, g, m, w1
      <4>1. w1 \in SUBSET (0 .. 22)
        BY <1>1, <1>2, Encode23Word DEF Add, SymDiff
      <4>2. 0 \notin {b + 1 : b \in w1} /\ 0 \notin {b + 1 : b \in g}
        BY <1>2, <4>1
      <4> QED BY <2>1, <4>2, Zenon
    <3>2. <<2, 10>> \in m <=> ~(0 \in Encode24(D) <=> <<2, 10>> \in h)
      <4>1. <<2, 10>> \in Matrix(mode, d) <=> 0 \in Encode24(D)
        BY <1>4, MatrixWords
      <4> QED BY <4>1, Zenon DEF Add, SymDiff
    <3>3. ASSUME NEW b \in 0 .. 22
          PROVE  b + 1 \in w <=> ~(b + 1 \in Encode24(D) <=> b + 1 \in k)
      <4> HIDE DEF m, D, g, k
      <4>1. w1 \in SUBSET (0 .. 22)
        BY <1>1, <1>2, Encode23Word DEF Add, SymDiff
      <4> HIDE DEF w1
      <4>2. b + 1 \in w <=> b \in w1
        BY <4>1
      <4>3. b + 1 \in k <=> b \in g
        BY <1>2, <2>1
      <4>4. b + 1 \in Encode24(D) <=> b \in Encode23(D)
        BY <1>1, Encode24Word
      <4>5. b \in w1 <=> ~(b \in Encode23(D) <=> b \in g)
        BY <1>2, Zenon DEF Add, SymDiff
      <4> QED BY <4>2, <4>3, <4>4, <4>5
    <3>4. w \in SUBSET (0 .. 23) /\ Encode24(D) \in SUBSET (0 .. 23)
      <4>1. w1 \in SUBSET (0 .. 22)
        BY <1>1, <1>2, Encode23Word DEF Add, SymDiff
      <4>2. Encode24(D) \in SUBSET (0 .. 23)
        BY <1>1, Encode24Word, Zenon
      <4> HIDE DEF m, D, w1
      <4>3. \A b \in w1 : b + 1 \in 0 .. 23
        BY <4>1
      <4>4. 0 \in 0 .. 23
        OBVIOUS
      <4> QED BY <4>2, <4>3, <4>4, Zenon
    <3>5. \A x \in 0 .. 23 : x = 0 \/ \E b \in 0 .. 22 : x = b + 1
      <4>1. \A x \in 0 .. 23 : x = 0 \/ (x - 1 \in 0 .. 22 /\ x = (x - 1) + 1)
        OBVIOUS
      <4> QED BY <4>1
    <3> HIDE DEF w, k, m, D
    <3>6. \A x \in 0 .. 23 : x \in w <=> ~(x \in Encode24(D) <=> x \in k)
      BY <3>1, <3>2, <3>3, <3>5
    <3> QED BY <2>2, <3>4, <3>6 DEF Add, SymDiff
  <2> HIDE DEF k, w, m, D
  <2>4. /\ Decode24(w).data \in SUBSET (11 .. 22)
        /\ Cardinality(k) <= 3 => Decode24(w).data = D
    BY <1>1, <2>2, <2>3, Corrected24
  <2> QED BY <1>4, <2>4 DEF k, w, D, m
<1> QED BY <1>3, <1>4 DEF Modes

LEMMA ParameterBits ==
  ASSUME NEW mode, NEW D0 \in SUBSET (11 .. 22), NEW D1 \in SUBSET (11 .. 22),
         NEW c \in SUBSET Words
  PROVE  Parameters(D0, D1, c, mode) \cap 0 .. 23
           = {22 - b : b \in D0} \cup {34 - b : b \in D1}
<1> DEFINE A == {34 - b : b \in Word(c, 2) \ (IF mode = "dstar" THEN {10} ELSE {})}
           B == {48 - b : b \in Word(c, 3)}
           P == {22 - b : b \in D0} \cup {34 - b : b \in D1}
<1>1. Parameters(D0, D1, c, mode) = P \cup A \cup B
  BY Zenon DEF Parameters
<1>2. Word(c, 2) \in SUBSET (0 .. 10) /\ Word(c, 3) \in SUBSET (0 .. 13)
  BY WordIn
<1>3. \A x \in A : x \notin 0 .. 23
  BY <1>2
<1>4. \A x \in B : x \notin 0 .. 23
  BY <1>2
<1>5. P \subseteq 0 .. 23
  OBVIOUS
<1> HIDE DEF A, B, P
<1>6. (P \cup A \cup B) \cap 0 .. 23 = P
  BY <1>3, <1>4, <1>5, Zenon
<1> QED BY <1>1, <1>6 DEF P

LEMMA Mirrored ==
  ASSUME NEW S \in SUBSET Nat, NEW n \in Nat
  PROVE  {n - b : b \in {n - i : i \in S}} = S
<1>1. \A i \in S : n - (n - i) = i
  OBVIOUS
<1>2. \A x : x \in {n - b : b \in {n - i : i \in S}} <=> \E i \in S : x = n - (n - i)
  OBVIOUS
<1> QED BY <1>1, <1>2, ZenonT(30)

LEMMA ProtectedData ==
  ASSUME NEW d
  PROVE  {22 - b : b \in Data0(d)} \cup {34 - b : b \in Data1(d)} = Protected(d)
<1> DEFINE L == d \cap 0 .. 11
           U == d \cap 12 .. 23
<1>a. L \in SUBSET Nat /\ U \in SUBSET Nat
  OBVIOUS
<1> HIDE DEF L, U
<1>1. {22 - b : b \in Data0(d)} = L
  <2>1. Data0(d) = {22 - i : i \in L}
    BY Zenon DEF Data0, L
  <2>2. {22 - b : b \in {22 - i : i \in L}} = L
    <3>1. \A n \in Nat : {n - b : b \in {n - i : i \in L}} = L
      BY <1>a, Mirrored, Zenon
    <3> QED BY <3>1
  <2> QED BY <2>1, <2>2, Zenon
<1>2. {34 - b : b \in Data1(d)} = U
  <2>1. Data1(d) = {34 - i : i \in U}
    BY Zenon DEF Data1, U
  <2>2. {34 - b : b \in {34 - i : i \in U}} = U
    <3>1. \A n \in Nat : {n - b : b \in {n - i : i \in U}} = U
      BY <1>a, Mirrored, Zenon
    <3> QED BY <3>1
  <2> QED BY <2>1, <2>2, Zenon
<1>3. \A x : x \in 0 .. 23 <=> x \in 0 .. 11 \/ x \in 12 .. 23
  OBVIOUS
<1> QED BY <1>1, <1>2, <1>3, Zenon DEF Protected, L, U

\* ambe.Decode after ambe.Encode and noise.
LEMMA FrameDecoded ==
  ASSUME NEW mode \in Modes, NEW d, NEW H \in SUBSET (0 .. 71)
  PROVE  LET st == DecodeFrame(mode, Add(EncodeFrame(mode, d), H))
             h == FrameBits(mode, H)
         IN /\ /\ Cardinality(Word(h, 0)) <= 3
               /\ Cardinality(Hit1(mode, h)) <= 3
               => Protected(st.bits) = Protected(d)
            /\ Cardinality(Word(h, 0)) = 4 => ~st.C0Parity
<1> DEFINE F == Add(EncodeFrame(mode, d), H)
           c == FrameBits(mode, F)
           h == FrameBits(mode, H)
           r0 == Decode24(Word(c, 0))
           m == Whiten(mode, r0.data, c)
           w1 == Word(m, 1)
           r1 == IF mode = "dstar"
                 THEN Decode24({b + 1 : b \in w1} \cup {b \in {0} : <<2, 10>> \in m})
                 ELSE [data |-> Decode23(w1).data, errs |-> Decode23(w1).errs, ok |-> TRUE]
           st == DecodeFrame(mode, F)
<1>1. /\ Word(c, 0) = Add(Encode24(Data0(d)), Word(h, 0))
      /\ Whiten(mode, Data0(d), c) = Add(Matrix(mode, d), h)
      /\ h \in SUBSET Words
      /\ m \in SUBSET Words
  BY Unwhitened
<1>2. st.bits = Parameters(r0.data, r1.data, m, mode) /\ st.C0Parity = r0.ok
  BY DEF DecodeFrame
<1>3. /\ r0.data \in SUBSET (11 .. 22)
      /\ Cardinality(Word(h, 0)) <= 3 => r0.data = Data0(d)
      /\ Cardinality(Word(h, 0)) = 4 => ~r0.ok
  <2>1. Word(h, 0) \in SUBSET (0 .. 23) /\ Data0(d) \in SUBSET (11 .. 22)
    BY <1>1, WordIn, DataIn
  <2> HIDE DEF c, h
  <2> QED BY <1>1, <2>1, Corrected24
<1>4. ASSUME Cardinality(Word(h, 0)) <= 3, Cardinality(Hit1(mode, h)) <= 3
      PROVE  Protected(st.bits) = Protected(d)
  <2>1. r0.data = Data0(d) /\ m = Add(Matrix(mode, d), h)
    BY <1>1, <1>3, <1>4
  <2>2. r1.data = IF mode = "dstar"
                  THEN Decode24({b + 1 : b \in w1} \cup {b \in {0} : <<2, 10>> \in m}).data
                  ELSE Decode23(w1).data
    BY DEF r1
  <2>3. r1.data = Data1(d)
    <3> HIDE DEF c, h, r0, r1
    <3> QED BY <1>1, <1>4, <2>1, <2>2, Word1Decoded
  <2>4. Data0(d) \in SUBSET (11 .. 22) /\ Data1(d) \in SUBSET (11 .. 22)
    BY DataIn
  <2> HIDE DEF m, r0, r1, h, c, st
  <2>5. st.bits \cap 0 .. 23 = {22 - b : b \in Data0(d)} \cup {34 - b : b \in Data1(d)}
    BY <1>1, <1>2, <2>1, <2>3, <2>4, ParameterBits
  <2> QED BY <2>5, ProtectedData DEF Protected
<1> HIDE DEF st, r0
<1> QED BY <1>2, <1>3, <1>4 DEF st, F

LEMMA SubCard ==
  ASSUME NEW A \in SUBSET (0 .. 263), NEW B \in SUBSET A
  PROVE  /\ Cardinality(A) \in Nat /\ Cardinality(B) \in Nat
         /\ Cardinality(B) <= Cardinality(A)
<1>1. B \in SUBSET (0 .. 263)
  OBVIOUS
<1>2. IsFiniteSet(A) /\ Cardinality(A) \in Nat /\ IsFiniteSet(B) /\ Cardinality(B) \in Nat
  BY <1>1, Few
<1> QED BY <1>2, FS_Subset

Second(mode, H) ==
  {i \in H : \/ Place(mode, i)[1] = 1
             \/ mode = "dstar" /\ Place(mode, i) = <<2, 10>>}

LEMMA SecondCard ==
  ASSUME NEW mode \in Modes, NEW H \in SUBSET (0 .. 71)
  PROVE  Cardinality(Hit1(mode, FrameBits(mode, H))) = Cardinality(Second(mode, H))
<1> DEFINE h == FrameBits(mode, H)
           S == Second(mode, H)
           f == [i \in S |-> IF Place(mode, i)[1] = 1 THEN Place(mode, i)[2] + 1 ELSE 0]
<1>1. CASE mode # "dstar"
  <2>1. S = {i \in H : Place(mode, i)[1] = 1} /\ Hit1(mode, h) = Word(h, 1)
    BY <1>1, Zenon DEF Second, Hit1
  <2> QED BY <2>1, HitCard
<1>2. CASE mode = "dstar"
  <2>1. S \in SUBSET (0 .. 71)
    BY DEF Second
  <2>2. IsFiniteSet(S)
    <3>1. S \in SUBSET (0 .. 263)
      BY <2>1
    <3> HIDE DEF S
    <3> QED BY <3>1, Few
  <2>3. \A i \in S : /\ Place(mode, i) \in Words
                     /\ Place(mode, i)[1] = 1 \/ Place(mode, i) = <<2, 10>>
    BY <2>1, PlaceFacts DEF Second
  <2>4. \A i, j \in S : f[i] = f[j] => i = j
    <3> SUFFICES ASSUME NEW i \in S, NEW j \in S, f[i] = f[j] PROVE i = j
      OBVIOUS
    <3> HIDE DEF S
    <3>1. /\ Place(mode, i) \in Words /\ Place(mode, j) \in Words
          /\ Place(mode, i)[1] = 1 \/ Place(mode, i) = <<2, 10>>
          /\ Place(mode, j)[1] = 1 \/ Place(mode, j) = <<2, 10>>
      BY <2>3
    <3>2. <<2, 10>>[1] = 2
      OBVIOUS
    <3>3. CASE Place(mode, i)[1] = 1 /\ Place(mode, j)[1] = 1
      <4>1. Place(mode, i)[2] + 1 = Place(mode, j)[2] + 1
        BY <3>3
      <4>2. Place(mode, i)[2] = Place(mode, j)[2]
        BY <4>1, <3>1, WordsFields
      <4>3. Place(mode, i) = Place(mode, j)
        BY <4>2, <3>1, <3>3, WordsFields
      <4> QED BY <4>3, <2>1, PlaceFacts
    <3>4. CASE Place(mode, i)[1] = 1 /\ Place(mode, j) = <<2, 10>>
      <4>1. Place(mode, i)[2] + 1 = 0
        BY <3>2, <3>4
      <4> QED BY <4>1, <3>1, WordsFields
    <3>5. CASE Place(mode, j)[1] = 1 /\ Place(mode, i) = <<2, 10>>
      <4>1. Place(mode, j)[2] + 1 = 0
        BY <3>2, <3>5
      <4> QED BY <4>1, <3>1, WordsFields
    <3>6. CASE Place(mode, j) = <<2, 10>> /\ Place(mode, i) = <<2, 10>>
      BY <3>6, <2>1, PlaceFacts
    <3> QED BY <3>1, <3>3, <3>4, <3>5, <3>6
  <2>5. {f[i] : i \in S} = Hit1(mode, h)
    <3>1. \A x \in Hit1(mode, h) : x \in {f[i] : i \in S}
      <4> TAKE x \in Hit1(mode, h)
      <4>1. CASE \E b \in Word(h, 1) : x = b + 1
        <5>1. PICK b \in Word(h, 1) : x = b + 1
          BY <4>1
        <5>2. PICK i \in H : Place(mode, i)[1] = 1 /\ Place(mode, i)[2] = b
          BY <5>1, Zenon DEF Word, FrameBits
        <5>3. i \in S /\ f[i] = x
          BY <5>1, <5>2 DEF Second
        <5> QED BY <5>3
      <4>2. CASE x = 0 /\ <<2, 10>> \in h
        <5>1. PICK i \in H : Place(mode, i) = <<2, 10>>
          BY <4>2, Zenon DEF FrameBits
        <5>2. i \in S /\ f[i] = 0
          BY <1>2, <5>1 DEF Second
        <5> QED BY <4>2, <5>2
      <4> QED BY <1>2, <4>1, <4>2, Zenon DEF Hit1
    <3>2. \A i \in S : f[i] \in Hit1(mode, h)
      <4> TAKE i \in S
      <4>1. CASE Place(mode, i)[1] = 1
        <5>1. Place(mode, i)[2] \in Word(h, 1)
          BY <4>1, Zenon DEF Word, FrameBits, Second
        <5> QED BY <1>2, <4>1, <5>1 DEF Hit1
      <4>2. CASE Place(mode, i)[1] # 1
        <5>1. <<2, 10>> \in h
          BY <2>3, <4>2, Zenon DEF FrameBits, Second
        <5>2. f[i] = 0
          BY <4>2
        <5> QED BY <1>2, <5>1, <5>2, Zenon DEF Hit1
      <4> QED BY <4>1, <4>2
    <3> HIDE DEF f, S
    <3> QED BY <3>1, <3>2, Zenon
  <2>6. Cardinality({f[i] : i \in S}) = Cardinality(S)
    <3> HIDE DEF f, S
    <3> QED BY <2>2, <2>4, ImageCard
  <2> QED BY <2>5, <2>6
<1> QED BY <1>1, <1>2

LEMMA FadeSpread ==
  ASSUME NEW mode \in Modes, NEW H \in SUBSET (0 .. 71),
         NEW i \in 0 .. 71, H \subseteq i .. i + 4
  PROVE  /\ Cardinality({j \in H : Place(mode, j)[1] = 0}) <= 3
         /\ Cardinality(Second(mode, H)) <= 3
<1> DEFINE five == (i .. i + 4) \cap 0 .. 71
           D(w) == {j \in five : dW[j + 1] = w}
           DP == D(1) \cup {j \in D(2) : dX[j + 1] = 10}
           R(w) == {j \in five : IF j % 2 = 0 THEN rW[(j \div 2) + 1] = w
                                                 ELSE rY[(j \div 2) + 1] = w}
           A == {j \in H : Place(mode, j)[1] = 0}
           B == Second(mode, H)
<1>1. /\ Cardinality(D(0)) <= 3 /\ Cardinality(DP) <= 3
      /\ Cardinality(R(0)) <= 3 /\ Cardinality(R(1)) <= 3
  BY TableFacts, Zenon
<1>2. H \subseteq five /\ five \subseteq 0 .. 263
  OBVIOUS
<1>3. \A w : D(w) \in SUBSET (0 .. 263) /\ R(w) \in SUBSET (0 .. 263)
  BY <1>2
<1>4. CASE mode = "dstar"
  <2>1. \A j : Place(mode, j) = <<dW[j + 1], dX[j + 1]>>
    BY <1>4, Zenon DEF Place
  <2>2. \A j : Place(mode, j)[1] = dW[j + 1] /\ Place(mode, j)[2] = dX[j + 1]
    BY <2>1
  <2>3. A \subseteq D(0)
    BY <1>2, <2>2, ZenonT(30)
  <2>4. B \subseteq DP
    <3>1. \A j \in B : j \in five /\ (dW[j + 1] = 1 \/ (dW[j + 1] = 2 /\ dX[j + 1] = 10))
      <4> TAKE j \in B
      <4>1. <<2, 10>>[1] = 2 /\ <<2, 10>>[2] = 10
        OBVIOUS
      <4> QED BY <1>2, <2>2, <4>1, SMT DEF Second
    <3> HIDE DEF B, five
    <3> QED BY <3>1, Zenon
  <2>5. DP \in SUBSET (0 .. 263)
    BY <1>3
  <2> HIDE DEF A, B, D, DP
  <2>6. Cardinality(A) <= Cardinality(D(0)) /\ Cardinality(A) \in Nat /\ Cardinality(D(0)) \in Nat
    BY <1>3, <2>3, SubCard
  <2>7. Cardinality(B) <= Cardinality(DP) /\ Cardinality(B) \in Nat /\ Cardinality(DP) \in Nat
    BY <2>4, <2>5, SubCard
  <2>8. Cardinality(A) <= 3 /\ Cardinality(B) <= 3
    BY <1>1, <2>6, <2>7
  <2> QED BY <2>8 DEF A, B
<1>5. CASE mode = "dmr"
  <2>1. ASSUME NEW j \in 0 .. 71, NEW w
        PROVE  Place(mode, j)[1] = w <=>
                 IF j % 2 = 0 THEN rW[(j \div 2) + 1] = w ELSE rY[(j \div 2) + 1] = w
    <3>1. /\ j % 2 = 0 => Place(mode, j) = <<rW[(j \div 2) + 1], rX[(j \div 2) + 1]>>
          /\ ~(j % 2 = 0) => Place(mode, j) = <<rY[(j \div 2) + 1], rZ[(j \div 2) + 1]>>
      BY <1>5, Zenon DEF Place
    <3> QED BY <3>1
  <2>2. A \subseteq R(0)
    BY <1>2, <2>1, ZenonT(30)
  <2>3. B \subseteq R(1)
    <3>1. \A j \in B : j \in H /\ Place(mode, j)[1] = 1
      BY <1>5, Zenon DEF Second
    <3> QED BY <1>2, <2>1, <3>1, ZenonT(30)
  <2> HIDE DEF A, B, R
  <2>6. /\ Cardinality(A) <= Cardinality(R(0)) /\ Cardinality(A) \in Nat
        /\ Cardinality(R(0)) \in Nat
    BY <1>3, <2>2, SubCard
  <2>7. /\ Cardinality(B) <= Cardinality(R(1)) /\ Cardinality(B) \in Nat
        /\ Cardinality(R(1)) \in Nat
    BY <1>3, <2>3, SubCard
  <2>8. Cardinality(A) <= 3 /\ Cardinality(B) <= 3
    BY <1>1, <2>6, <2>7
  <2> QED BY <2>8 DEF A, B
<1> QED BY <1>4, <1>5 DEF Modes

-----------------------------------------------------------------------------
(* Frames in the air: AirFrames; the slot type                             *)

AirInv ==
  \/ frame \in VoiceFrames /\ hit \in SUBSET (0 .. 71)
  \/ frame \in LCFrames /\ hit \in SUBSET (0 .. 263)

LEMMA AirKinds ==
  /\ \A f \in VoiceFrames : f.kind \in Modes /\ f.air = EncodeFrame(f.kind, f.of)
  /\ \A f \in LCFrames :
       f.kind \in LCKinds /\ f.air = EncodeFullLC(f.of, f.kind, ColourCode)
BY DEF VoiceFrames, LCFrames, VoiceKinds, LCKinds, Modes

LEMMA AirInvInit == AirInit => AirInv
<1>1. \A f \in VoiceFrames \cup LCFrames : f \in VoiceFrames \/ f \in LCFrames
  OBVIOUS
<1>2. {} \in SUBSET (0 .. 71) /\ {} \in SUBSET (0 .. 263)
  OBVIOUS
<1> QED BY <1>1, <1>2, Zenon DEF AirInit, AirInv

LEMMA AirInvNext ==
  ASSUME AirInv, AirNext PROVE AirInv'
<1>1. ASSUME NextFrame PROVE AirInv'
  <2>1. frame' \in VoiceFrames \/ frame' \in LCFrames
    BY <1>1, Zenon DEF NextFrame
  <2>2. hit' \in SUBSET (0 .. 71) /\ hit' \in SUBSET (0 .. 263)
    BY <1>1 DEF NextFrame
  <2> QED BY <2>1, <2>2 DEF AirInv
<1>2. ASSUME NEW i \in Noisy[frame.kind], Flip(i) PROVE AirInv'
  <2>1. frame' = frame /\ hit' = hit \cup {i}
    BY <1>2 DEF Flip
  <2>2. ASSUME frame \in VoiceFrames, hit \in SUBSET (0 .. 71)
        PROVE  hit' \in SUBSET (0 .. 71)
    <3>1. i \in 0 .. 71
      BY <1>2, <2>2, AirAssumption, AirKinds DEF Modes
    <3> QED BY <2>1, <2>2, <3>1
  <2>3. ASSUME frame \in LCFrames, hit \in SUBSET (0 .. 263)
        PROVE  hit' \in SUBSET (0 .. 263)
    <3>1. i \in 0 .. 263
      BY <1>2, <2>3, AirAssumption, AirKinds DEF LCKinds
    <3> QED BY <2>1, <2>3, <3>1
  <2> QED BY <2>1, <2>2, <2>3 DEF AirInv
<1>3. ASSUME NEW i \in 0 .. 263, NEW n \in Fades, Fade(i, n) PROVE AirInv'
  <2>1. frame' = frame /\ hit' = i .. i + n - 1 /\ i + n <= Length /\ n \in Nat
    BY <1>3, AirAssumption DEF Fade
  <2>2. ASSUME frame \in VoiceFrames PROVE hit' \in SUBSET (0 .. 71)
    <3>1. Length = 72
      BY <2>2, AirKinds DEF Length, VoiceKinds, Modes
    <3> QED BY <2>1, <3>1
  <2>3. ASSUME frame \in LCFrames PROVE hit' \in SUBSET (0 .. 263)
    <3>1. Length = 264
      BY <2>3, AirKinds DEF Length, VoiceKinds, LCKinds
    <3> QED BY <2>1, <3>1
  <2> QED BY <2>1, <2>2, <2>3 DEF AirInv
<1> QED BY <1>1, <1>2, <1>3 DEF AirNext

LEMMA VoiceDecoded ==
  ASSUME AirInv, frame.kind \in VoiceKinds
  PROVE  /\ frame.kind \in Modes /\ hit \in SUBSET (0 .. 71)
         /\ LET st == DecodeFrame(frame.kind, Received)
            IN /\ Cardinality(HitFirst) <= 3 /\ Cardinality(HitSecond) <= 3 =>
                     Protected(st.bits) = Protected(frame.of)
               /\ Cardinality(HitFirst) = 4 => ~st.C0Parity
<1>1. frame \in VoiceFrames /\ hit \in SUBSET (0 .. 71)
  <2>1. frame \notin LCFrames
    BY AirKinds DEF VoiceKinds, LCKinds
  <2> QED BY <2>1, Zenon DEF AirInv
<1>2. frame.kind \in Modes /\ Received = Add(EncodeFrame(frame.kind, frame.of), hit)
  BY <1>1, AirKinds, Zenon DEF Received
<1> DEFINE h == FrameBits(frame.kind, hit)
<1>3. /\ Cardinality(Word(h, 0)) = Cardinality(HitFirst)
      /\ Cardinality(Hit1(frame.kind, h)) = Cardinality(HitSecond)
  <2>1. HitSecond = Second(frame.kind, hit)
    BY Zenon DEF HitSecond, Second
  <2> QED BY <1>1, <1>2, <2>1, HitCard, SecondCard DEF HitFirst
<1> HIDE DEF h
<1>4. LET st == DecodeFrame(frame.kind, Received)
      IN /\ Cardinality(Word(h, 0)) <= 3 /\ Cardinality(Hit1(frame.kind, h)) <= 3 =>
              Protected(st.bits) = Protected(frame.of)
         /\ Cardinality(Word(h, 0)) = 4 => ~st.C0Parity
  BY <1>1, <1>2, FrameDecoded, Zenon DEF h
<1> QED BY <1>1, <1>2, <1>3, <1>4, Zenon

LEMMA VoiceSafe == AirInv => VoiceRight /\ VoiceFadeHarmless
<1> SUFFICES ASSUME AirInv, frame.kind \in VoiceKinds
             PROVE  VoiceRight /\ VoiceFadeHarmless
  BY Zenon DEF VoiceRight, VoiceFadeHarmless
<1>1. VoiceRight
  BY VoiceDecoded, Zenon DEF VoiceRight, reliable
<1>2. ASSUME NEW i \in hit, hit \subseteq i .. i + 4
      PROVE  Cardinality(HitFirst) <= 3 /\ Cardinality(HitSecond) <= 3
  <2>1. frame.kind \in Modes /\ hit \in SUBSET (0 .. 71)
    BY VoiceDecoded, Zenon
  <2>2. i \in 0 .. 71
    BY <2>1
  <2>3. HitSecond = Second(frame.kind, hit)
    BY Zenon DEF HitSecond, Second
  <2> QED BY <1>2, <2>1, <2>2, <2>3, FadeSpread DEF HitFirst
<1>3. VoiceFadeHarmless
  BY <1>2, VoiceDecoded, Zenon DEF VoiceFadeHarmless
<1> QED BY <1>1, <1>3

LEMMA NearestOne ==
  ASSUME NEW code, NEW w, NEW D \in DOMAIN code, Num(D) \in Nat,
         \A E \in DOMAIN code : Cardinality(Add(code[E], w)) \in Nat,
         \A E \in DOMAIN code :
           E # D => Cardinality(Add(code[D], w)) < Cardinality(Add(code[E], w))
  PROVE  Nearest(code, w) = D
<1> DEFINE d == [E \in DOMAIN code |-> Cardinality(Add(code[E], w))]
           S == {d[E] : E \in DOMAIN code}
           Best(E) == d[E] = d[D] /\ \A G \in DOMAIN code : d[G] = d[D] => Num(E) <= Num(G)
<1>1. /\ \A E \in DOMAIN code : d[E] \in Nat
      /\ \A E \in DOMAIN code : E # D => d[D] < d[E]
  OBVIOUS
<1> HIDE DEF d
<1>2. d[D] \in S /\ (\A y \in S : d[D] <= y) /\ \A y \in S : y \in Nat
  BY <1>1
<1>3. (CHOOSE x \in S : \A y \in S : x <= y) = d[D]
  <2> HIDE DEF S
  <2>1. \A x \in S : (\A y \in S : x <= y) => x = d[D]
    BY <1>2
  <2> QED BY <1>2, <2>1
<1>4. Best(D)
  BY <1>1
<1>5. \A E \in DOMAIN code : Best(E) => E = D
  BY <1>1
<1> DEFINE m == CHOOSE x \in S : \A y \in S : x <= y
<1>6. Nearest(code, w) = CHOOSE E \in DOMAIN code :
        d[E] = m /\ \A G \in DOMAIN code : d[G] = m => Num(E) <= Num(G)
  BY Zenon DEF Nearest, Min, d
<1>7. Nearest(code, w) = CHOOSE E \in DOMAIN code : Best(E)
  BY <1>3, <1>6, Zenon
<1> HIDE DEF Best
<1> QED BY <1>4, <1>5, <1>7, Zenon

LEMMA BitsIn == \A n : Bits(n) \subseteq 0 .. 23
  BY DEF Bits

LEMMA TypeBits ==
  ASSUME NEW n \in 0 .. 255
  PROVE  Bits(n) \in SUBSET (0 .. 7)
BY ByteFacts, Zenon

LEMMA NumOfBits ==
  ASSUME NEW n \in 0 .. 255
  PROVE  Num(Bits(n)) = n
BY ByteFacts, Zenon

LEMMA LowSixBits ==
  ASSUME NEW n \in 0 .. 255
  PROVE  Num(Bits(n) \cap 0 .. 5) = n % 64
BY ByteFacts, Zenon

LEMMA CharInBits ==
  ASSUME NEW n \in 0 .. 127
  PROVE  Bits(n) \in SUBSET (0 .. 6)
BY ByteFacts, Zenon

LEMMA FiveBits ==
  ASSUME NEW n \in 0 .. 31
  PROVE  Bits(n) \in SUBSET (0 .. 4)
BY ByteFacts, Zenon

LEMMA NumOfByte ==
  ASSUME NEW D \in SUBSET (0 .. 7)
  PROVE  Num(D) \in 0 .. 255
BY ByteFacts, Zenon

\* Every information bit has its place on the two sides of the middle.
LEMMA RawPlaces ==
  \A a \in Nat : rawPos(Raw(a)) \in 0 .. 97 \cup 166 .. 263
BY DEF rawPos, Raw

LEMMA BptcPlaces ==
  ASSUME NEW in
  PROVE  \A x \in bptcEncode(in) : x \in 0 .. 97 \cup 166 .. 263
<1> DEFINE d == {dataAt[p] : p \in in}
           m == FromRows([r \in 0 .. 8 |-> Hamming(H1511, 11, Row(d, r))])
           col == [c \in 0 .. 14 |-> Hamming(H139, 9, Column(m, c))]
<1>1. bptcEncode(in) = {rawPos(Raw(a)) : a \in FromColumns(col)}
  BY Zenon DEF bptcEncode
<1>2. \A D : \A x \in Hamming(H139, 9, D) : x \in Nat
  <2>1. DOMAIN H139 \subseteq Nat
    BY DEF H139
  <2> TAKE D
  <2>2. Hamming(H139, 9, D) =
          (D \cap 0 .. 9 - 1) \cup {9 + j - 1 : j \in {i \in DOMAIN H139 : Odd(D \cap H139[i])}}
    BY Zenon DEF Hamming
  <2>3. \A j \in DOMAIN H139 : 9 + j - 1 \in Nat
    BY <2>1
  <2>4. \A x \in 0 .. 9 - 1 : x \in Nat
    OBVIOUS
  <2> QED BY <2>2, <2>3, <2>4, Zenon
<1>3. \A x \in FromColumns(col) : x \in Nat
  <2> HIDE DEF m
  <2>1. DOMAIN col = 0 .. 14 /\ \A c \in 0 .. 14 : \A x \in col[c] : x \in Nat
    BY <1>2
  <2> HIDE DEF col
  <2> QED BY <2>1 DEF FromColumns
<1> HIDE DEF col
<1> QED BY <1>1, <1>3, RawPlaces

LEMMA SyncPlaces == \A i \in SyncBSData : 108 + i \in 108 .. 155
BY DEF SyncBSData, FromBytes

LEMMA SlotPlaces ==
  /\ \A i \in 0 .. 19 : SlotTypeAt(i) \in 98 .. 107 \cup 156 .. 165
  /\ \A i, j \in 0 .. 19 : SlotTypeAt(i) = SlotTypeAt(j) => i = j
BY DEF SlotTypeAt

LEMMA SlotWord ==
  ASSUME NEW D \in SUBSET (0 .. 7)
  PROVE  golay2087(D) \in SUBSET (0 .. 19) /\ golayWords[D] = golay2087(D)
<1>1. golay2087(D) \in SUBSET (0 .. 19)
  BY DEF golay2087
<1>2. golayWords[D] = golay2087(D)
  BY DEF golayWords
<1> QED BY <1>1, <1>2

LEMMA SlotTypeReceived ==
  ASSUME NEW lc, NEW dt \in LCKinds, NEW H \in SUBSET (0 .. 263)
  PROVE  LET D == Bits(16 * ColourCode + DataType(dt))
             b == Add(EncodeFullLC(lc, dt, ColourCode), H)
         IN /\ D \in SUBSET (0 .. 7)
            /\ {19 - i : i \in {j \in 0 .. 19 : SlotTypeAt(j) \in b}}
                 = Add(golay2087(D), {19 - i : i \in {j \in 0 .. 19 : SlotTypeAt(j) \in H}})
<1> DEFINE D == Bits(16 * ColourCode + DataType(dt))
           g == golay2087(D)
           in == lc \cup Checks(lc, dt)
           sentNow == EncodeFullLC(lc, dt, ColourCode)
           X == {j \in 0 .. 19 : SlotTypeAt(j) \in Add(sentNow, H)}
           Y == {j \in 0 .. 19 : SlotTypeAt(j) \in H}
<1>1. 16 * ColourCode + DataType(dt) \in 0 .. 255
  BY AirAssumption DEF DataType
<1>2. D \in SUBSET (0 .. 7)
  BY <1>1, TypeBits
<1>3. g \in SUBSET (0 .. 19)
  BY <1>2, SlotWord
<1>4. sentNow = bptcEncode(in) \cup SetSlotType(ColourCode, DataType(dt))
            \cup {108 + i : i \in SyncBSData}
  BY Zenon DEF EncodeFullLC
<1>5. \A x \in 98 .. 107 \cup 156 .. 165 :
         x \notin 0 .. 97 \cup 166 .. 263 /\ x \notin 108 .. 155
  OBVIOUS
<1>6. ASSUME NEW j \in 0 .. 19
      PROVE  /\ SlotTypeAt(j) \notin bptcEncode(in)
             /\ SlotTypeAt(j) \notin {108 + i : i \in SyncBSData}
  <2> HIDE DEF in
  <2>1. \A x \in bptcEncode(in) : x \in 0 .. 97 \cup 166 .. 263
    BY BptcPlaces, SMT
  <2>2. \A x \in {108 + i : i \in SyncBSData} : x \in 108 .. 155
    BY SyncPlaces, SMT
  <2>3. SlotTypeAt(j) \notin 0 .. 97 \cup 166 .. 263 /\ SlotTypeAt(j) \notin 108 .. 155
    <3>1. SlotTypeAt(j) \in 98 .. 107 \cup 156 .. 165
      BY SlotPlaces
    <3> HIDE DEF in, D, g, sentNow
    <3> QED BY <3>1
  <2>4. SlotTypeAt(j) \notin bptcEncode(in)
    BY <2>1, <2>3
  <2> DEFINE Sync == {108 + i : i \in SyncBSData}
  <2>5. \A x \in Sync : x \in 108 .. 155
    BY <2>2
  <2>6. SlotTypeAt(j) \notin Sync
    <3> HIDE DEF Sync
    <3> QED BY <2>3, <2>5
  <2> QED BY <2>4, <2>6
<1>7. SetSlotType(ColourCode, DataType(dt))
        = {SlotTypeAt(i) : i \in {j \in 0 .. 19 : 19 - j \in g}}
  BY Zenon DEF SetSlotType
<1> HIDE DEF D, g, in, sentNow
<1>8. ASSUME NEW j \in 0 .. 19 PROVE SlotTypeAt(j) \in sentNow <=> 19 - j \in g
  BY <1>4, <1>6, <1>7, SlotPlaces, Zenon
<1>9. ASSUME NEW j \in 0 .. 19
      PROVE  j \in X <=> ~(19 - j \in g <=> j \in Y)
  BY <1>8, Zenon DEF Add, SymDiff
<1> DEFINE G == {19 - i : i \in X}
           h == {19 - i : i \in Y}
<1>10. \A S \in SUBSET (0 .. 19) : \A x \in 0 .. 19 :
         x \in {19 - i : i \in S} <=> 19 - x \in S
  <2> TAKE S \in SUBSET (0 .. 19)
  <2> TAKE x \in 0 .. 19
  <2>1. ASSUME x \in {19 - i : i \in S} PROVE 19 - x \in S
    <3>1. PICK i \in S : x = 19 - i
      BY <2>1
    <3>2. 19 - x = i
      BY <3>1
    <3> QED BY <3>2
  <2>2. ASSUME 19 - x \in S PROVE x \in {19 - i : i \in S}
    <3>1. x = 19 - (19 - x)
      OBVIOUS
    <3> QED BY <2>2, <3>1
  <2> QED BY <2>1, <2>2
<1>11. X \in SUBSET (0 .. 19) /\ Y \in SUBSET (0 .. 19)
  OBVIOUS
<1> HIDE DEF X, Y
<1>12. ASSUME NEW x \in 0 .. 19 PROVE x \in G <=> ~(x \in g <=> x \in h)
  <2>1. 19 - x \in 0 .. 19 /\ 19 - (19 - x) = x
    OBVIOUS
  <2>2. x \in G <=> 19 - x \in X
    BY <1>10, <1>11, Zenon
  <2>3. x \in h <=> 19 - x \in Y
    BY <1>10, <1>11, Zenon
  <2>4. 19 - x \in X <=> ~(19 - (19 - x) \in g <=> 19 - x \in Y)
    BY <1>9, <2>1, Zenon
  <2> QED BY <2>1, <2>2, <2>3, <2>4, Zenon
<1>13. G \in SUBSET (0 .. 19) /\ h \in SUBSET (0 .. 19)
  BY <1>11
<1>14. G = Add(g, h)
  <2> HIDE DEF G, h
  <2> QED BY <1>3, <1>12, <1>13, ZenonT(30) DEF Add, SymDiff
<1> QED BY <1>2, <1>14 DEF D, g, X, Y, sentNow

LEMMA SlotTypeSafe == AirInv => SlotTypeRight
<1> SUFFICES ASSUME AirInv, frame.kind \in LCKinds,
                    Cardinality({i \in 0 .. 19 : SlotTypeAt(i) \in hit}) <= 3
             PROVE  SlotType(Received) = Bits(16 * ColourCode + DataType(frame.kind))
  BY Zenon DEF SlotTypeRight
<1>1. frame \in LCFrames /\ hit \in SUBSET (0 .. 263)
  <2>1. frame \notin VoiceFrames
    BY AirKinds DEF Modes, LCKinds
  <2> QED BY <2>1, Zenon DEF AirInv
<1>2. /\ frame.kind \in LCKinds
      /\ Received = Add(EncodeFullLC(frame.of, frame.kind, ColourCode), hit)
  BY <1>1, AirKinds, Zenon DEF Received
<1> DEFINE D == Bits(16 * ColourCode + DataType(frame.kind))
           Y == {j \in 0 .. 19 : SlotTypeAt(j) \in hit}
           h == {19 - i : i \in Y}
           w == Add(golay2087(D), h)
<1>3. /\ D \in SUBSET (0 .. 7)
      /\ {19 - i : i \in {j \in 0 .. 19 : SlotTypeAt(j) \in Received}} = w
  BY <1>1, <1>2, SlotTypeReceived
<1>4. SlotType(Received) = Nearest(golayWords, w)
  BY <1>3, Zenon DEF SlotType
<1>5. h \in SUBSET (0 .. 19) /\ Cardinality(h) <= 3
  <2>1. Y \in SUBSET (0 .. 19)
    OBVIOUS
  <2> DEFINE f == [i \in Y |-> 19 - i]
  <2>2. \A i, j \in Y : f[i] = f[j] => i = j
    OBVIOUS
  <2>3. {f[i] : i \in Y} = h
    OBVIOUS
  <2>4. IsFiniteSet(Y)
    <3>1. Y \in SUBSET (0 .. 263)
      BY <2>1
    <3> HIDE DEF Y
    <3> QED BY <3>1, Few
  <2>5. Cardinality({f[i] : i \in Y}) = Cardinality(Y)
    <3> HIDE DEF f, Y
    <3> QED BY <2>2, <2>4, ImageCard
  <2>6. h \in SUBSET (0 .. 19)
    <3> HIDE DEF Y
    <3> QED BY <2>1
  <2> QED BY <2>3, <2>5, <2>6
<1> HIDE DEF D, h
<1>6. /\ Cardinality(Add(golayWords[D], w)) = Cardinality(h)
      /\ Cardinality(h) \in Nat
  <2>1. Add(golayWords[D], w) = h
    <3>1. golayWords[D] = golay2087(D)
      BY <1>3, SlotWord
    <3> QED BY <3>1, Zenon DEF Add, SymDiff
  <2>2. h \in SUBSET (0 .. 263)
    BY <1>5
  <2> QED BY <2>1, <2>2, Few
<1>7. ASSUME NEW E \in SUBSET (0 .. 7)
      PROVE  /\ Cardinality(Add(golayWords[E], w)) \in Nat
             /\ E # D => Cardinality(Add(golayWords[E], w)) >= 4
  <2> DEFINE a == golayWords[E]
             c == golayWords[D]
             x == Add(a, w)
  <2>1. /\ a \in SUBSET (0 .. 19) /\ c \in SUBSET (0 .. 19) /\ c = golay2087(D)
    BY <1>3, SlotWord
  <2> HIDE DEF a, c
  <2>2. w \in SUBSET (0 .. 19)
    BY <1>5, <2>1, Zenon DEF Add, SymDiff
  <2>3. x \in SUBSET (0 .. 19)
    BY <2>1, <2>2, Zenon DEF Add, SymDiff
  <2>4. Add(a, c) = Add(x, h)
    BY <2>1, Zenon DEF Add, SymDiff
  <2> HIDE DEF x, w
  <2>5. x \in SUBSET (0 .. 263) /\ h \in SUBSET (0 .. 263)
    BY <1>5, <2>3
  <2>6. /\ Cardinality(x) \in Nat /\ Cardinality(Add(x, h)) \in Nat
        /\ Cardinality(Add(x, h)) <= Cardinality(x) + Cardinality(h)
    BY <2>5, AddCard
  <2>7. E # D => Cardinality(Add(a, c)) >= 7
    BY <1>3, RowFacts, Zenon DEF a, c
  <2>8. E # D => Cardinality(x) >= 4
    BY <1>5, <1>6, <2>4, <2>6, <2>7
  <2> QED BY <2>6, <2>8 DEF x, a
<1>8. Num(D) \in Nat
  BY <1>3, NumOfByte
<1>9. DOMAIN golayWords = SUBSET (0 .. 7)
  BY DEF golayWords
<1> HIDE DEF w
<1>10. \A E \in SUBSET (0 .. 7) :
         E # D => Cardinality(Add(golayWords[D], w)) < Cardinality(Add(golayWords[E], w))
  <2> DEFINE n(E) == Cardinality(Add(golayWords[E], w))
  <2>1. n(D) <= 3 /\ n(D) \in Nat
    BY <1>5, <1>6
  <2> HIDE DEF h
  <2>2. \A E \in SUBSET (0 .. 7) : n(E) \in Nat /\ (E # D => n(E) >= 4)
    BY <1>7, Zenon
  <2> HIDE DEF n
  <2>3. ASSUME NEW E \in SUBSET (0 .. 7), E # D PROVE n(D) < n(E)
    <3>1. n(E) \in Nat /\ n(E) >= 4
      BY <2>2, <2>3
    <3> QED BY <2>1, <3>1
  <2> QED BY <2>3, Zenon DEF n
<1>11. Nearest(golayWords, w) = D
  BY <1>3, <1>7, <1>8, <1>9, <1>10, NearestOne, Zenon
<1> QED BY <1>4, <1>11 DEF D, w

-----------------------------------------------------------------------------
(* Link control bursts: a product code, its errors, a fade                 *)

\* The two codes of a product code, by their four equations.
IsCode(H, k) ==
  /\ k \in {9, 11} /\ Len(H) = 4 /\ DOMAIN H = 1 .. 4
  /\ \A j \in 1 .. 4 : H[j] \in SUBSET (0 .. k - 1)

LEMMA TheCodes == IsCode(H139, 9) /\ IsCode(H1511, 11)
<1>1. IsCode(H139, 9)
  BY DEF IsCode, H139
<1>2. IsCode(H1511, 11)
  BY DEF IsCode, H1511
<1> QED BY <1>1, <1>2

LEMMA HammingMember ==
  ASSUME NEW H, NEW k, IsCode(H, k), NEW d, NEW x
  PROVE  x \in Hamming(H, k, d) <=>
           \/ x \in 0 .. k - 1 /\ x \in d
           \/ \E j \in 1 .. 4 : x = k + j - 1 /\ Odd(d \cap H[j])
<1>1. DOMAIN H = 1 .. 4
  BY DEF IsCode
<1> QED BY <1>1, Zenon DEF Hamming

LEMMA OddOfSum ==
  ASSUME NEW H, NEW k, IsCode(H, k), NEW A, NEW B, NEW j \in 1 .. 4
  PROVE  Odd(Add(A, B) \cap H[j]) <=> ~(Odd(A \cap H[j]) <=> Odd(B \cap H[j]))
<1>1. H[j] \in SUBSET (0 .. 263)
  <2>1. H[j] \in SUBSET (0 .. k - 1) /\ k \in {9, 11}
    BY DEF IsCode
  <2> QED BY <2>1
<1> DEFINE h == H[j]
           a == A \cap h
           b == B \cap h
<1>2. IsFiniteSet(a) /\ IsFiniteSet(b)
  <2>1. a \in SUBSET (0 .. 263) /\ b \in SUBSET (0 .. 263)
    BY <1>1
  <2> QED BY <2>1, Few
<1>3. Add(A, B) \cap h = Add(a, b)
  BY DEF Add, SymDiff
<1> HIDE DEF a, b
<1>4. Odd(Add(a, b)) <=> ~(Odd(a) <=> Odd(b))
  BY <1>2, OddAdd
<1> QED BY <1>3, <1>4 DEF a, b

LEMMA HammingAdd ==
  ASSUME NEW H, NEW k, IsCode(H, k), NEW A, NEW B
  PROVE  Hamming(H, k, Add(A, B)) = Add(Hamming(H, k, A), Hamming(H, k, B))
<1> DEFINE P(d, x) == \E j \in 1 .. 4 : x = k + j - 1 /\ Odd(d \cap H[j])
<1>1. \A d, x : x \in Hamming(H, k, d) <=> (x \in 0 .. k - 1 /\ x \in d) \/ P(d, x)
  BY HammingMember
<1>2. \A d, x : P(d, x) => x \notin 0 .. k - 1
  <2>1. k \in {9, 11}
    BY DEF IsCode
  <2>2. \A j \in 1 .. 4 : k + j - 1 \notin 0 .. k - 1
    BY <2>1
  <2> QED BY <2>2, Zenon
<1>3. ASSUME NEW x PROVE P(Add(A, B), x) <=> ~(P(A, x) <=> P(B, x))
  <2>1. CASE \E j \in 1 .. 4 : x = k + j - 1
    <3>1. PICK j \in 1 .. 4 : x = k + j - 1
      BY <2>1
    <3>2. \A i \in 1 .. 4 : x = k + i - 1 <=> i = j
      <4>1. k \in {9, 11}
        BY DEF IsCode
      <4> QED BY <3>1, <4>1
    <3>3. \A d : P(d, x) <=> Odd(d \cap H[j])
      BY <3>1, <3>2, Zenon
    <3>4. Odd(Add(A, B) \cap H[j]) <=> ~(Odd(A \cap H[j]) <=> Odd(B \cap H[j]))
      BY OddOfSum
    <3> HIDE DEF P
    <3> QED BY <3>3, <3>4, Zenon
  <2>2. CASE ~\E j \in 1 .. 4 : x = k + j - 1
    <3>1. \A d : ~P(d, x)
      BY <2>2, Zenon
    <3> HIDE DEF P
    <3> QED BY <3>1, Zenon
  <2> QED BY <2>1, <2>2
<1> HIDE DEF P
<1>4. ASSUME NEW x
      PROVE  x \in Hamming(H, k, Add(A, B)) <=>
               ~(x \in Hamming(H, k, A) <=> x \in Hamming(H, k, B))
  <2>1. x \in Add(A, B) <=> ~(x \in A <=> x \in B)
    BY Zenon DEF Add, SymDiff
  <2> QED BY <1>1, <1>2, <1>3, <2>1, Zenon
<1> QED BY <1>4, Zenon DEF Add, SymDiff

\* What Hamming makes of anything is a word, with the data it was made from.
LEMMA HammingOf ==
  ASSUME NEW H, NEW k, IsCode(H, k), NEW d
  PROVE  LET w == Hamming(H, k, d)
         IN /\ w \in SUBSET (0 .. k + 3)
            /\ \A a \in 0 .. k - 1 : a \in w <=> a \in d
            /\ Hamming(H, k, w) = w
<1> DEFINE w == Hamming(H, k, d)
<1>k. k \in {9, 11} /\ \A j \in 1 .. 4 : H[j] \in SUBSET (0 .. k - 1)
  BY DEF IsCode
<1>1. \A j \in 1 .. 4 : k + j - 1 \notin 0 .. k - 1 /\ k + j - 1 \in 0 .. k + 3
  BY <1>k
<1>2. \A x \in 0 .. k - 1 : x \in 0 .. k + 3
  BY <1>k
<1>3. \A x : x \in w <=> \/ x \in 0 .. k - 1 /\ x \in d
                         \/ \E j \in 1 .. 4 : x = k + j - 1 /\ Odd(d \cap H[j])
  BY HammingMember
<1> HIDE DEF w
<1>4. w \in SUBSET (0 .. k + 3) /\ \A a \in 0 .. k - 1 : a \in w <=> a \in d
  <2>1. ASSUME NEW x \in w PROVE x \in 0 .. k + 3
    <3>1. CASE x \in 0 .. k - 1
      BY <1>2, <3>1, Zenon
    <3>2. CASE \E j \in 1 .. 4 : x = k + j - 1
      BY <1>1, <3>2
    <3> QED BY <1>3, <3>1, <3>2, Zenon
  <2>2. \A a \in 0 .. k - 1 : ~\E j \in 1 .. 4 : a = k + j - 1
    BY <1>1, Zenon
  <2>3. \A a \in 0 .. k - 1 : a \in w <=> a \in d
    BY <1>3, <2>2, Zenon
  <2> QED BY <2>1, <2>3, Zenon
<1>5. \A j \in 1 .. 4 : w \cap H[j] = d \cap H[j]
  <2> TAKE j \in 1 .. 4
  <2>1. \A a \in H[j] : a \in w <=> a \in d
    BY <1>4, <1>k, Zenon
  <2> QED BY <2>1, Zenon
<1>6. ASSUME NEW x PROVE x \in Hamming(H, k, w) <=> x \in w
  <2>1. x \in Hamming(H, k, w) <=>
          \/ x \in 0 .. k - 1 /\ x \in w
          \/ \E j \in 1 .. 4 : x = k + j - 1 /\ Odd(w \cap H[j])
    BY HammingMember
  <2>2. (\E j \in 1 .. 4 : x = k + j - 1 /\ Odd(w \cap H[j])) <=>
          \E j \in 1 .. 4 : x = k + j - 1 /\ Odd(d \cap H[j])
    BY <1>5
  <2> QED BY <1>3, <1>4, <2>1, <2>2, Zenon
<1> QED BY <1>4, <1>6, Zenon DEF w

LEMMA AddAssoc == \A a, b, c : Add(Add(a, b), c) = Add(a, Add(b, c))
BY Zenon DEF Add, SymDiff

LEMMA AddCancel ==
  ASSUME NEW a, NEW b, NEW c, Add(a, b) = Add(a, c)
  PROVE  b = c
<1>1. \A x : ~(x \in a <=> x \in b) <=> ~(x \in a <=> x \in c)
  BY Zenon DEF Add, SymDiff
<1>2. \A x : x \in b <=> x \in c
  BY <1>1, Zenon
<1> QED BY <1>2, Zenon

LEMMA AddNone == \A a : Add(a, {}) = a
BY DEF Add, SymDiff

\* What is corrected depends on the errors only, not on the word they hit.
LEMMA ErrorsDecide ==
  ASSUME NEW H, NEW k, IsCode(H, k), NEW c, Hamming(H, k, c) = c, NEW e
  PROVE  LET r == correct1(H, k, e)
         IN correct1(H, k, Add(c, e)) =
              [word |-> Add(c, r.word), fixed |-> r.fixed, ok |-> r.ok]
<1>1. \A f : Hamming(H, k, Add(c, f)) = Add(c, f) <=> Hamming(H, k, f) = f
  <2> TAKE f
  <2>1. Hamming(H, k, Add(c, f)) = Add(c, Hamming(H, k, f))
    BY HammingAdd
  <2>2. Add(c, Hamming(H, k, f)) = Add(c, f) => Hamming(H, k, f) = f
    BY AddCancel, Zenon
  <2> QED BY <2>1, <2>2
<1> DEFINE clean(d) == Hamming(H, k, d) = d
           One(d) == {i \in 0 .. k + Len(H) - 1 : clean(Add(d, {i}))}
           to(d) == Add(d, {Min(One(d))})
           a == Add(c, e)
<1>2. One(a) = One(e)
  <2>1. \A i : clean(Add(a, {i})) <=> clean(Add(e, {i}))
    <3> TAKE i
    <3>1. Add(a, {i}) = Add(c, Add(e, {i}))
      BY AddAssoc
    <3>2. clean(Add(c, Add(e, {i}))) <=> clean(Add(e, {i}))
      BY <1>1, Zenon
    <3> HIDE DEF clean, a
    <3> QED BY <3>1, <3>2
  <2> HIDE DEF clean, a
  <2> QED BY <2>1, Zenon
<1>3. \A d : correct1(H, k, d) =
        IF clean(d) \/ One(d) = {}
        THEN [word |-> d, fixed |-> FALSE, ok |-> clean(d)]
        ELSE [word |-> to(d), fixed |-> TRUE, ok |-> TRUE]
  BY DEF correct1
<1>4. clean(a) <=> clean(e)
  BY <1>1, Zenon
<1>5. to(a) = Add(c, to(e))
  <2> HIDE DEF One
  <2>1. to(a) = Add(a, {Min(One(e))})
    BY <1>2, Zenon
  <2>2. Add(a, {Min(One(e))}) = Add(c, to(e))
    BY AddAssoc
  <2> QED BY <2>1, <2>2, Zenon
<1> HIDE DEF clean, One, to
<1>6. CASE clean(e) \/ One(e) = {}
  <2>1. correct1(H, k, e) = [word |-> e, fixed |-> FALSE, ok |-> clean(e)]
    BY <1>3, <1>6, Zenon
  <2>2. correct1(H, k, a) = [word |-> a, fixed |-> FALSE, ok |-> clean(a)]
    BY <1>2, <1>3, <1>4, <1>6, Zenon
  <2>3. clean(a) = clean(e)
    <3>1. clean(a) \in BOOLEAN /\ clean(e) \in BOOLEAN
      BY Zenon DEF clean
    <3>2. clean(a) = TRUE <=> clean(e) = TRUE
      BY <1>4, <3>1
    <3> QED BY <3>1, <3>2
  <2>4. correct1(H, k, a) = [word |-> a, fixed |-> FALSE, ok |-> clean(e)]
    BY <2>2, <2>3, Zenon
  <2> DEFINE b == clean(e)
  <2> HIDE DEF b
  <2>5. /\ correct1(H, k, e) = [word |-> e, fixed |-> FALSE, ok |-> b]
        /\ correct1(H, k, a) = [word |-> a, fixed |-> FALSE, ok |-> b]
    BY <2>1, <2>4, Zenon DEF b
  <2> QED BY <2>5
<1>7. CASE ~(clean(e) \/ One(e) = {})
  <2>1. correct1(H, k, e) = [word |-> to(e), fixed |-> TRUE, ok |-> TRUE]
    BY <1>3, <1>7, Zenon
  <2>2. correct1(H, k, a) = [word |-> Add(c, to(e)), fixed |-> TRUE, ok |-> TRUE]
    BY <1>2, <1>3, <1>4, <1>5, <1>7, Zenon
  <2> QED BY <2>1, <2>2
<1> QED BY <1>6, <1>7

LEMMA CleanWord ==
  ASSUME NEW H, NEW k, IsCode(H, k)
  PROVE  correct1(H, k, {}) = [word |-> {}, fixed |-> FALSE, ok |-> TRUE]
<1>1. Hamming(H, k, {}) = {}
  <2>1. ~Odd({})
    BY FS_EmptySet DEF Odd
  <2>2. \A x : x \notin Hamming(H, k, {})
    <3> TAKE x
    <3>1. \A j \in 1 .. 4 : {} \cap H[j] = {}
      OBVIOUS
    <3> QED BY <2>1, <3>1, HammingMember
  <2> QED BY <2>2
<1> QED BY <1>1, Zenon DEF correct1

LEMMA ColumnMember ==
  ASSUME NEW m, NEW c, NEW a
  PROVE  a \in Column(m, c) <=> a \in 0 .. 12 /\ c + 1 + 15 * a \in m
BY DEF Column, Line

LEMMA RowMember ==
  ASSUME NEW m, NEW r \in 0 .. 12, NEW a
  PROVE  a \in Row(m, r) <=> a \in 0 .. 14 /\ 15 * r + 1 + a \in m
<1>1. a \in Row(m, r) <=> a \in 0 .. 14 /\ 15 * r + 1 + 1 * a \in m
  BY DEF Row, Line
<1>2. a \in 0 .. 14 => 15 * r + 1 + 1 * a = 15 * r + 1 + a
  OBVIOUS
<1> QED BY <1>1, <1>2

LEMMA GridAdd ==
  ASSUME NEW m, NEW e
  PROVE  /\ \A c : Column(Add(m, e), c) = Add(Column(m, c), Column(e, c))
         /\ \A r \in 0 .. 12 : Row(Add(m, e), r) = Add(Row(m, r), Row(e, r))
<1>0. \A x, A, B : x \in Add(A, B) <=> ~(x \in A <=> x \in B)
  BY Zenon DEF Add, SymDiff
<1>1. ASSUME NEW c
      PROVE  Column(Add(m, e), c) = Add(Column(m, c), Column(e, c))
  <2>1. ASSUME NEW a
        PROVE  a \in Column(Add(m, e), c) <=> a \in Add(Column(m, c), Column(e, c))
    <3> DEFINE x == c + 1 + 15 * a
    <3>1. \A n : a \in Column(n, c) <=> a \in 0 .. 12 /\ x \in n
      BY ColumnMember
    <3>2. x \in Add(m, e) <=> ~(x \in m <=> x \in e)
      BY <1>0, Zenon
    <3>3. a \in Add(Column(m, c), Column(e, c)) <=>
            ~(a \in Column(m, c) <=> a \in Column(e, c))
      BY <1>0, Zenon
    <3> HIDE DEF x
    <3> QED BY <3>1, <3>2, <3>3, Zenon
  <2> QED BY <2>1, Zenon
<1>2. ASSUME NEW r \in 0 .. 12
      PROVE  Row(Add(m, e), r) = Add(Row(m, r), Row(e, r))
  <2>1. ASSUME NEW a
        PROVE  a \in Row(Add(m, e), r) <=> a \in Add(Row(m, r), Row(e, r))
    <3> DEFINE x == 15 * r + 1 + a
    <3>1. \A n : a \in Row(n, r) <=> a \in 0 .. 14 /\ x \in n
      BY RowMember
    <3>2. x \in Add(m, e) <=> ~(x \in m <=> x \in e)
      BY <1>0, Zenon
    <3>3. a \in Add(Row(m, r), Row(e, r)) <=>
            ~(a \in Row(m, r) <=> a \in Row(e, r))
      BY <1>0, Zenon
    <3> HIDE DEF x
    <3> QED BY <3>1, <3>2, <3>3, Zenon
  <2> QED BY <2>1, Zenon
<1> QED BY <1>1, <1>2, Zenon

\* A place of the product code is one of a row and a column.
LEMMA GridPlaces ==
  /\ \A c \in 0 .. 14, a \in 0 .. 12 : c + 1 + 15 * a \in 1 .. 195
  /\ \A c \in 0 .. 14, a \in 0 .. 12 : c + 1 + 15 * a \in 1 .. 135 <=> a \in 0 .. 8
  /\ \A c, d \in 0 .. 14, a, b \in 0 .. 12 :
       c + 1 + 15 * a = d + 1 + 15 * b => c = d /\ a = b
  /\ \A x \in 1 .. 195 : \E c \in 0 .. 14, a \in 0 .. 12 : x = c + 1 + 15 * a
<1>1. ASSUME NEW c \in 0 .. 14, NEW a \in 0 .. 12
      PROVE  /\ c + 1 + 15 * a \in 1 .. 195
             /\ c + 1 + 15 * a \in 1 .. 135 <=> a \in 0 .. 8
  OBVIOUS
<1>2. ASSUME NEW c \in 0 .. 14, NEW d \in 0 .. 14, NEW a \in 0 .. 12, NEW b \in 0 .. 12,
             c + 1 + 15 * a = d + 1 + 15 * b
      PROVE  c = d /\ a = b
  BY <1>2
<1>3. ASSUME NEW x \in 1 .. 195
      PROVE  \E c \in 0 .. 14, a \in 0 .. 12 : x = c + 1 + 15 * a
  <2>1. /\ (x - 1) % 15 \in 0 .. 14 /\ (x - 1) \div 15 \in 0 .. 12
        /\ x = ((x - 1) % 15) + 1 + 15 * ((x - 1) \div 15)
    OBVIOUS
  <2> QED BY <2>1
<1> QED BY <1>1, <1>2, <1>3

LEMMA FromColumnsMember ==
  ASSUME NEW col, DOMAIN col = 0 .. 14, \A c \in 0 .. 14 : col[c] \in SUBSET (0 .. 12)
  PROVE  /\ FromColumns(col) \in SUBSET (1 .. 195)
         /\ \A c \in 0 .. 14, a \in 0 .. 12 :
              c + 1 + 15 * a \in FromColumns(col) <=> a \in col[c]
         /\ \A c \in 0 .. 14 : Column(FromColumns(col), c) = col[c]
<1>1. \A x : x \in FromColumns(col) <=>
               \E c \in 0 .. 14 : \E a \in col[c] : x = c + 1 + 15 * a
  BY DEF FromColumns
<1>2. FromColumns(col) \in SUBSET (1 .. 195)
  <2>1. ASSUME NEW x \in FromColumns(col) PROVE x \in 1 .. 195
    <3>1. PICK c \in 0 .. 14 : \E a \in col[c] : x = c + 1 + 15 * a
      BY <1>1, Zenon
    <3>2. PICK a \in col[c] : x = c + 1 + 15 * a
      BY <3>1, Zenon
    <3>3. a \in 0 .. 12
      BY Zenon
    <3> QED BY <3>2, <3>3
  <2> QED BY <2>1, Zenon
<1>3. ASSUME NEW c \in 0 .. 14, NEW a \in 0 .. 12
      PROVE  c + 1 + 15 * a \in FromColumns(col) <=> a \in col[c]
  <2>1. ASSUME c + 1 + 15 * a \in FromColumns(col) PROVE a \in col[c]
    <3>1. PICK d \in 0 .. 14 : \E b \in col[d] : c + 1 + 15 * a = d + 1 + 15 * b
      BY <1>1, <2>1, Zenon
    <3>2. PICK b \in col[d] : c + 1 + 15 * a = d + 1 + 15 * b
      BY <3>1, Zenon
    <3>0. b \in 0 .. 12
      BY Zenon
    <3>3. c = d /\ a = b
      BY <3>0, <3>2
    <3> QED BY <3>3, Zenon
  <2>2. a \in col[c] => c + 1 + 15 * a \in FromColumns(col)
    BY <1>1, Zenon
  <2> QED BY <2>1, <2>2, Zenon
<1>4. ASSUME NEW c \in 0 .. 14
      PROVE  Column(FromColumns(col), c) = col[c]
  <2>1. ASSUME NEW a PROVE a \in Column(FromColumns(col), c) <=> a \in col[c]
    BY <1>3, ColumnMember, Zenon
  <2> QED BY <2>1, Zenon
<1> QED BY <1>2, <1>3, <1>4, Zenon

LEMMA FromRowsMember ==
  ASSUME NEW row, DOMAIN row = 0 .. 8, \A r \in 0 .. 8 : row[r] \in SUBSET (0 .. 14)
  PROVE  /\ FromRows(row) \in SUBSET (1 .. 135)
         /\ \A c \in 0 .. 14, a \in 0 .. 8 :
              c + 1 + 15 * a \in FromRows(row) <=> c \in row[a]
<1>1. \A x : x \in FromRows(row) <=>
               \E r \in 0 .. 8 : \E a \in row[r] : x = 15 * r + 1 + a
  BY DEF FromRows
<1>0. \A r \in 0 .. 12, a \in 0 .. 14 : 15 * r + 1 + a = a + 1 + 15 * r
  OBVIOUS
<1>00. \A r \in 0 .. 8 : r \in 0 .. 12
  OBVIOUS
<1>2. FromRows(row) \in SUBSET (1 .. 135)
  <2>1. ASSUME NEW x \in FromRows(row) PROVE x \in 1 .. 135
    <3>1. PICK r \in 0 .. 8 : \E a \in row[r] : x = 15 * r + 1 + a
      BY <1>1, Zenon
    <3>2. PICK a \in row[r] : x = 15 * r + 1 + a
      BY <3>1, Zenon
    <3>3. a \in 0 .. 14
      BY Zenon
    <3> QED BY <3>2, <3>3
  <2> QED BY <2>1, Zenon
<1>3. ASSUME NEW c \in 0 .. 14, NEW a \in 0 .. 8
      PROVE  c + 1 + 15 * a \in FromRows(row) <=> c \in row[a]
  <2>1. ASSUME c + 1 + 15 * a \in FromRows(row) PROVE c \in row[a]
    <3>1. PICK r \in 0 .. 8 : \E b \in row[r] : c + 1 + 15 * a = 15 * r + 1 + b
      BY <1>1, <2>1, Zenon
    <3>2. PICK b \in row[r] : c + 1 + 15 * a = 15 * r + 1 + b
      BY <3>1, Zenon
    <3>3. b \in 0 .. 14
      BY Zenon
    <3>4. c = b /\ a = r
      BY <3>2, <3>3
    <3> QED BY <3>4, Zenon
  <2>2. c \in row[a] => c + 1 + 15 * a \in FromRows(row)
    <3>1. c + 1 + 15 * a = 15 * a + 1 + c
      OBVIOUS
    <3> QED BY <1>1, <3>1, Zenon
  <2> QED BY <2>1, <2>2, Zenon
<1> QED BY <1>2, <1>3, Zenon

\* Of a row the column's places are seen, and the other way round.
LEMMA Crossing ==
  ASSUME NEW m, NEW r \in 0 .. 12, NEW c \in 0 .. 14
  PROVE  /\ c \in Row(m, r) <=> c + 1 + 15 * r \in m
         /\ r \in Column(m, c) <=> c + 1 + 15 * r \in m
<1>1. 15 * r + 1 + c = c + 1 + 15 * r
  OBVIOUS
<1> QED BY <1>1, RowMember, ColumnMember

\* What the encoder makes: every column and every row is a word of its code.
IsSent(N) ==
  /\ N \in SUBSET (1 .. 195)
  /\ \A c \in 0 .. 14 : Hamming(H139, 9, Column(N, c)) = Column(N, c)
  /\ \A r \in 0 .. 8 : Hamming(H1511, 11, Row(N, r)) = Row(N, r)

\* The parts of a pass.
ColumnsOf(m) == [c \in 0 .. 14 |-> correct1(H139, 9, Column(m, c))]
ColumnsDone(m) ==
  FromColumns([c \in 0 .. 14 |-> ColumnsOf(m)[c].word]) \cup (m \cap {0})
RowsOf(n) == [r \in 0 .. 8 |-> correct1(H1511, 11, Row(n, r))]
RowsDone(n) ==
  FromRows([r \in 0 .. 8 |-> RowsOf(n)[r].word]) \cup (n \cap ({0} \cup 136 .. 195))

LEMMA PassParts ==
  ASSUME NEW m
  PROVE  bptcPass(m) =
           [m |-> RowsDone(ColumnsDone(m)),
            fixed |-> \/ \E c \in 0 .. 14 : ColumnsOf(m)[c].fixed
                      \/ \E r \in 0 .. 8 : RowsOf(ColumnsDone(m))[r].fixed,
            ok |-> /\ \A c \in 0 .. 14 : ColumnsOf(m)[c].ok
                   /\ \A r \in 0 .. 8 : RowsOf(ColumnsDone(m))[r].ok]
BY DEF bptcPass, ColumnsOf, ColumnsDone, RowsOf, RowsDone

LEMMA MinInside ==
  ASSUME NEW T, T \subseteq Nat, T # {}
  PROVE  Min(T) \in T
<1> DEFINE R == OpToRel(<, Nat)
<1>1. IsWellFoundedOn(R, Nat)
  BY NatLessThanWellFounded
<1>2. PICK x \in T : \A y \in T : ~(<<y, x>> \in R)
  <2> HIDE DEF R
  <2> QED BY <1>1, WFMin
<1>3. R = {p \in Nat \X Nat : p[1] < p[2]}
  BY DEF OpToRel
<1>4. \A y \in T : x <= y
  <2>1. SUFFICES ASSUME NEW y \in T PROVE x <= y
    OBVIOUS
  <2>2. ~(<<y, x>> \in R) /\ x \in Nat /\ y \in Nat
    BY <1>2
  <2> HIDE DEF R
  <2> QED BY <2>2, <1>3
<1> QED BY <1>4 DEF Min

\* A corrected word stays in its places.
LEMMA CorrectPlaces ==
  ASSUME NEW H, NEW k, IsCode(H, k), NEW d \in SUBSET (0 .. k + 3)
  PROVE  correct1(H, k, d).word \in SUBSET (0 .. k + 3)
<1>1. k + Len(H) - 1 = k + 3
  BY DEF IsCode
<1> DEFINE one == {i \in 0 .. k + Len(H) - 1 : Hamming(H, k, Add(d, {i})) = Add(d, {i})}
<1>2. \/ correct1(H, k, d).word = d
      \/ one # {} /\ correct1(H, k, d).word = Add(d, {Min(one)})
  <2>1. correct1(H, k, d) =
          IF Hamming(H, k, d) = d \/ one = {}
          THEN [word |-> d, fixed |-> FALSE, ok |-> Hamming(H, k, d) = d]
          ELSE [word |-> Add(d, {Min(one)}), fixed |-> TRUE, ok |-> TRUE]
    BY DEF correct1
  <2> HIDE DEF one
  <2>2. CASE Hamming(H, k, d) = d \/ one = {}
    <3>1. correct1(H, k, d) = [word |-> d, fixed |-> FALSE, ok |-> Hamming(H, k, d) = d]
      BY <2>1, <2>2, Zenon
    <3>2. PICK f : correct1(H, k, d) = [word |-> d, fixed |-> FALSE, ok |-> f]
      BY <3>1, Zenon
    <3>3. correct1(H, k, d).word = d
      BY <3>2
    <3> QED BY <3>3
  <2>3. CASE ~(Hamming(H, k, d) = d \/ one = {})
    BY <2>1, <2>3
  <2> QED BY <2>2, <2>3
<1>3. one # {} => Min(one) \in 0 .. k + 3
  <2>1. k \in {9, 11}
    BY DEF IsCode
  <2>2. 0 .. k + 3 \subseteq Nat
    BY <2>1
  <2>3. one \subseteq 0 .. k + 3
    BY <1>1, Zenon
  <2> HIDE DEF one
  <2>4. one \subseteq Nat
    BY <2>2, <2>3, Zenon
  <2>5. one # {} => Min(one) \in one
    BY <2>4, MinInside, Zenon
  <2> QED BY <2>3, <2>5, Zenon
<1> HIDE DEF one
<1> DEFINE top == 0 .. k + 3
<1>4. d \subseteq top /\ (one # {} => Min(one) \in top)
  BY <1>3
<1> HIDE DEF top
<1>5. one # {} => Add(d, {Min(one)}) \subseteq top
  BY <1>4, Zenon DEF Add, SymDiff
<1>6. correct1(H, k, d).word \subseteq top
  BY <1>2, <1>4, <1>5, Zenon
<1> QED BY <1>6, Zenon DEF top

\* Two matrices are told apart by place 0 and those of the grid.
LEMMA SameGrid ==
  ASSUME NEW A \in SUBSET (0 .. 195), NEW B \in SUBSET (0 .. 195),
         0 \in A <=> 0 \in B,
         \A c \in 0 .. 14, a \in 0 .. 12 : c + 1 + 15 * a \in A <=> c + 1 + 15 * a \in B
  PROVE  A = B
<1>1. ASSUME NEW x \in 0 .. 195 PROVE x \in A <=> x \in B
  <2>1. CASE x = 0
    BY <2>1
  <2>2. CASE x \in 1 .. 195
    <3>1. PICK c \in 0 .. 14, a \in 0 .. 12 : x = c + 1 + 15 * a
      BY <2>2, GridPlaces, Zenon
    <3> QED BY <3>1
  <2> QED BY <2>1, <2>2
<1> QED BY <1>1, Zenon

LEMMA LinePlaces ==
  /\ \A m, c : Column(m, c) \in SUBSET (0 .. 12)
  /\ \A m, r : Row(m, r) \in SUBSET (0 .. 14)
BY DEF Column, Row, Line

LEMMA WordPlaces ==
  ASSUME NEW m
  PROVE  /\ \A c \in 0 .. 14 : ColumnsOf(m)[c].word \in SUBSET (0 .. 12)
         /\ \A r \in 0 .. 8 : RowsOf(m)[r].word \in SUBSET (0 .. 14)
<1>1. ASSUME NEW c \in 0 .. 14
      PROVE  ColumnsOf(m)[c].word \in SUBSET (0 .. 12)
  <2>1. \A d \in SUBSET (0 .. 9 + 3) : correct1(H139, 9, d).word \in SUBSET (0 .. 9 + 3)
    BY TheCodes, CorrectPlaces, Zenon
  <2>2. Column(m, c) \in SUBSET (0 .. 12)
    BY LinePlaces, Zenon
  <2>3. correct1(H139, 9, Column(m, c)).word \in SUBSET (0 .. 12)
    BY <2>1, <2>2
  <2> QED BY <2>3, Zenon DEF ColumnsOf
<1>2. ASSUME NEW r \in 0 .. 8
      PROVE  RowsOf(m)[r].word \in SUBSET (0 .. 14)
  <2>1. \A d \in SUBSET (0 .. 11 + 3) : correct1(H1511, 11, d).word \in SUBSET (0 .. 11 + 3)
    BY TheCodes, CorrectPlaces, Zenon
  <2>2. Row(m, r) \in SUBSET (0 .. 14)
    BY LinePlaces, Zenon
  <2>3. correct1(H1511, 11, Row(m, r)).word \in SUBSET (0 .. 14)
    BY <2>1, <2>2
  <2> QED BY <2>3, Zenon DEF RowsOf
<1> QED BY <1>1, <1>2

LEMMA BetweenMember ==
  ASSUME NEW m
  PROVE  /\ ColumnsDone(m) \in SUBSET (0 .. 195)
         /\ 0 \in ColumnsDone(m) <=> 0 \in m
         /\ \A c \in 0 .. 14, a \in 0 .. 12 :
              c + 1 + 15 * a \in ColumnsDone(m) <=> a \in ColumnsOf(m)[c].word
<1> DEFINE col == [c \in 0 .. 14 |-> ColumnsOf(m)[c].word]
           f == FromColumns(col)
<1>1. DOMAIN col = 0 .. 14 /\ \A c \in 0 .. 14 : col[c] \in SUBSET (0 .. 12)
  BY WordPlaces
<1>2. \A c \in 0 .. 14 : col[c] = ColumnsOf(m)[c].word
  BY Zenon
<1>3. /\ f \in SUBSET (1 .. 195)
      /\ \A c \in 0 .. 14, a \in 0 .. 12 : c + 1 + 15 * a \in f <=> a \in col[c]
  <2> HIDE DEF col
  <2> QED BY <1>1, FromColumnsMember, Zenon
<1>4. ColumnsDone(m) = f \cup (m \cap {0})
  BY Zenon DEF ColumnsDone
<1> HIDE DEF col, f
<1>5. 0 \notin 1 .. 195 /\ 0 \in 0 .. 195 /\ \A x \in 1 .. 195 : x \in 0 .. 195
  OBVIOUS
<1>6. ColumnsDone(m) \in SUBSET (0 .. 195) /\ (0 \in ColumnsDone(m) <=> 0 \in m)
  BY <1>3, <1>4, <1>5
<1>7. ASSUME NEW c \in 0 .. 14, NEW a \in 0 .. 12
      PROVE  c + 1 + 15 * a \in ColumnsDone(m) <=> a \in ColumnsOf(m)[c].word
  <2>1. c + 1 + 15 * a # 0
    OBVIOUS
  <2>2. c + 1 + 15 * a \in f <=> a \in ColumnsOf(m)[c].word
    BY <1>2, <1>3, Zenon
  <2> QED BY <1>4, <2>1, <2>2, Zenon
<1> QED BY <1>6, <1>7

LEMMA AfterMember ==
  ASSUME NEW n \in SUBSET (0 .. 195)
  PROVE  /\ RowsDone(n) \in SUBSET (0 .. 195)
         /\ 0 \in RowsDone(n) <=> 0 \in n
         /\ \A c \in 0 .. 14, a \in 0 .. 8 :
              c + 1 + 15 * a \in RowsDone(n) <=> c \in RowsOf(n)[a].word
         /\ \A c \in 0 .. 14, a \in 9 .. 12 :
              c + 1 + 15 * a \in RowsDone(n) <=> c + 1 + 15 * a \in n
<1> DEFINE row == [r \in 0 .. 8 |-> RowsOf(n)[r].word]
           f == FromRows(row)
           rest == {0} \cup 136 .. 195
<1>1. DOMAIN row = 0 .. 8 /\ \A r \in 0 .. 8 : row[r] \in SUBSET (0 .. 14)
  BY WordPlaces
<1>2. \A r \in 0 .. 8 : row[r] = RowsOf(n)[r].word
  BY Zenon
<1>3. /\ f \in SUBSET (1 .. 135)
      /\ \A c \in 0 .. 14, a \in 0 .. 8 : c + 1 + 15 * a \in f <=> c \in row[a]
  <2> HIDE DEF row
  <2> QED BY <1>1, FromRowsMember, Zenon
<1>4. RowsDone(n) = f \cup (n \cap rest)
  BY Zenon DEF RowsDone
<1> HIDE DEF row, f
<1>5. /\ \A x \in 1 .. 135 : x \in 0 .. 195 /\ x \notin rest
      /\ 0 \notin 1 .. 135 /\ 0 \in rest
  OBVIOUS
<1>6. \A c \in 0 .. 14 : /\ \A a \in 0 .. 8 : c + 1 + 15 * a \notin rest
                         /\ \A a \in 9 .. 12 : /\ c + 1 + 15 * a \in rest
                                              /\ c + 1 + 15 * a \notin 1 .. 135
  OBVIOUS
<1> HIDE DEF rest
<1>7. RowsDone(n) \in SUBSET (0 .. 195) /\ (0 \in RowsDone(n) <=> 0 \in n)
  <2>1. \A x \in RowsDone(n) : x \in 0 .. 195
    BY <1>3, <1>4, <1>5, ZenonT(30)
  <2>2. 0 \in RowsDone(n) <=> 0 \in n
    BY <1>3, <1>4, <1>5, SMT
  <2> QED BY <2>1, <2>2, Zenon
<1>8. ASSUME NEW c \in 0 .. 14, NEW a \in 0 .. 8
      PROVE  c + 1 + 15 * a \in RowsDone(n) <=> c \in RowsOf(n)[a].word
  <2>1. c + 1 + 15 * a \notin rest
    BY <1>6, SMT
  <2>2. c + 1 + 15 * a \in f <=> c \in RowsOf(n)[a].word
    BY <1>2, <1>3, Zenon
  <2> QED BY <1>4, <2>1, <2>2, Zenon
<1>9. ASSUME NEW c \in 0 .. 14, NEW a \in 9 .. 12
      PROVE  c + 1 + 15 * a \in RowsDone(n) <=> c + 1 + 15 * a \in n
  <2> DEFINE x == c + 1 + 15 * a
  <2>1. x \in rest /\ x \notin 1 .. 135
    BY <1>6, SMT
  <2> HIDE DEF x
  <2>2. x \notin f
    BY <1>3, <2>1, ZenonT(30)
  <2>3. x \in RowsDone(n) <=> x \in n
    BY <1>4, <2>1, <2>2, Zenon
  <2> QED BY <2>3, Zenon DEF x
<1> QED BY <1>7, <1>8, <1>9, Zenon

LEMMA InSum == \A x, A, B : x \in Add(A, B) <=> ~(x \in A <=> x \in B)
BY Zenon DEF Add, SymDiff

LEMMA SumPlaces ==
  ASSUME NEW N, IsSent(N), NEW e \in SUBSET (0 .. 195)
  PROVE  /\ Add(N, e) \in SUBSET (0 .. 195)
         /\ 0 \in Add(N, e) <=> 0 \in e
<1>1. N \in SUBSET (1 .. 195)
  BY DEF IsSent
<1>2. 0 \notin 1 .. 195 /\ \A x \in 1 .. 195 : x \in 0 .. 195
  OBVIOUS
<1> QED BY <1>1, <1>2, InSum, Zenon

\* A column of what was sent and of errors: only the errors are corrected.
LEMMA ColumnErrors ==
  ASSUME NEW N, IsSent(N), NEW e, NEW c \in 0 .. 14
  PROVE  ColumnsOf(Add(N, e))[c] =
           [word |-> Add(Column(N, c), ColumnsOf(e)[c].word),
            fixed |-> ColumnsOf(e)[c].fixed, ok |-> ColumnsOf(e)[c].ok]
<1>1. Column(Add(N, e), c) = Add(Column(N, c), Column(e, c))
  BY GridAdd
<1>2. IsCode(H139, 9) /\ Hamming(H139, 9, Column(N, c)) = Column(N, c)
  BY TheCodes, Zenon DEF IsSent
<1>3. \A d : ColumnsOf(d)[c] = correct1(H139, 9, Column(d, c))
  BY Zenon DEF ColumnsOf
<1> DEFINE p == correct1(H139, 9, Column(e, c))
<1>4. correct1(H139, 9, Add(Column(N, c), Column(e, c))) =
        [word |-> Add(Column(N, c), p.word), fixed |-> p.fixed, ok |-> p.ok]
  BY <1>2, ErrorsDecide, SMT
<1> QED BY <1>1, <1>3, <1>4, Zenon

LEMMA RowErrors ==
  ASSUME NEW N, IsSent(N), NEW e, NEW r \in 0 .. 8
  PROVE  RowsOf(Add(N, e))[r] =
           [word |-> Add(Row(N, r), RowsOf(e)[r].word),
            fixed |-> RowsOf(e)[r].fixed, ok |-> RowsOf(e)[r].ok]
<1>0. r \in 0 .. 12
  OBVIOUS
<1>1. Row(Add(N, e), r) = Add(Row(N, r), Row(e, r))
  BY <1>0, GridAdd, Zenon
<1>2. IsCode(H1511, 11) /\ Hamming(H1511, 11, Row(N, r)) = Row(N, r)
  BY TheCodes, Zenon DEF IsSent
<1>3. \A d : RowsOf(d)[r] = correct1(H1511, 11, Row(d, r))
  BY Zenon DEF RowsOf
<1> DEFINE p == correct1(H1511, 11, Row(e, r))
<1>4. correct1(H1511, 11, Add(Row(N, r), Row(e, r))) =
        [word |-> Add(Row(N, r), p.word), fixed |-> p.fixed, ok |-> p.ok]
  BY <1>2, ErrorsDecide, SMT
<1> QED BY <1>1, <1>3, <1>4, Zenon

LEMMA BetweenAdd ==
  ASSUME NEW N, IsSent(N), NEW e \in SUBSET (0 .. 195)
  PROVE  ColumnsDone(Add(N, e)) = Add(N, ColumnsDone(e))
<1> DEFINE b == ColumnsDone(Add(N, e))
           s == Add(N, ColumnsDone(e))
<1>1. /\ b \in SUBSET (0 .. 195) /\ s \in SUBSET (0 .. 195)
      /\ 0 \in b <=> 0 \in s
  <2>1. ColumnsDone(e) \in SUBSET (0 .. 195) /\ (0 \in ColumnsDone(e) <=> 0 \in e)
    BY BetweenMember, Zenon
  <2>2. b \in SUBSET (0 .. 195) /\ (0 \in b <=> 0 \in Add(N, e))
    BY BetweenMember, Zenon
  <2>3. s \in SUBSET (0 .. 195) /\ (0 \in s <=> 0 \in ColumnsDone(e))
    BY <2>1, SumPlaces, Zenon
  <2>4. 0 \in Add(N, e) <=> 0 \in e
    BY SumPlaces, Zenon
  <2> HIDE DEF b, s
  <2> QED BY <2>1, <2>2, <2>3, <2>4, Zenon
<1>2. ASSUME NEW c \in 0 .. 14, NEW a \in 0 .. 12
      PROVE  c + 1 + 15 * a \in b <=> c + 1 + 15 * a \in s
  <2> DEFINE x == c + 1 + 15 * a
             w == ColumnsOf(e)[c].word
  <2>1. x \in b <=> a \in ColumnsOf(Add(N, e))[c].word
    BY BetweenMember, Zenon
  <2>2. ColumnsOf(Add(N, e))[c].word = Add(Column(N, c), w)
    <3> DEFINE p == ColumnsOf(e)[c]
    <3>1. ColumnsOf(Add(N, e))[c] =
            [word |-> Add(Column(N, c), p.word), fixed |-> p.fixed, ok |-> p.ok]
      BY ColumnErrors, Zenon
    <3> QED BY <3>1
  <2>3. a \in Add(Column(N, c), w) <=> ~(a \in Column(N, c) <=> a \in w)
    BY InSum
  <2>4. a \in Column(N, c) <=> x \in N
    BY ColumnMember, Zenon
  <2>5. a \in w <=> x \in ColumnsDone(e)
    BY BetweenMember, Zenon
  <2>6. x \in s <=> ~(x \in N <=> x \in ColumnsDone(e))
    BY InSum
  <2> HIDE DEF x, w, b, s
  <2>7. x \in b <=> x \in s
    BY <2>1, <2>2, <2>3, <2>4, <2>5, <2>6, Zenon
  <2> QED BY <2>7, Zenon DEF x
<1> HIDE DEF b, s
<1>3. b = s
  BY <1>1, <1>2, SameGrid, Zenon
<1> QED BY <1>3, Zenon DEF b, s

LEMMA AfterAdd ==
  ASSUME NEW N, IsSent(N), NEW e \in SUBSET (0 .. 195)
  PROVE  RowsDone(Add(N, e)) = Add(N, RowsDone(e))
<1> DEFINE b == RowsDone(Add(N, e))
           s == Add(N, RowsDone(e))
<1>0. Add(N, e) \in SUBSET (0 .. 195) /\ (0 \in Add(N, e) <=> 0 \in e)
  BY SumPlaces, Zenon
<1>1. /\ b \in SUBSET (0 .. 195) /\ s \in SUBSET (0 .. 195)
      /\ 0 \in b <=> 0 \in s
  <2>1. RowsDone(e) \in SUBSET (0 .. 195) /\ (0 \in RowsDone(e) <=> 0 \in e)
    BY AfterMember, Zenon
  <2>2. b \in SUBSET (0 .. 195) /\ (0 \in b <=> 0 \in Add(N, e))
    BY <1>0, AfterMember, Zenon
  <2>3. s \in SUBSET (0 .. 195) /\ (0 \in s <=> 0 \in RowsDone(e))
    BY <2>1, SumPlaces, Zenon
  <2> HIDE DEF b, s
  <2> QED BY <1>0, <2>1, <2>2, <2>3, Zenon
<1>2. ASSUME NEW c \in 0 .. 14, NEW a \in 0 .. 8
      PROVE  c + 1 + 15 * a \in b <=> c + 1 + 15 * a \in s
  <2> DEFINE x == c + 1 + 15 * a
             w == RowsOf(e)[a].word
  <2>1. x \in b <=> c \in RowsOf(Add(N, e))[a].word
    BY <1>0, AfterMember, Zenon
  <2>2. RowsOf(Add(N, e))[a].word = Add(Row(N, a), w)
    <3> DEFINE p == RowsOf(e)[a]
    <3>1. RowsOf(Add(N, e))[a] =
            [word |-> Add(Row(N, a), p.word), fixed |-> p.fixed, ok |-> p.ok]
      BY RowErrors, Zenon
    <3> QED BY <3>1
  <2>3. c \in Add(Row(N, a), w) <=> ~(c \in Row(N, a) <=> c \in w)
    BY InSum
  <2>4. c \in Row(N, a) <=> x \in N
    <3>1. a \in 0 .. 12
      OBVIOUS
    <3> QED BY <3>1, Crossing, Zenon
  <2>5. c \in w <=> x \in RowsDone(e)
    BY AfterMember, Zenon
  <2>6. x \in s <=> ~(x \in N <=> x \in RowsDone(e))
    BY InSum
  <2> HIDE DEF x, w, b, s
  <2>7. x \in b <=> x \in s
    BY <2>1, <2>2, <2>3, <2>4, <2>5, <2>6, Zenon
  <2> QED BY <2>7, Zenon DEF x
<1>3. ASSUME NEW c \in 0 .. 14, NEW a \in 9 .. 12
      PROVE  c + 1 + 15 * a \in b <=> c + 1 + 15 * a \in s
  <2> DEFINE x == c + 1 + 15 * a
  <2>1. x \in b <=> x \in Add(N, e)
    BY <1>0, AfterMember, Zenon
  <2>2. x \in RowsDone(e) <=> x \in e
    BY AfterMember, Zenon
  <2>3. x \in s <=> ~(x \in N <=> x \in RowsDone(e))
    BY InSum
  <2>4. x \in Add(N, e) <=> ~(x \in N <=> x \in e)
    BY InSum
  <2> HIDE DEF x, b, s
  <2>5. x \in b <=> x \in s
    BY <2>1, <2>2, <2>3, <2>4, Zenon
  <2> QED BY <2>5, Zenon DEF x
<1>4. \A a \in 0 .. 12 : a \in 0 .. 8 \/ a \in 9 .. 12
  OBVIOUS
<1> HIDE DEF b, s
<1>5. \A c \in 0 .. 14, a \in 0 .. 12 : c + 1 + 15 * a \in b <=> c + 1 + 15 * a \in s
  BY <1>2, <1>3, <1>4, Zenon
<1>6. b = s
  BY <1>1, <1>5, SameGrid, Zenon
<1> QED BY <1>6, Zenon DEF b, s

\* A pass over what was sent, with errors, is one over the errors.
LEMMA PassErrors ==
  ASSUME NEW N, IsSent(N), NEW e \in SUBSET (0 .. 195)
  PROVE  LET p == bptcPass(e)
         IN /\ bptcPass(Add(N, e)) = [m |-> Add(N, p.m), fixed |-> p.fixed, ok |-> p.ok]
            /\ p.m \in SUBSET (0 .. 195)
<1> DEFINE f == ColumnsDone(e)
<1>1. ColumnsDone(Add(N, e)) = Add(N, f) /\ f \in SUBSET (0 .. 195)
  BY BetweenAdd, BetweenMember, Zenon
<1>2. RowsDone(Add(N, f)) = Add(N, RowsDone(f)) /\ RowsDone(f) \in SUBSET (0 .. 195)
  BY <1>1, AfterAdd, AfterMember, Zenon
<1>3. \A c \in 0 .. 14 : /\ ColumnsOf(Add(N, e))[c].fixed = ColumnsOf(e)[c].fixed
                         /\ ColumnsOf(Add(N, e))[c].ok = ColumnsOf(e)[c].ok
  <2> TAKE c \in 0 .. 14
  <2> DEFINE p == ColumnsOf(e)[c]
  <2>1. ColumnsOf(Add(N, e))[c] =
          [word |-> Add(Column(N, c), p.word), fixed |-> p.fixed, ok |-> p.ok]
    BY ColumnErrors, Zenon
  <2> QED BY <2>1
<1>4. \A r \in 0 .. 8 : /\ RowsOf(Add(N, f))[r].fixed = RowsOf(f)[r].fixed
                        /\ RowsOf(Add(N, f))[r].ok = RowsOf(f)[r].ok
  <2> TAKE r \in 0 .. 8
  <2> DEFINE p == RowsOf(f)[r]
  <2>1. RowsOf(Add(N, f))[r] =
          [word |-> Add(Row(N, r), p.word), fixed |-> p.fixed, ok |-> p.ok]
    BY <1>1, RowErrors, Zenon
  <2> QED BY <2>1
<1> HIDE DEF f
<1> DEFINE Fixed(d, n) == \/ \E c \in 0 .. 14 : ColumnsOf(d)[c].fixed
                          \/ \E r \in 0 .. 8 : RowsOf(n)[r].fixed
           AllOk(d, n) == /\ \A c \in 0 .. 14 : ColumnsOf(d)[c].ok
                         /\ \A r \in 0 .. 8 : RowsOf(n)[r].ok
<1>5. Fixed(Add(N, e), Add(N, f)) = Fixed(e, f)
  <2>1. Fixed(Add(N, e), Add(N, f)) <=> Fixed(e, f)
    BY <1>3, <1>4, Zenon
  <2> QED BY <2>1
<1>6. AllOk(Add(N, e), Add(N, f)) = AllOk(e, f)
  <2>1. AllOk(Add(N, e), Add(N, f)) <=> AllOk(e, f)
    BY <1>3, <1>4, Zenon
  <2> QED BY <2>1
<1>7. \A d : bptcPass(d) = [m |-> RowsDone(ColumnsDone(d)), fixed |-> Fixed(d, ColumnsDone(d)),
                            ok |-> AllOk(d, ColumnsDone(d))]
  BY PassParts, Zenon
<1> HIDE DEF Fixed, AllOk
<1>8. PICK x, y : x = Fixed(e, f) /\ y = AllOk(e, f)
  BY Zenon
<1>9. bptcPass(e) = [m |-> RowsDone(f), fixed |-> x, ok |-> y]
  BY <1>7, <1>8, Zenon DEF f
<1>10. bptcPass(Add(N, e)) = [m |-> Add(N, RowsDone(f)), fixed |-> x, ok |-> y]
  BY <1>1, <1>2, <1>5, <1>6, <1>7, <1>8, Zenon
<1> QED BY <1>2, <1>9, <1>10

\* One error in a row or a column, or none, is put right.
LEMMA OneError ==
  ASSUME NEW m
  PROVE  /\ \A c \in 0 .. 14 :
              Column(m, c) = {} \/ (\E i \in 0 .. 12 : Column(m, c) = {i}) =>
                ColumnsOf(m)[c].word = {} /\ ColumnsOf(m)[c].ok = TRUE
         /\ \A r \in 0 .. 8 :
              Row(m, r) = {} => RowsOf(m)[r].word = {} /\ RowsOf(m)[r].ok = TRUE
         /\ \A r \in 0 .. 8 : \A i \in 0 .. 14 :
              Row(m, r) = {i} => /\ RowsOf(m)[r].word = {}
                                 /\ RowsOf(m)[r].ok = TRUE
                                 /\ RowsOf(m)[r].fixed = TRUE
<1>1. /\ correct1(H139, 9, {}) = [word |-> {}, fixed |-> FALSE, ok |-> TRUE]
      /\ correct1(H1511, 11, {}) = [word |-> {}, fixed |-> FALSE, ok |-> TRUE]
  BY TheCodes, CleanWord, Zenon
<1>2. \A i \in 0 .. 12 : correct1(H139, 9, {i}) = [word |-> {}, fixed |-> TRUE, ok |-> TRUE]
  BY HammingFacts, Zenon
<1>3. \A i \in 0 .. 14 : correct1(H1511, 11, {i}) = [word |-> {}, fixed |-> TRUE, ok |-> TRUE]
  BY HammingFacts, Zenon
<1>4. /\ \A c \in 0 .. 14 : ColumnsOf(m)[c] = correct1(H139, 9, Column(m, c))
      /\ \A r \in 0 .. 8 : RowsOf(m)[r] = correct1(H1511, 11, Row(m, r))
  BY Zenon DEF ColumnsOf, RowsOf
<1>5. ASSUME NEW c \in 0 .. 14,
             Column(m, c) = {} \/ \E i \in 0 .. 12 : Column(m, c) = {i}
      PROVE  ColumnsOf(m)[c].word = {} /\ ColumnsOf(m)[c].ok = TRUE
  <2>1. \/ ColumnsOf(m)[c] = [word |-> {}, fixed |-> FALSE, ok |-> TRUE]
        \/ ColumnsOf(m)[c] = [word |-> {}, fixed |-> TRUE, ok |-> TRUE]
    BY <1>1, <1>2, <1>4, <1>5, Zenon
  <2> QED BY <2>1
<1>6. ASSUME NEW r \in 0 .. 8, Row(m, r) = {}
      PROVE  RowsOf(m)[r].word = {} /\ RowsOf(m)[r].ok = TRUE
  <2>1. RowsOf(m)[r] = [word |-> {}, fixed |-> FALSE, ok |-> TRUE]
    BY <1>1, <1>4, <1>6, Zenon
  <2> QED BY <2>1
<1>7. ASSUME NEW r \in 0 .. 8, NEW i \in 0 .. 14, Row(m, r) = {i}
      PROVE  /\ RowsOf(m)[r].word = {}
             /\ RowsOf(m)[r].ok = TRUE
             /\ RowsOf(m)[r].fixed = TRUE
  <2>1. RowsOf(m)[r] = [word |-> {}, fixed |-> TRUE, ok |-> TRUE]
    BY <1>3, <1>4, <1>7, Zenon
  <2> QED BY <2>1
<1> QED BY <1>5, <1>6, <1>7, Zenon

\* A pass over errors of which one column at most has more than one: what is
\* not put right stays below the rows' reach.
LEMMA SmallPass ==
  ASSUME NEW e \in SUBSET (0 .. 195), NEW c \in 0 .. 14, NEW w,
         ColumnsOf(e)[c].word = w,
         \A d \in 0 .. 14 :
           d # c => Column(e, d) = {} \/ \E i \in 0 .. 12 : Column(e, d) = {i}
  PROVE  /\ bptcPass(e).m \in SUBSET ({0} \cup 136 .. 195)
         /\ Column(bptcPass(e).m, c) = w \cap 9 .. 12
         /\ \A d \in 0 .. 14 : d # c => Column(bptcPass(e).m, d) = {}
         /\ ColumnsOf(e)[c].ok => bptcPass(e).ok
         /\ (\E r \in 0 .. 8 : r \in w) => bptcPass(e).fixed
<1> DEFINE f == ColumnsDone(e)
           g == RowsDone(f)
<1>1. \A d \in 0 .. 14 : d # c => ColumnsOf(e)[d].word = {} /\ ColumnsOf(e)[d].ok = TRUE
  BY OneError, Zenon
<1>2. f \in SUBSET (0 .. 195)
  BY BetweenMember, Zenon
<1>3. \A d \in 0 .. 14, a \in 0 .. 12 : d + 1 + 15 * a \in f <=> d = c /\ a \in w
  <2>1. \A d \in 0 .. 14, a \in 0 .. 12 :
          d + 1 + 15 * a \in f <=> a \in ColumnsOf(e)[d].word
    BY BetweenMember, Zenon
  <2> HIDE DEF f
  <2> QED BY <1>1, <2>1, Zenon
<1>4. ASSUME NEW r \in 0 .. 8
      PROVE  /\ r \in w => Row(f, r) = {c}
             /\ r \notin w => Row(f, r) = {}
  <2>1. r \in 0 .. 12
    OBVIOUS
  <2>2. \A d \in 0 .. 14 : d \in Row(f, r) <=> d = c /\ r \in w
    BY <1>3, <2>1, Crossing, Zenon
  <2>3. Row(f, r) \in SUBSET (0 .. 14)
    BY LinePlaces, Zenon
  <2> HIDE DEF f
  <2> QED BY <2>2, <2>3, Zenon
<1>5. \A r \in 0 .. 8 : /\ RowsOf(f)[r].word = {}
                        /\ RowsOf(f)[r].ok = TRUE
                        /\ r \in w => RowsOf(f)[r].fixed = TRUE
  <2> HIDE DEF f
  <2> QED BY <1>4, OneError, ZenonT(30)
<1>6. /\ g \in SUBSET (0 .. 195)
      /\ \A d \in 0 .. 14, a \in 0 .. 12 :
           d + 1 + 15 * a \in g <=> d = c /\ a \in w \cap 9 .. 12
  <2>1. /\ g \in SUBSET (0 .. 195)
        /\ \A d \in 0 .. 14, a \in 0 .. 8 :
             d + 1 + 15 * a \in g <=> d \in RowsOf(f)[a].word
        /\ \A d \in 0 .. 14, a \in 9 .. 12 :
             d + 1 + 15 * a \in g <=> d + 1 + 15 * a \in f
    BY <1>2, AfterMember, Zenon
  <2>2. \A a \in 0 .. 12 : a \in 9 .. 12 <=> a \notin 0 .. 8
    OBVIOUS
  <2> HIDE DEF f, g
  <2>3. ASSUME NEW d \in 0 .. 14, NEW a \in 0 .. 12
        PROVE  d + 1 + 15 * a \in g <=> d = c /\ a \in w \cap 9 .. 12
    <3>1. CASE a \in 0 .. 8
      BY <1>5, <2>1, <2>2, <3>1, SMT
    <3>2. CASE a \notin 0 .. 8
      BY <1>3, <2>1, <2>2, <3>2, SMT
    <3> QED BY <3>1, <3>2, Zenon
  <2> QED BY <2>1, <2>3
<1> HIDE DEF f
<1>7. bptcPass(e).m = g
  BY PassParts DEF f
<1>8. g \in SUBSET ({0} \cup 136 .. 195)
  <2>1. ASSUME NEW x \in g PROVE x \in {0} \cup 136 .. 195
    <3>1. x \in 0 .. 195
      BY <1>6, Zenon
    <3>2. CASE x \in 1 .. 195
      <4>1. PICK d \in 0 .. 14, a \in 0 .. 12 : x = d + 1 + 15 * a
        BY <3>2, GridPlaces, Zenon
      <4>2. a \in 9 .. 12
        BY <1>6, <4>1, Zenon
      <4> QED BY <4>1, <4>2
    <3> QED BY <3>1, <3>2
  <2> QED BY <2>1, Zenon
<1>9. \A d \in 0 .. 14 : \A a : a \in Column(g, d) <=> d = c /\ a \in w \cap 9 .. 12
  <2>1. \A a \in 9 .. 12 : a \in 0 .. 12
    OBVIOUS
  <2> HIDE DEF g
  <2> TAKE d \in 0 .. 14
  <2> TAKE a
  <2>2. a \in Column(g, d) <=> a \in 0 .. 12 /\ d + 1 + 15 * a \in g
    BY ColumnMember, Zenon
  <2> QED BY <1>6, <2>1, <2>2, Zenon
<1> HIDE DEF g
<1>10. /\ Column(g, c) = w \cap 9 .. 12
       /\ \A d \in 0 .. 14 : d # c => Column(g, d) = {}
  BY <1>9, Zenon
<1>11. bptcPass(e).ok <=> /\ \A d \in 0 .. 14 : ColumnsOf(e)[d].ok
                          /\ \A r \in 0 .. 8 : RowsOf(f)[r].ok
  BY PassParts DEF f
<1>12. bptcPass(e).fixed <=> \/ \E d \in 0 .. 14 : ColumnsOf(e)[d].fixed
                             \/ \E r \in 0 .. 8 : RowsOf(f)[r].fixed
  BY PassParts DEF f
<1>13. ColumnsOf(e)[c].ok => bptcPass(e).ok
  BY <1>1, <1>5, <1>11, Zenon
<1>14. (\E r \in 0 .. 8 : r \in w) => bptcPass(e).fixed
  BY <1>5, <1>12, Zenon
<1> QED BY <1>7, <1>8, <1>10, <1>13, <1>14

\* Errors that a pass may leave, and that the next does not see as errors.
Left(e) ==
  /\ e \in SUBSET ({0} \cup 136 .. 195)
  /\ \E c \in 0 .. 14 : /\ Column(e, c) \in Remnants
                        /\ \A d \in 0 .. 14 : d # c => Column(e, d) = {}

\* Errors of a fade: one in a column, or in one column two, seven rows apart.
Faded(e) ==
  /\ e \in SUBSET (0 .. 195)
  /\ \E c \in 0 .. 14 :
       /\ \/ Column(e, c) = {}
          \/ \E i \in 0 .. 12 : Column(e, c) = {i}
          \/ \E i \in 0 .. 5 : Column(e, c) = {i, i + 7}
       /\ \A d \in 0 .. 14 :
            d # c => Column(e, d) = {} \/ \E i \in 0 .. 12 : Column(e, d) = {i}

Underway(N, so) == \E e : so.m = Add(N, e) /\ Left(e) /\ (so.fixed \/ so.ok)

LEMMA NoneRemains == {} \in Remnants
<1>1. correct1(H139, 9, {}) = [word |-> {}, fixed |-> FALSE, ok |-> TRUE]
  BY TheCodes, CleanWord, Zenon
<1>2. correct1(H139, 9, {}).ok
  BY <1>1
<1> QED BY <1>2, Zenon DEF Remnants

LEMMA LeftPass ==
  ASSUME NEW e, Left(e)
  PROVE  Left(bptcPass(e).m) /\ bptcPass(e).ok
<1>1. PICK c \in 0 .. 14 : /\ Column(e, c) \in Remnants
                           /\ \A d \in 0 .. 14 : d # c => Column(e, d) = {}
  BY DEF Left
<1>2. e \in SUBSET (0 .. 195)
  BY DEF Left
<1> DEFINE w == ColumnsOf(e)[c].word
<1>3. ColumnsOf(e)[c] = correct1(H139, 9, Column(e, c))
  BY Zenon DEF ColumnsOf
<1>4. w \cap 9 .. 12 \in Remnants
  <2>1. \A E \in Remnants : correct1(H139, 9, E).word \cap 9 .. 12 \in Remnants
    BY HammingFacts, Zenon
  <2>2. correct1(H139, 9, Column(e, c)).word \cap 9 .. 12 \in Remnants
    BY <1>1, <2>1, Zenon
  <2> QED BY <1>3, <2>2, Zenon
<1>5. ColumnsOf(e)[c].ok
  BY <1>1, <1>3, Zenon DEF Remnants
<1>6. /\ bptcPass(e).m \in SUBSET ({0} \cup 136 .. 195)
      /\ Column(bptcPass(e).m, c) = w \cap 9 .. 12
      /\ \A d \in 0 .. 14 : d # c => Column(bptcPass(e).m, d) = {}
      /\ ColumnsOf(e)[c].ok => bptcPass(e).ok
      /\ (\E r \in 0 .. 8 : r \in w) => bptcPass(e).fixed
  <2>1. \A d \in 0 .. 14 :
          d # c => Column(e, d) = {} \/ \E i \in 0 .. 12 : Column(e, d) = {i}
    BY <1>1, Zenon
  <2> QED BY <1>2, <2>1, SmallPass, Zenon
<1> HIDE DEF w
<1>7. Left(bptcPass(e).m)
  BY <1>4, <1>6, SMT DEF Left
<1> QED BY <1>5, <1>6, <1>7, Zenon

LEMMA FirstPass ==
  ASSUME NEW e, Faded(e)
  PROVE  Left(bptcPass(e).m) /\ (bptcPass(e).fixed \/ bptcPass(e).ok)
<1>1. PICK c \in 0 .. 14 :
        /\ \/ Column(e, c) = {}
           \/ \E i \in 0 .. 12 : Column(e, c) = {i}
           \/ \E i \in 0 .. 5 : Column(e, c) = {i, i + 7}
        /\ \A d \in 0 .. 14 :
             d # c => Column(e, d) = {} \/ \E i \in 0 .. 12 : Column(e, d) = {i}
  BY DEF Faded
<1>2. e \in SUBSET (0 .. 195)
  BY DEF Faded
<1> DEFINE w == ColumnsOf(e)[c].word
<1>3. ColumnsOf(e)[c] = correct1(H139, 9, Column(e, c))
  BY Zenon DEF ColumnsOf
<1>4. /\ bptcPass(e).m \in SUBSET ({0} \cup 136 .. 195)
      /\ Column(bptcPass(e).m, c) = w \cap 9 .. 12
      /\ \A d \in 0 .. 14 : d # c => Column(bptcPass(e).m, d) = {}
      /\ ColumnsOf(e)[c].ok => bptcPass(e).ok
      /\ (\E r \in 0 .. 8 : r \in w) => bptcPass(e).fixed
  BY <1>1, <1>2, SmallPass, Zenon
<1>5. CASE Column(e, c) = {} \/ \E i \in 0 .. 12 : Column(e, c) = {i}
  <2>1. w = {} /\ ColumnsOf(e)[c].ok = TRUE
    BY <1>5, OneError, Zenon
  <2> HIDE DEF w
  <2>2. w \cap 9 .. 12 \in Remnants
    BY <2>1, NoneRemains, Zenon
  <2> QED BY <1>4, <2>1, <2>2, SMT DEF Left
<1>6. CASE \E i \in 0 .. 5 : Column(e, c) = {i, i + 7}
  <2>1. PICK i \in 0 .. 5 : Column(e, c) = {i, i + 7}
    BY <1>6
  <2>2. i \in w /\ w \cap 9 .. 12 \in Remnants
    BY <1>3, <2>1, HammingFacts, Zenon
  <2>3. i \in 0 .. 8
    OBVIOUS
  <2> HIDE DEF w
  <2> QED BY <1>4, <2>2, <2>3, Zenon DEF Left
<1> QED BY <1>1, <1>5, <1>6

LEMMA AgainLeft ==
  ASSUME NEW N, IsSent(N), NEW so, Underway(N, so)
  PROVE  Underway(N, Again(so)) /\ Again(so).ok
<1>1. PICK e : so.m = Add(N, e) /\ Left(e) /\ (so.fixed \/ so.ok)
  BY DEF Underway
<1>2. CASE so.fixed
  <2>1. Again(so) = bptcPass(Add(N, e))
    BY <1>1, <1>2, Zenon DEF Again
  <2>2. e \in SUBSET (0 .. 195)
    BY <1>1 DEF Left
  <2> DEFINE p == bptcPass(e)
  <2>3. Again(so) = [m |-> Add(N, p.m), fixed |-> p.fixed, ok |-> p.ok]
    BY <2>1, <2>2, PassErrors, Zenon
  <2>4. Left(p.m) /\ p.ok
    BY <1>1, LeftPass, Zenon
  <2> HIDE DEF p
  <2>5. Again(so).m = Add(N, p.m) /\ (Again(so).ok <=> p.ok)
    BY <2>3
  <2> QED BY <2>4, <2>5, Zenon DEF Underway
<1>3. CASE ~so.fixed
  <2>1. Again(so) = so
    BY <1>3, Zenon DEF Again
  <2> QED BY <1>1, <1>3, <2>1, Zenon DEF Underway
<1> QED BY <1>2, <1>3

\* The passes of the decoder, one after another.
LEMMA FivePasses ==
  ASSUME NEW b
  PROVE  LET once == bptcPass({a \in 0 .. 195 : rawPos(Raw(a)) \in b})
             end == Again(Again(Again(Again(once))))
         IN bptcDecode(b) = [data |-> {qt \in 0 .. 95 : dataAt[qt] \in end.m}, ok |-> end.ok]
<1> DEFINE once == bptcPass({a \in 0 .. 195 : rawPos(Raw(a)) \in b})
           Step(f) == [n \in 1 .. 5 |-> IF n = 1 THEN once ELSE Again(f[n - 1])]
           pass == CHOOSE f : f = Step(f)
           s2 == Again(once)
           s3 == Again(s2)
           s4 == Again(s3)
           s5 == Again(s4)
           f0 == [n \in 1 .. 5 |-> IF n = 1 THEN once ELSE IF n = 2 THEN s2
                                   ELSE IF n = 3 THEN s3 ELSE IF n = 4 THEN s4 ELSE s5]
<1>1. bptcDecode(b) = [data |-> {qt \in 0 .. 95 : dataAt[qt] \in pass[5].m}, ok |-> pass[5].ok]
  BY DEF bptcDecode
<1> HIDE DEF once
<1>2. f0 = Step(f0)
  <2> DEFINE v(n) == IF n = 1 THEN once ELSE Again(f0[n - 1])
  <2>1. f0[1] = once /\ f0[2] = s2 /\ f0[3] = s3 /\ f0[4] = s4 /\ f0[5] = s5
    <3> HIDE DEF s2, s3, s4, s5
    <3> QED OBVIOUS
  <2>2. v(1) = once /\ v(2) = s2 /\ v(3) = s3 /\ v(4) = s4 /\ v(5) = s5
    <3>1. 2 - 1 = 1 /\ 3 - 1 = 2 /\ 4 - 1 = 3 /\ 5 - 1 = 4
      OBVIOUS
    <3> HIDE DEF f0
    <3> QED BY <2>1, <3>1
  <2>3. \A n \in 1 .. 5 : f0[n] = v(n)
    <3>1. \A n \in 1 .. 5 : n = 1 \/ n = 2 \/ n = 3 \/ n = 4 \/ n = 5
      OBVIOUS
    <3> HIDE DEF f0, v, s2, s3, s4, s5
    <3> QED BY <2>1, <2>2, <3>1, Zenon
  <2>4. f0 = [n \in 1 .. 5 |-> f0[n]]
    OBVIOUS
  <2>5. Step(f0) = [n \in 1 .. 5 |-> v(n)]
    BY Zenon
  <2> HIDE DEF f0, v, Step
  <2> QED BY <2>3, <2>4, <2>5
<1> HIDE DEF Step, f0
<1>3. pass = Step(pass)
  BY <1>2, Zenon
<1> HIDE DEF pass
<1>4. /\ pass[1] = once
      /\ \A n \in 2 .. 5 : pass[n] = Again(pass[n - 1])
  BY <1>3 DEF Step
<1>5. pass[2] = s2 /\ pass[3] = s3 /\ pass[4] = s4 /\ pass[5] = s5
  <2>1. /\ pass[2] = Again(pass[1]) /\ pass[3] = Again(pass[2])
        /\ pass[4] = Again(pass[3]) /\ pass[5] = Again(pass[4])
    BY <1>4
  <2> QED BY <1>4, <2>1, Zenon
<1> QED BY <1>1, <1>5, Zenon DEF once

\* What was sent is decoded in spite of a fade.
LEMMA FadeDecoded ==
  ASSUME NEW N, IsSent(N), NEW e, Faded(e), NEW b,
         {a \in 0 .. 195 : rawPos(Raw(a)) \in b} = Add(N, e)
  PROVE  /\ bptcDecode(b).data = {p \in 0 .. 95 : dataAt[p] \in N}
         /\ bptcDecode(b).ok
<1> DEFINE once == bptcPass(Add(N, e))
           end == Again(Again(Again(Again(once))))
           p == bptcPass(e)
<1>1. Underway(N, once)
  <2>1. e \in SUBSET (0 .. 195)
    BY DEF Faded
  <2>2. once = [m |-> Add(N, p.m), fixed |-> p.fixed, ok |-> p.ok]
    BY <2>1, PassErrors, Zenon
  <2>3. Left(p.m) /\ (p.fixed \/ p.ok)
    BY FirstPass, Zenon
  <2> HIDE DEF p, once
  <2>4. once.m = Add(N, p.m) /\ (once.fixed <=> p.fixed) /\ (once.ok <=> p.ok)
    BY <2>2
  <2> QED BY <2>3, <2>4, Zenon DEF Underway
<1> HIDE DEF once
<1>2. Underway(N, end) /\ end.ok
  BY <1>1, AgainLeft, Zenon
<1>3. bptcDecode(b) = [data |-> {qt \in 0 .. 95 : dataAt[qt] \in end.m}, ok |-> end.ok]
  BY FivePasses, Zenon DEF once
<1> HIDE DEF end
<1>4. /\ bptcDecode(b).data = {qt \in 0 .. 95 : dataAt[qt] \in end.m}
      /\ bptcDecode(b).ok <=> end.ok
  BY <1>3
<1>5. PICK l : end.m = Add(N, l) /\ Left(l)
  BY <1>2, Zenon DEF Underway
<1>6. \A qt \in 0 .. 95 : dataAt[qt] \in end.m <=> dataAt[qt] \in N
  <2>1. \A x \in 1 .. 135 : x \notin {0} \cup 136 .. 195
    OBVIOUS
  <2>2. \A x \in 1 .. 135 : x \notin l
    BY <1>5, <2>1, SMT DEF Left
  <2>3. \A x \in 1 .. 135 : x \in end.m <=> x \in N
    <3>1. \A x : x \in Add(N, l) <=> ~(x \in N <=> x \in l)
      BY InSum
    <3> QED BY <1>5, <2>2, <3>1, SMT
  <2>4. \A qt \in 0 .. 95 : dataAt[qt] \in 1 .. 135
    BY BptcFacts, Zenon
  <2> QED BY <2>3, <2>4, Zenon
<1> QED BY <1>2, <1>4, <1>6, Zenon

\* What the encoder makes of its input: the rows first, the columns then.
DataRows(in) ==
  FromRows([r \in 0 .. 8 |-> Hamming(H1511, 11, Row({dataAt[p] : p \in in}, r))])
SentGrid(in) ==
  FromColumns([c \in 0 .. 14 |-> Hamming(H139, 9, Column(DataRows(in), c))])

LEMMA EncodeParts ==
  \A in : bptcEncode(in) = {rawPos(Raw(a)) : a \in SentGrid(in)}
BY Zenon DEF bptcEncode, SentGrid, DataRows

LEMMA DataRowsHold ==
  ASSUME NEW in, NEW r \in 0 .. 8, NEW c \in 0 .. 14
  PROVE  c + 1 + 15 * r \in DataRows(in) <=>
           c \in Hamming(H1511, 11, Row({dataAt[p] : p \in in}, r))
<1> DEFINE d == {dataAt[p] : p \in in}
           row == [s \in 0 .. 8 |-> Hamming(H1511, 11, Row(d, s))]
<1>1. \A x : Hamming(H1511, 11, x) \in SUBSET (0 .. 14)
  <2> TAKE x
  <2>1. Hamming(H1511, 11, x) \in SUBSET (0 .. 11 + 3)
    BY TheCodes, HammingOf, SMT
  <2> QED BY <2>1
<1>2. DOMAIN row = 0 .. 8 /\ \A s \in 0 .. 8 : row[s] = Hamming(H1511, 11, Row(d, s))
  BY Zenon
<1>3. \A s \in 0 .. 8 : row[s] \in SUBSET (0 .. 14)
  BY <1>1, <1>2, Zenon
<1>4. DataRows(in) = FromRows(row)
  BY Zenon DEF DataRows
<1> HIDE DEF row
<1>5. c + 1 + 15 * r \in FromRows(row) <=> c \in row[r]
  BY <1>2, <1>3, FromRowsMember, Zenon
<1> QED BY <1>2, <1>4, <1>5, Zenon

LEMMA SentColumns ==
  ASSUME NEW in
  PROVE  /\ SentGrid(in) \in SUBSET (1 .. 195)
         /\ \A c \in 0 .. 14 :
              Column(SentGrid(in), c) = Hamming(H139, 9, Column(DataRows(in), c))
<1> DEFINE col == [c \in 0 .. 14 |-> Hamming(H139, 9, Column(DataRows(in), c))]
<1>1. \A x : Hamming(H139, 9, x) \in SUBSET (0 .. 12)
  <2> TAKE x
  <2>1. Hamming(H139, 9, x) \in SUBSET (0 .. 9 + 3)
    BY TheCodes, HammingOf, Zenon
  <2> QED BY <2>1
<1>2. /\ DOMAIN col = 0 .. 14
      /\ \A c \in 0 .. 14 : col[c] = Hamming(H139, 9, Column(DataRows(in), c))
  BY Zenon
<1>3. \A c \in 0 .. 14 : col[c] \in SUBSET (0 .. 12)
  BY <1>1, <1>2, Zenon
<1>4. SentGrid(in) = FromColumns(col)
  BY Zenon DEF SentGrid
<1> HIDE DEF col
<1>5. /\ FromColumns(col) \in SUBSET (1 .. 195)
      /\ \A c \in 0 .. 14 : Column(FromColumns(col), c) = col[c]
  BY <1>2, <1>3, FromColumnsMember, Zenon
<1> QED BY <1>2, <1>4, <1>5, Zenon

\* The columns' parity leaves the rows as they were.
LEMMA SentRows ==
  ASSUME NEW in, NEW r \in 0 .. 8
  PROVE  Row(SentGrid(in), r) = Hamming(H1511, 11, Row({dataAt[p] : p \in in}, r))
<1> DEFINE w == Hamming(H1511, 11, Row({dataAt[p] : p \in in}, r))
           n == SentGrid(in)
<1>1. w \in SUBSET (0 .. 14)
  <2>1. \A x : Hamming(H1511, 11, x) \in SUBSET (0 .. 11 + 3)
    BY TheCodes, HammingOf, ZenonT(30)
  <2>2. w \in SUBSET (0 .. 11 + 3)
    BY <2>1, Zenon
  <2> HIDE DEF w
  <2> QED BY <2>2
<1>2. r \in 0 .. 12
  OBVIOUS
<1>3. Row(n, r) \in SUBSET (0 .. 14)
  BY LinePlaces, Zenon
<1> HIDE DEF w, n
<1>4. ASSUME NEW c \in 0 .. 14 PROVE c \in Row(n, r) <=> c \in w
  <2>1. /\ c \in Row(n, r) <=> c + 1 + 15 * r \in n
        /\ r \in Column(n, c) <=> c + 1 + 15 * r \in n
    BY <1>2, Crossing, Zenon
  <2>2. Column(n, c) = Hamming(H139, 9, Column(DataRows(in), c))
    BY SentColumns, Zenon DEF n
  <2>3. r \in Hamming(H139, 9, Column(DataRows(in), c)) <=> r \in Column(DataRows(in), c)
    <3>1. \A x : \A a \in 0 .. 9 - 1 : a \in Hamming(H139, 9, x) <=> a \in x
      BY TheCodes, HammingOf, Zenon
    <3>2. r \in 0 .. 9 - 1
      OBVIOUS
    <3> QED BY <3>1, <3>2, Zenon
  <2>4. r \in Column(DataRows(in), c) <=> c + 1 + 15 * r \in DataRows(in)
    BY <1>2, Crossing, Zenon
  <2>5. c + 1 + 15 * r \in DataRows(in) <=> c \in w
    BY DataRowsHold, Zenon DEF w
  <2> QED BY <2>1, <2>2, <2>3, <2>4, <2>5, Zenon
<1>5. Row(n, r) = w
  BY <1>1, <1>3, <1>4, Zenon
<1> QED BY <1>5, Zenon DEF w, n

LEMMA GridIsSent == \A in : IsSent(SentGrid(in))
<1> TAKE in
<1>1. \A c \in 0 .. 14 : Hamming(H139, 9, Column(SentGrid(in), c)) = Column(SentGrid(in), c)
  <2>1. \A x : Hamming(H139, 9, Hamming(H139, 9, x)) = Hamming(H139, 9, x)
    BY TheCodes, HammingOf, Zenon
  <2> QED BY <2>1, SentColumns, SMT
<1>2. \A r \in 0 .. 8 : Hamming(H1511, 11, Row(SentGrid(in), r)) = Row(SentGrid(in), r)
  <2>1. \A x : Hamming(H1511, 11, Hamming(H1511, 11, x)) = Hamming(H1511, 11, x)
    BY TheCodes, HammingOf, SMT
  <2> QED BY <2>1, SentRows, ZenonT(30)
<1> QED BY <1>1, <1>2, SentColumns, Zenon DEF IsSent

\* The data are in the matrix where they are looked for.
LEMMA GridData ==
  ASSUME NEW in \in SUBSET (0 .. 95), NEW p \in 0 .. 95
  PROVE  dataAt[p] \in SentGrid(in) <=> p \in in
<1> DEFINE x == dataAt[p]
           c == (x - 1) % 15
           r == (x - 1) \div 15
           d == {dataAt[qt] : qt \in in}
<1>1. x \in 1 .. 135 /\ (x - 1) % 15 <= 10
  BY BptcFacts, Zenon
<1> HIDE DEF x
<1>2. c \in 0 .. 14 /\ c \in 0 .. 10 /\ r \in 0 .. 8 /\ x = c + 1 + 15 * r
  BY <1>1
<1> HIDE DEF c, r
<1>3. r \in 0 .. 12 /\ c \in 0 .. 11 - 1
  BY <1>2
<1>4. x \in SentGrid(in) <=> c \in Row(SentGrid(in), r)
  BY <1>2, <1>3, Crossing, Zenon
<1>5. Row(SentGrid(in), r) = Hamming(H1511, 11, Row(d, r))
  BY <1>2, SentRows, Zenon
<1> HIDE DEF d
<1>6. c \in Hamming(H1511, 11, Row(d, r)) <=> c \in Row(d, r)
  <2>1. \A y : \A a \in 0 .. 11 - 1 : a \in Hamming(H1511, 11, y) <=> a \in y
    BY TheCodes, HammingOf, Zenon
  <2> QED BY <1>3, <2>1, Zenon
<1>7. c \in Row(d, r) <=> x \in d
  BY <1>2, <1>3, Crossing, Zenon
<1>8. x \in d <=> p \in in
  <2>1. \A qt \in 0 .. 95 : dataAt[qt] = dataAt[p] => qt = p
    BY BptcFacts, Zenon
  <2> QED BY <2>1, Zenon DEF d, x
<1>9. x \in SentGrid(in) <=> p \in in
  BY <1>4, <1>5, <1>6, <1>7, <1>8, Zenon
<1> QED BY <1>9, Zenon DEF x

PosOf(a) == rawPos(Raw(a))

\* The errors of a matrix that the noise makes.
ErrorsIn(h) == {a \in 0 .. 195 : PosOf(a) \in h}

LEMMA PosPlaces ==
  /\ \A a \in 0 .. 195 : PosOf(a) \in 0 .. 97 \cup 166 .. 263
  /\ \A a, b \in 0 .. 195 : PosOf(a) = PosOf(b) => a = b
<1>1. ASSUME NEW a \in 0 .. 195 PROVE PosOf(a) \in 0 .. 97 \cup 166 .. 263
  <2>1. a \in Nat
    OBVIOUS
  <2> QED BY <2>1, RawPlaces, Zenon DEF PosOf
<1>2. ASSUME NEW a \in 0 .. 195, NEW b \in 0 .. 195, PosOf(a) = PosOf(b) PROVE a = b
  <2>1. Raw(a) \in 0 .. 195 /\ Raw(b) \in 0 .. 195
    BY DEF Raw
  <2>2. \A x, y \in 0 .. 195 : rawPos(x) = rawPos(y) => x = y
    BY DEF rawPos
  <2>3. Raw(a) = Raw(b)
    BY <1>2, <2>1, <2>2, Zenon DEF PosOf
  <2>4. \A x, y \in 0 .. 195 : Raw(x) = Raw(y) => x = y
    BY BptcFacts, Zenon
  <2> QED BY <2>3, <2>4, Zenon
<1> QED BY <1>1, <1>2

\* Two places of a column that a fade can hit.
LEMMA FadedPair ==
  ASSUME NEW i \in Int, NEW c \in 0 .. 14, NEW x \in 0 .. 12, NEW y \in 0 .. 12, x < y,
         PosOf(c + 1 + 15 * x) \in i .. i + 7, PosOf(c + 1 + 15 * y) \in i .. i + 7
  PROVE  /\ y = x + 7 /\ x \in 0 .. 5
         /\ \/ PosOf(c + 1 + 15 * x) = i /\ PosOf(c + 1 + 15 * y) = i + 7
            \/ PosOf(c + 1 + 15 * x) = i + 7 /\ PosOf(c + 1 + 15 * y) = i
<1> DEFINE a == c + 1 + 15 * x
           b == c + 1 + 15 * y
<1>1. a \in 1 .. 195 /\ b \in 1 .. 195 /\ a < b
  OBVIOUS
<1>2. a % 15 = b % 15
  <2>1. ASSUME NEW z \in 0 .. 12
        PROVE  (c + 1 + 15 * z) % 15 = (c + 1) % 15
    OBVIOUS
  <2> QED BY <2>1
<1> HIDE DEF a, b
<1>3. \A p, qt \in 1 .. 195 :
        p < qt /\ p % 15 = qt % 15 /\ PosOf(p) - PosOf(qt) \in -7 .. 7 =>
          qt = p + 105 /\ PosOf(p) - PosOf(qt) \in {-7, 7}
  BY BptcFacts, Zenon DEF PosOf
<1>4. PosOf(a) \in i .. i + 7 /\ PosOf(b) \in i .. i + 7
  BY DEF a, b
<1> DEFINE s == PosOf(a)
           t == PosOf(b)
<1> HIDE DEF s, t
<1>5. s \in i .. i + 7 /\ t \in i .. i + 7
  BY <1>4 DEF s, t
<1>6. s - t \in -7 .. 7
  BY <1>5
<1>7. b = a + 105 /\ s - t \in {-7, 7}
  BY <1>1, <1>2, <1>3, <1>6, Zenon DEF s, t
<1>8. y = x + 7 /\ x \in 0 .. 5
  BY <1>7 DEF a, b
<1>9. (s = i /\ t = i + 7) \/ (s = i + 7 /\ t = i)
  BY <1>5, <1>7
<1> QED BY <1>8, <1>9, Zenon DEF s, t, a, b

LEMMA FadeColumns ==
  ASSUME NEW i \in Int, NEW h \in SUBSET (i .. i + 7)
  PROVE  Faded(ErrorsIn(h))
<1> DEFINE e == ErrorsIn(h)
           S(c) == Column(e, c)
<1>1. e \in SUBSET (0 .. 195)
  BY Zenon DEF ErrorsIn
<1>2. \A c \in 0 .. 14, x \in 0 .. 12 : x \in S(c) => PosOf(c + 1 + 15 * x) \in i .. i + 7
  <2>1. \A c, x : x \in S(c) => c + 1 + 15 * x \in e
    BY ColumnMember, Zenon
  <2>2. \A a \in e : PosOf(a) \in i .. i + 7
    BY Zenon DEF ErrorsIn
  <2> HIDE DEF S, e
  <2> QED BY <2>1, <2>2, Zenon
<1>3. \A c : S(c) \in SUBSET (0 .. 12)
  BY LinePlaces, Zenon
<1> HIDE DEF S
<1>4. ASSUME NEW c \in 0 .. 14, NEW x \in S(c), NEW y \in S(c), x < y
      PROVE  /\ y = x + 7 /\ x \in 0 .. 5
             /\ \/ PosOf(c + 1 + 15 * x) = i /\ PosOf(c + 1 + 15 * y) = i + 7
                \/ PosOf(c + 1 + 15 * x) = i + 7 /\ PosOf(c + 1 + 15 * y) = i
  <2>1. x \in 0 .. 12 /\ y \in 0 .. 12
    BY <1>3, Zenon
  <2>2. PosOf(c + 1 + 15 * x) \in i .. i + 7 /\ PosOf(c + 1 + 15 * y) \in i .. i + 7
    BY <1>2, <2>1, Zenon
  <2> QED BY <1>4, <2>1, <2>2, FadedPair
<1>5. ASSUME NEW c \in 0 .. 14
      PROVE  \/ S(c) = {}
             \/ \E x \in 0 .. 12 : S(c) = {x}
             \/ \E x \in 0 .. 5 : S(c) = {x, x + 7} /\ x \in S(c) /\ x + 7 \in S(c)
  <2>1. CASE \E x, y \in S(c) : x < y
    <3>1. PICK x \in S(c), y \in S(c) : x < y
      BY <2>1
    <3>2. y = x + 7 /\ x \in 0 .. 5
      BY <1>4, <3>1, Zenon
    <3>3. ASSUME NEW z \in S(c) PROVE z = x \/ z = y
      <4>1. z \in 0 .. 12 /\ x \in 0 .. 12 /\ y \in 0 .. 12
        BY <1>3, Zenon
      <4>2. /\ z < x => x = z + 7
            /\ x < z => z = x + 7
        BY <1>4, Zenon
      <4> QED BY <3>2, <4>1, <4>2
    <3>4. S(c) = {x, x + 7}
      BY <3>2, <3>3, Zenon
    <3> QED BY <3>2, <3>4, Zenon
  <2>2. CASE ~\E x, y \in S(c) : x < y
    <3>1. \A x, y \in S(c) : x = y
      <4>1. \A x, y \in 0 .. 12 : x = y \/ x < y \/ y < x
        OBVIOUS
      <4> QED BY <1>3, <2>2, <4>1, Zenon
    <3> QED BY <1>3, <3>1, Zenon
  <2> QED BY <2>1, <2>2
<1>6. ASSUME NEW c \in 0 .. 14, NEW d \in 0 .. 14,
             NEW x \in 0 .. 5, x \in S(c), x + 7 \in S(c),
             NEW y \in 0 .. 5, y \in S(d), y + 7 \in S(d)
      PROVE  c = d
  <2>1. x < x + 7 /\ y < y + 7
    OBVIOUS
  <2>2. PosOf(c + 1 + 15 * x) = i \/ PosOf(c + 1 + 15 * (x + 7)) = i
    BY <1>4, <1>6, <2>1, Zenon
  <2>3. PosOf(d + 1 + 15 * y) = i \/ PosOf(d + 1 + 15 * (y + 7)) = i
    BY <1>4, <1>6, <2>1, Zenon
  <2>4. PICK p \in 0 .. 12 : PosOf(c + 1 + 15 * p) = i
    BY <2>2
  <2>5. PICK r \in 0 .. 12 : PosOf(d + 1 + 15 * r) = i
    BY <2>3
  <2>6. c + 1 + 15 * p \in 0 .. 195 /\ d + 1 + 15 * r \in 0 .. 195
    OBVIOUS
  <2>7. c + 1 + 15 * p = d + 1 + 15 * r
    BY <2>4, <2>5, <2>6, PosPlaces, Zenon
  <2> QED BY <2>7
<1>7. CASE \E c \in 0 .. 14 : \E x \in 0 .. 5 : x \in S(c) /\ x + 7 \in S(c)
  <2>1. PICK c \in 0 .. 14 : \E x \in 0 .. 5 : x \in S(c) /\ x + 7 \in S(c)
    BY <1>7
  <2>2. \A d \in 0 .. 14 : d # c => S(d) = {} \/ \E x \in 0 .. 12 : S(d) = {x}
    BY <1>5, <1>6, <2>1, Zenon
  <2>3. \/ S(c) = {}
        \/ \E x \in 0 .. 12 : S(c) = {x}
        \/ \E x \in 0 .. 5 : S(c) = {x, x + 7}
    BY <1>5, Zenon
  <2> QED BY <1>1, <2>2, <2>3, Zenon DEF Faded, S
<1>8. CASE ~\E c \in 0 .. 14 : \E x \in 0 .. 5 : x \in S(c) /\ x + 7 \in S(c)
  <2>1. \A d \in 0 .. 14 : S(d) = {} \/ \E x \in 0 .. 12 : S(d) = {x}
    BY <1>5, <1>8, Zenon
  <2>2. 0 \in 0 .. 14
    OBVIOUS
  <2> QED BY <1>1, <2>1, <2>2, Zenon DEF Faded, S
<1> QED BY <1>7, <1>8

LEMMA CallPlaces ==
  /\ \A src, dst : VoiceLC(src, dst) \in SUBSET (0 .. 71)
  /\ \A lc, dt : Checks(lc, dt) \in SUBSET (72 .. 95)
<1>1. \A n : Bits(n) \subseteq 0 .. 23
  BY BitsIn
<1>2. ASSUME NEW src, NEW dst PROVE VoiceLC(src, dst) \in SUBSET (0 .. 71)
  <2>1. Number(dst, 24, 24) \in SUBSET (0 .. 71)
    BY <1>1 DEF Number
  <2>2. Number(src, 48, 24) \in SUBSET (0 .. 71)
    BY <1>1 DEF Number
  <2> QED BY <2>1, <2>2, Zenon DEF VoiceLC
<1>3. ASSUME NEW lc, NEW dt PROVE Checks(lc, dt) \in SUBSET (72 .. 95)
  <2> DEFINE s == [k \in 1 .. 3 |-> Add(rs129(lc)[k], Mask(dt))]
  <2>1. Len(s) = 3
    OBVIOUS
  <2>2. Checks(lc, dt) = {72 + i : i \in FromBytes(s)}
    BY Zenon DEF Checks
  <2> HIDE DEF s
  <2>3. FromBytes(s) \in SUBSET (0 .. 23)
    BY <2>1 DEF FromBytes
  <2> QED BY <2>2, <2>3
<1> QED BY <1>2, <1>3

\* Of a burst received the matrix holds what was sent, and the errors.
LEMMA GridReceived ==
  ASSUME NEW lc, NEW dt \in LCKinds, NEW h, NEW in, in = lc \cup Checks(lc, dt),
         NEW b, b = Add(EncodeFullLC(lc, dt, ColourCode), h)
  PROVE  {a \in 0 .. 195 : rawPos(Raw(a)) \in b} = Add(SentGrid(in), ErrorsIn(h))
<1> DEFINE N == SentGrid(in)
           sent == EncodeFullLC(lc, dt, ColourCode)
<1>1. sent = bptcEncode(in) \cup SetSlotType(ColourCode, DataType(dt))
             \cup {108 + i : i \in SyncBSData}
  BY Zenon DEF EncodeFullLC
<1>2. ASSUME NEW a \in 0 .. 195
      PROVE  PosOf(a) \in sent <=> a \in N
  <2> DEFINE info == 0 .. 97 \cup 166 .. 263
  <2>1. PosOf(a) \in info
    BY PosPlaces, Zenon
  <2>i. /\ \A x \in 98 .. 107 \cup 156 .. 165 : x \notin info
        /\ \A x \in 108 .. 155 : x \notin info
    OBVIOUS
  <2> HIDE DEF info
  <2>2. PosOf(a) \notin SetSlotType(ColourCode, DataType(dt))
    <3>1. \A x \in SetSlotType(ColourCode, DataType(dt)) : x \in 98 .. 107 \cup 156 .. 165
      <4>1. \A i \in 0 .. 19 : SlotTypeAt(i) \in 98 .. 107 \cup 156 .. 165
        BY SlotPlaces
      <4>2. \A x \in SetSlotType(ColourCode, DataType(dt)) :
              \E i \in 0 .. 19 : x = SlotTypeAt(i)
        BY DEF SetSlotType
      <4> QED BY <4>1, <4>2
    <3> QED BY <2>1, <2>i, <3>1, Zenon
  <2>3. PosOf(a) \notin {108 + i : i \in SyncBSData}
    <3>1. \A x \in {108 + i : i \in SyncBSData} : x \in 108 .. 155
      BY SyncPlaces, SMT
    <3> QED BY <2>1, <2>i, <3>1, SMT
  <2>4. PosOf(a) \in bptcEncode(in) <=> a \in N
    <3>1. bptcEncode(in) = {PosOf(x) : x \in N}
      BY EncodeParts, Zenon DEF PosOf
    <3>2. \A x \in N : x \in 0 .. 195
      <4>1. N \in SUBSET (1 .. 195)
        BY SentColumns, Zenon
      <4>2. \A x \in 1 .. 195 : x \in 0 .. 195
        OBVIOUS
      <4> QED BY <4>1, <4>2, Zenon
    <3> HIDE DEF N
    <3>3. \A x \in N : PosOf(x) = PosOf(a) => x = a
      BY <3>2, PosPlaces, Zenon
    <3> QED BY <3>1, <3>3, Zenon
  <2> HIDE DEF N, sent
  <2> QED BY <1>1, <2>2, <2>3, <2>4, Zenon
<1> DEFINE g == {a \in 0 .. 195 : PosOf(a) \in Add(sent, h)}
<1>3. N \in SUBSET (0 .. 195)
  <2>1. N \in SUBSET (1 .. 195)
    BY SentColumns, Zenon
  <2>2. \A x \in 1 .. 195 : x \in 0 .. 195
    OBVIOUS
  <2> HIDE DEF N
  <2> QED BY <2>1, <2>2, Zenon
<1> HIDE DEF N, sent
<1>4. ASSUME NEW a PROVE a \in g <=> a \in Add(N, ErrorsIn(h))
  <2>1. PosOf(a) \in Add(sent, h) <=> ~(PosOf(a) \in sent <=> PosOf(a) \in h)
    BY InSum
  <2>2. a \in Add(N, ErrorsIn(h)) <=> ~(a \in N <=> a \in ErrorsIn(h))
    BY InSum
  <2>3. a \in ErrorsIn(h) <=> a \in 0 .. 195 /\ PosOf(a) \in h
    BY Zenon DEF ErrorsIn
  <2>4. a \in g <=> a \in 0 .. 195 /\ PosOf(a) \in Add(sent, h)
    BY Zenon
  <2> HIDE DEF g
  <2> QED BY <1>2, <1>3, <2>1, <2>2, <2>3, <2>4, Zenon
<1>5. g = Add(N, ErrorsIn(h))
  <2> HIDE DEF g
  <2> QED BY <1>4, Zenon
<1> QED BY <1>5, Zenon DEF PosOf, g, N, sent

LEMMA LCFadeSafe == AirInv => LCFadeHarmless
<1> SUFFICES ASSUME AirInv, frame.kind \in LCKinds, NEW i \in hit, hit \subseteq i .. i + 7
             PROVE  DecodeFullLC(Received, frame.kind) = [lc |-> frame.of, ok |-> TRUE]
  BY Zenon DEF LCFadeHarmless
<1>1. frame \in LCFrames /\ hit \in SUBSET (0 .. 263)
  <2>1. frame \notin VoiceFrames
    BY AirKinds DEF Modes, LCKinds
  <2> QED BY <2>1, Zenon DEF AirInv
<1> DEFINE lc == frame.of
           dt == frame.kind
           in == lc \cup Checks(lc, dt)
           N == SentGrid(in)
           e == ErrorsIn(hit)
           r == bptcDecode(Received)
<1>2. Received = Add(EncodeFullLC(lc, dt, ColourCode), hit)
  BY <1>1, AirKinds, Zenon DEF Received
<1>3. lc \in SUBSET (0 .. 71)
  <2>1. \E src, dst : frame.of = VoiceLC(src, dst)
    BY <1>1 DEF LCFrames
  <2> QED BY <2>1, CallPlaces, SMT
<1>4. in \in SUBSET (0 .. 95) /\ in \cap 0 .. 71 = lc /\ in \ lc = Checks(lc, dt)
  <2> DEFINE k == Checks(lc, dt)
  <2>1. k \in SUBSET (72 .. 95)
    BY CallPlaces, Zenon
  <2> HIDE DEF k, lc
  <2>2. \A x \in 72 .. 95 : x \in 0 .. 95 /\ x \notin 0 .. 71
    OBVIOUS
  <2>3. \A x \in 0 .. 71 : x \in 0 .. 95
    OBVIOUS
  <2>4. lc \cup k \in SUBSET (0 .. 95) /\ (lc \cup k) \cap 0 .. 71 = lc /\ (lc \cup k) \ lc = k
    BY <1>3, <2>1, <2>2, <2>3, Zenon
  <2> QED BY <2>4, Zenon DEF k
<1>5. Faded(e)
  <2>1. i \in Int
    BY <1>1
  <2> QED BY <2>1, FadeColumns, Zenon
<1>6. {a \in 0 .. 195 : rawPos(Raw(a)) \in Received} = Add(N, e)
  <2>1. dt \in LCKinds
    OBVIOUS
  <2>2. in = lc \cup Checks(lc, dt)
    BY Zenon
  <2> HIDE DEF in, lc, dt
  <2> QED BY <1>2, <2>1, <2>2, GridReceived
<1> HIDE DEF in, lc, dt, e
<1>7. r.data = in /\ r.ok
  <2>1. IsSent(N)
    BY GridIsSent, Zenon
  <2>2. /\ r.data = {p \in 0 .. 95 : dataAt[p] \in N}
        /\ r.ok
    BY <1>5, <1>6, <2>1, FadeDecoded, Zenon
  <2>3. \A p \in 0 .. 95 : dataAt[p] \in N <=> p \in in
    BY <1>4, GridData, Zenon
  <2> HIDE DEF r, N
  <2> QED BY <1>4, <2>2, <2>3, Zenon
<1> HIDE DEF r
<1>8. DecodeFullLC(Received, dt) =
        [lc |-> r.data \cap 0 .. 71,
         ok |-> r.ok /\ r.data \ (r.data \cap 0 .. 71) = Checks(r.data \cap 0 .. 71, dt)]
  BY Zenon DEF DecodeFullLC, r
<1>9. /\ r.data \cap 0 .. 71 = lc
      /\ (r.ok /\ r.data \ (r.data \cap 0 .. 71) = Checks(r.data \cap 0 .. 71, dt)) = TRUE
  <2>1. r.data \cap 0 .. 71 = lc
    BY <1>4, <1>7, Zenon
  <2>2. r.ok /\ r.data \ (r.data \cap 0 .. 71) = Checks(r.data \cap 0 .. 71, dt)
    BY <1>4, <1>7, <2>1, Zenon
  <2> DEFINE b == r.ok /\ r.data \ (r.data \cap 0 .. 71) = Checks(r.data \cap 0 .. 71, dt)
  <2>3. b \in BOOLEAN /\ b
    BY <2>2, Zenon
  <2> HIDE DEF b
  <2>4. b = TRUE
    BY <2>3
  <2> QED BY <2>1, <2>4, Zenon DEF b
<1>10. DecodeFullLC(Received, dt) = [lc |-> lc, ok |-> TRUE]
  BY <1>8, <1>9, Zenon
<1> QED BY <1>10, Zenon DEF lc, dt

-----------------------------------------------------------------------------
(* Embedded link control: what is put in pieces comes out of them          *)

LEMMA ByteIn == \A w, k : Byte(w, k) \in SUBSET (0 .. 7)
BY DEF Byte

LEMMA SumIn == \A lc : Sum31(lc) \in 0 .. 30
<1> TAKE lc
<1> DEFINE n(k) == Num(Byte(lc, k))
<1>1. \A k : n(k) \in Nat
  <2>1. \A D \in SUBSET (0 .. 7) : Num(D) \in Nat
    BY NumOfByte
  <2>2. \A k : Byte(lc, k) \in SUBSET (0 .. 7)
    BY ByteIn
  <2> QED BY <2>1, <2>2, Zenon
<1>2. Sum31(lc) = (n(0) + n(1) + n(2) + n(3) + n(4) + n(5) + n(6) + n(7) + n(8)) % 31
  BY Zenon DEF Sum31
<1> HIDE DEF n
<1>3. \A s \in Nat : s % 31 \in 0 .. 30
  OBVIOUS
<1>4. n(0) + n(1) + n(2) + n(3) + n(4) + n(5) + n(6) + n(7) + n(8) \in Nat
  BY <1>1
<1> QED BY <1>2, <1>3, <1>4

LEMMA SentPlaces ==
  /\ \A k \in 1 .. 4, i \in 0 .. 31 : Sent(32 * (k - 1) + i) \in 0 .. 127
  /\ \A p \in 0 .. 127 : \E k \in 1 .. 4, i \in 0 .. 31 : Sent(32 * (k - 1) + i) = p
<1>1. ASSUME NEW k \in 1 .. 4, NEW i \in 0 .. 31 PROVE Sent(32 * (k - 1) + i) \in 0 .. 127
  BY DEF Sent
<1>2. ASSUME NEW p \in 0 .. 127
      PROVE  \E k \in 1 .. 4, i \in 0 .. 31 : Sent(32 * (k - 1) + i) = p
  <2> DEFINE a == 8 * (p % 16) + (p \div 16)
             k == (a \div 32) + 1
             i == a % 32
  <2>1. p % 16 \in 0 .. 15 /\ p \div 16 \in 0 .. 7 /\ p = 16 * (p \div 16) + (p % 16)
    OBVIOUS
  <2>2. a \in 0 .. 127 /\ a % 8 = p \div 16 /\ a \div 8 = p % 16
    BY <2>1
  <2> HIDE DEF a
  <2>3. k \in 1 .. 4 /\ i \in 0 .. 31 /\ 32 * (k - 1) + i = a
    BY <2>2
  <2>4. Sent(a) = p
    BY <2>1, <2>2 DEF Sent
  <2> HIDE DEF k, i
  <2> QED BY <2>3, <2>4
<1> QED BY <1>1, <1>2

LEMMA H1611Rows ==
  /\ DOMAIN H1611 = 1 .. 5
  /\ \A j \in 1 .. 5 : H1611[j] \subseteq 0 .. 10
<1> DEFINE h == {0, 2, 5, 6, 8, 9, 10}
<1>1. H1511 \in Seq(SUBSET (0 .. 10)) /\ Len(H1511) = 4
  BY DEF H1511
<1>2. H1611 = Append(H1511, h)
  BY DEF H1611
<1>3. h \in SUBSET (0 .. 10)
  OBVIOUS
<1> HIDE DEF h
<1>4. H1611 \in Seq(SUBSET (0 .. 10)) /\ Len(H1611) = 5
  <2> DEFINE S == SUBSET (0 .. 10)
  <2>1. H1511 \in Seq(S) /\ h \in S
    BY <1>1, <1>3
  <2> HIDE DEF S
  <2>2. Append(H1511, h) \in Seq(S) /\ Len(Append(H1511, h)) = Len(H1511) + 1
    BY <2>1, AppendProperties
  <2>3. Len(H1611) = 5
    BY <1>1, <1>2, <2>2
  <2> QED BY <1>2, <2>2, <2>3 DEF S
<1>5. H1611 \in [1 .. Len(H1611) -> SUBSET (0 .. 10)]
  BY <1>4, LenProperties
<1>6. DOMAIN H1611 = 1 .. Len(H1611)
  BY <1>4, LenProperties
<1>7. ASSUME NEW j \in 1 .. Len(H1611) PROVE H1611[j] \in SUBSET (0 .. 10)
  BY <1>4, ElementOfSeq
<1> QED BY <1>4, <1>6, <1>7

LEMMA HammingWord ==
  ASSUME NEW x
  PROVE  LET w == Hamming(H1611, 11, x)
         IN /\ w \in SUBSET (0 .. 15)
            /\ \A a \in 0 .. 10 : a \in w <=> a \in x
            /\ Hamming(H1611, 11, w) = w
<1> DEFINE P(y) == {11 + j - 1 : j \in {i \in 1 .. 5 : Odd(y \cap H1611[i])}}
           w == Hamming(H1611, 11, x)
<1>1. \A y : Hamming(H1611, 11, y) = (y \cap 0 .. 11 - 1) \cup P(y)
  BY H1611Rows, Zenon DEF Hamming
<1>2. \A y : P(y) \subseteq 11 .. 15
  <2>1. \A j \in 1 .. 5 : 11 + j - 1 \in 11 .. 15
    OBVIOUS
  <2> QED BY <2>1, Zenon
<1> HIDE DEF P
<1>3. w \in SUBSET (0 .. 15) /\ \A a \in 0 .. 10 : a \in w <=> a \in x
  <2>1. w = (x \cap 0 .. 11 - 1) \cup P(x) /\ P(x) \subseteq 11 .. 15
    BY <1>1, <1>2
  <2> HIDE DEF w
  <2> QED BY <2>1
<1> HIDE DEF w
<1>4. \A j \in 1 .. 5 : w \cap H1611[j] = x \cap H1611[j]
  BY <1>3, H1611Rows
<1>5. P(w) = P(x)
  BY <1>4 DEF P
<1>6. w \cap 0 .. 11 - 1 = x \cap 0 .. 11 - 1
  BY <1>3
<1>7. Hamming(H1611, 11, w) = w
  <2>1. Hamming(H1611, 11, x) = w
    BY DEF w
  <2> QED BY <1>1, <1>5, <1>6, <2>1, Zenon
<1> QED BY <1>3, <1>7 DEF w

\* A matrix of rows of sixteen.
Cells(row) == UNION {{16 * r + a : a \in row[r]} : r \in 0 .. 6}

LEMMA CellsMember ==
  ASSUME NEW row, \A r \in 0 .. 6 : row[r] \in SUBSET (0 .. 15)
  PROVE  /\ Cells(row) \in SUBSET (0 .. 111)
         /\ \A r \in 0 .. 6, a \in 0 .. 15 : 16 * r + a \in Cells(row) <=> a \in row[r]
<1>1. ASSUME NEW p \in Cells(row)
      PROVE  p \in 0 .. 111 /\ \E r \in 0 .. 6, a \in 0 .. 15 : a \in row[r] /\ p = 16 * r + a
  <2>1. PICK r \in 0 .. 6 : p \in {16 * r + a : a \in row[r]}
    BY DEF Cells
  <2>2. PICK a \in row[r] : p = 16 * r + a
    BY <2>1
  <2>3. a \in 0 .. 15
    BY <2>2
  <2> QED BY <2>2, <2>3
<1>2. ASSUME NEW r \in 0 .. 6, NEW a \in row[r] PROVE 16 * r + a \in Cells(row)
  BY DEF Cells
<1>3. \A r, s \in 0 .. 6, a, b \in 0 .. 15 : 16 * r + a = 16 * s + b => r = s /\ a = b
  OBVIOUS
<1>4. ASSUME NEW r \in 0 .. 6, NEW a \in 0 .. 15, 16 * r + a \in Cells(row)
      PROVE  a \in row[r]
  <2>1. PICK s \in 0 .. 6, b \in 0 .. 15 : b \in row[s] /\ 16 * r + a = 16 * s + b
    BY <1>1, <1>4
  <2>2. r = s /\ a = b
    BY <1>3, <2>1, Zenon
  <2> QED BY <2>1, <2>2
<1> QED BY <1>1, <1>2, <1>4

LEMMA CellAt ==
  \A p \in 0 .. 111 : p \div 16 \in 0 .. 6 /\ p % 16 \in 0 .. 15
                      /\ p = 16 * (p \div 16) + (p % 16)
OBVIOUS

LEMMA SumOfRowsIn == \A row : SumOfRows(row) \in SUBSET (0 .. 15)
BY DEF SumOfRows

LEMMA SixteenMember ==
  ASSUME NEW d, NEW r \in 0 .. 7, NEW a \in 0 .. 15
  PROVE  a \in Sixteen(d, r) <=> 16 * r + a \in d
<1>1. 16 * r + 1 * a = 16 * r + a
  OBVIOUS
<1>2. a \in 0 .. 16 - 1
  OBVIOUS
<1>3. a \in Sixteen(d, r) <=> a \in 0 .. 16 - 1 /\ 16 * r + 1 * a \in d
  BY Zenon DEF Sixteen, Line
<1> QED BY <1>1, <1>2, <1>3, Zenon

LEMMA SixteenIn == \A d, r : Sixteen(d, r) \in SUBSET (0 .. 15)
BY DEF Sixteen, Line

Matrix16(lc) == {lcAt[i] : i \in lc} \cup {crcAt[i + 1] : i \in Bits(Sum31(lc))}
Rows16(lc) == [r \in 0 .. 6 |-> Hamming(H1611, 11, Sixteen(Matrix16(lc), r))]
All16(lc) == {112 + a : a \in SumOfRows(Rows16(lc))} \cup Cells(Rows16(lc))

LEMMA CrcPlaces ==
  /\ DOMAIN crcAt = 1 .. 5
  /\ \A i \in 0 .. 4 : i + 1 \in 1 .. 5 /\ crcAt[i + 1] = 106 - 16 * i
BY DEF crcAt

LEMMA CrcBits ==
  ASSUME NEW lc
  PROVE  /\ Bits(Sum31(lc)) \in SUBSET (0 .. 4)
         /\ Num(Bits(Sum31(lc))) = Sum31(lc)
<1>1. Sum31(lc) \in 0 .. 30
  BY SumIn
<1>2. Sum31(lc) \in 0 .. 31 /\ Sum31(lc) \in 0 .. 255
  BY <1>1
<1> QED BY <1>2, FiveBits, NumOfBits

\* What is laid out in the matrix is read from it again.
LEMMA MatrixRead ==
  ASSUME NEW lc \in SUBSET (0 .. 71)
  PROVE  /\ \A i \in 0 .. 71 : lcAt[i] \in Matrix16(lc) <=> i \in lc
         /\ \A i \in 0 .. 4 : crcAt[i + 1] \in Matrix16(lc) <=> i \in Bits(Sum31(lc))
<1>1. \A i \in 0 .. 71, k \in 0 .. 4 : lcAt[i] # crcAt[k + 1]
  <2> SUFFICES ASSUME NEW i \in 0 .. 71, NEW k \in 0 .. 4 PROVE lcAt[i] # crcAt[k + 1]
    OBVIOUS
  <2>1. k + 1 \in DOMAIN crcAt
    BY CrcPlaces
  <2> QED BY <2>1, LCFacts
<1>2. \A i, j \in 0 .. 71 : lcAt[i] = lcAt[j] => i = j
  BY LCFacts, Zenon
<1>3. \A i, j \in 0 .. 4 : crcAt[i + 1] = crcAt[j + 1] => i = j
  BY CrcPlaces
<1>4. Bits(Sum31(lc)) \in SUBSET (0 .. 4)
  BY CrcBits
<1> QED BY <1>1, <1>2, <1>3, <1>4, ZenonT(30) DEF Matrix16

LEMMA RowsSent ==
  ASSUME NEW lc
  PROVE  LET row == Rows16(lc)
         IN \A r \in 0 .. 6 :
              /\ row[r] \in SUBSET (0 .. 15)
              /\ \A a \in 0 .. 10 : a \in row[r] <=> 16 * r + a \in Matrix16(lc)
              /\ Hamming(H1611, 11, row[r]) = row[r]
<1> SUFFICES ASSUME NEW r \in 0 .. 6
    PROVE  /\ Rows16(lc)[r] \in SUBSET (0 .. 15)
           /\ \A a \in 0 .. 10 : a \in Rows16(lc)[r] <=> 16 * r + a \in Matrix16(lc)
           /\ Hamming(H1611, 11, Rows16(lc)[r]) = Rows16(lc)[r]
  BY Zenon
<1> DEFINE x == Sixteen(Matrix16(lc), r)
<1>1. Rows16(lc)[r] = Hamming(H1611, 11, x)
  BY Zenon DEF Rows16
<1>2. \A a \in 0 .. 10 : a \in x <=> 16 * r + a \in Matrix16(lc)
  <2>1. r \in 0 .. 7 /\ \A a \in 0 .. 10 : a \in 0 .. 15
    OBVIOUS
  <2> QED BY <2>1, SixteenMember, Zenon
<1> HIDE DEF x
<1> QED BY <1>1, <1>2, HammingWord, Zenon

LEMMA AllRead ==
  ASSUME NEW lc \in SUBSET (0 .. 71)
  PROVE  /\ All16(lc) \in SUBSET (0 .. 127)
         /\ \A r \in 0 .. 6 : Sixteen(All16(lc), r) = Rows16(lc)[r]
         /\ Sixteen(All16(lc), 7) = SumOfRows(Rows16(lc))
<1> DEFINE row == Rows16(lc)
           s == SumOfRows(row)
           c == Cells(row)
           all == All16(lc)
<1>1. s \in SUBSET (0 .. 15)
  BY SumOfRowsIn
<1>2. \A r \in 0 .. 6 : row[r] \in SUBSET (0 .. 15)
  BY RowsSent
<1>3. /\ c \in SUBSET (0 .. 111)
      /\ \A r \in 0 .. 6, a \in 0 .. 15 : 16 * r + a \in c <=> a \in row[r]
  <2> HIDE DEF row
  <2> QED BY <1>2, CellsMember, Zenon
<1>4. all = {112 + a : a \in s} \cup c
  BY DEF All16
<1> HIDE DEF all, c, s, row
<1>5. all \in SUBSET (0 .. 127)
  <2>1. \A a \in s : 112 + a \in 0 .. 127
    BY <1>1
  <2>2. \A p \in c : p \in 0 .. 127
    BY <1>3
  <2> QED BY <1>4, <2>1, <2>2, SMT
<1>6. ASSUME NEW r \in 0 .. 6, NEW a \in 0 .. 15
      PROVE  16 * r + a \in all <=> a \in row[r]
  <2>1. 16 * r + a \notin {112 + b : b \in s}
    BY <1>1
  <2> QED BY <2>1, <1>3, <1>4, Zenon
<1>7. ASSUME NEW a \in 0 .. 15
      PROVE  16 * 7 + a \in all <=> a \in s
  <2>1. 16 * 7 + a \notin c
    BY <1>3
  <2>2. 16 * 7 + a \in {112 + b : b \in s} <=> a \in s
    BY <1>1
  <2> QED BY <2>1, <2>2, <1>4, Zenon
<1>8. ASSUME NEW r \in 0 .. 6 PROVE Sixteen(all, r) = row[r]
  <2>1. r \in 0 .. 7
    OBVIOUS
  <2> QED BY <1>2, <1>6, <2>1, SixteenMember, SixteenIn, Zenon
<1>9. Sixteen(all, 7) = s
  <2>1. 7 \in 0 .. 7
    OBVIOUS
  <2> QED BY <1>1, <1>7, <2>1, SixteenMember, SixteenIn, Zenon
<1> QED BY <1>5, <1>8, <1>9 DEF all, row, s

Fragments(all) == [k \in 1 .. 4 |-> {i \in 0 .. 31 : Sent(32 * (k - 1) + i) \in all}]

LEMMA FragmentsSent ==
  ASSUME NEW lc
  PROVE  EmbeddedFragments(lc) = Fragments(All16(lc))
<1> DEFINE d == {lcAt[i] : i \in lc} \cup {crcAt[i + 1] : i \in Bits(Sum31(lc))}
           row == [r \in 0 .. 6 |-> Hamming(H1611, 11, Sixteen(d, r))]
           all == {112 + a : a \in SumOfRows(row)}
                  \cup UNION {{16 * r + a : a \in row[r]} : r \in 0 .. 6}
<1>1. EmbeddedFragments(lc)
        = [k \in 1 .. 4 |-> {i \in 0 .. 31 : Sent(32 * (k - 1) + i) \in all}]
  BY Zenon DEF EmbeddedFragments
<1>2. d = Matrix16(lc)
  BY Zenon DEF Matrix16
<1> HIDE DEF d
<1>3. row = Rows16(lc)
  BY <1>2, Zenon DEF Rows16
<1> HIDE DEF row
<1>4. all = All16(lc)
  <2>1. all = {112 + a : a \in SumOfRows(row)} \cup Cells(row)
    BY DEF Cells
  <2> HIDE DEF all
  <2> QED BY <1>3, <2>1, Zenon DEF All16
<1> HIDE DEF all
<1> QED BY <1>1, <1>4, Zenon DEF Fragments

LEMMA Gathered ==
  ASSUME NEW all \in SUBSET (0 .. 127), NEW frag,
         \A k \in 1 .. 4 : frag[k] = Fragments(all)[k]
  PROVE  UNION {{Sent(32 * (k - 1) + i) : i \in frag[k]} : k \in 1 .. 4} = all
<1>1. \A k \in 1 .. 4 : frag[k] = {i \in 0 .. 31 : Sent(32 * (k - 1) + i) \in all}
  BY Zenon DEF Fragments
<1>2. ASSUME NEW p \in all
      PROVE  \E k \in 1 .. 4 : \E i \in frag[k] : p = Sent(32 * (k - 1) + i)
  <2>1. p \in 0 .. 127
    OBVIOUS
  <2>2. PICK k \in 1 .. 4, i \in 0 .. 31 : Sent(32 * (k - 1) + i) = p
    BY <2>1, SentPlaces
  <2> QED BY <1>1, <2>2
<1>3. ASSUME NEW k \in 1 .. 4, NEW i \in frag[k] PROVE Sent(32 * (k - 1) + i) \in all
  BY <1>1, Zenon
<1> DEFINE S(k) == {Sent(32 * (k - 1) + i) : i \in frag[k]}
<1>4. \A p \in all : \E k \in 1 .. 4 : p \in S(k)
  BY <1>2
<1>5. \A k \in 1 .. 4 : \A p \in S(k) : p \in all
  BY <1>3
<1>6. UNION {S(k) : k \in 1 .. 4} = all
  <2> HIDE DEF S
  <2> QED BY <1>4, <1>5
<1> QED BY <1>6

\* DecodeEmbedded of what EmbeddedFragments gave.
LEMMA RoundTrip ==
  ASSUME NEW lc \in SUBSET (0 .. 71), NEW frag,
         \A k \in 1 .. 4 : frag[k] = EmbeddedFragments(lc)[k]
  PROVE  /\ DecodeEmbedded(frag).lc = lc
         /\ DecodeEmbedded(frag).ok
<1> DEFINE d == UNION {{Sent(32 * (k - 1) + i) : i \in frag[k]} : k \in 1 .. 4}
           row == [r \in 0 .. 6 |-> correct1(H1611, 11, Sixteen(d, r))]
           word == [r \in 0 .. 6 |-> row[r].word]
           all == UNION {{16 * r + a : a \in word[r]} : r \in 0 .. 6}
           res == {i \in 0 .. 71 : lcAt[i] \in all}
           sent == Rows16(lc)
           ok == /\ \A r \in 0 .. 6 : row[r].ok
                 /\ Sixteen(d, 7) = SumOfRows(word)
                 /\ Sum31(res) = Num({i \in 0 .. 4 : crcAt[i + 1] \in all})
<1>1. DecodeEmbedded(frag) = [lc |-> res, ok |-> ok]
  BY Zenon DEF DecodeEmbedded
<1>2. d = All16(lc)
  <2> HIDE DEF d
  <2>1. All16(lc) \in SUBSET (0 .. 127)
    BY AllRead
  <2>2. \A k \in 1 .. 4 : frag[k] = Fragments(All16(lc))[k]
    BY FragmentsSent
  <2> QED BY <2>1, <2>2, Gathered DEF d
<1>3. /\ \A r \in 0 .. 6 : Sixteen(d, r) = sent[r]
      /\ Sixteen(d, 7) = SumOfRows(sent)
  <2> HIDE DEF d, sent
  <2> QED BY <1>2, AllRead, Zenon DEF sent
<1>4. \A r \in 0 .. 6 :
        /\ sent[r] \in SUBSET (0 .. 15)
        /\ \A a \in 0 .. 10 : a \in sent[r] <=> 16 * r + a \in Matrix16(lc)
        /\ Hamming(H1611, 11, sent[r]) = sent[r]
  BY RowsSent
<1>5. sent = [r \in 0 .. 6 |-> sent[r]]
  BY DEF Rows16
<1> HIDE DEF d, sent
<1>6. ASSUME NEW r \in 0 .. 6
      PROVE  row[r].word = sent[r] /\ row[r].ok
  <2>1. row[r] = correct1(H1611, 11, sent[r])
    BY <1>3, Zenon
  <2>2. correct1(H1611, 11, sent[r]) = [word |-> sent[r], fixed |-> FALSE, ok |-> TRUE]
    <3>1. Hamming(H1611, 11, sent[r]) = sent[r]
      BY <1>4
    <3> QED BY <3>1, Zenon DEF correct1
  <2> QED BY <2>1, <2>2
<1>7. word = sent
  <2>1. \A r \in 0 .. 6 : row[r].word = sent[r]
    BY <1>6
  <2> HIDE DEF row
  <2> QED BY <2>1, <1>5, Zenon
<1>8. all = Cells(sent)
  <2> HIDE DEF word
  <2> QED BY <1>7 DEF Cells
<1>9. \A r \in 0 .. 6, a \in 0 .. 10 : 16 * r + a \in all <=> 16 * r + a \in Matrix16(lc)
  <2>1. \A r \in 0 .. 6, a \in 0 .. 15 : 16 * r + a \in Cells(sent) <=> a \in sent[r]
    BY <1>4, CellsMember, Zenon
  <2>2. \A a \in 0 .. 10 : a \in 0 .. 15
    OBVIOUS
  <2> HIDE DEF all
  <2> QED BY <1>4, <1>8, <2>1, <2>2, Zenon
<1> HIDE DEF all, word, row
<1>10. res = lc
  <2>1. ASSUME NEW i \in 0 .. 71 PROVE lcAt[i] \in all <=> i \in lc
    <3> DEFINE p == lcAt[i]
    <3>1. p \in 0 .. 111 /\ p % 16 <= 10
      BY LCFacts
    <3> HIDE DEF p
    <3>2. p \div 16 \in 0 .. 6 /\ p % 16 \in 0 .. 10 /\ p = 16 * (p \div 16) + (p % 16)
      BY <3>1, CellAt
    <3>3. p \in all <=> p \in Matrix16(lc)
      BY <1>9, <3>2, Zenon
    <3>4. p \in Matrix16(lc) <=> i \in lc
      BY MatrixRead, Zenon DEF p
    <3> QED BY <3>3, <3>4, Zenon DEF p
  <2> QED BY <2>1, Zenon
<1>11. {i \in 0 .. 4 : crcAt[i + 1] \in all} = Bits(Sum31(lc))
  <2>1. ASSUME NEW i \in 0 .. 4 PROVE crcAt[i + 1] \in all <=> i \in Bits(Sum31(lc))
    <3>1. crcAt[i + 1] = 16 * (6 - i) + 10
      BY CrcPlaces
    <3>2. 6 - i \in 0 .. 6 /\ 10 \in 0 .. 10
      OBVIOUS
    <3>3. crcAt[i + 1] \in all <=> crcAt[i + 1] \in Matrix16(lc)
      BY <1>9, <3>1, <3>2, Zenon
    <3> QED BY <3>3, MatrixRead, Zenon
  <2>2. Bits(Sum31(lc)) \in SUBSET (0 .. 4)
    BY CrcBits
  <2> QED BY <2>1, <2>2, Zenon
<1>12. ok
  <2>1. \A r \in 0 .. 6 : row[r].ok
    BY <1>6 DEF row
  <2>2. Sixteen(d, 7) = SumOfRows(word)
    BY <1>3, <1>7, Zenon
  <2>3. Sum31(res) = Num({i \in 0 .. 4 : crcAt[i + 1] \in all})
    BY <1>10, <1>11, CrcBits, Zenon
  <2> QED BY <2>1, <2>2, <2>3
<1>13. DecodeEmbedded(frag).lc = res /\ DecodeEmbedded(frag).ok = ok
  <2> HIDE DEF res, ok
  <2> QED BY <1>1
<1> HIDE DEF res, ok
<1> QED BY <1>10, <1>12, <1>13, Zenon

-----------------------------------------------------------------------------
(* Words of an alias, and reading them: LinkControl                        *)

LEMMA EMBPlaces ==
  /\ \A j \in 0 .. 15, i \in 0 .. 31 : EMBAt(j) # 116 + i
  /\ \A i, j \in 0 .. 15 : EMBAt(i) = EMBAt(j) => i = j
  /\ \A i, j \in 0 .. 31 : 116 + i = 116 + j => i = j
BY DEF EMBAt

\* An EMB that nothing happened to is read as it was made.
LEMMA CleanEMB ==
  ASSUME NEW lcss \in 0 .. 3, NEW frag \in SUBSET (0 .. 31)
  PROVE  EMB(SetEMB(1, lcss, frag)) = [lcss |-> lcss, errs |-> 0, frag |-> frag]
<1> DEFINE n == 8 * 1 + lcss
           D == Bits(n)
           qt == qrEncode(D)
           b == SetEMB(1, lcss, frag)
           w == {15 - i : i \in {j \in 0 .. 15 : EMBAt(j) \in b}}
           X == Nearest(qrWords, w)
<1>1. n \in 0 .. 127 /\ n \in 0 .. 255 /\ n % 4 = lcss
  OBVIOUS
<1>2. D \in SUBSET (0 .. 6) /\ Num(D) = n /\ Num(D \cap 0 .. 1) = lcss
  <2> HIDE DEF n
  <2>1. D \in SUBSET (0 .. 6)
    BY <1>1, CharInBits
  <2>2. Num(D) = n /\ Num(D \cap 0 .. 1) = n % 4
    BY <1>1, ByteFacts, Zenon
  <2> QED BY <1>1, <2>1, <2>2, Zenon
<1>3. b = {EMBAt(i) : i \in {j \in 0 .. 15 : 15 - j \in qt}} \cup {116 + i : i \in frag}
  BY Zenon DEF SetEMB
<1>4. EMB(b) = [lcss |-> Num(X \cap 0 .. 1), errs |-> Cardinality(Add(qrWords[X], w)),
                frag |-> {i \in 0 .. 31 : 116 + i \in b}]
  BY Zenon DEF EMB
<1>5. qrWords[D] = qt /\ qt \in SUBSET (0 .. 15)
  <2>1. \A E \in SUBSET (0 .. 6) : qrWords[E] = qrEncode(E)
    BY Zenon DEF qrWords
  <2> HIDE DEF n
  <2>2. qrWords[D] \in SUBSET (0 .. 15)
    BY <1>2, RowFacts, Zenon
  <2> QED BY <1>2, <2>1, <2>2, Zenon
<1> HIDE DEF qt, b, D, n
<1>6. \A j \in 0 .. 15 : EMBAt(j) \in b <=> 15 - j \in qt
  <2>1. \A j \in 0 .. 15 : EMBAt(j) \notin {116 + i : i \in frag}
    BY EMBPlaces
  <2> QED BY <1>3, <2>1, EMBPlaces, Zenon
<1>7. w = qt
  <2>1. \A x \in 0 .. 15 : 15 - x \in 0 .. 15 /\ 15 - (15 - x) = x
    OBVIOUS
  <2> QED BY <1>5, <1>6, <2>1, ZenonT(30)
<1>8. {i \in 0 .. 31 : 116 + i \in b} = frag
  <2>1. ASSUME NEW i \in 0 .. 31 PROVE 116 + i \in b <=> i \in frag
    BY <1>3, EMBPlaces, SMT
  <2> QED BY <2>1, Zenon
<1> HIDE DEF w
<1>9. \A E \in SUBSET (0 .. 6) :
        /\ Cardinality(Add(qrWords[E], w)) \in Nat
        /\ Cardinality(Add(qrWords[E], w)) = 0 <=> qrWords[E] = w
  <2> TAKE E \in SUBSET (0 .. 6)
  <2>1. qrWords[E] \in SUBSET (0 .. 15)
    BY RowFacts, Zenon
  <2>2. qrWords[E] \in SUBSET (0 .. 263) /\ w \in SUBSET (0 .. 263)
    BY <1>5, <1>7, <2>1
  <2>3. Add(qrWords[E], w) \in SUBSET (0 .. 263)
    BY <2>2, ZenonT(30) DEF Add, SymDiff
  <2>4. IsFiniteSet(Add(qrWords[E], w)) /\ Cardinality(Add(qrWords[E], w)) \in Nat
    BY <2>3, Few
  <2>5. Cardinality(Add(qrWords[E], w)) = 0 <=> Add(qrWords[E], w) = {}
    BY <2>4, FS_EmptySet
  <2>6. Add(qrWords[E], w) = {} <=> qrWords[E] = w
    BY <2>2, AddCard
  <2> QED BY <2>4, <2>5, <2>6, Zenon
<1>10. Cardinality(Add(qrWords[D], w)) = 0
  BY <1>2, <1>5, <1>7, <1>9, Zenon
<1>11. ASSUME NEW E \in SUBSET (0 .. 6), E # D
       PROVE  Cardinality(Add(qrWords[D], w)) < Cardinality(Add(qrWords[E], w))
  <2>1. qrWords[E] # w
    BY <1>2, <1>5, <1>7, <1>11, RowFacts, Zenon
  <2>2. Cardinality(Add(qrWords[E], w)) \in Nat /\ Cardinality(Add(qrWords[E], w)) # 0
    BY <1>9, <2>1, Zenon
  <2> QED BY <1>10, <2>2
<1>12. Nearest(qrWords, w) = D
  <2>1. DOMAIN qrWords = SUBSET (0 .. 6)
    BY DEF qrWords
  <2>2. Num(D) \in Nat
    BY <1>1, <1>2
  <2> QED BY <1>2, <1>9, <1>11, <2>1, <2>2, NearestOne, Zenon
<1> QED BY <1>2, <1>4, <1>8, <1>10, <1>12, Zenon DEF b

LEMMA MinOf ==
  ASSUME NEW a \in Nat, NEW b \in Nat
  PROVE  Min({a, b}) = IF a <= b THEN a ELSE b
<1> DEFINE m == IF a <= b THEN a ELSE b
<1>1. m \in {a, b} /\ \A y \in {a, b} : m <= y
  OBVIOUS
<1>2. \A x \in {a, b} : (\A y \in {a, b} : x <= y) => x = m
  OBVIOUS
<1>3. Min({a, b}) = CHOOSE x \in {a, b} : \A y \in {a, b} : x <= y
  BY Zenon DEF Min
<1> HIDE DEF m
<1>4. Min({a, b}) = m
  BY <1>1, <1>2, <1>3
<1> QED BY <1>4 DEF m

LEMMA PrintableText ==
  ASSUME NEW text \in Seq(Nat)
  PROVE  Printable(text) \in Seq(32 .. 126) /\ Len(Printable(text)) \in 0 .. 31
<1> DEFINE s == [i \in DOMAIN text |-> IF text[i] \in 32 .. 126 THEN text[i] ELSE 63]
           m == Min({Len(text), 31})
<1>1. Len(text) \in Nat /\ DOMAIN text = 1 .. Len(text)
  BY LenProperties
<1>2. s \in Seq(32 .. 126) /\ Len(s) = Len(text)
  <2>1. \A i \in 1 .. Len(text) : s[i] \in 32 .. 126
    BY <1>1
  <2>2. s = [i \in 1 .. Len(text) |-> s[i]]
    BY <1>1
  <2> HIDE DEF s
  <2> QED BY <1>1, <2>1, <2>2
<1>3. m \in 0 .. 31 /\ m <= Len(text)
  <2>1. m = IF Len(text) <= 31 THEN Len(text) ELSE 31
    BY <1>1, MinOf
  <2>2. ASSUME NEW l \in Nat PROVE LET k == IF l <= 31 THEN l ELSE 31 IN k \in 0 .. 31 /\ k <= l
    OBVIOUS
  <2> HIDE DEF m
  <2> QED BY <1>1, <2>1, <2>2, Zenon
<1>4. Printable(text) = SubSeq(s, 1, m)
  BY Zenon DEF Printable
<1> HIDE DEF s, m
<1>5. 1 \in Int /\ m \in Int /\ m - 1 + 1 = m /\ ((m = 0 /\ ~(1 <= m)) \/ 1 <= m)
  BY <1>3
<1>6. ASSUME NEW i \in 1 .. m PROVE s[i] \in 32 .. 126
  <2>1. i \in 1 .. Len(s)
    BY <1>1, <1>2, <1>3
  <2> QED BY <1>2, <2>1, ElementOfSeq, Zenon
<1>7. /\ SubSeq(s, 1, m) \in Seq(32 .. 126)
      /\ Len(SubSeq(s, 1, m)) = IF 1 <= m THEN m - 1 + 1 ELSE 0
  BY <1>5, <1>6, SubSeqProperties
<1>8. Len(SubSeq(s, 1, m)) = m
  <2>1. CASE 1 <= m
    BY <1>5, <1>7, <2>1, Zenon
  <2>2. CASE m = 0 /\ ~(1 <= m)
    BY <1>7, <2>2, Zenon
  <2> QED BY <1>5, <2>1, <2>2
<1> QED BY <1>3, <1>4, <1>7, <1>8, Zenon

AliasBuf(t) == Number(Len(t), 2, 5) \cup UNION {Number(t[i], 7 * i, 7) : i \in DOMAIN t}
BlockBits(t, b) == {k \in 0 .. 55 : 56 * b + k \in AliasBuf(t)}
AliasWord(t, n) == Number(3 + n, 0, 8) \cup {16 + j : j \in BlockBits(t, n - 1)}
Blocks(t) == (7 + 7 * Len(t) + 55) \div 56

LEMMA AliasWords ==
  \A text : TalkerAliasLCs(text)
              = [n \in 1 .. Blocks(Printable(text)) |-> AliasWord(Printable(text), n)]
BY DEF TalkerAliasLCs, AliasWord, BlockBits, AliasBuf, Blocks

LEMMA NumberBits ==
  ASSUME NEW n, NEW first \in Int, NEW width \in Nat, Bits(n) \in SUBSET (0 .. width - 1)
  PROVE  Number(n, first, width) = {first + width - 1 - i : i \in Bits(n)}
<1>1. \A j \in Bits(n) : j < width
  OBVIOUS
<1>2. {j \in Bits(n) : j < width} = Bits(n)
  BY <1>1
<1> QED BY <1>2, Zenon DEF Number

LEMMA AliasWordRead ==
  ASSUME NEW t, NEW n \in 1 .. 4
  PROVE  /\ AliasWord(t, n) \in SUBSET (0 .. 71)
         /\ FLCO(AliasWord(t, n)) = 3 + n
         /\ {i - 16 : i \in AliasWord(t, n) \cap 16 .. 71} = BlockBits(t, n - 1)
<1> DEFINE B == BlockBits(t, n - 1)
           F == Bits(3 + n)
           w == AliasWord(t, n)
<1>1. B \in SUBSET (0 .. 55)
  BY DEF BlockBits
<1>2. F \in SUBSET (0 .. 7) /\ Num(F \cap 0 .. 5) = 3 + n
  <2>1. 3 + n \in 0 .. 255 /\ (3 + n) % 64 = 3 + n
    OBVIOUS
  <2> QED BY <2>1, TypeBits, LowSixBits
<1>3. w = {7 - i : i \in F} \cup {16 + j : j \in B}
  <2>1. 0 \in Int /\ 8 \in Nat /\ 8 - 1 = 7 /\ \A i : 0 + 8 - 1 = 7
    OBVIOUS
  <2>2. F \in SUBSET (0 .. 8 - 1)
    BY <1>2, <2>1
  <2>3. Number(3 + n, 0, 8) = {0 + 8 - 1 - i : i \in F}
    BY <2>1, <2>2, NumberBits, Zenon
  <2>4. Number(3 + n, 0, 8) = {7 - i : i \in F}
    <3>1. \A i \in F : 0 + 8 - 1 - i = 7 - i
      BY <1>2
    <3> QED BY <2>3, <3>1, Zenon
  <2> QED BY <2>4, Zenon DEF AliasWord
<1> HIDE DEF B, F, w
<1>4. \A i \in F : 7 - i \in 0 .. 7
  BY <1>2
<1>5. \A j \in B : 16 + j \in 16 .. 71
  BY <1>1
<1>6. w \in SUBSET (0 .. 71)
  <2>1. \A i \in 0 .. 7 : i \in 0 .. 71
    OBVIOUS
  <2>2. \A i \in 16 .. 71 : i \in 0 .. 71
    OBVIOUS
  <2> QED BY <1>3, <1>4, <1>5, <2>1, <2>2, Zenon
<1>7. FLCO(w) = 3 + n
  <2>1. Byte(w, 0) = F
    <3>1. \A j \in 0 .. 7 : 8 * 0 + j = j
      OBVIOUS
    <3>2. \A j \in 0 .. 7 : j \in w <=> 7 - j \in F
      <4> TAKE j \in 0 .. 7
      <4>1. j \notin {16 + i : i \in B}
        BY <1>1
      <4>2. j \in {7 - i : i \in F} <=> 7 - j \in F
        BY <1>2
      <4> QED BY <1>3, <4>1, <4>2, Zenon
    <3>3. Byte(w, 0) = {7 - i : i \in {j \in 0 .. 7 : j \in w}}
      BY <3>1 DEF Byte
    <3>4. \A x \in 0 .. 7 : 7 - x \in 0 .. 7 /\ 7 - (7 - x) = x
      OBVIOUS
    <3> QED BY <1>2, <3>2, <3>3, <3>4, ZenonT(30)
  <2> QED BY <1>2, <2>1, Zenon DEF FLCO
<1>8. {i - 16 : i \in w \cap 16 .. 71} = B
  <2>1. ASSUME NEW i \in w \cap 16 .. 71 PROVE i - 16 \in B
    <3>1. i \in w /\ i \in 16 .. 71
      OBVIOUS
    <3>2. i \notin {7 - x : x \in F}
      BY <1>2, <3>1
    <3>3. PICK j \in B : i = 16 + j
      BY <1>3, <3>1, <3>2, Zenon
    <3>4. i - 16 = j
      BY <1>1, <3>3
    <3> QED BY <3>4
  <2>2. ASSUME NEW j \in B PROVE \E i \in w \cap 16 .. 71 : j = i - 16
    <3>1. 16 + j \in w /\ 16 + j \in 16 .. 71
      BY <1>3, <1>5
    <3>2. j = (16 + j) - 16
      BY <1>1
    <3> QED BY <3>1, <3>2
  <2> QED BY <2>1, <2>2
<1> QED BY <1>6, <1>7, <1>8 DEF w, B

Texts == {t \in Seq(32 .. 126) : Len(t) \in 0 .. 31}

LEMMA TextFacts ==
  ASSUME NEW t \in Texts
  PROVE  /\ Len(t) \in 0 .. 31 /\ DOMAIN t = 1 .. Len(t)
         /\ t = [i \in 1 .. Len(t) |-> t[i]]
         /\ \A i \in 1 .. Len(t) : t[i] \in 32 .. 126
<1>1. t \in Seq(32 .. 126) /\ Len(t) \in 0 .. 31
  BY DEF Texts
<1>2. t \in [1 .. Len(t) -> 32 .. 126]
  BY <1>1, LenProperties
<1> QED BY <1>1, <1>2

LEMMA CharBits ==
  ASSUME NEW n \in 0 .. 127, NEW first \in Int, NEW k \in 0 .. 6
  PROVE  /\ Number(n, first, 7) = {first + 7 - 1 - i : i \in Bits(n)}
         /\ first + k \in Number(n, first, 7) <=> 6 - k \in Bits(n)
<1>1. Bits(n) \in SUBSET (0 .. 6) /\ 7 - 1 = 6 /\ 7 \in Nat
  BY CharInBits
<1>2. Bits(n) \in SUBSET (0 .. 7 - 1)
  BY <1>1
<1>3. Number(n, first, 7) = {first + 7 - 1 - i : i \in Bits(n)}
  BY <1>1, <1>2, NumberBits, Zenon
<1>4. first + k \in {first + 7 - 1 - i : i \in Bits(n)} <=> 6 - k \in Bits(n)
  <2> DEFINE B == Bits(n)
  <2> HIDE DEF B
  <2>1. B \in SUBSET (0 .. 6)
    BY <1>1 DEF B
  <2>2. ASSUME 6 - k \in B PROVE first + k \in {first + 7 - 1 - i : i \in B}
    <3>1. first + k = first + 7 - 1 - (6 - k)
      OBVIOUS
    <3> QED BY <2>2, <3>1
  <2>3. ASSUME NEW i \in B, first + k = first + 7 - 1 - i PROVE 6 - k \in B
    <3>1. i = 6 - k
      BY <2>1, <2>3
    <3> QED BY <3>1
  <2>4. first + k \in {first + 7 - 1 - i : i \in B} <=> 6 - k \in B
    BY <2>2, <2>3
  <2> QED BY <2>4 DEF B
<1> QED BY <1>3, <1>4

LEMMA SizeBits ==
  ASSUME NEW n \in 0 .. 31
  PROVE  /\ Number(n, 2, 5) = {6 - i : i \in Bits(n)}
         /\ Bits(n) \in SUBSET (0 .. 4)
<1>1. Bits(n) \in SUBSET (0 .. 4) /\ 5 - 1 = 4 /\ 5 \in Nat /\ 2 \in Int
  BY FiveBits
<1>2. Bits(n) \in SUBSET (0 .. 5 - 1)
  BY <1>1
<1>3. Number(n, 2, 5) = {2 + 5 - 1 - i : i \in Bits(n)}
  BY <1>1, <1>2, NumberBits, Zenon
<1>4. \A i \in Bits(n) : 2 + 5 - 1 - i = 6 - i
  BY <1>1
<1> QED BY <1>1, <1>3, <1>4, Zenon

\* Where the size and the characters of an alias are.
LEMMA AliasBufRead ==
  ASSUME NEW t \in Texts
  PROVE  /\ \A k \in 2 .. 6 : k \in AliasBuf(t) <=> 6 - k \in Bits(Len(t))
         /\ \A i \in 1 .. Len(t), k \in 0 .. 6 :
              7 * i + k \in AliasBuf(t) <=> 6 - k \in Bits(t[i])
<1> DEFINE N == Number(Len(t), 2, 5)
           C(i) == Number(t[i], 7 * i, 7)
           l == Len(t)
<1>1. l \in 0 .. 31 /\ DOMAIN t = 1 .. l /\ \A i \in 1 .. l : t[i] \in 0 .. 127
  BY TextFacts
<1>2. AliasBuf(t) = N \cup UNION {C(i) : i \in DOMAIN t}
  BY Zenon DEF AliasBuf
<1>3. N = {6 - i : i \in Bits(l)} /\ Bits(l) \in SUBSET (0 .. 4)
  BY <1>1, SizeBits
<1>4. ASSUME NEW i \in 1 .. l, NEW p \in C(i)
      PROVE  p \in 7 * i .. 7 * i + 6
  <2>1. Bits(t[i]) \in SUBSET (0 .. 6)
    BY <1>1, CharInBits
  <2>2. C(i) = {7 * i + 7 - 1 - j : j \in Bits(t[i])}
    <3>1. 7 * i \in Int /\ 0 \in 0 .. 6 /\ t[i] \in 0 .. 127
      BY <1>1
    <3> QED BY <3>1, CharBits, Zenon
  <2>3. PICK j \in Bits(t[i]) : p = 7 * i + 7 - 1 - j
    BY <2>2
  <2> QED BY <2>1, <2>3
<1>5. ASSUME NEW i \in 1 .. l, NEW k \in 0 .. 6
      PROVE  7 * i + k \in C(i) <=> 6 - k \in Bits(t[i])
  <2>1. 7 * i \in Int /\ t[i] \in 0 .. 127
    BY <1>1
  <2> QED BY <2>1, CharBits, Zenon
<1>a. \A p \in N : p \in 2 .. 6
  BY <1>3
<1>b. \A k \in 2 .. 6 : k \in N <=> 6 - k \in Bits(l)
  BY <1>3
<1> HIDE DEF N, C, l
<1>6. ASSUME NEW k \in 2 .. 6 PROVE k \in AliasBuf(t) <=> 6 - k \in Bits(l)
  <2>1. \A i \in 1 .. l : k \notin C(i)
    <3> SUFFICES ASSUME NEW i \in 1 .. l, k \in C(i) PROVE FALSE
      OBVIOUS
    <3> QED BY <1>1, <1>4
  <2> QED BY <1>1, <1>2, <1>b, <2>1, Zenon
<1>7. ASSUME NEW i \in 1 .. l, NEW k \in 0 .. 6
      PROVE  7 * i + k \in AliasBuf(t) <=> 6 - k \in Bits(t[i])
  <2>1. 7 * i + k \notin N
    BY <1>a, <1>1
  <2>2. \A j \in 1 .. l : 7 * i + k \in C(j) => j = i
    <3> SUFFICES ASSUME NEW j \in 1 .. l, 7 * i + k \in C(j) PROVE j = i
      OBVIOUS
    <3>1. 7 * i + k \in 7 * j .. 7 * j + 6
      BY <1>4
    <3> QED BY <1>1, <3>1
  <2> QED BY <1>1, <1>2, <1>5, <2>1, <2>2, Zenon
<1> QED BY <1>6, <1>7 DEF l

LEMMA MaxOf ==
  ASSUME NEW a \in Nat, NEW b \in Nat, a <= b
  PROVE  Max({a, b}) = b
<1>1. b \in {a, b} /\ \A y \in {a, b} : b >= y
  OBVIOUS
<1>2. \A x \in {a, b} : (\A y \in {a, b} : x >= y) => x = b
  OBVIOUS
<1>3. Max({a, b}) = CHOOSE x \in {a, b} : \A y \in {a, b} : x >= y
  BY Zenon DEF Max
<1> QED BY <1>1, <1>2, <1>3

LEMMA BlocksNeeded ==
  ASSUME NEW t \in Texts
  PROVE  /\ Blocks(t) \in 1 .. 4
         /\ Needed(Len(t)) = Blocks(t)
         /\ \A i \in 1 .. Len(t), k \in 0 .. 6 :
              LET p == 7 * i + k
              IN /\ p \div 56 \in 0 .. Blocks(t) - 1 /\ p % 56 \in 0 .. 55
                 /\ p = 56 * (p \div 56) + (p % 56)
<1>1. Len(t) \in 0 .. 31
  BY TextFacts
<1>2. Blocks(t) \in 1 .. 4
  <2>1. \A l \in 0 .. 31 : (7 + 7 * l + 55) \div 56 \in 1 .. 4
    OBVIOUS
  <2> QED BY <1>1, <2>1, Zenon DEF Blocks
<1>3. Needed(Len(t)) = Blocks(t)
  <2>1. 1 \in Nat /\ Blocks(t) \in Nat /\ 1 <= Blocks(t)
    BY <1>2
  <2>2. Needed(Len(t)) = Max({1, Blocks(t)})
    BY Zenon DEF Needed, Blocks
  <2> QED BY <2>1, <2>2, MaxOf
<1>4. ASSUME NEW l \in 0 .. 31, NEW i \in 1 .. l, NEW k \in 0 .. 6
      PROVE  (7 * i + k) \div 56 \in 0 .. ((7 + 7 * l + 55) \div 56) - 1
  OBVIOUS
<1>5. ASSUME NEW p \in Nat PROVE p % 56 \in 0 .. 55 /\ p = 56 * (p \div 56) + (p % 56)
  OBVIOUS
<1>6. \A i \in 1 .. Len(t), k \in 0 .. 6 : 7 * i + k \in Nat
  BY <1>1
<1> QED BY <1>1, <1>2, <1>3, <1>4, <1>5, <1>6 DEF Blocks

\* The blocks as the far bridge has them.
Stores(buf, t) ==
  /\ buf \in [0 .. 3 -> SUBSET (0 .. 55)]
  /\ \A b \in 0 .. Blocks(t) - 1 : buf[b] = BlockBits(t, b)

LEMMA SizeRead ==
  ASSUME NEW t \in Texts, NEW buf, Stores(buf, t)
  PROVE  SizeOf(buf) = Len(t)
<1>1. 0 \in 0 .. Blocks(t) - 1 /\ Len(t) \in 0 .. 31 /\ Len(t) \in 0 .. 255
  BY BlocksNeeded, TextFacts
<1>2. \A k \in 2 .. 6 : k \in buf[0] <=> 6 - k \in Bits(Len(t))
  <2> TAKE k \in 2 .. 6
  <2>1. 56 * 0 + k = k /\ k \in 0 .. 55
    OBVIOUS
  <2>2. buf[0] = {x \in 0 .. 55 : 56 * 0 + x \in AliasBuf(t)}
    BY <1>1, Zenon DEF Stores, BlockBits
  <2>3. k \in buf[0] <=> k \in AliasBuf(t)
    BY <2>1, <2>2
  <2> QED BY <2>3, AliasBufRead
<1>3. Bits(Len(t)) \in SUBSET (0 .. 4)
  BY <1>1, SizeBits
<1>4. \A x \in 0 .. 4 : 6 - x \in 2 .. 6 /\ 6 - (6 - x) = x
  OBVIOUS
<1>5. {6 - i : i \in buf[0] \cap 2 .. 6} = Bits(Len(t))
  BY <1>2, <1>3, <1>4, Zenon
<1>6. SizeOf(buf) = Num(Bits(Len(t)))
  BY <1>5, Zenon DEF SizeOf
<1> QED BY <1>1, <1>6, NumOfBits

LEMMA TextRead ==
  ASSUME NEW t \in Texts, NEW buf, Stores(buf, t)
  PROVE  TextOf(buf) = t
<1> DEFINE all == UNION {{56 * n + j : j \in buf[n]} : n \in 0 .. 3}
           l == Len(t)
<1>1. l \in 0 .. 31 /\ SizeOf(buf) = l /\ Blocks(t) \in 1 .. 4
  BY SizeRead, TextFacts, BlocksNeeded
<1>2. buf \in [0 .. 3 -> SUBSET (0 .. 55)]
  BY DEF Stores
<1>3. ASSUME NEW n \in 0 .. 3, NEW j \in 0 .. 55 PROVE 56 * n + j \in all <=> j \in buf[n]
  <2>1. ASSUME NEW m \in 0 .. 3, NEW i \in buf[m], 56 * n + j = 56 * m + i
        PROVE  m = n /\ i = j
    <3>1. i \in 0 .. 55
      BY <1>2
    <3> QED BY <2>1, <3>1
  <2>2. 56 * n + j \in all <=> \E m \in 0 .. 3 : \E i \in buf[m] : 56 * n + j = 56 * m + i
    OBVIOUS
  <2> QED BY <2>1, <2>2, Zenon
<1>4. TextOf(buf) = [i \in 1 .. SizeOf(buf) |->
                       Num({6 - j : j \in {k \in 0 .. 6 : 7 * i + k \in all}})]
  BY Zenon DEF TextOf
<1> HIDE DEF all, l
<1>5. ASSUME NEW i \in 1 .. l, NEW k \in 0 .. 6
      PROVE  7 * i + k \in all <=> 6 - k \in Bits(t[i])
  <2> DEFINE p == 7 * i + k
             b == p \div 56
             o == p % 56
  <2>1. b \in 0 .. Blocks(t) - 1 /\ o \in 0 .. 55 /\ p = 56 * b + o
    BY BlocksNeeded, ZenonT(30) DEF l
  <2>2. p \in AliasBuf(t) <=> 6 - k \in Bits(t[i])
    BY AliasBufRead DEF l
  <2> HIDE DEF p, b, o
  <2>3. b \in 0 .. 3
    BY <1>1, <2>1
  <2>4. p \in all <=> o \in buf[b]
    BY <1>3, <2>1, <2>3, Zenon
  <2>5. buf[b] = BlockBits(t, b)
    BY <2>1, Zenon DEF Stores
  <2>6. o \in buf[b] <=> p \in AliasBuf(t)
    BY <2>1, <2>5, Zenon DEF BlockBits
  <2> QED BY <2>2, <2>4, <2>6 DEF p
<1>6. ASSUME NEW i \in 1 .. l
      PROVE  Num({6 - j : j \in {k \in 0 .. 6 : 7 * i + k \in all}}) = t[i]
  <2>1. t[i] \in 0 .. 127 /\ t[i] \in 0 .. 255
    BY TextFacts DEF l
  <2>2. Bits(t[i]) \in SUBSET (0 .. 6)
    BY <2>1, CharInBits
  <2>3. \A x \in 0 .. 6 : 6 - x \in 0 .. 6 /\ 6 - (6 - x) = x
    OBVIOUS
  <2>4. {6 - j : j \in {k \in 0 .. 6 : 7 * i + k \in all}} = Bits(t[i])
    BY <1>5, <2>2, <2>3, Zenon
  <2> QED BY <2>1, <2>4, NumOfBits
<1>7. TextOf(buf) = [i \in 1 .. l |-> t[i]]
  BY <1>1, <1>4, <1>6, Zenon
<1> QED BY <1>7, TextFacts DEF l

T(a) == Printable(Aliases[a])

LEMMA VoiceLCRead ==
  \A src, dst : VoiceLC(src, dst) \in SUBSET (0 .. 71) /\ FLCO(VoiceLC(src, dst)) = 0
<1> TAKE src, dst
<1> DEFINE w == VoiceLC(src, dst)
<1>1. ASSUME NEW n, NEW first \in {24, 48}, NEW p \in Number(n, first, 24)
      PROVE  p \in first .. first + 23
  <2>1. PICK i \in {j \in Bits(n) : j < 24} : p = first + 24 - 1 - i
    BY <1>1, Zenon DEF Number
  <2>2. i \in 0 .. 23
    BY <2>1, BitsIn
  <2> QED BY <2>1, <2>2
<1>2. \A p \in w : p \in 24 .. 71
  <2>1. w = Number(dst, 24, 24) \cup Number(src, 48, 24)
    BY Zenon DEF VoiceLC
  <2>2. \A p \in Number(dst, 24, 24) : p \in 24 .. 24 + 23
    BY <1>1
  <2>3. \A p \in Number(src, 48, 24) : p \in 48 .. 48 + 23
    BY <1>1
  <2>4. \A p : p \in 24 .. 24 + 23 \/ p \in 48 .. 48 + 23 => p \in 24 .. 71
    OBVIOUS
  <2> HIDE DEF w
  <2> QED BY <2>1, <2>2, <2>3, <2>4, Zenon
<1> HIDE DEF w
<1>3. Byte(w, 0) = {}
  BY <1>2 DEF Byte
<1>4. FLCO(w) = 0
  <2>1. Byte(w, 0) \cap 0 .. 5 = {}
    BY <1>3
  <2>2. Bits(0) = {}
    BY ByteFacts, Zenon
  <2>3. Num({}) = 0
    <3>1. 0 \in 0 .. 255
      OBVIOUS
    <3>2. Num(Bits(0)) = 0
      BY <3>1, ByteFacts, Zenon
    <3> QED BY <2>2, <3>2, Zenon
  <2> QED BY <2>1, <2>3, Zenon DEF FLCO
<1>5. w \in SUBSET (0 .. 71)
  BY <1>2
<1> QED BY <1>4, <1>5 DEF w

LEMMA AliasLCs ==
  ASSUME NEW a \in DOMAIN Aliases
  PROVE  /\ T(a) \in Texts
         /\ lcs[a] \in Seq(SUBSET (0 .. 71))
         /\ Len(lcs[a]) = Blocks(T(a)) + 1
         /\ FLCO(lcs[a][1]) = 0
         /\ \A b \in 0 .. Blocks(T(a)) - 1 : lcs[a][b + 2] = AliasWord(T(a), b + 1)
<1> DEFINE t == T(a)
           N == Blocks(t)
           v == VoiceLC(Src, Dst)
           s == TalkerAliasLCs(Aliases[a])
<1>1. t \in Texts
  <2>1. Aliases[a] \in Seq(Nat)
    BY LinkAssumption, LenProperties, ElementOfSeq
  <2> QED BY <2>1, PrintableText DEF T, Texts
<1>2. N \in 1 .. 4
  BY <1>1, BlocksNeeded
<1>3. s = [n \in 1 .. N |-> AliasWord(t, n)]
  BY AliasWords, Zenon DEF T
<1>4. lcs[a] = <<v>> \o s
  BY Zenon DEF lcs, LCs
<1> HIDE DEF v, s, N, t
<1>5. \A n \in 1 .. N : AliasWord(t, n) \in SUBSET (0 .. 71)
  <2>1. \A n \in 1 .. N : n \in 1 .. 4
    BY <1>2
  <2> QED BY <2>1, AliasWordRead, Zenon
<1>6. s \in Seq(SUBSET (0 .. 71)) /\ Len(s) = N
  <2>1. \A n \in 1 .. N : s[n] \in SUBSET (0 .. 71)
    BY <1>3, <1>5, Zenon
  <2>2. s = [n \in 1 .. N |-> s[n]]
    BY <1>3
  <2>3. N \in Nat
    BY <1>2
  <2>4. s \in [1 .. N -> SUBSET (0 .. 71)]
    BY <2>1, <2>2, Zenon
  <2>5. s \in Seq(SUBSET (0 .. 71))
    BY <2>3, <2>4, SeqDef, Zenon
  <2>6. DOMAIN s = 1 .. N
    BY <2>4, Zenon
  <2>7. Len(s) \in Nat /\ DOMAIN s = 1 .. Len(s)
    BY <2>5, LenProperties, Zenon
  <2>8. \A m, n \in Nat : 1 .. m = 1 .. n => m = n
    <3> SUFFICES ASSUME NEW m \in Nat, NEW n \in Nat, 1 .. m = 1 .. n PROVE m = n
      OBVIOUS
    <3>1. (m \in 1 .. m <=> m \in 1 .. n) /\ (n \in 1 .. m <=> n \in 1 .. n)
      BY Zenon
    <3> QED BY <3>1
  <2>9. Len(s) = N
    BY <2>3, <2>6, <2>7, <2>8, Zenon
  <2> QED BY <2>5, <2>9
<1>7. v \in SUBSET (0 .. 71) /\ FLCO(v) = 0
  BY VoiceLCRead DEF v
<1>8. <<v>> \in Seq(SUBSET (0 .. 71)) /\ Len(<<v>>) = 1 /\ <<v>>[1] = v
  BY <1>7
<1> DEFINE w == <<v>> \o s
<1>9. /\ w \in Seq(SUBSET (0 .. 71))
      /\ Len(w) = Len(<<v>>) + Len(s)
      /\ \A i \in 1 .. Len(<<v>>) + Len(s) :
           w[i] = IF i <= Len(<<v>>) THEN <<v>>[i] ELSE s[i - Len(<<v>>)]
  BY <1>6, <1>8, ConcatProperties, Zenon
<1> HIDE DEF w
<1>10. Len(w) = N + 1
  BY <1>2, <1>6, <1>8, <1>9
<1>11. w[1] = v
  <2>1. 1 \in 1 .. 1 + N /\ 1 <= 1
    BY <1>2
  <2> QED BY <2>1, <1>6, <1>8, <1>9, Zenon
<1>12. ASSUME NEW b \in 0 .. N - 1 PROVE w[b + 2] = AliasWord(t, b + 1)
  <2>1. b + 2 \in 1 .. 1 + N /\ ~(b + 2 <= 1) /\ b + 2 - 1 = b + 1 /\ b + 1 \in 1 .. N
    BY <1>2
  <2>2. w[b + 2] = s[b + 2 - 1]
    <3>1. b + 2 \in 1 .. Len(<<v>>) + Len(s) /\ ~(b + 2 <= Len(<<v>>))
      BY <2>1, <1>6, <1>8
    <3> QED BY <3>1, <1>8, <1>9
  <2> QED BY <2>1, <2>2, <1>3, Zenon
<1> QED BY <1>1, <1>4, <1>7, <1>9, <1>10, <1>11, <1>12, Zenon DEF w, N, t

LEMMA CleanPiece ==
  ASSUME NEW a \in DOMAIN Aliases, NEW i \in 1 .. Len(lcs[a]), NEW n \in 1 .. 5
  PROVE  LET w == lcs[a][i]
         IN Piece[w][n][{}] = [lcss |-> <<1, 3, 3, 2, 0>>[n], errs |-> 0,
                               frag |-> IF n = 5 THEN {} ELSE EmbeddedFragments(w)[n]]
<1> DEFINE w == lcs[a][i]
           l == <<0, 1, 3, 3, 2, 0>>[n + 1]
           f == IF n = 5 THEN {} ELSE fragments[w][n]
<1>1. w \in DOMAIN fragments /\ fragments[w] = EmbeddedFragments(w)
  <2>1. DOMAIN lcs = DOMAIN Aliases
    BY DEF lcs
  <2>2. i \in DOMAIN lcs[a]
    BY AliasLCs, LenProperties
  <2>3. w \in Range(lcs[a])
    BY <2>2, Zenon DEF Range
  <2>4. w \in UNION {Range(lcs[b]) : b \in DOMAIN Aliases}
    BY <2>3
  <2> QED BY <2>4, Zenon DEF fragments
<1>2. Piece[w][n][{}] = EMB(Add(VoiceBurst(w, n), {}))
  <2>1. {} \in Hits
    BY LinkAssumption
  <2> QED BY <1>1, <2>1, Zenon DEF Piece
<1>3. Add(VoiceBurst(w, n), {}) = VoiceBurst(w, n)
  BY DEF Add, SymDiff
<1>4. VoiceBurst(w, n) = SetEMB(1, l, f)
  BY Zenon DEF VoiceBurst
<1> HIDE DEF w
<1>5. l \in 0 .. 3 /\ l = <<1, 3, 3, 2, 0>>[n]
  OBVIOUS
<1>6. f = IF n = 5 THEN {} ELSE EmbeddedFragments(w)[n]
  BY <1>1
<1>7. f \in SUBSET (0 .. 31)
  <2>1. \A k \in 1 .. 4 : EmbeddedFragments(w)[k] \in SUBSET (0 .. 31)
    BY FragmentsSent DEF Fragments
  <2>2. n # 5 => n \in 1 .. 4
    OBVIOUS
  <2> QED BY <1>6, <2>1, <2>2
<1> HIDE DEF f, l
<1>8. EMB(SetEMB(1, l, f)) = [lcss |-> l, errs |-> 0, frag |-> f]
  BY <1>5, <1>7, CleanEMB
<1> QED BY <1>2, <1>3, <1>4, <1>5, <1>6, <1>8, Zenon DEF w

-----------------------------------------------------------------------------
(* The far bridge: a burst, a word, a rotation of the words                *)

LEMMA Turn ==
  ASSUME NEW l \in 2 .. 5, NEW m \in Nat \ {0}, m % l = 0, NEW i \in 0 .. m - 1
  PROVE  /\ i % l \in 0 .. l - 1
         /\ (i + 1) % m \in 0 .. m - 1
         /\ ((i + 1) % m) % l = IF i % l = l - 1 THEN 0 ELSE (i % l) + 1
<1>1. (i + 1) % m = IF i + 1 = m THEN 0 ELSE i + 1
  OBVIOUS
<1>2. (i + 1) % m \in 0 .. m - 1
  BY <1>1
<1>3. ASSUME NEW x \in Nat
      PROVE  /\ x % l \in 0 .. l - 1
             /\ (x + 1) % l = IF x % l = l - 1 THEN 0 ELSE (x % l) + 1
  <2>1. CASE l = 2
    BY <2>1
  <2>2. CASE l = 3
    BY <2>2
  <2>3. CASE l = 4
    BY <2>3
  <2>4. CASE l = 5
    BY <2>4
  <2> QED BY <2>1, <2>2, <2>3, <2>4
<1>4. 0 % l = 0
  <2>1. CASE l = 2
    BY <2>1
  <2>2. CASE l = 3
    BY <2>2
  <2>3. CASE l = 4
    BY <2>3
  <2>4. CASE l = 5
    BY <2>4
  <2> QED BY <2>1, <2>2, <2>3, <2>4
<1>5. ((i + 1) % m) % l = (i + 1) % l
  <2>1. CASE i + 1 = m
    BY <1>1, <1>4, <2>1
  <2>2. CASE i + 1 # m
    BY <1>1, <2>2
  <2> QED BY <2>1, <2>2
<1>6. i \in Nat
  OBVIOUS
<1> QED BY <1>2, <1>3, <1>5, <1>6

\* Bursts since the word that is being sent was begun, and since the one with
\* block b was; of l words the one at pos comes next.
Begun(n) == ((n + 4) % 6) + 1
Current(l, pos) == IF pos = 0 THEN l - 1 ELSE pos - 1
Back(l, pos, b) ==
  IF Current(l, pos) >= b + 1 THEN Current(l, pos) - b - 1 ELSE Current(l, pos) - b - 1 + l
Age(l, pos, n, b) ==
  IF Back(l, pos, b) = 0 /\ Begun(n) < 4 THEN 6 * l + Begun(n)
  ELSE 6 * Back(l, pos, b) + Begun(n)
After(l, pos, n) == IF n # 1 THEN pos ELSE IF pos = l - 1 THEN 0 ELSE pos + 1

LEMMA BegunStep ==
  ASSUME NEW n \in 0 .. 5
  PROVE  /\ (n + 1) % 6 \in 0 .. 5
         /\ Begun(n) \in 1 .. 6
         /\ n = 1 => Begun(n) = 6 /\ Begun((n + 1) % 6) = 1
         /\ n # 1 => Begun((n + 1) % 6) = Begun(n) + 1
         /\ n = 2 => Begun(n) = 1
         /\ n = 3 => Begun(n) = 2
         /\ n = 4 => Begun(n) = 3
         /\ n = 5 => Begun(n) = 4
         /\ n = 0 => Begun(n) = 5
BY DEF Begun

LEMMA AgeStep ==
  ASSUME NEW l \in 2 .. 5, NEW pos \in 0 .. l - 1, NEW n \in 0 .. 5, NEW b \in 0 .. l - 2
  PROVE  /\ Age(l, pos, n, b) \in 1 .. 6 * l + 3
         /\ After(l, pos, n) \in 0 .. l - 1
         /\ \/ Age(l, After(l, pos, n), (n + 1) % 6, b) = Age(l, pos, n, b) + 1
            \/ n = 4 /\ Current(l, pos) = b + 1
         /\ n = 4 => Age(l, After(l, pos, n), (n + 1) % 6, b) >= 4
<1> DEFINE m == (n + 1) % 6
           qt == After(l, pos, n)
<1>1. /\ m \in 0 .. 5 /\ Begun(n) \in 1 .. 6 /\ Begun(m) \in 1 .. 6
      /\ n = 1 => Begun(n) = 6 /\ Begun(m) = 1
      /\ n # 1 => Begun(m) = Begun(n) + 1
      /\ n = 4 => Begun(n) = 3
      /\ Begun(n) = 3 => n = 4
  BY BegunStep
<1>2. qt \in 0 .. l - 1
  BY DEF After
<1>3. \A p \in 0 .. l - 1 : Current(l, p) \in 0 .. l - 1 /\ Back(l, p, b) \in 0 .. l - 1
  BY DEF Current, Back
<1>4. Age(l, pos, n, b) \in 1 .. 6 * l + 3
  BY <1>1, <1>3 DEF Age
<1>5. CASE n # 1
  <2>1. qt = pos
    BY <1>5 DEF After
  <2>2. Back(l, pos, b) = 0 => Current(l, pos) = b + 1
    BY <1>3 DEF Back
  <2> HIDE DEF m, qt
  <2> QED BY <1>1, <1>2, <1>3, <1>4, <1>5, <2>1, <2>2 DEF Age, m, qt
<1>6. CASE n = 1
  <2>1. Current(l, qt) = pos
    BY <1>6 DEF After, Current
  <2>2. \/ Back(l, qt, b) = Back(l, pos, b) + 1
        \/ Back(l, qt, b) = 0 /\ Back(l, pos, b) = l - 1
    BY <1>6 DEF After, Current, Back
  <2>3. Age(l, pos, n, b) = 6 * Back(l, pos, b) + 6
    BY <1>1, <1>6 DEF Age
  <2>4. Age(l, qt, m, b) = Age(l, pos, n, b) + 1
    <3> HIDE DEF m, qt
    <3> QED BY <1>1, <1>2, <1>3, <1>6, <2>2, <2>3 DEF Age
  <2> QED BY <1>2, <1>4, <1>6, <2>4
<1> QED BY <1>5, <1>6

FarType(f) ==
  /\ f = [frags |-> f.frags, buf |-> f.buf, have |-> f.have, text |-> f.text,
          heard |-> f.heard]
  /\ f.buf \in [0 .. 3 -> SUBSET (0 .. 55)]

Stripped(lc) == {i - 16 : i \in lc \cap 16 .. 71}

LEMMA StrippedIn == \A lc : Stripped(lc) \in SUBSET (0 .. 55)
BY DEF Stripped

Put(buf, n, x) == [buf EXCEPT ![n] = x]

LEMMA StoredFields ==
  ASSUME NEW f, FarType(f), NEW n \in 0 .. 3, NEW lc
  PROVE  LET g == Stored(f, n, lc)
         IN /\ FarType(g)
            /\ g.frags = f.frags /\ g.text = f.text
            /\ g.buf = Put(f.buf, n, Stripped(lc))
            /\ g.have = f.have \cup {n}
<1> DEFINE g == Stored(f, n, lc)
           s == Stripped(lc)
<1>1. g = [f EXCEPT !.buf[n] = s, !.have = @ \cup {n}]
  BY Zenon DEF Stored, Stripped
<1>2. s \in SUBSET (0 .. 55)
  BY StrippedIn
<1> HIDE DEF s
<1>3. g = [frags |-> f.frags, buf |-> [f.buf EXCEPT ![n] = s], have |-> f.have \cup {n},
           text |-> f.text, heard |-> f.heard]
  <2>1. f = [frags |-> f.frags, buf |-> f.buf, have |-> f.have, text |-> f.text,
             heard |-> f.heard]
    BY DEF FarType
  <2> HIDE DEF g
  <2> QED BY <1>1, <2>1
<1> HIDE DEF g
<1>4. f.buf \in [0 .. 3 -> SUBSET (0 .. 55)]
  BY DEF FarType
<1>5. [f.buf EXCEPT ![n] = s] \in [0 .. 3 -> SUBSET (0 .. 55)]
  BY <1>2, <1>4
<1>6. /\ g.frags = f.frags /\ g.text = f.text /\ g.heard = f.heard
      /\ g.buf = [f.buf EXCEPT ![n] = s]
      /\ g.have = f.have \cup {n}
  BY <1>3
<1>7. FarType(g)
  BY <1>3, <1>5, <1>6, Zenon DEF FarType
<1> QED BY <1>6, <1>7, Zenon DEF g, s, Put

LEMMA WithField ==
  ASSUME NEW f, FarType(f), NEW x
  PROVE  /\ FarType([f EXCEPT !.frags = x]) /\ FarType([f EXCEPT !.text = x])
         /\ FarType([f EXCEPT !.heard = x])
         /\ LET g == [f EXCEPT !.frags = x]
            IN g.frags = x /\ g.buf = f.buf /\ g.have = f.have /\ g.text = f.text
         /\ LET g == [f EXCEPT !.text = x]
            IN g.frags = f.frags /\ g.buf = f.buf /\ g.have = f.have /\ g.text = x
         /\ LET g == [f EXCEPT !.heard = x]
            IN g.frags = f.frags /\ g.buf = f.buf /\ g.have = f.have /\ g.text = f.text
<1>1. f = [frags |-> f.frags, buf |-> f.buf, have |-> f.have, text |-> f.text,
           heard |-> f.heard]
  BY DEF FarType
<1>2. f.buf \in [0 .. 3 -> SUBSET (0 .. 55)]
  BY DEF FarType
<1> DEFINE a == [f EXCEPT !.frags = x]
           b == [f EXCEPT !.text = x]
           c == [f EXCEPT !.heard = x]
<1>3. /\ a = [frags |-> x, buf |-> f.buf, have |-> f.have, text |-> f.text, heard |-> f.heard]
      /\ b = [frags |-> f.frags, buf |-> f.buf, have |-> f.have, text |-> x, heard |-> f.heard]
      /\ c = [frags |-> f.frags, buf |-> f.buf, have |-> f.have, text |-> f.text, heard |-> x]
  BY <1>1
<1> HIDE DEF a, b, c
<1>4. /\ a.frags = x /\ a.buf = f.buf /\ a.have = f.have /\ a.text = f.text
      /\ a.heard = f.heard
      /\ b.frags = f.frags /\ b.buf = f.buf /\ b.have = f.have /\ b.text = x
      /\ b.heard = f.heard
      /\ c.frags = f.frags /\ c.buf = f.buf /\ c.have = f.have /\ c.text = f.text
      /\ c.heard = x
  BY <1>3
<1>5. FarType(a) /\ FarType(b) /\ FarType(c)
  BY <1>2, <1>3, <1>4, Zenon DEF FarType
<1> QED BY <1>4, <1>5 DEF a, b, c

LEMMA OnLCKeeps ==
  ASSUME NEW f, FarType(f), NEW lc
  PROVE  /\ FarType(OnLC(f, lc))
         /\ FLCO(lc) = 0 => OnLC(f, lc) = f
<1>1. CASE FLCO(lc) \notin 4 .. 7
  <2>1. OnLC(f, lc) = f
    BY <1>1, Zenon DEF OnLC
  <2> QED BY <2>1
<1>2. CASE FLCO(lc) \in 4 .. 7
  <2> DEFINE n == FLCO(lc) - 4
             g == Stored(f, n, lc)
             h == [g EXCEPT !.text = TextOf(g.buf)]
  <2>1. n \in 0 .. 3 /\ FLCO(lc) # 0
    BY <1>2
  <2>2. FarType(g)
    <3> HIDE DEF n
    <3> QED BY <2>1, StoredFields
  <2>3. OnLC(f, lc) = g \/ OnLC(f, lc) = h
    BY <1>2, Zenon DEF OnLC
  <2> HIDE DEF g
  <2>4. FarType(h)
    BY <2>2, WithField
  <2> QED BY <2>1, <2>2, <2>3, <2>4
<1> QED BY <1>1, <1>2

LEMMA OnLCWord ==
  ASSUME NEW f, FarType(f), NEW t \in Texts, NEW b \in 0 .. Blocks(t) - 1
  PROVE  LET h == OnLC(f, AliasWord(t, b + 1))
         IN /\ FarType(h)
            /\ h.buf = Put(f.buf, b, BlockBits(t, b))
            /\ h.have = f.have \cup {b}
            /\ Stores(h.buf, t) /\ 0 .. Blocks(t) - 1 \subseteq h.have => h.text = t
<1> DEFINE lc == AliasWord(t, b + 1)
           g == Stored(f, b, lc)
           k == [g EXCEPT !.text = TextOf(g.buf)]
           need == Needed(SizeOf(g.buf))
           h == OnLC(f, lc)
<1>1. Blocks(t) \in 1 .. 4
  BY BlocksNeeded
<1>2. b + 1 \in 1 .. 4 /\ b + 1 - 1 = b /\ b \in 0 .. 3 /\ 3 + (b + 1) = b + 4
  BY <1>1
<1>3. FLCO(lc) = b + 4 /\ Stripped(lc) = BlockBits(t, b)
  <2>1. /\ FLCO(lc) = 3 + (b + 1)
        /\ {i - 16 : i \in lc \cap 16 .. 71} = BlockBits(t, b + 1 - 1)
    <3>1. \A m \in 1 .. 4 : /\ FLCO(AliasWord(t, m)) = 3 + m
                            /\ {i - 16 : i \in AliasWord(t, m) \cap 16 .. 71}
                                 = BlockBits(t, m - 1)
      BY AliasWordRead
    <3>2. b + 1 \in 1 .. 4
      BY <1>2
    <3> QED BY <3>1, <3>2
  <2>2. Stripped(lc) = BlockBits(t, b + 1 - 1)
    BY <2>1, Zenon DEF Stripped
  <2> QED BY <1>2, <2>1, <2>2
<1> HIDE DEF lc
<1>4. FLCO(lc) \in 4 .. 7 /\ FLCO(lc) - 4 = b
  BY <1>2, <1>3
<1>5. h = IF 0 \in g.have /\ need <= 4 /\ 0 .. need - 1 \subseteq g.have THEN k ELSE g
  BY <1>4, Zenon DEF OnLC
<1>6. /\ FarType(g)
      /\ g.buf = Put(f.buf, b, BlockBits(t, b))
      /\ g.have = f.have \cup {b}
  <2>1. b \in 0 .. 3
    BY <1>2
  <2>2. /\ FarType(g)
        /\ g.buf = Put(f.buf, b, Stripped(lc))
        /\ g.have = f.have \cup {b}
    BY <2>1, StoredFields, ZenonT(30)
  <2> QED BY <2>2, <1>3, Zenon
<1> HIDE DEF g
<1>7. FarType(k) /\ k.buf = g.buf /\ k.have = g.have /\ k.text = TextOf(g.buf)
  <2>1. ASSUME NEW x
        PROVE  LET y == [g EXCEPT !.text = x]
               IN FarType(y) /\ y.buf = g.buf /\ y.have = g.have /\ y.text = x
    <3>1. FarType(g)
      BY <1>6
    <3> QED BY <3>1, WithField, ZenonT(30)
  <2> QED BY <2>1
<1>8. ASSUME Stores(g.buf, t), 0 .. Blocks(t) - 1 \subseteq g.have
      PROVE  h = k /\ TextOf(g.buf) = t
  <2>1. SizeOf(g.buf) = Len(t) /\ TextOf(g.buf) = t
    BY <1>8, SizeRead, TextRead
  <2>2. need = Blocks(t)
    BY <2>1, BlocksNeeded
  <2>3. 0 \in 0 .. Blocks(t) - 1 /\ Blocks(t) <= 4
    BY <1>1
  <2>4. 0 \in g.have /\ need <= 4 /\ 0 .. need - 1 \subseteq g.have
    BY <1>8, <2>2, <2>3
  <2> QED BY <1>5, <2>1, <2>4
<1>9. h = k \/ h = g
  BY <1>5
<1> HIDE DEF h, k
<1>10. FarType(h) /\ h.buf = g.buf /\ h.have = g.have
  BY <1>6, <1>7, <1>9
<1> QED BY <1>6, <1>7, <1>8, <1>10 DEF h, lc

LEMMA EmbeddedKeeps ==
  ASSUME NEW f, FarType(f), NEW e
  PROVE  FarType(Embedded(f, e))
<1> DEFINE word == DecodeEmbedded(Append(f.frags, e.frag))
           a == [f EXCEPT !.frags = <<>>]
           b == [f EXCEPT !.frags = <<e.frag>>]
           c == [f EXCEPT !.frags = IF Len(@) \in {1, 2} THEN Append(@, e.frag) ELSE @]
           g == [a EXCEPT !.heard = word.lc]
           d == IF Len(f.frags) = 3 /\ word.ok THEN OnLC(g, word.lc) ELSE a
           h == Embedded(f, e)
<1>1. h = CASE e.errs > 2 -> a
            [] e.errs <= 2 /\ e.lcss = 1 -> b
            [] e.errs <= 2 /\ e.lcss = 3 -> c
            [] e.errs <= 2 /\ e.lcss = 2 -> d
            [] OTHER -> f
  BY Zenon DEF Embedded
<1>2. FarType(a) /\ FarType(b) /\ FarType(c)
  BY WithField, Zenon
<1> HIDE DEF a, b, c, word
<1>3. FarType(g)
  BY <1>2, WithField, Zenon
<1> HIDE DEF g
<1>4. FarType(OnLC(g, word.lc))
  BY <1>3, OnLCKeeps, Zenon
<1>5. FarType(d)
  BY <1>2, <1>4
<1> HIDE DEF d, h
<1>6. h = a \/ h = b \/ h = c \/ h = d \/ h = f
  BY <1>1
<1> QED BY <1>2, <1>5, <1>6 DEF h

\* What a piece that nothing happened to does.
Clean(l, x) == [lcss |-> l, errs |-> 0, frag |-> x]
WithFrags(f, s) == [f EXCEPT !.frags = s]
More(s, x) == IF Len(s) \in {1, 2} THEN Append(s, x) ELSE s
HeardWord(f, lc) == OnLC([[f EXCEPT !.frags = <<>>] EXCEPT !.heard = lc], lc)

LEMMA EmbeddedClean ==
  ASSUME NEW f, FarType(f), NEW l \in 0 .. 3, NEW x
  PROVE  /\ l = 1 => Embedded(f, Clean(l, x)) = WithFrags(f, <<x>>)
         /\ l = 3 => Embedded(f, Clean(l, x)) = WithFrags(f, More(f.frags, x))
         /\ l = 2 /\ Len(f.frags) = 3 /\ DecodeEmbedded(Append(f.frags, x)).ok =>
              Embedded(f, Clean(l, x)) = HeardWord(f, DecodeEmbedded(Append(f.frags, x)).lc)
         /\ l = 0 => Embedded(f, Clean(l, x)) = f
<1> DEFINE e == [lcss |-> l, errs |-> 0, frag |-> x]
           word == DecodeEmbedded(Append(f.frags, x))
           a == [f EXCEPT !.frags = <<>>]
           b == [f EXCEPT !.frags = <<x>>]
           c == [f EXCEPT !.frags = IF Len(@) \in {1, 2} THEN Append(@, x) ELSE @]
           g == [a EXCEPT !.heard = word.lc]
           d == IF Len(f.frags) = 3 /\ word.ok THEN OnLC(g, word.lc) ELSE a
           h == Embedded(f, e)
<1>1. e.lcss = l /\ e.errs = 0 /\ e.frag = x
  OBVIOUS
<1>2. h = CASE e.errs > 2 -> [f EXCEPT !.frags = <<>>]
            [] e.errs <= 2 /\ e.lcss = 1 -> [f EXCEPT !.frags = <<e.frag>>]
            [] e.errs <= 2 /\ e.lcss = 3 ->
                 [f EXCEPT !.frags = IF Len(@) \in {1, 2} THEN Append(@, e.frag) ELSE @]
            [] e.errs <= 2 /\ e.lcss = 2 ->
                 LET w == DecodeEmbedded(Append(f.frags, e.frag))
                     y == [f EXCEPT !.frags = <<>>]
                 IN IF Len(f.frags) = 3 /\ w.ok THEN OnLC([y EXCEPT !.heard = w.lc], w.lc) ELSE y
            [] OTHER -> f
  <2> HIDE DEF e
  <2> QED BY Zenon DEF Embedded
<1> HIDE DEF e
<1>3. h = CASE 0 > 2 -> a
            [] 0 <= 2 /\ l = 1 -> b
            [] 0 <= 2 /\ l = 3 -> c
            [] 0 <= 2 /\ l = 2 -> d
            [] OTHER -> f
  BY <1>1, <1>2, Zenon
<1>4. c = WithFrags(f, More(f.frags, x))
  BY Zenon DEF More, WithFrags
<1>5. Len(f.frags) = 3 /\ word.ok => d = OnLC(g, word.lc)
  BY Zenon
<1> HIDE DEF a, b, c, d, h
<1>6. (l = 1 => h = b) /\ (l = 3 => h = c) /\ (l = 2 => h = d) /\ (l = 0 => h = f)
  BY <1>3
<1>7. /\ l = 1 => h = b
      /\ l = 3 => h = WithFrags(f, More(f.frags, x))
      /\ l = 2 => (Len(f.frags) = 3 /\ word.ok => h = OnLC(g, word.lc))
      /\ l = 0 => h = f
  BY <1>4, <1>5, <1>6, Zenon
<1>8. e = Clean(l, x) /\ b = WithFrags(f, <<x>>)
  BY Zenon DEF Clean, WithFrags, e, b
<1>9. OnLC(g, word.lc) = HeardWord(f, DecodeEmbedded(Append(f.frags, x)).lc)
  BY Zenon DEF g, a, word, HeardWord
<1> QED BY <1>7, <1>8, <1>9, Zenon DEF h, word

LEMMA LastClean ==
  ASSUME NEW f, FarType(f), NEW x, Len(f.frags) = 3, DecodeEmbedded(Append(f.frags, x)).ok
  PROVE  Embedded(f, Clean(2, x)) = HeardWord(f, DecodeEmbedded(Append(f.frags, x)).lc)
<1>1. 2 \in 0 .. 3
  OBVIOUS
<1> QED BY <1>1, EmbeddedClean

Pieces(w, s) ==
  LET x == EmbeddedFragments(w)
  IN IF s = 1 THEN <<x[1]>>
     ELSE IF s = 2 THEN Append(<<x[1]>>, x[2]) ELSE Append(Append(<<x[1]>>, x[2]), x[3])

\* What is right after q bursts in peace: the word being sent, its pieces, the
\* blocks received whole, and with all of them the alias.
WordKnown(a, l, p, n, w, qt) == qt >= Begun(n) => w = lcs[a][Current(l, p) + 1]
PiecesKnown(n, w, f, qt) ==
  qt >= Begun(n) /\ Begun(n) <= 3 => f.frags = Pieces(w, Begun(n))
BlocksKnown(t, l, p, n, f, qt) ==
  \A b \in 0 .. l - 2 :
    qt >= Age(l, p, n, b) => b \in f.have /\ f.buf[b] = BlockBits(t, b)
AliasShown(t, l, p, n, f, qt) ==
  (\A b \in 0 .. l - 2 : qt >= Age(l, p, n, b)) => f.text = t

Known(a, i, n, w, f, qt) ==
  LET t == T(a)
      l == Len(lcs[a])
      p == i % l
  IN /\ FarType(f)
     /\ WordKnown(a, l, p, n, w, qt)
     /\ PiecesKnown(n, w, f, qt)
     /\ BlocksKnown(t, l, p, n, f, qt)
     /\ AliasShown(t, l, p, n, f, qt)

\* As long as no burst with the end of a word comes, all gets older together.
LEMMA GetsOlder ==
  ASSUME NEW t, NEW l \in 2 .. 5, NEW p \in 0 .. l - 1, NEW n \in 0 .. 5,
         NEW f, NEW g, NEW qt \in Nat, NEW r \in Nat, r <= qt + 1,
         BlocksKnown(t, l, p, n, f, qt), AliasShown(t, l, p, n, f, qt),
         g.have = f.have, g.buf = f.buf, g.text = f.text,
         n # 4 \/ Current(l, p) = 0
  PROVE  /\ BlocksKnown(t, l, After(l, p, n), (n + 1) % 6, g, r)
         /\ AliasShown(t, l, After(l, p, n), (n + 1) % 6, g, r)
<1>1. ASSUME NEW b \in 0 .. l - 2, r >= Age(l, After(l, p, n), (n + 1) % 6, b)
      PROVE  qt >= Age(l, p, n, b)
  <2>1. ~(n = 4 /\ Current(l, p) = b + 1)
    OBVIOUS
  <2>2. /\ Age(l, After(l, p, n), (n + 1) % 6, b) = Age(l, p, n, b) + 1
        /\ Age(l, p, n, b) \in 1 .. 6 * l + 3
    BY <2>1, AgeStep
  <2>3. Age(l, p, n, b) \in Nat
    BY <2>2
  <2> QED BY <1>1, <2>2, <2>3
<1>2. BlocksKnown(t, l, After(l, p, n), (n + 1) % 6, g, r)
  BY <1>1, Zenon DEF BlocksKnown
<1>3. AliasShown(t, l, After(l, p, n), (n + 1) % 6, g, r)
  BY <1>1, Zenon DEF AliasShown
<1> QED BY <1>2, <1>3

LEMMA Appended ==
  ASSUME NEW x1, NEW x2, NEW x3, NEW x4
  PROVE  /\ Len(<<x1>>) = 1 /\ Len(Append(<<x1>>, x2)) = 2
         /\ LET s == Append(Append(<<x1>>, x2), x3) IN
            /\ Len(s) = 3
            /\ Append(s, x4)[1] = x1 /\ Append(s, x4)[2] = x2
            /\ Append(s, x4)[3] = x3 /\ Append(s, x4)[4] = x4
<1> DEFINE S == {x1, x2, x3, x4}
           a == <<x1>>
           b == Append(a, x2)
           c == Append(b, x3)
           d == Append(c, x4)
<1>1. a \in Seq(S) /\ Len(a) = 1 /\ a[1] = x1
  OBVIOUS
<1> HIDE DEF a
<1>2. x1 \in S /\ x2 \in S /\ x3 \in S /\ x4 \in S
  OBVIOUS
<1> HIDE DEF S
<1> DEFINE After1(s, y) ==
             /\ Append(s, y) \in Seq(S)
             /\ Len(Append(s, y)) = Len(s) + 1
             /\ \A i \in 1 .. Len(s) : Append(s, y)[i] = s[i]
             /\ Append(s, y)[Len(s) + 1] = y
<1>0. ASSUME NEW s \in Seq(S), NEW y \in S PROVE After1(s, y)
  BY AppendProperties
<1> HIDE DEF After1
<1>3. b \in Seq(S) /\ Len(b) = 2 /\ b[1] = x1 /\ b[2] = x2
  <2>1. After1(a, x2)
    BY <1>0, <1>1, <1>2, Zenon
  <2>2. After1(a, x2) => /\ b \in Seq(S) /\ Len(b) = Len(a) + 1
                         /\ \A i \in 1 .. Len(a) : b[i] = a[i]
                         /\ b[Len(a) + 1] = x2
    BY Zenon DEF After1
  <2> HIDE DEF b
  <2> QED BY <1>1, <2>1, <2>2
<1> HIDE DEF b
<1>4. c \in Seq(S) /\ Len(c) = 3 /\ c[1] = x1 /\ c[2] = x2 /\ c[3] = x3
  <2>1. After1(b, x3)
    BY <1>0, <1>2, <1>3, Zenon
  <2>2. After1(b, x3) => /\ c \in Seq(S) /\ Len(c) = Len(b) + 1
                         /\ \A i \in 1 .. Len(b) : c[i] = b[i]
                         /\ c[Len(b) + 1] = x3
    BY Zenon DEF After1
  <2> HIDE DEF c
  <2> QED BY <1>3, <2>1, <2>2
<1> HIDE DEF c
<1>5. d[1] = x1 /\ d[2] = x2 /\ d[3] = x3 /\ d[4] = x4
  <2>1. After1(c, x4)
    BY <1>0, <1>2, <1>4, Zenon
  <2>2. After1(c, x4) => /\ \A i \in 1 .. Len(c) : d[i] = c[i]
                         /\ d[Len(c) + 1] = x4
    BY Zenon DEF After1
  <2> HIDE DEF d
  <2> QED BY <1>4, <2>1, <2>2
<1> QED BY <1>1, <1>3, <1>4, <1>5, Zenon DEF a, b, c, d

\* The last piece of a word, after the three others.
LEMMA WordReceived ==
  ASSUME NEW f, FarType(f), NEW w \in SUBSET (0 .. 71), f.frags = Pieces(w, 3)
  PROVE  \E g : /\ FarType(g) /\ g.have = f.have /\ g.buf = f.buf /\ g.text = f.text
                /\ Embedded(f, Clean(2, EmbeddedFragments(w)[4])) = OnLC(g, w)
<1> DEFINE x == EmbeddedFragments(w)
           s == Append(f.frags, x[4])
           a == [f EXCEPT !.frags = <<>>]
           g == [a EXCEPT !.heard = w]
<1>1. f.frags = Append(Append(<<x[1]>>, x[2]), x[3])
  BY DEF Pieces
<1>2. Len(f.frags) = 3 /\ \A k \in 1 .. 4 : s[k] = x[k]
  <2> HIDE DEF x
  <2>1. s = Append(Append(Append(<<x[1]>>, x[2]), x[3]), x[4])
    BY <1>1
  <2>2. s[1] = x[1] /\ s[2] = x[2] /\ s[3] = x[3] /\ s[4] = x[4]
    BY <2>1, Appended
  <2>3. \A k \in 1 .. 4 : k = 1 \/ k = 2 \/ k = 3 \/ k = 4
    OBVIOUS
  <2>5. Len(f.frags) = 3
    BY <1>1, Appended
  <2> HIDE DEF s
  <2>4. \A k \in 1 .. 4 : s[k] = x[k]
    BY <2>2, <2>3, Zenon
  <2> QED BY <2>4, <2>5
<1>3. DecodeEmbedded(s).lc = w /\ DecodeEmbedded(s).ok
  <2> HIDE DEF s
  <2> QED BY <1>2, RoundTrip
<1>4. Embedded(f, Clean(2, x[4])) = HeardWord(f, w)
  <2>1. 2 \in 0 .. 3 /\ Len(f.frags) = 3 /\ DecodeEmbedded(s).ok
    BY <1>2, <1>3
  <2>2. Embedded(f, Clean(2, x[4])) = HeardWord(f, DecodeEmbedded(s).lc)
    BY <2>1, LastClean, Zenon
  <2> QED BY <1>3, <2>2, Zenon
<1>5. HeardWord(f, w) = OnLC(g, w)
  BY Zenon DEF HeardWord
<1>6. FarType(a) /\ a.have = f.have /\ a.buf = f.buf /\ a.text = f.text
  BY WithField, Zenon
<1> HIDE DEF a, x
<1>7. FarType(g) /\ g.have = a.have /\ g.buf = a.buf /\ g.text = a.text
  BY <1>6, WithField, Zenon
<1> HIDE DEF g
<1> QED BY <1>4, <1>5, <1>6, <1>7, Zenon DEF x

LEMMA WithFragsFields ==
  ASSUME NEW f, FarType(f), NEW s
  PROVE  /\ FarType(WithFrags(f, s)) /\ WithFrags(f, s).frags = s
         /\ WithFrags(f, s).have = f.have /\ WithFrags(f, s).buf = f.buf
         /\ WithFrags(f, s).text = f.text
<1> DEFINE g == [f EXCEPT !.frags = s]
<1>1. FarType(g) /\ g.frags = s /\ g.buf = f.buf /\ g.have = f.have /\ g.text = f.text
  BY WithField, Zenon
<1>2. WithFrags(f, s) = g
  BY Zenon DEF WithFrags
<1> HIDE DEF g
<1> QED BY <1>1, <1>2

\* A piece that is not the last of a word leaves all but the pieces alone.
LEMMA PieceReceived ==
  ASSUME NEW f, FarType(f), NEW l \in {0, 1, 3}, NEW x
  PROVE  LET g == Embedded(f, Clean(l, x))
         IN /\ FarType(g) /\ g.have = f.have /\ g.buf = f.buf /\ g.text = f.text
            /\ l = 1 => g.frags = <<x>>
            /\ l = 3 => g.frags = More(f.frags, x)
<1> DEFINE g == Embedded(f, Clean(l, x))
<1>1. /\ l = 1 => g = WithFrags(f, <<x>>)
      /\ l = 3 => g = WithFrags(f, More(f.frags, x))
      /\ l = 0 => g = f
  <2>1. l \in 0 .. 3
    OBVIOUS
  <2> QED BY <2>1, EmbeddedClean, Zenon
<1> HIDE DEF g
<1>2. ASSUME NEW s
      PROVE  /\ FarType(WithFrags(f, s)) /\ WithFrags(f, s).frags = s
             /\ WithFrags(f, s).have = f.have /\ WithFrags(f, s).buf = f.buf
             /\ WithFrags(f, s).text = f.text
  BY WithFragsFields, Zenon
<1>3. CASE l = 0
  <2>1. g = f /\ l # 3 /\ l # 1
    BY <1>1, <1>3
  <2> QED BY <2>1, Zenon DEF g
<1>4. CASE l = 1
  <2>1. g = WithFrags(f, <<x>>) /\ l # 3
    BY <1>1, <1>4
  <2> QED BY <1>2, <2>1, SMT DEF g
<1>5. CASE l = 3
  <2>1. g = WithFrags(f, More(f.frags, x)) /\ l # 1
    BY <1>1, <1>5
  <2> QED BY <1>2, <2>1, SMT DEF g
<1> QED BY <1>3, <1>4, <1>5 DEF g

LEMMA NotYet ==
  ASSUME NEW t, NEW l \in 2 .. 5, NEW p \in 0 .. l - 1, NEW n \in 0 .. 5, NEW w, NEW g,
         NEW r \in Nat, r < Begun(n)
  PROVE  /\ \A i, a : WordKnown(a, l, p, n, w, r)
         /\ PiecesKnown(n, w, g, r)
         /\ BlocksKnown(t, l, p, n, g, r)
         /\ AliasShown(t, l, p, n, g, r)
<1>1. ~(r >= Begun(n))
  BY BegunStep
<1>2. \A b \in 0 .. l - 2 : ~(r >= Age(l, p, n, b))
  <2> SUFFICES ASSUME NEW b \in 0 .. l - 2 PROVE ~(r >= Age(l, p, n, b))
    OBVIOUS
  <2>1. Back(l, p, b) \in 0 .. l - 1
    BY DEF Back, Current
  <2>2. Begun(n) \in 1 .. 6
    BY BegunStep
  <2>3. Age(l, p, n, b) >= Begun(n) /\ Age(l, p, n, b) \in Nat
    BY <2>1, <2>2 DEF Age
  <2> QED BY <2>2, <2>3
<1>3. 0 \in 0 .. l - 2
  OBVIOUS
<1>4. /\ \A i, a : WordKnown(a, l, p, n, w, r)
      /\ PiecesKnown(n, w, g, r)
  BY <1>1, Zenon DEF WordKnown, PiecesKnown
<1>5. BlocksKnown(t, l, p, n, g, r)
  BY <1>2, Zenon DEF BlocksKnown
<1>6. AliasShown(t, l, p, n, g, r)
  BY <1>2, <1>3, Zenon DEF AliasShown
<1> QED BY <1>4, <1>5, <1>6

LEMMA MorePieces ==
  \A w : LET x == EmbeddedFragments(w)
         IN /\ Pieces(w, 1) = <<x[1]>>
            /\ Pieces(w, 2) = More(Pieces(w, 1), x[2])
            /\ Pieces(w, 3) = More(Pieces(w, 2), x[3])
<1> TAKE w
<1> DEFINE x == EmbeddedFragments(w)
           a == <<x[1]>>
           b == Append(a, x[2])
           c == Append(b, x[3])
<1>1. Pieces(w, 1) = a /\ Pieces(w, 2) = b /\ Pieces(w, 3) = c
  <2>1. 2 # 1 /\ 3 # 1 /\ 3 # 2
    OBVIOUS
  <2> QED BY <2>1, Zenon DEF Pieces
<1>2. Len(a) = 1 /\ Len(b) = 2
  BY Appended
<1>3. 1 \in {1, 2} /\ 2 \in {1, 2}
  OBVIOUS
<1>4. More(a, x[2]) = b /\ More(b, x[3]) = c
  BY <1>2, <1>3, Zenon DEF More
<1> QED BY <1>1, <1>4, Zenon

LEMMA PiecesGrow ==
  ASSUME NEW f, FarType(f), NEW w, NEW n \in 1 .. 3, NEW qt \in Nat, NEW r \in Nat, r <= qt + 1,
         n # 1 => PiecesKnown(n, w, f, qt), NEW g,
         g = Embedded(f, Clean(<<1, 3, 3>>[n], EmbeddedFragments(w)[n]))
  PROVE  PiecesKnown((n + 1) % 6, w, g, r)
<1> DEFINE x == EmbeddedFragments(w)
<1>1. Begun(2) = 1 /\ Begun(3) = 2 /\ Begun(4) = 3
  BY DEF Begun
<1> HIDE DEF x
<1>2. CASE n = 1
  <2>1. g = Embedded(f, Clean(1, x[1])) /\ (n + 1) % 6 = 2 /\ 1 \in {0, 1, 3}
    BY <1>2 DEF x
  <2>2. g.frags = <<x[1]>>
    BY <2>1, PieceReceived
  <2>3. Pieces(w, 1) = <<x[1]>>
    BY MorePieces, Zenon DEF x
  <2> QED BY <1>1, <2>1, <2>2, <2>3, Zenon DEF PiecesKnown
<1>3. CASE n = 2
  <2>1. g = Embedded(f, Clean(3, x[2])) /\ (n + 1) % 6 = 3 /\ 3 \in {0, 1, 3}
    BY <1>3 DEF x
  <2>2. g.frags = More(f.frags, x[2])
    BY <2>1, PieceReceived
  <2>5. r >= 2 => g.frags = Pieces(w, 2)
    <3> SUFFICES ASSUME r >= 2 PROVE g.frags = Pieces(w, 2)
      OBVIOUS
    <3>1. qt >= 1 /\ 1 <= 3
      OBVIOUS
    <3>2. f.frags = Pieces(w, 1)
      BY <1>1, <1>3, <3>1 DEF PiecesKnown
    <3> QED BY <3>2, <2>2, MorePieces, Zenon DEF x
  <2> QED BY <1>1, <2>1, <2>5 DEF PiecesKnown
<1>4. CASE n = 3
  <2>1. g = Embedded(f, Clean(3, x[3])) /\ (n + 1) % 6 = 4 /\ 3 \in {0, 1, 3}
    BY <1>4 DEF x
  <2>2. g.frags = More(f.frags, x[3])
    BY <2>1, PieceReceived
  <2>5. r >= 3 => g.frags = Pieces(w, 3)
    <3> SUFFICES ASSUME r >= 3 PROVE g.frags = Pieces(w, 3)
      OBVIOUS
    <3>1. qt >= 2 /\ 2 <= 3
      OBVIOUS
    <3>2. f.frags = Pieces(w, 2)
      BY <1>1, <1>4, <3>1 DEF PiecesKnown
    <3> QED BY <3>2, <2>2, MorePieces, Zenon DEF x
  <2> QED BY <1>1, <2>1, <2>5 DEF PiecesKnown
<1> QED BY <1>2, <1>3, <1>4

\* The last piece of the word with a block: the block is there, and with the
\* others, all in peace, the alias.
LEMMA BlockReceived ==
  ASSUME NEW f, FarType(f), NEW t \in Texts, NEW l, l = Blocks(t) + 1,
         NEW p \in 0 .. l - 1, NEW c \in 0 .. l - 2, Current(l, p) = c + 1,
         NEW qt \in Nat, NEW r \in Nat, r <= qt + 1,
         BlocksKnown(t, l, p, 4, f, qt), NEW h, h = OnLC(f, AliasWord(t, c + 1))
  PROVE  /\ FarType(h)
         /\ BlocksKnown(t, l, p, 5, h, r)
         /\ AliasShown(t, l, p, 5, h, r)
<1>1. l \in 2 .. 5 /\ Blocks(t) = l - 1 /\ Blocks(t) - 1 = l - 2
  BY BlocksNeeded
<1>2. /\ FarType(h)
      /\ h.buf = Put(f.buf, c, BlockBits(t, c))
      /\ h.have = f.have \cup {c}
      /\ Stores(h.buf, t) /\ 0 .. l - 2 \subseteq h.have => h.text = t
  <2>1. c \in 0 .. Blocks(t) - 1
    BY <1>1
  <2>2. LET k == OnLC(f, AliasWord(t, c + 1))
        IN /\ FarType(k)
           /\ k.buf = Put(f.buf, c, BlockBits(t, c))
           /\ k.have = f.have \cup {c}
           /\ Stores(k.buf, t) /\ 0 .. Blocks(t) - 1 \subseteq k.have => k.text = t
    BY <2>1, OnLCWord, Zenon
  <2>3. /\ FarType(h)
        /\ h.buf = Put(f.buf, c, BlockBits(t, c))
        /\ h.have = f.have \cup {c}
        /\ Stores(h.buf, t) /\ 0 .. Blocks(t) - 1 \subseteq h.have => h.text = t
    BY <2>2, Zenon
  <2> QED BY <1>1, <2>3
<1>3. ASSUME NEW b \in 0 .. l - 2, r >= Age(l, p, 5, b)
      PROVE  b \in h.have /\ h.buf[b] = BlockBits(t, b)
  <2>0. f.buf \in [0 .. 3 -> SUBSET (0 .. 55)] /\ b \in 0 .. 3 /\ c \in 0 .. 3
    BY <1>1 DEF FarType
  <2>1. CASE b = c
    BY <1>2, <2>0, <2>1 DEF Put
  <2>2. CASE b # c
    <3>1. ~(4 = 4 /\ Current(l, p) = b + 1)
      BY <2>2
    <3>2. 4 \in 0 .. 5 /\ (4 + 1) % 6 = 5 /\ After(l, p, 4) = p
      BY DEF After
    <3>3. /\ Age(l, p, 5, b) = Age(l, p, 4, b) + 1
          /\ Age(l, p, 4, b) \in 1 .. 6 * l + 3
      <4>1. \A n \in 0 .. 5 :
              /\ Age(l, p, n, b) \in 1 .. 6 * l + 3
              /\ \/ Age(l, After(l, p, n), (n + 1) % 6, b) = Age(l, p, n, b) + 1
                 \/ n = 4 /\ Current(l, p) = b + 1
        BY <1>1, AgeStep, Zenon
      <4>2. /\ Age(l, p, 4, b) \in 1 .. 6 * l + 3
            /\ \/ Age(l, After(l, p, 4), (4 + 1) % 6, b) = Age(l, p, 4, b) + 1
               \/ 4 = 4 /\ Current(l, p) = b + 1
        BY <3>2, <4>1
      <4> QED BY <3>1, <3>2, <4>2
    <3>4. Age(l, p, 4, b) \in Nat
      BY <1>1, <3>3
    <3>5. qt >= Age(l, p, 4, b)
      BY <1>3, <3>3, <3>4
    <3>6. b \in f.have /\ f.buf[b] = BlockBits(t, b)
      BY <3>5, Zenon DEF BlocksKnown
    <3>7. h.buf[b] = f.buf[b]
      BY <1>2, <2>0, <2>2 DEF Put
    <3> QED BY <1>2, <3>6, <3>7
  <2> QED BY <2>1, <2>2
<1>4. BlocksKnown(t, l, p, 5, h, r)
  BY <1>3, Zenon DEF BlocksKnown
<1>5. AliasShown(t, l, p, 5, h, r)
  <2> SUFFICES ASSUME \A b \in 0 .. l - 2 : r >= Age(l, p, 5, b) PROVE h.text = t
    BY Zenon DEF AliasShown
  <2>1. \A b \in 0 .. l - 2 : b \in h.have /\ h.buf[b] = BlockBits(t, b)
    BY <1>3, Zenon
  <2>2. Stores(h.buf, t)
    BY <1>1, <1>2, <2>1 DEF Stores, FarType
  <2>3. 0 .. l - 2 \subseteq h.have
    BY <2>1, Zenon
  <2> QED BY <1>2, <2>2, <2>3
<1> QED BY <1>2, <1>4, <1>5

WordNext(a, i, n, w) == IF n = 1 THEN lcs[a][(i % Len(lcs[a])) + 1] ELSE w
IndexNext(n, i) == IF n = 1 THEN (i + 1) % Turns ELSE i
FarNext(n, w, f) == IF n = 0 THEN f ELSE Embedded(f, Piece[w][n][{}])

LEMMA RotationLength ==
  ASSUME NEW a \in DOMAIN Aliases
  PROVE  /\ Len(lcs[a]) \in 2 .. 5 /\ Len(lcs[a]) = Blocks(T(a)) + 1 /\ T(a) \in Texts
<1>1. Len(lcs[a]) = Blocks(T(a)) + 1 /\ T(a) \in Texts
  BY AliasLCs, Zenon
<1>2. Blocks(T(a)) \in 1 .. 4
  BY <1>1, BlocksNeeded, Zenon
<1> QED BY <1>1, <1>2

LEMMA Rotation ==
  ASSUME NEW a \in DOMAIN Aliases, NEW i \in 0 .. Turns - 1, NEW n \in 0 .. 5
  PROVE  LET l == Len(lcs[a]) IN
         /\ l \in 2 .. 5 /\ l = Blocks(T(a)) + 1
         /\ i % l \in 0 .. l - 1
         /\ IndexNext(n, i) \in 0 .. Turns - 1
         /\ IndexNext(n, i) % l = After(l, i % l, n)
<1> DEFINE l == Len(lcs[a])
<1>1. l \in 2 .. 5 /\ l = Blocks(T(a)) + 1
  BY RotationLength
<1>2. Turns \in Nat \ {0} /\ Turns % l = 0
  BY LinkAssumption
<1> HIDE DEF l
<1>3. /\ i % l \in 0 .. l - 1
      /\ (i + 1) % Turns \in 0 .. Turns - 1
      /\ ((i + 1) % Turns) % l = IF i % l = l - 1 THEN 0 ELSE (i % l) + 1
  BY <1>1, <1>2, Turn
<1>4. IndexNext(n, i) \in 0 .. Turns - 1
  BY <1>3 DEF IndexNext
<1>5. IndexNext(n, i) % l = After(l, i % l, n)
  BY <1>3 DEF IndexNext, After
<1> QED BY <1>1, <1>3, <1>4, <1>5 DEF l

\* Of which burst the far bridge hears what.
LEMMA PieceOfWord ==
  ASSUME NEW a \in DOMAIN Aliases, NEW c \in 0 .. Len(lcs[a]) - 1, NEW n \in 1 .. 5
  PROVE  LET w == lcs[a][c + 1] IN
         /\ n \in 1 .. 3 => Piece[w][n][{}] = Clean(<<1, 3, 3>>[n], EmbeddedFragments(w)[n])
         /\ n = 4 => Piece[w][n][{}] = Clean(2, EmbeddedFragments(w)[4])
         /\ n = 5 => Piece[w][n][{}] = Clean(0, {})
<1> DEFINE w == lcs[a][c + 1]
<1>1. Len(lcs[a]) \in 2 .. 5
  BY RotationLength
<1>2. c + 1 \in 1 .. Len(lcs[a])
  BY <1>1
<1>3. Piece[w][n][{}] = [lcss |-> <<1, 3, 3, 2, 0>>[n], errs |-> 0,
                         frag |-> IF n = 5 THEN {} ELSE EmbeddedFragments(w)[n]]
  <2>1. \A k \in 1 .. Len(lcs[a]) :
          Piece[lcs[a][k]][n][{}] = [lcss |-> <<1, 3, 3, 2, 0>>[n], errs |-> 0,
                         frag |-> IF n = 5 THEN {} ELSE EmbeddedFragments(lcs[a][k])[n]]
    BY CleanPiece
  <2> QED BY <1>2, <2>1, Zenon
<1> HIDE DEF w
<1>4. Piece[w][n][{}] = Clean(<<1, 3, 3, 2, 0>>[n], IF n = 5 THEN {} ELSE EmbeddedFragments(w)[n])
  BY <1>3, Zenon DEF Clean
<1>5. n \in 1 .. 3 => <<1, 3, 3, 2, 0>>[n] = <<1, 3, 3>>[n] /\ n # 5
  OBVIOUS
<1>6. n = 4 => <<1, 3, 3, 2, 0>>[n] = 2 /\ n # 5
  OBVIOUS
<1>7. n = 5 => <<1, 3, 3, 2, 0>>[n] = 0
  OBVIOUS
<1> QED BY <1>4, <1>5, <1>6, <1>7 DEF w

LEMMA WordStep ==
  ASSUME NEW a \in DOMAIN Aliases, NEW i \in 0 .. Turns - 1, NEW n \in 0 .. 5, NEW w,
         NEW qt \in Nat, NEW r \in Nat, r <= qt + 1,
         WordKnown(a, Len(lcs[a]), i % Len(lcs[a]), n, w, qt)
  PROVE  LET l == Len(lcs[a])
             p == After(l, i % l, n)
         IN /\ p \in 0 .. l - 1 /\ Current(l, p) \in 0 .. l - 1
            /\ n # 1 => p = i % l
            /\ n = 1 \/ qt >= Begun(n) => WordNext(a, i, n, w) = lcs[a][Current(l, p) + 1]
            /\ n = 1 \/ qt >= Begun(n) \/ r < Begun((n + 1) % 6)
<1> DEFINE l == Len(lcs[a])
           o == i % l
           p == After(l, o, n)
<1>1. l \in 2 .. 5 /\ o \in 0 .. l - 1
  BY Rotation
<1> HIDE DEF l, o
<1>2. p \in 0 .. l - 1 /\ Current(l, p) \in 0 .. l - 1
  BY <1>1 DEF After, Current
<1>3. n # 1 => p = o
  BY DEF After
<1>4. n = 1 => Current(l, p) = o
  BY <1>1 DEF After, Current
<1>5. n = 1 => WordNext(a, i, n, w) = lcs[a][Current(l, p) + 1]
  BY <1>4, Zenon DEF WordNext, o, l
<1>6. n # 1 /\ qt >= Begun(n) => WordNext(a, i, n, w) = lcs[a][Current(l, p) + 1]
  <2>1. WordKnown(a, l, o, n, w, qt)
    BY Zenon DEF l, o
  <2> QED BY <2>1, <1>3, Zenon DEF WordNext, WordKnown
<1>7. n = 1 \/ qt >= Begun(n) \/ r < Begun((n + 1) % 6)
  BY BegunStep
<1> QED BY <1>2, <1>3, <1>5, <1>6, <1>7 DEF l, o

\* The whole of Known but the word, on a burst in the middle of a word known.
LEMMA MiddleStep ==
  ASSUME NEW t, NEW l \in 2 .. 5, NEW o \in 0 .. l - 1, NEW n \in {0, 1, 2, 3, 5},
         NEW w, NEW f, FarType(f), NEW g, NEW qt \in Nat, NEW r \in Nat, r <= qt + 1,
         n \in 1 .. 3 => g = Embedded(f, Clean(<<1, 3, 3>>[n], EmbeddedFragments(w)[n])),
         n = 5 => g = Embedded(f, Clean(0, {})),
         n = 0 => g = f,
         n # 1 => PiecesKnown(n, w, f, qt),
         BlocksKnown(t, l, o, n, f, qt), AliasShown(t, l, o, n, f, qt)
  PROVE  /\ PiecesKnown((n + 1) % 6, w, g, r)
         /\ BlocksKnown(t, l, After(l, o, n), (n + 1) % 6, g, r)
         /\ AliasShown(t, l, After(l, o, n), (n + 1) % 6, g, r)
<1>1. g.have = f.have /\ g.buf = f.buf /\ g.text = f.text
  <2>1. CASE n = 0
    BY <2>1
  <2>2. CASE n = 5
    <3>1. 0 \in {0, 1, 3} /\ g = Embedded(f, Clean(0, {}))
      BY <2>2
    <3> QED BY <3>1, PieceReceived
  <2>3. CASE n \in 1 .. 3
    <3> DEFINE k == <<1, 3, 3>>[n]
               x == EmbeddedFragments(w)[n]
    <3>1. k \in {0, 1, 3} /\ g = Embedded(f, Clean(k, x))
      BY <2>3
    <3> HIDE DEF k, x
    <3> QED BY <3>1, PieceReceived
  <2> QED BY <2>1, <2>2, <2>3
<1>2. n \in 0 .. 5 /\ n # 4
  OBVIOUS
<1>3. /\ BlocksKnown(t, l, After(l, o, n), (n + 1) % 6, g, r)
      /\ AliasShown(t, l, After(l, o, n), (n + 1) % 6, g, r)
  BY <1>1, <1>2, GetsOlder
<1>4. PiecesKnown((n + 1) % 6, w, g, r)
  <2>1. CASE n \in 1 .. 3
    BY <2>1, PiecesGrow
  <2>2. CASE n \in {0, 5}
    <3>1. ~(Begun((n + 1) % 6) <= 3)
      BY <2>2 DEF Begun
    <3> QED BY <3>1, Zenon DEF PiecesKnown
  <2> QED BY <2>1, <2>2
<1> QED BY <1>3, <1>4

LEMMA LastStep ==
  ASSUME NEW a \in DOMAIN Aliases, NEW o \in 0 .. Len(lcs[a]) - 1, NEW w, NEW f, FarType(f),
         NEW g, g = Embedded(f, Clean(2, EmbeddedFragments(w)[4])),
         NEW qt \in Nat, NEW r \in Nat, r <= qt + 1,
         w = lcs[a][Current(Len(lcs[a]), o) + 1],
         PiecesKnown(4, w, f, qt),
         BlocksKnown(T(a), Len(lcs[a]), o, 4, f, qt), AliasShown(T(a), Len(lcs[a]), o, 4, f, qt)
  PROVE  /\ PiecesKnown(5, w, g, r)
         /\ BlocksKnown(T(a), Len(lcs[a]), o, 5, g, r)
         /\ AliasShown(T(a), Len(lcs[a]), o, 5, g, r)
<1> DEFINE l == Len(lcs[a])
           t == T(a)
           c == Current(l, o)
<1>1. l \in 2 .. 5 /\ l = Blocks(t) + 1 /\ t \in Texts /\ o \in 0 .. l - 1
  BY RotationLength
<1>9. Blocks(t) \in 1 .. 4
  BY <1>1, BlocksNeeded, Zenon
<1>2. Begun(4) = 3 /\ Begun(5) = 4
  BY DEF Begun
<1>3. /\ lcs[a] \in Seq(SUBSET (0 .. 71)) /\ FLCO(lcs[a][1]) = 0
      /\ \A b \in 0 .. Blocks(t) - 1 : lcs[a][b + 2] = AliasWord(t, b + 1)
  BY AliasLCs, Zenon
<1> HIDE DEF l, t
<1>4. c \in 0 .. l - 1
  BY <1>1 DEF Current, l
<1>5. w \in SUBSET (0 .. 71)
  <2>1. c + 1 \in 1 .. Len(lcs[a])
    BY <1>1, <1>4 DEF l
  <2> QED BY <1>3, <2>1, ElementOfSeq DEF l
<1> HIDE DEF c
<1>6. PiecesKnown(5, w, g, r)
  BY <1>2 DEF PiecesKnown
<1>7. CASE r < 4
  <2>1. 5 \in 0 .. 5 /\ r < Begun(5)
    BY <1>2, <1>7
  <2>2. /\ BlocksKnown(t, l, o, 5, g, r)
        /\ AliasShown(t, l, o, 5, g, r)
    BY <1>1, <2>1, NotYet
  <2> QED BY <1>6, <2>2 DEF l, t
<1>8. CASE r >= 4
  <2>1. f.frags = Pieces(w, 3)
    BY <1>2, <1>8 DEF PiecesKnown
  <2>2. PICK h : /\ FarType(h) /\ h.have = f.have /\ h.buf = f.buf /\ h.text = f.text
                 /\ g = OnLC(h, w)
    BY <1>5, <2>1, WordReceived, ZenonT(30)
  <2>3. BlocksKnown(t, l, o, 4, h, qt) /\ AliasShown(t, l, o, 4, h, qt)
    BY <2>2, Zenon DEF BlocksKnown, AliasShown, t, l
  <2>4. After(l, o, 4) = o /\ (4 + 1) % 6 = 5
    BY DEF After
  <2>5. CASE c = 0
    <3>1. g = h
      <4>1. FLCO(w) = 0
        BY <1>3, <2>5 DEF c, l
      <4> QED BY <2>2, <4>1, OnLCKeeps
    <3>2. Current(l, o) = 0 /\ 4 \in 0 .. 5 /\ o \in 0 .. l - 1
      BY <2>5 DEF c, l
    <3>3. /\ BlocksKnown(t, l, After(l, o, 4), (4 + 1) % 6, h, r)
          /\ AliasShown(t, l, After(l, o, 4), (4 + 1) % 6, h, r)
      BY <1>1, <2>3, <3>2, GetsOlder
    <3> QED BY <1>6, <2>4, <3>1, <3>3 DEF t, l
  <2>6. CASE c # 0
    <3> DEFINE b == c - 1
    <3>1. b \in 0 .. l - 2 /\ c = b + 1 /\ b \in 0 .. Blocks(t) - 1 /\ c + 1 = b + 2
      BY <1>1, <1>4, <1>9, <2>6
    <3>2. w = AliasWord(t, b + 1)
      <4>1. w = lcs[a][c + 1]
        BY Zenon DEF c, l
      <4> HIDE DEF b
      <4> QED BY <1>3, <3>1, <4>1
    <3> HIDE DEF b
    <3>3. Current(l, o) = b + 1 /\ o \in 0 .. l - 1
      BY <3>1 DEF c, l
    <3>4. /\ BlocksKnown(t, l, o, 5, g, r)
          /\ AliasShown(t, l, o, 5, g, r)
      BY <1>1, <2>2, <2>3, <3>1, <3>2, <3>3, BlockReceived
    <3> QED BY <1>6, <3>4 DEF t, l
  <2> QED BY <2>5, <2>6
<1> QED BY <1>7, <1>8

LEMMA CleanStep ==
  ASSUME NEW a \in DOMAIN Aliases, NEW i \in 0 .. Turns - 1, NEW n \in 0 .. 5, NEW w, NEW f,
         NEW qt \in Nat, NEW r \in Nat, r <= qt + 1, Known(a, i, n, w, f, qt)
  PROVE  LET v == WordNext(a, i, n, w)
         IN Known(a, IndexNext(n, i), (n + 1) % 6, v, FarNext(n, v, f), r)
<1> DEFINE v == WordNext(a, i, n, w)
           g == FarNext(n, v, f)
           j == IndexNext(n, i)
           l == Len(lcs[a])
           o == i % l
           p == After(l, o, n)
           m == (n + 1) % 6
           t == T(a)
           c == Current(l, p)
<1>1. /\ FarType(f)
      /\ WordKnown(a, l, o, n, w, qt)
      /\ PiecesKnown(n, w, f, qt)
      /\ BlocksKnown(t, l, o, n, f, qt)
      /\ AliasShown(t, l, o, n, f, qt)
  BY Zenon DEF Known
<1>2. l \in 2 .. 5 /\ o \in 0 .. l - 1 /\ j % l = p /\ m \in 0 .. 5
  BY Rotation, BegunStep
<1>3. /\ p \in 0 .. l - 1 /\ c \in 0 .. l - 1
      /\ n # 1 => p = o
      /\ n = 1 \/ qt >= Begun(n) => v = lcs[a][c + 1]
      /\ n = 1 \/ qt >= Begun(n) \/ r < Begun(m)
  BY <1>1, WordStep
<1>4. FarType(g)
  BY <1>1, EmbeddedKeeps, Zenon DEF FarNext
<1>5. n # 1 => v = w
  BY Zenon DEF WordNext
<1>6. v = lcs[a][c + 1] => (n # 0 => Piece[v][n][{}] =
         IF n \in 1 .. 3 THEN Clean(<<1, 3, 3>>[n], EmbeddedFragments(v)[n])
         ELSE IF n = 4 THEN Clean(2, EmbeddedFragments(v)[4]) ELSE Clean(0, {}))
  <2>1. n # 0 => n \in 1 .. 5
    OBVIOUS
  <2> HIDE DEF v, c, p, l
  <2> SUFFICES ASSUME v = lcs[a][c + 1], n # 0
      PROVE Piece[v][n][{}] =
         IF n \in 1 .. 3 THEN Clean(<<1, 3, 3>>[n], EmbeddedFragments(v)[n])
         ELSE IF n = 4 THEN Clean(2, EmbeddedFragments(v)[4]) ELSE Clean(0, {})
    OBVIOUS
  <2>2. c \in 0 .. Len(lcs[a]) - 1
    BY <1>3 DEF l
  <2>3. /\ n \in 1 .. 3 => Piece[v][n][{}] = Clean(<<1, 3, 3>>[n], EmbeddedFragments(v)[n])
        /\ n = 4 => Piece[v][n][{}] = Clean(2, EmbeddedFragments(v)[4])
        /\ n = 5 => Piece[v][n][{}] = Clean(0, {})
    BY <2>1, <2>2, PieceOfWord, Zenon
  <2>4. n \in 1 .. 3 \/ n = 4 \/ n = 5
    OBVIOUS
  <2> QED BY <2>3, <2>4, Zenon
<1> HIDE DEF v, g, j, l, o, p, m, t, c
<1>7. /\ WordKnown(a, l, p, m, v, r)
      /\ PiecesKnown(m, v, g, r)
      /\ BlocksKnown(t, l, p, m, g, r)
      /\ AliasShown(t, l, p, m, g, r)
  <2>1. CASE r < Begun(m)
    BY <1>2, <1>3, <2>1, NotYet
  <2>2. CASE n = 1 \/ qt >= Begun(n)
    <3>1. v = lcs[a][c + 1]
      BY <1>3, <2>2, Zenon
    <3>2. WordKnown(a, l, p, m, v, r)
      BY <3>1, Zenon DEF WordKnown, c
    <3>3. n # 0 => g = Embedded(f, Piece[v][n][{}])
      BY Zenon DEF g, FarNext
    <3>4. CASE n \in {0, 1, 2, 3, 5}
      <4>1. n \in 1 .. 3 => g = Embedded(f, Clean(<<1, 3, 3>>[n], EmbeddedFragments(v)[n]))
        BY <1>6, <3>1, <3>3
      <4>2. n = 5 => g = Embedded(f, Clean(0, {}))
        BY <1>6, <3>1, <3>3
      <4>3. n = 0 => g = f
        BY Zenon DEF g, FarNext
      <4>4. n # 1 => PiecesKnown(n, v, f, qt)
        BY <1>1, <1>5
      <4>5. /\ PiecesKnown((n + 1) % 6, v, g, r)
            /\ BlocksKnown(t, l, After(l, o, n), (n + 1) % 6, g, r)
            /\ AliasShown(t, l, After(l, o, n), (n + 1) % 6, g, r)
        BY <1>1, <1>2, <3>4, <4>1, <4>2, <4>3, <4>4, MiddleStep
      <4> QED BY <3>2, <4>5 DEF p, m
    <3>5. CASE n = 4
      <4>1. p = o /\ v = w /\ m = 5
        BY <1>3, <1>5, <3>5 DEF m
      <4>2. g = Embedded(f, Clean(2, EmbeddedFragments(w)[4]))
        BY <1>6, <3>1, <3>3, <3>5, <4>1
      <4>3. w = lcs[a][Current(l, o) + 1]
        BY <3>1, <4>1 DEF c
      <4>4. /\ PiecesKnown(5, w, g, r)
            /\ BlocksKnown(t, l, o, 5, g, r)
            /\ AliasShown(t, l, o, 5, g, r)
        <5>1. /\ PiecesKnown(4, w, f, qt) /\ BlocksKnown(T(a), Len(lcs[a]), o, 4, f, qt)
              /\ AliasShown(T(a), Len(lcs[a]), o, 4, f, qt)
          BY <1>1, <3>5, Zenon DEF t, l
        <5>2. o \in 0 .. Len(lcs[a]) - 1 /\ w = lcs[a][Current(Len(lcs[a]), o) + 1]
          BY <1>2, <4>3, Zenon DEF l
        <5> QED BY <1>1, <4>2, <5>1, <5>2, LastStep, Zenon DEF t, l
      <4> QED BY <3>2, <4>1, <4>4
    <3> QED BY <3>4, <3>5
  <2> QED BY <1>3, <2>1, <2>2
<1>8. Known(a, j, m, v, g, r)
  BY <1>2, <1>4, <1>7, Zenon DEF Known, l, t
<1> QED BY <1>8, Zenon DEF j, m, v, g

\* What holds at every burst: after quiet bursts in peace, Known.
LinkInv ==
  /\ near = [alias |-> near.alias, lcIdx |-> near.lcIdx, n |-> near.n, frags |-> near.frags]
  /\ near.alias \in DOMAIN Aliases
  /\ near.lcIdx \in 0 .. Turns - 1
  /\ near.n \in 0 .. 5
  /\ quiet \in Nat
  /\ Known(near.alias, near.lcIdx, near.n, near.frags, far, quiet)

LEMMA NothingKnown ==
  ASSUME NEW a \in DOMAIN Aliases, NEW i \in 0 .. Turns - 1, NEW n \in 0 .. 5, NEW w, NEW f,
         FarType(f)
  PROVE  Known(a, i, n, w, f, 0)
<1> DEFINE l == Len(lcs[a])
           o == i % l
           t == T(a)
<1>1. l \in 2 .. 5 /\ o \in 0 .. l - 1
  BY Rotation
<1> HIDE DEF l, o
<1>2. 0 < Begun(n) /\ 0 \in Nat
  BY BegunStep
<1>3. /\ WordKnown(a, l, o, n, w, 0)
      /\ PiecesKnown(n, w, f, 0)
      /\ BlocksKnown(t, l, o, n, f, 0)
      /\ AliasShown(t, l, o, n, f, 0)
  BY <1>1, <1>2, NotYet
<1> QED BY <1>3, Zenon DEF Known, l, o

LEMMA RestNat == Rest \in Nat
<1> DEFINE S == {Len(lcs[a]) : a \in DOMAIN Aliases}
           P(m) == m \in S /\ \A k \in S : m >= k
<1>1. S \in SUBSET (2 .. 5)
  BY RotationLength
<1>2. S # {}
  <2>1. 1 \in DOMAIN Aliases
    <3>1. Aliases \in Seq(Seq(Nat)) /\ Aliases # <<>>
      BY LinkAssumption
    <3>2. Len(Aliases) \in Nat /\ DOMAIN Aliases = 1 .. Len(Aliases) /\ Len(Aliases) # 0
      BY <3>1, LenProperties, EmptySeq
    <3> QED BY <3>2
  <2> QED BY <2>1
<1> HIDE DEF S
<1>3. \E m \in S : P(m)
  <2>1. CASE 5 \in S
    BY <1>1, <2>1
  <2>2. CASE 5 \notin S /\ 4 \in S
    <3>1. \A k \in S : 4 >= k
      BY <1>1, <2>2
    <3> QED BY <2>2, <3>1
  <2>3. CASE 5 \notin S /\ 4 \notin S /\ 3 \in S
    <3>1. \A k \in S : 3 >= k
      BY <1>1, <2>3
    <3> QED BY <2>3, <3>1
  <2>4. CASE 5 \notin S /\ 4 \notin S /\ 3 \notin S
    <3>1. \A k \in S : k = 2
      BY <1>1, <2>4
    <3> QED BY <1>2, <3>1
  <2> QED BY <2>1, <2>2, <2>3, <2>4
<1>4. Max(S) = CHOOSE m \in S : \A k \in S : m >= k
  BY Zenon DEF Max
<1>5. Max(S) \in S
  BY <1>3, <1>4
<1>6. Max(S) \in 2 .. 5
  BY <1>1, <1>5
<1>7. Rest = 6 * (Max(S) + 1)
  BY Zenon DEF Rest, S
<1> QED BY <1>6, <1>7

LEMMA LinkInvInit == LinkInit => LinkInv
<1> SUFFICES ASSUME LinkInit PROVE LinkInv
  OBVIOUS
<1>1. /\ near = [alias |-> 1, lcIdx |-> 0, n |-> 0, frags |-> lcs[1][1]]
      /\ far = [frags |-> <<>>, buf |-> [n \in 0 .. 3 |-> {}], have |-> {},
                text |-> <<>>, heard |-> {}]
      /\ quiet = 0
  BY DEF LinkInit
<1>2. 1 \in DOMAIN Aliases
  <2>1. Aliases \in Seq(Seq(Nat)) /\ Aliases # <<>>
    BY LinkAssumption
  <2>2. Len(Aliases) \in Nat /\ DOMAIN Aliases = 1 .. Len(Aliases) /\ Len(Aliases) # 0
    BY <2>1, LenProperties, EmptySeq
  <2> QED BY <2>2
<1>3. near.alias = 1 /\ near.lcIdx = 0 /\ near.n = 0 /\ near.frags = lcs[1][1]
  BY <1>1
<1>4. near = [alias |-> near.alias, lcIdx |-> near.lcIdx, n |-> near.n, frags |-> near.frags]
  BY <1>1
<1>5. 0 \in 0 .. Turns - 1
  BY LinkAssumption
<1>6. FarType(far)
  <2>1. far.buf = [n \in 0 .. 3 |-> {}]
    BY <1>1
  <2>2. far.buf \in [0 .. 3 -> SUBSET (0 .. 55)]
    BY <2>1
  <2>3. far = [frags |-> far.frags, buf |-> far.buf, have |-> far.have, text |-> far.text,
               heard |-> far.heard]
    BY <1>1
  <2> QED BY <2>2, <2>3, Zenon DEF FarType
<1>7. 0 \in 0 .. 5 /\ 0 \in Nat
  OBVIOUS
<1>8. Known(near.alias, near.lcIdx, near.n, near.frags, far, 0)
  BY <1>2, <1>3, <1>5, <1>6, <1>7, NothingKnown
<1> QED BY <1>1, <1>2, <1>3, <1>4, <1>5, <1>7, <1>8 DEF LinkInv

LEMMA BurstKeeps ==
  ASSUME LinkInv, NEW gone \in BOOLEAN, NEW hits, SendBurst(gone, hits)
  PROVE  LinkInv'
<1> DEFINE a == near.alias
           i == near.lcIdx
           n == near.n
           f == IF n = 1 THEN lcs[a][(i % Len(lcs[a])) + 1] ELSE near.frags
           j == IF n = 1 THEN (i + 1) % Turns ELSE i
           clean == ~gone /\ hits = {}
           g == IF gone \/ n = 0 THEN far ELSE Embedded(far, Piece[f][n][hits])
           qt == IF clean THEN Min({quiet + 1, Rest}) ELSE 0
<1>1. /\ near = [alias |-> a, lcIdx |-> i, n |-> n, frags |-> near.frags]
      /\ a \in DOMAIN Aliases /\ i \in 0 .. Turns - 1 /\ n \in 0 .. 5 /\ quiet \in Nat
      /\ Known(a, i, n, near.frags, far, quiet)
  BY Zenon DEF LinkInv
<1>2. /\ near' = [near EXCEPT !.n = (n + 1) % 6, !.frags = f, !.lcIdx = j]
      /\ far' = g /\ quiet' = qt
  <2>1. near' = [near EXCEPT !.n = (near.n + 1) % 6,
                   !.frags = IF near.n = 1
                             THEN lcs[near.alias][(near.lcIdx % Len(lcs[near.alias])) + 1]
                             ELSE near.frags,
                   !.lcIdx = IF near.n = 1 THEN (@ + 1) % Turns ELSE @]
    BY Zenon DEF SendBurst
  <2>2. far' = g /\ quiet' = qt
    BY Zenon DEF SendBurst
  <2> QED BY <2>1, <2>2, Zenon
<1>3. f = WordNext(a, i, n, near.frags) /\ j = IndexNext(n, i)
  BY Zenon DEF WordNext, IndexNext
<1>4. (n + 1) % 6 \in 0 .. 5 /\ j \in 0 .. Turns - 1
  <2>1. j \in 0 .. Turns - 1
    BY <1>1, <1>3, Rotation, Zenon
  <2>2. (n + 1) % 6 \in 0 .. 5
    BY <1>1, BegunStep, Zenon
  <2> QED BY <2>1, <2>2
<1> HIDE DEF f, j, qt
<1>5. near' = [alias |-> a, lcIdx |-> j, n |-> (n + 1) % 6, frags |-> f]
  <2> DEFINE m == (n + 1) % 6
             b == near.frags
  <2> HIDE DEF a, i, n, m, b
  <2>1. near = [alias |-> a, lcIdx |-> i, n |-> n, frags |-> b]
    BY <1>1 DEF b
  <2>2. near' = [near EXCEPT !.n = m, !.frags = f, !.lcIdx = j]
    BY <1>2, Zenon DEF m
  <2> QED BY <2>1, <2>2 DEF m
<1>6. /\ near'.alias = a /\ near'.lcIdx = j /\ near'.n = (n + 1) % 6 /\ near'.frags = f
  BY <1>5
<1>7. FarType(far)
  BY <1>1, Zenon DEF Known
<1>8. FarType(g)
  BY <1>7, EmbeddedKeeps, Zenon
<1>9. CASE clean
  <2>1. qt \in Nat /\ qt <= quiet + 1
    <3>1. quiet + 1 \in Nat /\ Rest \in Nat
      BY <1>1, RestNat
    <3>2. qt = Min({quiet + 1, Rest})
      BY <1>9, Zenon DEF qt
    <3>3. qt = IF quiet + 1 <= Rest THEN quiet + 1 ELSE Rest
      BY <3>1, <3>2, MinOf, Zenon
    <3> HIDE DEF qt
    <3> QED BY <1>1, <3>1, <3>3
  <2>2. g = FarNext(n, f, far)
    BY <1>9, Zenon DEF FarNext
  <2>3. Known(a, j, (n + 1) % 6, f, FarNext(n, f, far), qt)
    BY <1>1, <1>3, <2>1, CleanStep
  <2>4. Known(near'.alias, near'.lcIdx, near'.n, near'.frags, far', quiet')
    BY <1>2, <1>6, <2>2, <2>3, Zenon
  <2> QED BY <1>1, <1>2, <1>4, <1>5, <1>6, <2>1, <2>4 DEF LinkInv
<1>10. CASE ~clean
  <2>1. qt = 0
    BY <1>10, Zenon DEF qt
  <2>2. Known(a, j, (n + 1) % 6, f, g, 0)
    BY <1>1, <1>4, <1>8, NothingKnown, Zenon
  <2>3. Known(near'.alias, near'.lcIdx, near'.n, near'.frags, far', quiet')
    BY <1>2, <1>6, <2>1, <2>2, Zenon
  <2> QED BY <1>1, <1>2, <1>4, <1>5, <1>6, <2>1, <2>3 DEF LinkInv
<1> QED BY <1>9, <1>10

LEMMA AliasKeeps ==
  ASSUME LinkInv, NewAlias
  PROVE  LinkInv'
<1> DEFINE a == near.alias + 1
           i == near.lcIdx
           n == near.n
           w == near.frags
<1>1. /\ near = [alias |-> near.alias, lcIdx |-> i, n |-> n, frags |-> w]
      /\ near.alias \in DOMAIN Aliases /\ i \in 0 .. Turns - 1 /\ n \in 0 .. 5
      /\ Known(near.alias, i, n, w, far, quiet)
  BY Zenon DEF LinkInv
<1>2. /\ near.alias < Len(Aliases) /\ near' = [near EXCEPT !.alias = a]
      /\ quiet' = 0 /\ far' = far
  BY DEF NewAlias
<1>3. a \in DOMAIN Aliases
  <2>1. Aliases \in Seq(Seq(Nat))
    BY LinkAssumption
  <2>2. Len(Aliases) \in Nat /\ DOMAIN Aliases = 1 .. Len(Aliases)
    BY <2>1, LenProperties
  <2> QED BY <1>1, <1>2, <2>2
<1> HIDE DEF a
<1>4. near' = [alias |-> a, lcIdx |-> i, n |-> n, frags |-> w]
  <2> HIDE DEF i, n, w
  <2> QED BY <1>1, <1>2
<1>5. near'.alias = a /\ near'.lcIdx = i /\ near'.n = n /\ near'.frags = w
  BY <1>4
<1>6. FarType(far)
  BY <1>1, Zenon DEF Known
<1>7. Known(a, i, n, w, far, 0)
  BY <1>1, <1>3, <1>6, NothingKnown, Zenon
<1>8. Known(near'.alias, near'.lcIdx, near'.n, near'.frags, far', quiet')
  BY <1>2, <1>5, <1>7, Zenon
<1>9. 0 \in Nat
  OBVIOUS
<1> QED BY <1>1, <1>2, <1>3, <1>4, <1>5, <1>8, <1>9 DEF LinkInv

LEMMA LinkInvNext ==
  LinkInv /\ [LinkNext]_<<near, far, noise, quiet>> => LinkInv'
<1> SUFFICES ASSUME LinkInv, [LinkNext]_<<near, far, noise, quiet>> PROVE LinkInv'
  OBVIOUS
<1>1. ASSUME NEW hits \in Hits, SendBurst(FALSE, hits) PROVE LinkInv'
  BY <1>1, BurstKeeps
<1>2. CASE SendBurst(TRUE, {})
  BY <1>2, BurstKeeps
<1>3. CASE NewAlias
  BY <1>3, AliasKeeps
<1>4. CASE UNCHANGED <<near, far, noise, quiet>>
  <2>1. near' = near /\ far' = far /\ quiet' = quiet
    BY <1>4
  <2> QED BY <2>1, Zenon DEF LinkInv
<1> QED BY <1>1, <1>2, <1>3, <1>4 DEF LinkNext

\* With all blocks older than a rotation and a word, the alias.
LEMMA HealsSafe == LinkInv => AliasHeals
<1> SUFFICES ASSUME LinkInv, quiet >= 6 * (Len(lcs[near.alias]) + 1)
             PROVE  far.text = Printable(Aliases[near.alias])
  BY DEF AliasHeals
<1> DEFINE a == near.alias
           l == Len(lcs[a])
           o == near.lcIdx % l
           n == near.n
<1>1. a \in DOMAIN Aliases /\ near.lcIdx \in 0 .. Turns - 1 /\ n \in 0 .. 5 /\ quiet \in Nat
  BY Zenon DEF LinkInv
<1>2. AliasShown(T(a), l, o, n, far, quiet)
  BY Zenon DEF LinkInv, Known
<1>3. l \in 2 .. 5 /\ o \in 0 .. l - 1
  BY <1>1, Rotation
<1> HIDE DEF l, o, n
<1>4. ASSUME NEW b \in 0 .. l - 2 PROVE quiet >= Age(l, o, n, b)
  <2>1. Age(l, o, n, b) \in 1 .. 6 * l + 3
    BY <1>1, <1>3, AgeStep
  <2>2. quiet >= 6 * (l + 1)
    BY DEF l
  <2> QED BY <1>1, <1>3, <2>1, <2>2
<1>5. far.text = T(a)
  BY <1>2, <1>4, Zenon DEF AliasShown
<1> QED BY <1>5, Zenon DEF T

THEOREM AliasHealsAlways == LinkSpec => []AliasHeals
<1>1. LinkInit => LinkInv
  BY LinkInvInit
<1>2. LinkInv /\ [LinkNext]_<<near, far, noise, quiet>> => LinkInv'
  BY LinkInvNext
<1>3. LinkInv => AliasHeals
  BY HealsSafe
<1> QED BY <1>1, <1>2, <1>3, PTL DEF LinkSpec

-----------------------------------------------------------------------------
(* Slow data: blocks, a frame, a superframe                                *)

\* Sequences of which the length and the elements are known.
Joined(c, S, a, b, m, n) ==
  /\ c \in Seq(S) /\ Len(c) = m + n
  /\ \A i \in 1 .. m : c[i] = a[i]
  /\ \A i \in 1 .. n : c[m + i] = b[i]

PartOf(p, S, s, m, n) ==
  p \in Seq(S) /\ Len(p) = n /\ \A i \in 1 .. n : p[i] = s[m + i - 1]

LEMMA TwoParts ==
  ASSUME NEW S, NEW a \in Seq(S), NEW b \in Seq(S), NEW m \in Nat, NEW n \in Nat,
         Len(a) = m, Len(b) = n, NEW c, c = a \o b
  PROVE  Joined(c, S, a, b, m, n)
<1>1. /\ c \in Seq(S) /\ Len(c) = Len(a) + Len(b)
      /\ \A i \in 1 .. Len(a) + Len(b) : c[i] = IF i <= Len(a) THEN a[i] ELSE b[i - Len(a)]
  BY ConcatProperties, Zenon
<1>2. \A i \in 1 .. m + n : c[i] = IF i <= m THEN a[i] ELSE b[i - m]
  BY <1>1
<1>3. ASSUME NEW i \in 1 .. m PROVE c[i] = a[i]
  <2>1. i \in 1 .. m + n /\ i <= m
    OBVIOUS
  <2> QED BY <1>2, <2>1
<1>4. ASSUME NEW i \in 1 .. n PROVE c[m + i] = b[i]
  <2>1. m + i \in 1 .. m + n /\ ~(m + i <= m) /\ (m + i) - m = i
    OBVIOUS
  <2> QED BY <1>2, <2>1
<1> QED BY <1>1, <1>3, <1>4 DEF Joined

LEMMA Part ==
  ASSUME NEW S, NEW s \in Seq(S), NEW m \in Nat \ {0}, NEW k \in Nat, m <= k, k <= Len(s),
         NEW n \in Nat, n = k - m + 1, NEW p, p = SubSeq(s, m, k)
  PROVE  PartOf(p, S, s, m, n)
<1>1. k \in Int /\ m \in Int
  OBVIOUS
<1>2. \A i \in m .. k : s[i] \in S
  <2> SUFFICES ASSUME NEW i \in m .. k PROVE s[i] \in S
    OBVIOUS
  <2>1. Len(s) \in Nat
    BY LenProperties
  <2>2. i \in 1 .. Len(s)
    BY <2>1
  <2> QED BY <2>2, ElementOfSeq
<1>3. /\ SubSeq(s, m, k) \in Seq(S) /\ Len(SubSeq(s, m, k)) = IF m <= k THEN k - m + 1 ELSE 0
      /\ \A i \in 1 .. k - m + 1 : SubSeq(s, m, k)[i] = s[m + i - 1]
  BY <1>1, <1>2, SubSeqProperties
<1>4. Len(p) = n
  BY <1>3
<1> QED BY <1>3, <1>4, Zenon DEF PartOf

LEMMA Halves6 ==
  ASSUME NEW S, NEW b \in Seq(S), Len(b) = 6
  PROVE  SubSeq(b, 1, 3) \o SubSeq(b, 4, 6) = b
<1> DEFINE x == SubSeq(b, 1, 3)
           y == SubSeq(b, 4, 6)
           c == x \o y
<1>1. x \in Seq(S) /\ Len(x) = 3 /\ \A i \in 1 .. 3 : x[i] = b[i]
  <2>1. 1 \in Nat \ {0} /\ 3 \in Nat /\ 1 <= 3 /\ 3 <= Len(b) /\ 3 = 3 - 1 + 1
    OBVIOUS
  <2> HIDE DEF x
  <2>2. x = SubSeq(b, 1, 3)
    BY DEF x
  <2>3. PartOf(x, S, b, 1, 3)
    BY <2>1, <2>2, Part
  <2> QED BY <2>3 DEF PartOf
<1>2. y \in Seq(S) /\ Len(y) = 3 /\ \A i \in 1 .. 3 : y[i] = b[3 + i]
  <2>1. 4 \in Nat \ {0} /\ 6 \in Nat /\ 4 <= 6 /\ 6 <= Len(b) /\ 3 = 6 - 4 + 1
                     /\ 3 \in Nat
    OBVIOUS
  <2> HIDE DEF y
  <2>2. y = SubSeq(b, 4, 6)
    BY DEF y
  <2>3. PartOf(y, S, b, 4, 3)
    BY <2>1, <2>2, Part
  <2> QED BY <2>3 DEF PartOf
<1> HIDE DEF x, y
<1>3. /\ c \in Seq(S) /\ Len(c) = 3 + 3
      /\ \A i \in 1 .. 3 : c[i] = x[i]
      /\ \A i \in 1 .. 3 : c[3 + i] = y[i]
  <2> HIDE DEF c
  <2>1. c = x \o y /\ 3 \in Nat
    BY DEF c
  <2>2. Joined(c, S, x, y, 3, 3)
    BY <1>1, <1>2, <2>1, TwoParts
  <2> QED BY <2>2, Zenon DEF Joined
<1> HIDE DEF c
<1>4. ASSUME NEW i \in 1 .. 6 PROVE c[i] = b[i]
  <2>1. CASE i \in 1 .. 3
    BY <1>1, <1>3, <2>1
  <2>2. CASE i \in 4 .. 6
    <3>1. i - 3 \in 1 .. 3 /\ 3 + (i - 3) = i
      BY <2>2
    <3> QED BY <1>2, <1>3, <3>1
  <2> QED BY <2>1, <2>2
<1>5. Len(c) = 6
  BY <1>3
<1> QED BY <1>3, <1>4, <1>5, SeqEqual DEF c, x, y

LEMMA TextBlocks ==
  ASSUME NEW i \in 0 .. 3
  PROVE  /\ TextBlock(i) \in Seq(Nat) /\ Len(TextBlock(i)) = 6
         /\ TextBlock(i)[1] = 64 + i
         /\ \A k \in 1 .. 5 : TextBlock(i)[k + 1] = Text[5 * i + k]
<1> DEFINE a == <<64 + i>>
           y == SubSeq(Text, 5 * i + 1, 5 * i + 5)
<1>1. Text \in Seq(Nat) /\ Len(Text) = 20
  <2>1. Text \in [1 .. 20 -> 0 .. 127]
    BY SlowAssumption, Zenon
  <2>2. Text \in [1 .. 20 -> Nat] /\ 20 \in Nat
    BY <2>1
  <2>3. Text \in Seq(Nat)
    BY <2>2, SeqDef, Zenon
  <2>4. DOMAIN Text = 1 .. 20 /\ DOMAIN Text = 1 .. Len(Text) /\ Len(Text) \in Nat
    BY <2>2, <2>3, LenProperties, Zenon
  <2>5. 20 \in 1 .. 20 /\ 21 \notin 1 .. 20
    OBVIOUS
  <2>6. 20 \in 1 .. Len(Text) /\ 21 \notin 1 .. Len(Text)
    BY <2>4, <2>5, Zenon
  <2> QED BY <2>3, <2>4, <2>6
<1>2. a \in Seq(Nat) /\ Len(a) = 1 /\ a[1] = 64 + i
  OBVIOUS
<1>3. y \in Seq(Nat) /\ Len(y) = 5 /\ \A k \in 1 .. 5 : y[k] = Text[5 * i + k]
  <2> DEFINE m == 5 * i + 1
             n == 5 * i + 5
  <2>1. m \in Nat \ {0} /\ n \in Nat /\ m <= n /\ n <= Len(Text) /\ 5 = n - m + 1 /\ 5 \in Nat
    BY <1>1
  <2>2. \A k \in 1 .. 5 : m + k - 1 = 5 * i + k
    OBVIOUS
  <2> HIDE DEF m, n, y
  <2>3. y = SubSeq(Text, m, n)
    BY DEF m, n, y
  <2>4. PartOf(y, Nat, Text, m, 5)
    BY <1>1, <2>1, <2>3, Part
  <2> QED BY <2>2, <2>4 DEF PartOf
<1>4. TextBlock(i) = a \o y
  BY Zenon DEF TextBlock, typeText
<1> HIDE DEF a, y
<1> DEFINE c == a \o y
<1> HIDE DEF c
<1>5. Joined(c, Nat, a, y, 1, 5)
  <2>1. c = a \o y /\ 1 \in Nat /\ 5 \in Nat
    BY DEF c
  <2> QED BY <1>2, <1>3, <2>1, TwoParts
<1>6. /\ c \in Seq(Nat) /\ Len(c) = 1 + 5
      /\ \A k \in 1 .. 1 : c[k] = a[k]
      /\ \A k \in 1 .. 5 : c[1 + k] = y[k]
  BY <1>5, Zenon DEF Joined
<1>7. c \in Seq(Nat) /\ Len(c) = 6 /\ c[1] = 64 + i
  BY <1>2, <1>6
<1>8. ASSUME NEW k \in 1 .. 5 PROVE c[k + 1] = Text[5 * i + k]
  <2>1. k + 1 = 1 + k
    OBVIOUS
  <2> QED BY <1>3, <1>6, <2>1
<1> QED BY <1>4, <1>7, <1>8 DEF c

LEMMA HeaderSent == HeaderBytes \in Seq(Nat) /\ Len(HeaderBytes) = 41
<1> DEFINE x == CRC(Station) % 256
           y == CRC(Station) \div 256
           b == <<x, y>>
<1>1. Station \in Seq(Nat) /\ Len(Station) = 39
  <2>1. Station \in Seq(0 .. 255) /\ Len(Station) = 39
    BY SlowAssumption
  <2>2. 0 .. 255 \subseteq Nat
    OBVIOUS
  <2> QED BY <2>1, <2>2, SeqMonotonic
<1>2. x \in Nat /\ y \in Nat
  <2>1. CRC(Station) \in Nat
    BY SlowAssumption
  <2> QED BY <2>1
<1> HIDE DEF x, y
<1>3. b \in Seq(Nat) /\ Len(b) = 2 /\ 39 \in Nat /\ 2 \in Nat
  BY <1>2
<1> HIDE DEF b
<1>4. HeaderBytes = Station \o b
  BY Zenon DEF HeaderBytes, b, x, y
<1>5. Joined(HeaderBytes, Nat, Station, b, 39, 2)
  BY <1>1, <1>3, <1>4, TwoParts
<1>6. HeaderBytes \in Seq(Nat) /\ Len(HeaderBytes) = 39 + 2
  BY <1>5, Zenon DEF Joined
<1> QED BY <1>6

LEMMA HeaderBlocks ==
  ASSUME NEW i \in 0 .. 8
  PROVE  /\ HeaderBlock(i) \in Seq(Nat) /\ Len(HeaderBlock(i)) = 6
         /\ HeaderBlock(i)[1] \in 81 .. 85
<1> DEFINE n == Min({5, 41 - 5 * i})
           a == <<80 + n>>
           f == 5 * i + 1
           l == 5 * i + n
           y == SubSeq(HeaderBytes, f, l)
           z == [k \in 1 .. 5 - n |-> filler]
           c == a \o y
           d == c \o z
<1>1. n \in 1 .. 5 /\ 5 * i + n <= 41
  <2>1. 41 - 5 * i \in Nat /\ 5 \in Nat
    OBVIOUS
  <2>2. n = IF 5 <= 41 - 5 * i THEN 5 ELSE 41 - 5 * i
    BY <2>1, MinOf
  <2> HIDE DEF n
  <2> QED BY <2>2
<1>2. d = HeaderBlock(i)
  BY Zenon DEF HeaderBlock, typeHeader
<1> HIDE DEF n
<1>3. a \in Seq(Nat) /\ Len(a) = 1 /\ a[1] \in 81 .. 85
  BY <1>1
<1>4. y \in Seq(Nat) /\ Len(y) = n
  <2>1. /\ f \in Nat \ {0} /\ l \in Nat /\ f <= l /\ l <= 41 /\ n = l - f + 1
        /\ n \in Nat
    BY <1>1
  <2> HIDE DEF f, l, y
  <2>2. y = SubSeq(HeaderBytes, f, l) /\ l <= Len(HeaderBytes)
    BY <2>1, HeaderSent DEF y
  <2>3. PartOf(y, Nat, HeaderBytes, f, n)
    BY <2>1, <2>2, HeaderSent, Part
  <2> QED BY <2>3 DEF PartOf
<1>5. z \in Seq(Nat) /\ Len(z) = 5 - n
  <2> DEFINE r == 5 - n
             w == [k \in 1 .. r |-> filler]
  <2>1. r \in Nat /\ filler \in Nat
    BY <1>1 DEF filler
  <2> HIDE DEF r
  <2>2. w \in Seq(Nat) /\ Len(w) = r
    BY <2>1
  <2> QED BY <2>2 DEF r
<1> HIDE DEF a, y, z
<1>6. c \in Seq(Nat) /\ Len(c) = 1 + n /\ c[1] \in 81 .. 85
  <2> HIDE DEF c
  <2>1. c = a \o y /\ 1 \in Nat /\ n \in Nat
    BY <1>1 DEF c
  <2>2. Joined(c, Nat, a, y, 1, n)
    BY <1>3, <1>4, <2>1, TwoParts
  <2>3. 1 \in 1 .. 1
    OBVIOUS
  <2> QED BY <1>3, <2>2, <2>3, Zenon DEF Joined
<1> HIDE DEF c
<1>7. d \in Seq(Nat) /\ Len(d) = 6 /\ d[1] \in 81 .. 85
  <2> DEFINE m == 1 + n
             r == 5 - n
  <2>1. m \in Nat /\ r \in Nat /\ m + r = 6 /\ 1 \in 1 .. m
    BY <1>1
  <2> HIDE DEF m, r, d
  <2>2. d = c \o z /\ Len(c) = m /\ Len(z) = r
    BY <1>5, <1>6 DEF d, m, r
  <2>3. Joined(d, Nat, c, z, m, r)
    BY <1>5, <1>6, <2>1, <2>2, TwoParts
  <2>4. d \in Seq(Nat) /\ Len(d) = m + r /\ d[1] = c[1]
    BY <2>1, <2>3, Zenon DEF Joined
  <2> QED BY <1>6, <2>1, <2>4
<1> QED BY <1>2, <1>7

LEMMA BlockFacts ==
  ASSUME NEW p \in 0 .. 12
  PROVE  /\ blocks[p] \in Seq(Nat) /\ Len(blocks[p]) = 6
         /\ p < 4 => /\ blocks[p][1] = 64 + p
                     /\ \A k \in 1 .. 5 : blocks[p][k + 1] = Text[5 * p + k]
         /\ p >= 4 => blocks[p][1] \in 81 .. 85
<1>1. blocks[p] = IF p < 4 THEN TextBlock(p) ELSE HeaderBlock(p - 4)
  BY Zenon DEF blocks
<1>2. CASE p < 4
  <2>1. p \in 0 .. 3 /\ blocks[p] = TextBlock(p)
    BY <1>1, <1>2
  <2>2. /\ TextBlock(p) \in Seq(Nat) /\ Len(TextBlock(p)) = 6
        /\ TextBlock(p)[1] = 64 + p
        /\ \A k \in 1 .. 5 : TextBlock(p)[k + 1] = Text[5 * p + k]
    BY <2>1, TextBlocks, Zenon
  <2>3. ~(p >= 4)
    BY <1>2
  <2> QED BY <2>1, <2>2, <2>3, Zenon
<1>3. CASE p >= 4
  <2>1. p - 4 \in 0 .. 8 /\ blocks[p] = HeaderBlock(p - 4) /\ ~(p < 4)
    BY <1>1, <1>3
  <2> QED BY <2>1, HeaderBlocks, Zenon
<1> QED BY <1>2, <1>3

\* Frames since the last synchronisation, so many of them in peace, and the
\* blocks completed in these; how many have come after the last i-th one.
AgeOf(s) == IF s = 0 THEN 21 ELSE s
Done(s, c) ==
  IF c < AgeOf(s) THEN 0 ELSE 10 * ((c - AgeOf(s)) \div 21) + ((AgeOf(s) - 1) \div 2)
Since(i, p, half) == IF half THEN (p + 11 - i) % 13 ELSE (p + 12 - i) % 13
Preceding(p) == (p + 12) % 13

LEMMA DoneSync == ASSUME NEW c \in Nat PROVE Done(1, c + 1) = Done(0, c)
BY DEF Done, AgeOf

LEMMA DoneBegins ==
  ASSUME NEW s \in 1 .. 19, s % 2 = 1, NEW c \in Nat
  PROVE  Done(s + 1, c + 1) = Done(s, c)
<1>1. (s + 1 - 1) \div 2 = (s - 1) \div 2
  OBVIOUS
<1>2. AgeOf(s) = s /\ AgeOf(s + 1) = s + 1
  BY DEF AgeOf
<1>3. (c + 1) - (s + 1) = c - s /\ ((c + 1 < s + 1) <=> (c < s))
  OBVIOUS
<1> QED BY <1>1, <1>2, <1>3 DEF Done

LEMMA DoneEnds ==
  ASSUME NEW s \in 1 .. 20, s % 2 = 0, NEW c \in Nat
  PROVE  /\ Done((s + 1) % 21, c + 1) = IF c < s THEN 0 ELSE Done(s, c) + 1
         /\ AgeOf((s + 1) % 21) = s + 1
<1>1. (s + 1 - 1) \div 2 = ((s - 1) \div 2) + 1
  OBVIOUS
<1>2. AgeOf(s) = s /\ AgeOf((s + 1) % 21) = s + 1
  BY DEF AgeOf
<1>3. (c + 1) - (s + 1) = c - s /\ ((c + 1 < s + 1) <=> (c < s))
  OBVIOUS
<1>4. CASE c < s
  BY <1>2, <1>3, <1>4 DEF Done
<1>5. CASE ~(c < s)
  <2> DEFINE u == 10 * ((c - s) \div 21)
  <2>1. u \in Nat
    BY <1>5
  <2> HIDE DEF u
  <2>2. Done(s, c) = u + ((s - 1) \div 2)
    BY <1>2, <1>5, Zenon DEF Done, u
  <2>3. Done((s + 1) % 21, c + 1) = u + ((s + 1 - 1) \div 2)
    <3>1. Done((s + 1) % 21, c + 1)
            = IF c + 1 < s + 1 THEN 0
              ELSE 10 * (((c + 1) - (s + 1)) \div 21) + (((s + 1) - 1) \div 2)
      BY <1>2, Zenon DEF Done
    <3> QED BY <1>3, <1>5, <3>1 DEF u
  <2> QED BY <1>1, <1>2, <1>5, <2>1, <2>2, <2>3
<1> QED BY <1>4, <1>5

LEMMA DoneEarly ==
  ASSUME NEW s \in 0 .. 20, NEW c \in Nat, c < AgeOf(s)
  PROVE  Done(s, c) = 0
BY Zenon DEF Done

LEMMA DoneLate == ASSUME NEW s \in 0 .. 20 PROVE Done(s, 84) >= 30
<1>1. AgeOf(s) \in 1 .. 21
  BY DEF AgeOf
<1>2. ASSUME NEW a \in 1 .. 21
      PROVE  /\ ~(84 < a) /\ (84 - a) \div 21 >= 3 /\ (a - 1) \div 2 >= 0
             /\ (84 - a) \div 21 \in Int /\ (a - 1) \div 2 \in Int
  OBVIOUS
<1> QED BY <1>1, <1>2 DEF Done

LEMMA SinceBegins ==
  ASSUME NEW i \in 0 .. 3, NEW p \in 0 .. 12
  PROVE  Since(i, (p + 1) % 13, TRUE) = Since(i, p, FALSE)
BY DEF Since

LEMMA SinceEnds ==
  ASSUME NEW i \in 0 .. 3, NEW p \in 0 .. 12, ~(i = Preceding(p))
  PROVE  Since(i, p, FALSE) = Since(i, p, TRUE) + 1
BY DEF Since, Preceding

LEMMA SinceBound ==
  ASSUME NEW i \in 0 .. 3, NEW p \in 0 .. 12, NEW h \in BOOLEAN
  PROVE  Since(i, p, h) \in 0 .. 12
BY DEF Since

LEMMA Turning ==
  ASSUME NEW p \in 0 .. 12
  PROVE  /\ (p + 1) % 13 \in 0 .. 12 /\ Preceding((p + 1) % 13) = p
         /\ Preceding(p) \in 0 .. 12
BY DEF Preceding

MuxType(m) ==
  /\ m = [pos |-> m.pos, second |-> m.second, seq |-> m.seq]
  /\ m.pos \in 0 .. 12 /\ m.seq \in 0 .. 20 /\ m.second \in BOOLEAN
  /\ m.second <=> (m.seq # 0 /\ m.seq % 2 = 0)

DemuxType(d) ==
  /\ d = [buf |-> d.buf, second |-> d.second, text |-> d.text, have |-> d.have,
          Text |-> d.Text, header |-> d.header, Header |-> d.Header]
  /\ d.second \in BOOLEAN /\ d.text \in [1 .. 20 -> Nat] /\ d.have \in SUBSET (0 .. 3)
  /\ d.second => d.buf \in Seq(Nat) /\ Len(d.buf) = 3

SameText(e, d) == e.text = d.text /\ e.have = d.have /\ e.Text = d.Text

HalfOf(x) == x \in Seq(Nat) /\ Len(x) = 3
Holding(d, x) == [d EXCEPT !.buf = x, !.second = TRUE]

Held(e, d, x) == SameText(e, d) /\ e.second = TRUE /\ e.buf = x

LEMMA Begins ==
  ASSUME NEW d, DemuxType(d), NEW x, HalfOf(x), NEW e, e = Holding(d, x)
  PROVE  DemuxType(e) /\ Held(e, d, x)
<1>1. d = [buf |-> d.buf, second |-> d.second, text |-> d.text, have |-> d.have,
          Text |-> d.Text, header |-> d.header, Header |-> d.Header]
  BY DEF DemuxType
<1>2. e = [buf |-> x, second |-> TRUE, text |-> d.text, have |-> d.have,
          Text |-> d.Text, header |-> d.header, Header |-> d.Header]
  BY <1>1 DEF Holding
<1>3. /\ e.buf = x /\ e.second = TRUE /\ e.text = d.text /\ e.have = d.have
      /\ e.Text = d.Text /\ e.header = d.header /\ e.Header = d.Header
  BY <1>2
<1> QED BY <1>2, <1>3, Zenon DEF DemuxType, SameText, HalfOf, Held

LEMMA Ends ==
  ASSUME NEW d, DemuxType(d),
         NEW e, \/ e = [d EXCEPT !.buf = <<>>, !.second = FALSE]
                \/ e = [d EXCEPT !.second = FALSE]
  PROVE  DemuxType(e) /\ SameText(e, d) /\ e.second = FALSE
<1>1. d = [buf |-> d.buf, second |-> d.second, text |-> d.text, have |-> d.have,
          Text |-> d.Text, header |-> d.header, Header |-> d.Header]
  BY DEF DemuxType
<1>2. PICK x : e = [buf |-> x, second |-> FALSE, text |-> d.text, have |-> d.have,
          Text |-> d.Text, header |-> d.header, Header |-> d.Header]
  BY <1>1
<1>3. /\ e.buf = x /\ e.second = FALSE /\ e.text = d.text /\ e.have = d.have
      /\ e.Text = d.Text /\ e.header = d.header /\ e.Header = d.Header
  BY <1>2
<1> QED BY <1>2, <1>3, Zenon DEF DemuxType, SameText

\* The three outcomes of a block.
TextOn(d, i, b) ==
  [k \in 1 .. 20 |-> IF k \in 5 * i + 1 .. 5 * i + 5 THEN b[k - 5 * i + 1] % 128
                     ELSE d.text[k]]
WithText(d, t, h) ==
  [d EXCEPT !.text = t, !.have = h, !.Text = IF h = 0 .. 3 THEN t ELSE @]
WithHeader(d, h, p) == [d EXCEPT !.header = h, !.Header = IF p THEN SubSeq(h, 1, 41) ELSE @]

LEMMA Outcomes ==
  ASSUME NEW d, NEW b \in Seq(Nat), Len(b) = 6
  PROVE  \/ /\ (b[1] \div 16) * 16 = 64 /\ b[1] % 16 \in 0 .. 3
            /\ OnBlock(d, b) = WithText(d, TextOn(d, b[1] % 16, b), d.have \cup {b[1] % 16})
         \/ /\ ~((b[1] \div 16) * 16 = 64 /\ b[1] % 16 \in 0 .. 3)
            /\ \/ OnBlock(d, b) = d
               \/ \E h, p : OnBlock(d, b) = WithHeader(d, h, p)
<1> DEFINE kind == (b[1] \div 16) * 16
           i == b[1] % 16
           text == [k \in 1 .. 20 |-> IF k \in 5 * i + 1 .. 5 * i + 5
                                 THEN b[k - 5 * i + 1] % 128 ELSE d.text[k]]
           have == d.have \cup {i}
           header == d.header \o SubSeq(b, 2, 6)
           p == Len(header) >= 41 /\ Parses(SubSeq(header, 1, 41))
           first == kind = 64 /\ i < 4
           second == kind = 80 /\ Len(d.header) < 45
<1>1. b[1] \in Nat
  <2>1. 1 \in 1 .. Len(b)
    OBVIOUS
  <2> QED BY <2>1, ElementOfSeq
<1>2. i < 4 <=> i \in 0 .. 3
  BY <1>1
<1>3. OnBlock(d, b) =
        IF kind = 64 /\ i < 4
        THEN [d EXCEPT !.text = text, !.have = have, !.Text = IF have = 0 .. 3 THEN text ELSE @]
        ELSE IF second
        THEN [d EXCEPT !.header = header, !.Header = IF p THEN SubSeq(header, 1, 41) ELSE @]
        ELSE d
  BY Zenon DEF OnBlock, typeText, typeHeader
<1>4. text = TextOn(d, i, b)
  BY Zenon DEF TextOn
<1> HIDE DEF kind, i, text, header, p, second, have
<1>5. /\ kind = 64 /\ i < 4 => OnBlock(d, b) = WithText(d, TextOn(d, i, b), have)
      /\ ~(kind = 64 /\ i < 4) /\ second => OnBlock(d, b) = WithHeader(d, header, p)
      /\ ~(kind = 64 /\ i < 4) /\ ~second => OnBlock(d, b) = d
  BY <1>3, <1>4, Zenon DEF WithText, WithHeader
<1>6. \/ kind = 64 /\ i \in 0 .. 3 /\ OnBlock(d, b) = WithText(d, TextOn(d, i, b), have)
      \/ /\ ~(kind = 64 /\ i \in 0 .. 3)
         /\ OnBlock(d, b) = d \/ \E h, qt : OnBlock(d, b) = WithHeader(d, h, qt)
  BY <1>2, <1>5, Zenon
<1> QED BY <1>6, Zenon DEF kind, i, have

\* Of a text the i-th part is replaced.
Replaced(t, d, i, b) ==
  /\ \A k \in 1 .. 5 : t[5 * i + k] = b[k + 1] % 128
  /\ \A j \in 0 .. 3, k \in 1 .. 5 : ~(i = j) => t[5 * j + k] = d.text[5 * j + k]

LEMMA TextOnType ==
  ASSUME NEW d, DemuxType(d), NEW i \in 0 .. 3, NEW b \in Seq(Nat), Len(b) = 6
  PROVE  TextOn(d, i, b) \in [1 .. 20 -> Nat] /\ Replaced(TextOn(d, i, b), d, i, b)
<1> DEFINE V(k) == IF k \in 5 * i + 1 .. 5 * i + 5 THEN b[k - 5 * i + 1] % 128 ELSE d.text[k]
<1>0. d.text \in [1 .. 20 -> Nat]
  BY Zenon DEF DemuxType
<1>1. ASSUME NEW k \in 1 .. 20 PROVE V(k) \in Nat
  <2>1. CASE k \in 5 * i + 1 .. 5 * i + 5
    <3>1. k - 5 * i + 1 \in 1 .. Len(b)
      BY <2>1
    <3>2. b[k - 5 * i + 1] \in Nat
      BY <3>1, ElementOfSeq
    <3>3. \A x \in Nat : x % 128 \in Nat
      OBVIOUS
    <3>4. b[k - 5 * i + 1] % 128 \in Nat
      BY <3>2, <3>3, Zenon
    <3> QED BY <2>1, <3>4, Zenon
  <2>2. CASE ~(k \in 5 * i + 1 .. 5 * i + 5)
    <3>1. d.text[k] \in Nat
      BY <1>0
    <3> QED BY <2>2, <3>1, Zenon
  <2> QED BY <2>1, <2>2, Zenon
<1>2. TextOn(d, i, b) = [k \in 1 .. 20 |-> V(k)]
  BY Zenon DEF TextOn
<1>3. \A k \in 1 .. 20 : TextOn(d, i, b)[k] = V(k)
  BY <1>2, Zenon
<1>4. ASSUME NEW k \in 1 .. 5 PROVE TextOn(d, i, b)[5 * i + k] = b[k + 1] % 128
  <2>1. /\ 5 * i + k \in 1 .. 20 /\ 5 * i + k \in 5 * i + 1 .. 5 * i + 5
        /\ (5 * i + k) - 5 * i + 1 = k + 1
    OBVIOUS
  <2>2. V(5 * i + k) = b[(5 * i + k) - 5 * i + 1] % 128
    BY <2>1, Zenon
  <2> QED BY <1>3, <2>1, <2>2, Zenon
<1>5. ASSUME NEW j \in 0 .. 3, NEW k \in 1 .. 5, ~(i = j)
      PROVE TextOn(d, i, b)[5 * j + k] = d.text[5 * j + k]
  <2>1. 5 * j + k \in 1 .. 20 /\ ~(5 * j + k \in 5 * i + 1 .. 5 * i + 5)
    BY <1>5
  <2>2. V(5 * j + k) = d.text[5 * j + k]
    BY <2>1, Zenon
  <2> QED BY <1>3, <2>1, <2>2, Zenon
<1>6. TextOn(d, i, b) \in [1 .. 20 -> Nat]
  <2> HIDE DEF V
  <2> QED BY <1>1, <1>2, Zenon
<1> QED BY <1>4, <1>5, <1>6, Zenon DEF Replaced

TextParts(t, h) == t \in [1 .. 20 -> Nat] /\ h \in SUBSET (0 .. 3)
HasText(e, d, t, h) ==
  /\ e.text = t /\ e.have = h /\ e.second = d.second
  /\ e.Text = IF h = 0 .. 3 THEN t ELSE d.Text

LEMMA WithTextFields ==
  ASSUME NEW d, DemuxType(d), NEW t, NEW h, NEW e, e = WithText(d, t, h)
  PROVE  (TextParts(t, h) => DemuxType(e)) /\ HasText(e, d, t, h)
<1> DEFINE x == IF h = 0 .. 3 THEN t ELSE d.Text
<1>1. d = [buf |-> d.buf, second |-> d.second, text |-> d.text, have |-> d.have,
          Text |-> d.Text, header |-> d.header, Header |-> d.Header]
  BY DEF DemuxType
<1>2. e = [d EXCEPT !.text = t, !.have = h, !.Text = x]
  BY Zenon DEF WithText
<1> HIDE DEF x
<1>3. e = [buf |-> d.buf, second |-> d.second, text |-> t, have |-> h,
          Text |-> x, header |-> d.header, Header |-> d.Header]
  BY <1>1, <1>2
<1>4. /\ e.buf = d.buf /\ e.second = d.second /\ e.text = t /\ e.have = h
      /\ e.Text = x /\ e.header = d.header /\ e.Header = d.Header
  BY <1>3
<1>5. TextParts(t, h) => DemuxType(e)
  BY <1>3, <1>4, Zenon DEF DemuxType, TextParts
<1>6. HasText(e, d, t, h)
  BY <1>4, Zenon DEF HasText, x
<1> QED BY <1>5, <1>6, Zenon

LEMMA WithHeaderFields ==
  ASSUME NEW d, DemuxType(d), NEW h, NEW p, NEW e, e = WithHeader(d, h, p)
  PROVE  DemuxType(e) /\ SameText(e, d) /\ e.second = d.second
<1> DEFINE x == IF p THEN SubSeq(h, 1, 41) ELSE d.Header
<1>1. d = [buf |-> d.buf, second |-> d.second, text |-> d.text, have |-> d.have,
          Text |-> d.Text, header |-> d.header, Header |-> d.Header]
  BY DEF DemuxType
<1>2. e = [d EXCEPT !.header = h, !.Header = x]
  BY Zenon DEF WithHeader
<1> HIDE DEF x
<1>3. e = [buf |-> d.buf, second |-> d.second, text |-> d.text, have |-> d.have,
          Text |-> d.Text, header |-> h, Header |-> x]
  BY <1>1, <1>2
<1>4. /\ e.buf = d.buf /\ e.second = d.second /\ e.text = d.text /\ e.have = d.have
      /\ e.Text = d.Text /\ e.header = h /\ e.Header = x
  BY <1>3
<1> QED BY <1>3, <1>4, Zenon DEF DemuxType, SameText

\* Whatever block it is, in or out of step.
LEMMA AnyBlock ==
  ASSUME NEW d, DemuxType(d), NEW b \in Seq(Nat), Len(b) = 6
  PROVE  DemuxType(OnBlock(d, b)) /\ OnBlock(d, b).second = d.second
<1> DEFINE e == OnBlock(d, b)
           i == b[1] % 16
           t == TextOn(d, i, b)
           h == d.have \cup {i}
<1>1. \/ i \in 0 .. 3 /\ e = WithText(d, t, h)
      \/ e = d
      \/ \E g, p : e = WithHeader(d, g, p)
  BY Outcomes, Zenon
<1> HIDE DEF e
<1>2. CASE i \in 0 .. 3 /\ e = WithText(d, t, h)
  <2>1. d.text \in [1 .. 20 -> Nat] /\ d.have \in SUBSET (0 .. 3)
    BY DEF DemuxType
  <2> HIDE DEF i
  <2>2. t \in [1 .. 20 -> Nat]
    BY <1>2, <2>1, TextOnType, Zenon
  <2>3. h \in SUBSET (0 .. 3)
    BY <1>2, <2>1, Zenon
  <2> HIDE DEF t, h
  <2>4. e = WithText(d, t, h)
    BY <1>2
  <2>5. DemuxType(e) /\ e.second = d.second
    <3>1. TextParts(t, h)
      BY <2>2, <2>3, Zenon DEF TextParts
    <3>2. DemuxType(e) /\ HasText(e, d, t, h)
      BY <2>4, <3>1, WithTextFields, Zenon
    <3> QED BY <3>2, Zenon DEF HasText
  <2> QED BY <2>5, Zenon DEF e
<1>3. CASE e = d
  BY <1>3, Zenon DEF e
<1>4. CASE \E g, p : e = WithHeader(d, g, p)
  <2>1. PICK g, p : e = WithHeader(d, g, p)
    BY <1>4
  <2>2. DemuxType(e) /\ e.second = d.second
    BY <2>1, WithHeaderFields
  <2> QED BY <2>2, Zenon DEF e
<1> QED BY <1>1, <1>2, <1>3, <1>4, Zenon

TextHas(d, i) == i \in d.have /\ \A k \in 1 .. 5 : d.text[5 * i + k] = Text[5 * i + k]

\* Once a superframe was begun in peace both ends are at the same half; the
\* parts of the text that have come are right, and with the last it is shown.
InStep(m, d, c) ==
  c >= AgeOf(m.seq) =>
    /\ d.second = m.second
    /\ m.second => d.buf = SubSeq(blocks[Preceding(m.pos)], 1, 3)
Come(m, c, i) == Since(i, m.pos, m.second) < Done(m.seq, c)
PartsCome(m, d, c) == \A i \in 0 .. 3 : Come(m, c, i) => TextHas(d, i)
TextShown(m, d, c) == (\A i \in 0 .. 3 : Come(m, c, i)) => d.Text = Text

SlowKnown(m, d, c) == InStep(m, d, c) /\ PartsCome(m, d, c) /\ TextShown(m, d, c)

LEMMA TextFn == Text \in [1 .. 20 -> Nat] /\ \A k \in 1 .. 20 : Text[k] % 128 = Text[k]
<1>1. Text \in [1 .. 20 -> 0 .. 127]
  BY SlowAssumption, Zenon
<1>2. ASSUME NEW k \in 1 .. 20 PROVE Text[k] \in Nat /\ Text[k] % 128 = Text[k]
  <2>1. Text[k] \in 0 .. 127
    BY <1>1, Zenon
  <2>2. \A x \in 0 .. 127 : x \in Nat /\ x % 128 = x
    OBVIOUS
  <2> QED BY <2>1, <2>2, Zenon
<1> QED BY <1>1, <1>2, Zenon

\* All of the text, when every part is right.
LEMMA WholeText ==
  ASSUME NEW d, DemuxType(d), \A i \in 0 .. 3 : TextHas(d, i)
  PROVE  d.text = Text
<1>1. d.text \in [1 .. 20 -> Nat]
  BY Zenon DEF DemuxType
<1>2. ASSUME NEW j \in 1 .. 20 PROVE d.text[j] = Text[j]
  <2> DEFINE i == (j - 1) \div 5
             k == j - 5 * i
  <2>1. i \in 0 .. 3 /\ k \in 1 .. 5 /\ 5 * i + k = j
    OBVIOUS
  <2> HIDE DEF i, k
  <2>2. d.text[5 * i + k] = Text[5 * i + k]
    BY <2>1, Zenon DEF TextHas
  <2> QED BY <2>1, <2>2
<1> DEFINE t == d.text
<1> HIDE DEF t
<1>3. t \in [1 .. 20 -> Nat] /\ \A j \in 1 .. 20 : t[j] = Text[j]
  BY <1>1, <1>2, Zenon DEF t
<1>4. Text \in [1 .. 20 -> Nat]
  BY TextFn, Zenon
<1>5. t = Text
  BY <1>3, <1>4
<1> QED BY <1>5 DEF t

\* Nothing is known before anything is begun.
LEMMA NothingCome ==
  ASSUME NEW m, MuxType(m), NEW d, NEW c \in Nat, c < AgeOf(m.seq)
  PROVE  SlowKnown(m, d, c)
<1>1. m.seq \in 0 .. 20 /\ m.pos \in 0 .. 12 /\ m.second \in BOOLEAN
  BY DEF MuxType
<1>2. AgeOf(m.seq) \in 1 .. 21
  BY <1>1 DEF AgeOf
<1>3. Done(m.seq, c) = 0
  BY <1>1, DoneEarly
<1>4. ~(c >= AgeOf(m.seq))
  BY <1>2
<1>5. \A i \in 0 .. 3 : Since(i, m.pos, m.second) \in 0 .. 12
  BY <1>1, SinceBound, Zenon
<1>6. \A i \in 0 .. 3 : ~Come(m, c, i)
  BY <1>3, <1>5 DEF Come
<1>7. 0 \in 0 .. 3
  OBVIOUS
<1> QED BY <1>4, <1>6, <1>7, Zenon DEF SlowKnown, InStep, PartsCome, TextShown

LEMMA MuxedFields ==
  ASSUME NEW m, MuxType(m)
  PROVE  /\ Muxed(m) = [seq |-> (m.seq + 1) % 21, second |-> m.seq # 0 /\ ~m.second,
                        pos |-> IF m.seq # 0 /\ ~m.second THEN (m.pos + 1) % 13 ELSE m.pos]
         /\ Muxed(m).seq = (m.seq + 1) % 21
         /\ Muxed(m).second <=> (m.seq # 0 /\ ~m.second)
         /\ Muxed(m).pos = IF m.seq # 0 /\ ~m.second THEN (m.pos + 1) % 13 ELSE m.pos
         /\ MuxType(Muxed(m))
<1> DEFINE s == (m.seq + 1) % 21
           h == m.seq # 0 /\ ~m.second
           p == IF m.seq # 0 /\ ~m.second THEN (m.pos + 1) % 13 ELSE m.pos
           n == Muxed(m)
<1>1. m.seq \in 0 .. 20 /\ m.pos \in 0 .. 12 /\ (m.second <=> (m.seq # 0 /\ m.seq % 2 = 0))
  BY DEF MuxType
<1>2. n = [seq |-> s, second |-> h, pos |-> p]
  BY Zenon DEF Muxed
<1>3. s \in 0 .. 20
  BY <1>1
<1>4. p \in 0 .. 12
  <2>1. (m.pos + 1) % 13 \in 0 .. 12
    BY <1>1
  <2> QED BY <1>1, <2>1
<1>5. h <=> (s # 0 /\ s % 2 = 0)
  <2>1. CASE m.seq = 0
    BY <1>1, <2>1
  <2>2. CASE m.seq # 0 /\ m.seq % 2 = 0
    <3>1. ~h
      BY <1>1, <2>2, Zenon
    <3>2. s = 0 \/ s % 2 = 1
      BY <1>1, <2>2
    <3> QED BY <3>1, <3>2
  <2>3. CASE m.seq # 0 /\ ~(m.seq % 2 = 0)
    <3>1. h
      BY <1>1, <2>3, Zenon
    <3>2. s # 0 /\ s % 2 = 0
      BY <1>1, <2>3
    <3> QED BY <3>1, <3>2, Zenon
  <2> QED BY <2>1, <2>2, <2>3
<1>6. h \in BOOLEAN
  OBVIOUS
<1> HIDE DEF s, h, p, n
<1>7. n.seq = s /\ n.second = h /\ n.pos = p
  BY <1>2
<1>8. n = [pos |-> n.pos, second |-> n.second, seq |-> n.seq]
  BY <1>2, <1>7
<1>9. MuxType(n)
  BY <1>3, <1>4, <1>5, <1>6, <1>7, <1>8, Zenon DEF MuxType
<1> QED BY <1>2, <1>7, <1>9, Zenon DEF s, h, p, n

\* What is sent are halves of blocks.
LEMMA BlockHalves ==
  ASSUME NEW p \in 0 .. 12
  PROVE  /\ SubSeq(blocks[p], 1, 3) \in Seq(Nat) /\ Len(SubSeq(blocks[p], 1, 3)) = 3
         /\ SubSeq(blocks[p], 4, 6) \in Seq(Nat) /\ Len(SubSeq(blocks[p], 4, 6)) = 3
         /\ SubSeq(blocks[p], 1, 3) \o SubSeq(blocks[p], 4, 6) = blocks[p]
<1> DEFINE b == blocks[p]
<1>1. b \in Seq(Nat) /\ Len(b) = 6
  BY BlockFacts, Zenon
<1> HIDE DEF b
<1> DEFINE x == SubSeq(b, 1, 3)
           y == SubSeq(b, 4, 6)
<1>2. x \o y = b
  BY <1>1, Halves6
<1>3. /\ 1 \in Nat \ {0} /\ 3 \in Nat /\ 1 <= 3 /\ 3 <= Len(b) /\ 3 = 3 - 1 + 1
      /\ 4 \in Nat \ {0} /\ 6 \in Nat /\ 4 <= 6 /\ 6 <= Len(b) /\ 3 = 6 - 4 + 1
  BY <1>1
<1> HIDE DEF x, y
<1>4. x = SubSeq(b, 1, 3) /\ y = SubSeq(b, 4, 6)
  BY DEF x, y
<1>5. PartOf(x, Nat, b, 1, 3)
  BY <1>1, <1>3, <1>4, Part
<1>6. PartOf(y, Nat, b, 4, 3)
  BY <1>1, <1>3, <1>4, Part
<1> QED BY <1>2, <1>5, <1>6, Zenon DEF PartOf, x, y, b

\* Of a block of the sender the right text comes.
BlockTaken(d, p, e) ==
  /\ \A i \in 0 .. 3 : i = p \/ TextHas(d, i) => TextHas(e, i)
  /\ p < 4 /\ (\A i \in 0 .. 3 : i = p \/ TextHas(d, i)) => e.Text = Text
  /\ ~(p < 4) => e.Text = d.Text

LEMMA BlockRead ==
  ASSUME NEW d, DemuxType(d), NEW p \in 0 .. 12, NEW e, e = OnBlock(d, blocks[p])
  PROVE  BlockTaken(d, p, e)
<1> DEFINE b == blocks[p]
<1>1. /\ b \in Seq(Nat) /\ Len(b) = 6
      /\ p < 4 => b[1] = 64 + p /\ \A k \in 1 .. 5 : b[k + 1] = Text[5 * p + k]
      /\ p >= 4 => b[1] \in 81 .. 85
  BY BlockFacts, Zenon
<1> HIDE DEF b
<1>2. e = OnBlock(d, b)
  BY DEF b
<1>3. DemuxType(e)
  BY <1>1, <1>2, AnyBlock, Zenon
<1>4. CASE p < 4
  <2>1. p \in 0 .. 3 /\ b[1] = 64 + p /\ \A k \in 1 .. 5 : b[k + 1] = Text[5 * p + k]
    <3>1. p \in 0 .. 3
      BY <1>4
    <3>2. b[1] = 64 + p /\ \A k \in 1 .. 5 : b[k + 1] = Text[5 * p + k]
      BY <1>1, <1>4, Zenon
    <3> QED BY <3>1, <3>2, Zenon
  <2>2. (b[1] \div 16) * 16 = 64 /\ b[1] % 16 = p
    <3>1. \A x : x = 64 + p => (x \div 16) * 16 = 64 /\ x % 16 = p
      BY <2>1
    <3> QED BY <2>1, <3>1, Zenon
  <2> DEFINE t == TextOn(d, p, b)
             h == d.have \cup {p}
  <2>3. e = WithText(d, t, h)
    BY <1>1, <1>2, <2>1, <2>2, Outcomes, Zenon
  <2>4. d.text \in [1 .. 20 -> Nat] /\ d.have \in SUBSET (0 .. 3)
    BY DEF DemuxType
  <2>5. /\ \A k \in 1 .. 5 : t[5 * p + k] = b[k + 1] % 128
        /\ \A j \in 0 .. 3, k \in 1 .. 5 : ~(p = j) => t[5 * j + k] = d.text[5 * j + k]
    <3>1. Replaced(t, d, p, b)
      BY <1>1, <2>1, TextOnType, Zenon
    <3> QED BY <3>1, Zenon DEF Replaced
  <2> HIDE DEF t
  <2>6. HasText(e, d, t, h)
    BY <2>3, WithTextFields, Zenon
  <2>7. /\ e.text = t /\ e.have = h /\ e.Text = IF h = 0 .. 3 THEN t ELSE d.Text
    BY <2>6, Zenon DEF HasText
  <2>8. ASSUME NEW k \in 1 .. 5 PROVE e.text[5 * p + k] = Text[5 * p + k]
    <3>1. 5 * p + k \in 1 .. 20
      BY <2>1
    <3> QED BY <2>1, <2>5, <2>7, <3>1, TextFn, SMT
  <2>9. TextHas(e, p)
    BY <2>7, <2>8, Zenon DEF TextHas
  <2>10. ASSUME NEW i \in 0 .. 3, i = p \/ TextHas(d, i) PROVE TextHas(e, i)
    <3>1. CASE i = p
      BY <2>9, <3>1, Zenon
    <3>2. CASE ~(p = i) /\ TextHas(d, i)
      <4>1. \A k \in 1 .. 5 : e.text[5 * i + k] = d.text[5 * i + k]
        BY <2>5, <2>7, <3>2, Zenon
      <4> QED BY <2>7, <3>2, <4>1, Zenon DEF TextHas
    <3> QED BY <2>10, <3>1, <3>2, Zenon
  <2>11. ASSUME \A i \in 0 .. 3 : i = p \/ TextHas(d, i) PROVE e.Text = Text
    <3>1. \A i \in 0 .. 3 : TextHas(e, i)
      BY <2>10, <2>11, Zenon
    <3>2. e.text = Text
      BY <1>3, <3>1, WholeText, Zenon
    <3>3. h = 0 .. 3
      <4>1. \A i \in 0 .. 3 : i \in h
        BY <2>7, <3>1, Zenon DEF TextHas
      <4>2. h \in SUBSET (0 .. 3)
        BY <2>1, <2>4, Zenon
      <4> QED BY <4>1, <4>2, Zenon
    <3> QED BY <2>7, <3>2, <3>3, Zenon
  <2> QED BY <1>4, <2>10, <2>11, Zenon DEF BlockTaken
<1>5. CASE ~(p < 4)
  <2>1. p >= 4 /\ \A i \in 0 .. 3 : ~(i = p)
    BY <1>5
  <2>2. ~((b[1] \div 16) * 16 = 64)
    <3>1. \A x \in 81 .. 85 : ~((x \div 16) * 16 = 64)
      OBVIOUS
    <3> QED BY <1>1, <2>1, <3>1, Zenon
  <2>3. e = d \/ \E g, qt : e = WithHeader(d, g, qt)
    <3>1. \/ (b[1] \div 16) * 16 = 64
          \/ OnBlock(d, b) = d
          \/ \E g, qt : OnBlock(d, b) = WithHeader(d, g, qt)
      BY <1>1, Outcomes
    <3> QED BY <1>2, <2>2, <3>1, Zenon
  <2>4. SameText(e, d)
    <3>1. CASE e = d
      BY <3>1, Zenon DEF SameText
    <3>2. CASE \E g, qt : e = WithHeader(d, g, qt)
      <4>1. PICK g, qt : e = WithHeader(d, g, qt)
        BY <3>2
      <4> QED BY <4>1, WithHeaderFields
    <3> QED BY <2>3, <3>1, <3>2
  <2>5. \A i \in 0 .. 3 : TextHas(d, i) => TextHas(e, i)
    BY <2>4, Zenon DEF SameText, TextHas
  <2> QED BY <1>5, <2>1, <2>4, <2>5, Zenon DEF SameText, BlockTaken
<1> QED BY <1>4, <1>5

\* The first frame of a superframe.
LEMMA SyncStep ==
  ASSUME NEW m, MuxType(m), NEW d, DemuxType(d), NEW c \in Nat, SlowKnown(m, d, c),
         m.seq = 0, NEW e, e = Synced(d)
  PROVE  DemuxType(e) /\ SlowKnown(Muxed(m), e, c + 1)
<1> DEFINE n == Muxed(m)
<1>1. n.seq = 1 /\ n.second = FALSE /\ n.pos = m.pos /\ m.second = FALSE
  <2>1. /\ n.seq = (m.seq + 1) % 21 /\ (n.second <=> (m.seq # 0 /\ ~m.second))
        /\ n.pos = IF m.seq # 0 /\ ~m.second THEN (m.pos + 1) % 13 ELSE m.pos
        /\ MuxType(n)
    BY MuxedFields, Zenon
  <2>2. n.second \in BOOLEAN /\ m.second \in BOOLEAN /\ (m.second <=> m.seq # 0 /\ m.seq % 2 = 0)
    BY <2>1, Zenon DEF MuxType
  <2>3. (0 + 1) % 21 = 1
    OBVIOUS
  <2>4. n.seq = 1
    BY <2>1, <2>3, Zenon
  <2> QED BY <2>1, <2>2, <2>4, Zenon
<1> HIDE DEF n
<1>2. DemuxType(e) /\ SameText(e, d) /\ e.second = FALSE
  BY Ends, Zenon DEF Synced
<1>3. Done(1, c + 1) = Done(0, c)
  BY DoneSync
<1>4. \A i \in 0 .. 3 : Come(n, c + 1, i) <=> Come(m, c, i)
  BY <1>1, <1>3, Zenon DEF Come
<1>5. \A i \in 0 .. 3 : TextHas(d, i) => TextHas(e, i)
  BY <1>2, SMT DEF TextHas, SameText
<1>6. InStep(n, e, c + 1)
  BY <1>1, <1>2, Zenon DEF InStep
<1>7. PartsCome(n, e, c + 1) /\ TextShown(n, e, c + 1)
  BY <1>2, <1>4, <1>5, Zenon DEF SlowKnown, PartsCome, TextShown, SameText
<1> QED BY <1>2, <1>6, <1>7, Zenon DEF SlowKnown, n

\* A block begins.
LEMMA FirstHalf ==
  ASSUME NEW m, MuxType(m), NEW d, DemuxType(d), NEW c \in Nat, SlowKnown(m, d, c),
         ~(m.seq = 0), m.second = FALSE, c >= m.seq,
         NEW x, x = SubSeq(blocks[m.pos], 1, 3),
         NEW e, e = Holding(d, x)
  PROVE  DemuxType(e) /\ SlowKnown(Muxed(m), e, c + 1)
<1> DEFINE n == Muxed(m)
           s == m.seq
           p == m.pos
<1>1. s \in 1 .. 20 /\ p \in 0 .. 12 /\ ~(s % 2 = 0)
  BY DEF MuxType
<1>2. s \in 1 .. 19 /\ s % 2 = 1 /\ (s + 1) % 21 = s + 1
  BY <1>1
<1>3. n.seq = s + 1 /\ n.second = TRUE /\ n.pos = (p + 1) % 13
  <2>1. /\ n.seq = (s + 1) % 21 /\ (n.second <=> (s # 0 /\ ~m.second))
        /\ n.pos = IF s # 0 /\ ~m.second THEN (p + 1) % 13 ELSE p
        /\ MuxType(n)
    BY MuxedFields, Zenon
  <2>2. n.second \in BOOLEAN
    BY <2>1, Zenon DEF MuxType
  <2> QED BY <1>2, <2>1, <2>2, Zenon
<1> HIDE DEF n, s, p
<1>4. HalfOf(x)
  BY <1>1, BlockHalves, Zenon DEF p, HalfOf
<1>5. DemuxType(e) /\ SameText(e, d) /\ e.second = TRUE /\ e.buf = x
  <2>1. DemuxType(e) /\ Held(e, d, x)
    BY <1>4, Begins, Zenon
  <2> QED BY <2>1, Zenon DEF Held
<1>6. Done(s + 1, c + 1) = Done(s, c)
  BY <1>2, DoneBegins
<1>7. \A i \in 0 .. 3 : Since(i, (p + 1) % 13, TRUE) = Since(i, p, FALSE)
  BY <1>1, SinceBegins
<1>8. \A i \in 0 .. 3 : Come(n, c + 1, i) <=> Come(m, c, i)
  BY <1>3, <1>6, <1>7, Zenon DEF Come, s, p
<1>9. \A i \in 0 .. 3 : TextHas(d, i) => TextHas(e, i)
  BY <1>5, Zenon DEF TextHas, SameText
<1>10. Preceding((p + 1) % 13) = p
  BY <1>1, Turning, Zenon
<1>11. InStep(n, e, c + 1)
  BY <1>3, <1>5, <1>10, Zenon DEF InStep, p
<1>12. PartsCome(n, e, c + 1) /\ TextShown(n, e, c + 1)
  BY <1>5, <1>8, <1>9, Zenon DEF SlowKnown, PartsCome, TextShown, SameText
<1> QED BY <1>5, <1>11, <1>12, Zenon DEF SlowKnown, n

\* A block ends.
LEMMA SecondHalf ==
  ASSUME NEW m, MuxType(m), NEW d, DemuxType(d), NEW c \in Nat, SlowKnown(m, d, c),
         ~(m.seq = 0), m.second = TRUE, c >= m.seq,
         NEW f, f = [d EXCEPT !.buf = <<>>, !.second = FALSE],
         NEW e, e = OnBlock(f, blocks[Preceding(m.pos)])
  PROVE  DemuxType(e) /\ SlowKnown(Muxed(m), e, c + 1)
<1> DEFINE n == Muxed(m)
           s == m.seq
           p == m.pos
           qt == Preceding(p)
<1>1. s \in 1 .. 20 /\ p \in 0 .. 12 /\ s % 2 = 0
  BY DEF MuxType
<1>2. n.seq = (s + 1) % 21 /\ n.second = FALSE /\ n.pos = p
  <2>1. /\ n.seq = (s + 1) % 21 /\ (n.second <=> (s # 0 /\ ~m.second))
        /\ n.pos = IF s # 0 /\ ~m.second THEN (p + 1) % 13 ELSE p
        /\ MuxType(n)
    BY MuxedFields, Zenon
  <2>2. n.second \in BOOLEAN
    BY <2>1, Zenon DEF MuxType
  <2> QED BY <2>1, <2>2, Zenon
<1> HIDE DEF n, s
<1>3. qt \in 0 .. 12
  BY <1>1, Turning, Zenon
<1>4. DemuxType(f) /\ SameText(f, d) /\ f.second = FALSE
  BY Ends, Zenon
<1>5. blocks[qt] \in Seq(Nat) /\ Len(blocks[qt]) = 6
  BY <1>3, BlockFacts, Zenon
<1>6. DemuxType(e) /\ e.second = FALSE
  BY <1>4, <1>5, AnyBlock, Zenon
<1>7. BlockTaken(f, qt, e)
  <2> HIDE DEF qt
  <2>1. e = OnBlock(f, blocks[qt])
    BY DEF qt, p
  <2> QED BY <1>3, <1>4, <2>1, BlockRead, Zenon
<1>8. Done((s + 1) % 21, c + 1) = Done(s, c) + 1
  BY <1>1, DoneEnds DEF s
<1>9. \A i \in 0 .. 3 : ~(i = qt) => Since(i, p, FALSE) = Since(i, p, TRUE) + 1
  BY <1>1, SinceEnds
<1>10. Done(s, c) \in Int
  <2>1. AgeOf(s) = s
    BY <1>1 DEF AgeOf
  <2> HIDE DEF s
  <2>2. (c - s) \div 21 \in Int /\ (s - 1) \div 2 \in Int
    BY <1>1
  <2>3. Done(s, c) = IF c < s THEN 0 ELSE 10 * ((c - s) \div 21) + ((s - 1) \div 2)
    BY <2>1, Zenon DEF Done
  <2> QED BY <2>2, <2>3
<1> HIDE DEF p, qt
<1>11. \A i \in 0 .. 3 : Since(i, p, TRUE) \in 0 .. 12 /\ Since(i, p, FALSE) \in 0 .. 12
  BY <1>1, SinceBound
<1>12. \A i \in 0 .. 3 : Come(n, c + 1, i) => i = qt \/ Come(m, c, i)
  <2> SUFFICES ASSUME NEW i \in 0 .. 3, Come(n, c + 1, i), ~(i = qt) PROVE Come(m, c, i)
    OBVIOUS
  <2>1. Since(i, p, FALSE) < Done((s + 1) % 21, c + 1)
    BY <1>2, Zenon DEF Come
  <2>2. Since(i, p, TRUE) + 1 < Done(s, c) + 1
    BY <1>8, <1>9, <2>1, Zenon
  <2>3. Since(i, p, TRUE) < Done(s, c)
    <3> DEFINE u == Since(i, p, TRUE)
               v == Done(s, c)
    <3>1. u \in 0 .. 12 /\ v \in Int /\ u + 1 < v + 1
      BY <1>10, <1>11, <2>2, Zenon
    <3> HIDE DEF u, v
    <3>2. u < v
      BY <3>1
    <3> QED BY <3>2 DEF u, v
  <2> QED BY <2>3, Zenon DEF Come, p, s
<1>13. \A i \in 0 .. 3 : TextHas(d, i) => TextHas(f, i)
  BY <1>4, Zenon DEF TextHas, SameText
<1>14. PartsCome(n, e, c + 1)
  BY <1>7, <1>12, <1>13, Zenon DEF SlowKnown, PartsCome, BlockTaken
<1>15. TextShown(n, e, c + 1)
  <2> SUFFICES ASSUME \A i \in 0 .. 3 : Come(n, c + 1, i) PROVE e.Text = Text
    BY Zenon DEF TextShown
  <2>1. \A i \in 0 .. 3 : i = qt \/ TextHas(f, i)
    BY <1>12, <1>13, Zenon DEF SlowKnown, PartsCome
  <2>2. CASE qt < 4
    BY <1>7, <2>1, <2>2, Zenon DEF BlockTaken
  <2>3. CASE ~(qt < 4)
    <3>1. \A i \in 0 .. 3 : ~(i = qt)
      BY <1>3, <2>3
    <3>2. \A i \in 0 .. 3 : Come(m, c, i)
      BY <1>12, <3>1, Zenon
    <3>3. d.Text = Text
      BY <3>2, Zenon DEF SlowKnown, TextShown
    <3> QED BY <1>4, <1>7, <2>1, <2>3, <3>3, Zenon DEF SameText, BlockTaken
  <2> QED BY <2>2, <2>3
<1>16. InStep(n, e, c + 1)
  BY <1>2, <1>6, Zenon DEF InStep
<1> QED BY <1>6, <1>14, <1>15, <1>16, Zenon DEF SlowKnown, n

\* Whatever is heard, the types are kept.
LEMMA HeardType ==
  ASSUME NEW m, MuxType(m), NEW d, DemuxType(d), NEW e, e = Demuxed(d, m.seq, Next3(m))
  PROVE  DemuxType(e)
<1> DEFINE x == Next3(m)
<1>1. CASE m.seq = 0
  <2>1. e = Synced(d)
    BY <1>1, Zenon DEF Demuxed
  <2> QED BY <2>1, Ends, Zenon DEF Synced
<1>2. CASE ~(m.seq = 0)
  <2>1. x \in Seq(Nat) /\ Len(x) = 3
    <3>1. m.pos \in 0 .. 12 /\ Preceding(m.pos) \in 0 .. 12
      BY Turning, Zenon DEF MuxType
    <3>2. \/ x = SubSeq(blocks[Preceding(m.pos)], 4, 6)
          \/ x = SubSeq(blocks[m.pos], 1, 3)
      BY <1>2, Zenon DEF Next3, Preceding
    <3> QED BY <3>1, <3>2, BlockHalves, Zenon
  <2> HIDE DEF x
  <2>2. CASE ~d.second
    <3>1. e = Holding(d, x)
      BY <1>2, <2>2, Zenon DEF Demuxed, Holding, x
    <3>2. HalfOf(x)
      BY <2>1, Zenon DEF HalfOf
    <3> QED BY <3>1, <3>2, Begins, Zenon
  <2>3. CASE d.second
    <3> DEFINE f == [d EXCEPT !.buf = <<>>, !.second = FALSE]
               a == d.buf
               b == a \o x
    <3>1. e = OnBlock(f, b)
      BY <1>2, <2>3, Zenon DEF Demuxed, x
    <3>2. DemuxType(f)
      BY Ends, Zenon
    <3>3. a \in Seq(Nat) /\ Len(a) = 3
      BY <2>3, Zenon DEF DemuxType
    <3> HIDE DEF a, b, f
    <3>4. b = a \o x /\ 3 \in Nat
      BY DEF b
    <3>5. Joined(b, Nat, a, x, 3, 3)
      BY <2>1, <3>3, <3>4, TwoParts
    <3>6. b \in Seq(Nat) /\ Len(b) = 3 + 3
      BY <3>5, Zenon DEF Joined
    <3>7. Len(b) = 6
      BY <3>6
    <3> QED BY <3>1, <3>2, <3>6, <3>7, AnyBlock, Zenon
  <2> QED BY <2>2, <2>3
<1> QED BY <1>1, <1>2

LEMMA HearStep ==
  ASSUME NEW m, MuxType(m), NEW d, DemuxType(d), NEW c \in Nat, SlowKnown(m, d, c),
         NEW e, e = Demuxed(d, m.seq, Next3(m))
  PROVE  SlowKnown(Muxed(m), e, c + 1)
<1>1. m.seq \in 0 .. 20 /\ m.pos \in 0 .. 12 /\ m.second \in BOOLEAN /\ d.second \in BOOLEAN
  BY Zenon DEF MuxType, DemuxType
<1>2. m.second <=> (m.seq # 0 /\ m.seq % 2 = 0)
  BY Zenon DEF MuxType
<1>3. CASE m.seq = 0
  <2>1. e = Synced(d)
    BY <1>3, Zenon DEF Demuxed
  <2> QED BY <1>3, <2>1, SyncStep, Zenon
<1>4. CASE ~(m.seq = 0) /\ c >= m.seq
  <2>1. d.second = m.second /\ (m.second => d.buf = SubSeq(blocks[Preceding(m.pos)], 1, 3))
    BY <1>4, Zenon DEF SlowKnown, InStep, AgeOf
  <2>2. CASE m.second = FALSE
    <3> DEFINE x == SubSeq(blocks[m.pos], 1, 3)
    <3>1. e = Holding(d, x)
      BY <1>4, <2>1, <2>2, Zenon DEF Demuxed, Next3, Holding
    <3> QED BY <1>4, <2>2, <3>1, FirstHalf, Zenon
  <2>3. CASE m.second = TRUE
    <3> DEFINE f == [d EXCEPT !.buf = <<>>, !.second = FALSE]
               qt == Preceding(m.pos)
    <3>1. e = OnBlock(f, d.buf \o SubSeq(blocks[qt], 4, 6))
      BY <1>4, <2>1, <2>3, Zenon DEF Demuxed, Next3, Preceding
    <3>2. qt \in 0 .. 12
      BY <1>1, Turning, Zenon
    <3>3. SubSeq(blocks[qt], 1, 3) \o SubSeq(blocks[qt], 4, 6) = blocks[qt]
      BY <3>2, BlockHalves, Zenon
    <3>4. e = OnBlock(f, blocks[qt])
      BY <2>1, <2>3, <3>1, <3>3, Zenon
    <3> QED BY <1>4, <2>3, <3>4, SecondHalf, Zenon
  <2> QED BY <1>1, <2>2, <2>3, Zenon
<1>5. CASE ~(m.seq = 0) /\ ~(c >= m.seq)
  <2> DEFINE n == Muxed(m)
  <2>1. MuxType(n) /\ n.seq = (m.seq + 1) % 21
    BY MuxedFields, Zenon
  <2>2. c + 1 < AgeOf((m.seq + 1) % 21) /\ c + 1 \in Nat
    BY <1>1, <1>5 DEF AgeOf
  <2> QED BY <2>1, <2>2, NothingCome, Zenon
<1> QED BY <1>3, <1>4, <1>5


SlowInv ==
  /\ MuxType(mux) /\ DemuxType(demux) /\ clear \in 0 .. 84
  /\ SlowKnown(mux, demux, clear)

LEMMA StartKnown ==
  ASSUME NEW m \in Starts, NEW d, d = NewDemuxer
  PROVE  MuxType(m) /\ DemuxType(d) /\ SlowKnown(m, d, 0)
<1>1. m = [pos |-> m.pos, second |-> FALSE, seq |-> 0] /\ m.pos \in 0 .. 12
  BY SlowAssumption, Zenon
<1>2. m.second = FALSE /\ m.seq = 0
  BY <1>1
<1>3. MuxType(m)
  <2>1. 0 \in 0 .. 20
    OBVIOUS
  <2>2. m = [pos |-> m.pos, second |-> m.second, seq |-> m.seq]
    BY <1>1, <1>2
  <2> QED BY <1>1, <1>2, <2>1, <2>2, Zenon DEF MuxType
<1>4. DemuxType(d)
  <2>1. d = [buf |-> <<>>, second |-> FALSE, text |-> [i \in 1 .. 20 |-> 0],
             have |-> {}, Text |-> <<>>, header |-> <<>>, Header |-> <<>>]
    BY DEF NewDemuxer
  <2>2. /\ d.buf = <<>> /\ d.second = FALSE /\ d.text = [i \in 1 .. 20 |-> 0]
        /\ d.have = {} /\ d.Text = <<>> /\ d.header = <<>> /\ d.Header = <<>>
    BY <2>1
  <2>3. d = [buf |-> d.buf, second |-> d.second, text |-> d.text, have |-> d.have,
          Text |-> d.Text, header |-> d.header, Header |-> d.Header]
    BY <2>1
  <2>4. d.text \in [1 .. 20 -> Nat]
    BY <2>2
  <2> QED BY <2>2, <2>3, <2>4, Zenon DEF DemuxType
<1>5. 0 \in Nat /\ 0 < AgeOf(m.seq)
  BY <1>2 DEF AgeOf
<1> QED BY <1>3, <1>4, <1>5, NothingCome, Zenon

LEMMA SlowInvInit == SlowInit => SlowInv
<1> SUFFICES ASSUME SlowInit PROVE SlowInv
  OBVIOUS
<1>1. mux \in Starts /\ demux = NewDemuxer /\ clear = 0
  BY Zenon DEF SlowInit
<1>2. 0 \in 0 .. 84
  OBVIOUS
<1> QED BY <1>1, <1>2, StartKnown, Zenon DEF SlowInv

LEMMA SlowInvNext == SlowInv /\ [SlowNext]_<<mux, demux, lost, clear>> => SlowInv'
<1> SUFFICES ASSUME SlowInv, [SlowNext]_<<mux, demux, lost, clear>> PROVE SlowInv'
  OBVIOUS
<1>1. MuxType(mux) /\ DemuxType(demux) /\ clear \in 0 .. 84 /\ SlowKnown(mux, demux, clear)
  BY Zenon DEF SlowInv
<1>2. CASE Hear
  <2> DEFINE n == Muxed(mux)
             e == Demuxed(demux, mux.seq, Next3(mux))
  <2>1. clear < 84 /\ mux' = n /\ demux' = e /\ clear' = Min({clear + 1, 84})
    BY <1>2 DEF Hear, Cycle
  <2>2. clear \in Nat /\ clear' = clear + 1 /\ clear + 1 \in 0 .. 84
    <3>1. clear + 1 \in Nat /\ 84 \in Nat
      BY <1>1
    <3>2. Min({clear + 1, 84}) = IF clear + 1 <= 84 THEN clear + 1 ELSE 84
      BY <3>1, MinOf
    <3> QED BY <1>1, <2>1, <3>2
  <2>3. MuxType(n)
    BY <1>1, MuxedFields, Zenon
  <2>4. DemuxType(e)
    BY <1>1, HeardType, Zenon
  <2>5. SlowKnown(n, e, clear + 1)
    BY <1>1, <2>2, HearStep, Zenon
  <2> QED BY <2>1, <2>2, <2>3, <2>4, <2>5, Zenon DEF SlowInv
<1>3. CASE Miss
  <2> DEFINE n == Muxed(mux)
  <2>1. mux' = n /\ demux' = demux /\ clear' = 0
    BY <1>3, Zenon DEF Miss
  <2>2. MuxType(n)
    BY <1>1, MuxedFields, Zenon
  <2>3. 0 \in Nat /\ 0 < AgeOf(n.seq) /\ 0 \in 0 .. 84
    <3>1. n.seq \in 0 .. 20
      BY <2>2, Zenon DEF MuxType
    <3> QED BY <3>1 DEF AgeOf
  <2>4. SlowKnown(n, demux, 0)
    BY <2>2, <2>3, NothingCome, Zenon
  <2> QED BY <1>1, <2>1, <2>2, <2>3, <2>4, Zenon DEF SlowInv
<1>4. CASE NextCall
  <2>1. mux' \in Starts /\ demux' = NewDemuxer /\ clear' = 0
    BY <1>4, Zenon DEF NextCall
  <2>2. 0 \in 0 .. 84
    OBVIOUS
  <2> QED BY <2>1, <2>2, StartKnown, Zenon DEF SlowInv
<1>5. CASE UNCHANGED <<mux, demux, lost, clear>>
  <2>1. mux' = mux /\ demux' = demux /\ clear' = clear
    BY <1>5
  <2> QED BY <1>1, <2>1, Zenon DEF SlowInv
<1> QED BY <1>2, <1>3, <1>4, <1>5, Zenon DEF SlowNext

LEMMA TextSafe == SlowInv => TextHeals
<1> SUFFICES ASSUME SlowInv, clear = Cycle PROVE demux.Text = Text
  BY DEF TextHeals
<1>1. MuxType(mux) /\ SlowKnown(mux, demux, clear) /\ clear = 84
  BY DEF SlowInv, Cycle
<1>2. mux.seq \in 0 .. 20 /\ mux.pos \in 0 .. 12 /\ mux.second \in BOOLEAN
  BY <1>1, Zenon DEF MuxType
<1>3. Done(mux.seq, clear) >= 30
  BY <1>1, <1>2, DoneLate, Zenon
<1>4. Done(mux.seq, clear) \in Int
  <2>1. ASSUME NEW a \in 1 .. 21
        PROVE  /\ ~(84 < a)
               /\ (84 - a) \div 21 \in Int /\ (a - 1) \div 2 \in Int
    OBVIOUS
  <2>2. AgeOf(mux.seq) \in 1 .. 21
    BY <1>2 DEF AgeOf
  <2> QED BY <1>1, <2>1, <2>2 DEF Done
<1>5. \A i \in 0 .. 3 : Since(i, mux.pos, mux.second) \in 0 .. 12
  BY <1>2, SinceBound, Zenon
<1>6. \A i \in 0 .. 3 : Come(mux, clear, i)
  BY <1>3, <1>4, <1>5 DEF Come
<1> QED BY <1>1, <1>6, Zenon DEF SlowKnown, TextShown

\* Muxer.Next and Demuxer.Add: after a superframe to get in step, and the
\* blocks of the text in any of their turns, the text is shown as it was sent,
\* however many frames were lost before and wherever the listener came in.
THEOREM TextHealsAlways == SlowSpec => []TextHeals
<1>1. SlowSpec => []SlowInv
  BY SlowInvInit, SlowInvNext, PTL DEF SlowSpec
<1> QED BY <1>1, TextSafe, PTL

-----------------------------------------------------------------------------
(* The bridge as a whole: its paths share no state                         *)

LEMMA CallsApart == [DVXNext]_dvxVars => [DStarNext]_dstarVars
<1>1. BridgeNext => [DStarNext]_dstarVars
  BY Zenon DEF BridgeNext
<1>2. UNCHANGED dvxVars => UNCHANGED dstarVars
  BY Zenon DEF dvxVars
<1> QED BY <1>1, <1>2, Zenon DEF DVXNext

LEMMA VoiceApart == [DVXNext]_dvxVars => [XcNext]_xcVars
<1>1. BridgeNext => UNCHANGED xcVars
  BY Zenon DEF BridgeNext
<1>2. UNCHANGED dvxVars => UNCHANGED xcVars
  BY Zenon DEF dvxVars
<1> QED BY <1>1, <1>2, Zenon DEF DVXNext

LEMMA AliasApart == [DVXNext]_dvxVars => [LinkNext]_linkVars
<1>1. BridgeNext => UNCHANGED linkVars
  BY Zenon DEF BridgeNext
<1>2. UNCHANGED dvxVars => UNCHANGED linkVars
  BY Zenon DEF dvxVars
<1> QED BY <1>1, <1>2, Zenon DEF DVXNext

LEMMA SlowApart == [DVXNext]_dvxVars => [SlowNext]_slowVars
<1>1. BridgeNext => UNCHANGED slowVars
  BY Zenon DEF BridgeNext
<1>2. UNCHANGED dvxVars => UNCHANGED slowVars
  BY Zenon DEF dvxVars
<1> QED BY <1>1, <1>2, Zenon DEF DVXNext

\* DVXCode puts the parts of dvxbridge beside each other: each of them behaves
\* as its own module says, whatever the others do.
THEOREM PathsApart == DVXSpec => DStarSpec /\ XcSpec /\ LinkSpec /\ SlowSpec
<1>1. DVXInit => DStarInit /\ XcInit /\ LinkInit /\ SlowInit
  BY Zenon DEF DVXInit
<1> QED BY <1>1, CallsApart, VoiceApart, AliasApart, SlowApart, PTL
        DEF DVXSpec, DStarSpec, XcSpec, LinkSpec, SlowSpec, linkVars, slowVars

\* Only on the path that is looked at there are frames in the air.
AirOnPath == IF path = "air" THEN AirInv ELSE frame = [kind |-> "none"]

LEMMA AirOnPathInit == DVXInit => AirOnPath
BY AirInvInit, Zenon DEF DVXInit, AirOnPath

LEMMA AirOnPathNext == AirOnPath /\ [DVXNext]_dvxVars => AirOnPath'
<1> SUFFICES ASSUME AirOnPath, [DVXNext]_dvxVars PROVE AirOnPath'
  OBVIOUS
<1>1. path' = path
  BY Zenon DEF DVXNext, BridgeNext, dvxVars
<1>2. CASE UNCHANGED airVars
  BY <1>1, <1>2, Zenon DEF airVars, AirOnPath, AirInv
<1>3. CASE path = "air" /\ AirNext
  BY <1>1, <1>3, AirInvNext, Zenon DEF AirOnPath
<1>4. UNCHANGED airVars \/ (path = "air" /\ AirNext)
  BY Zenon DEF DVXNext, BridgeNext, dvxVars
<1> QED BY <1>2, <1>3, <1>4

LEMMA AirOnPathSafe == AirOnPath => NoiseCorrected
<1> SUFFICES ASSUME AirOnPath PROVE NoiseCorrected
  OBVIOUS
<1>1. CASE path = "air"
  BY <1>1, VoiceSafe, SlotTypeSafe, LCFadeSafe, Zenon DEF AirOnPath, NoiseCorrected
<1>2. CASE path # "air"
  <2>1. frame.kind \notin VoiceKinds /\ frame.kind \notin LCKinds
    BY <1>2 DEF AirOnPath, VoiceKinds, LCKinds
  <2> QED BY <2>1, Zenon
          DEF NoiseCorrected, VoiceRight, VoiceFadeHarmless, SlotTypeRight, LCFadeHarmless
<1> QED BY <1>1, <1>2

\* ambe.Decode, mbe.Whiten, dmr.SlotType and dmr.DecodeFullLC: in every voice
\* frame of either mode, whatever its parameters, up to three bits turned over
\* in each of the two protected words are put right, and with four in the first
\* the frame is not trusted; so no fade of five neighbouring bits does any harm.
\* In every header or terminator three bits turned over in the slot type leave
\* it known what the burst carries, and a fade of eight bits its link control.
THEOREM NoiseCorrectedAlways == DVXSpec => []NoiseCorrected
<1>1. DVXSpec => []AirOnPath
  BY AirOnPathInit, AirOnPathNext, PTL DEF DVXSpec
<1> QED BY <1>1, AirOnPathSafe, PTL

\* refreshMeta and Demuxer.Add, on either side of the bridge: however much was
\* lost before, in the time the property names a radio shows the alias, and a
\* D-STAR set the text, that is being sent.
THEOREM CallerHealsAlways == DVXSpec => []CallerHeals
<1>1. AliasHeals /\ TextHeals => CallerHeals
  BY Zenon DEF CallerHeals
<1> QED BY <1>1, PathsApart, AliasHealsAlways, TextHealsAlways, PTL

\* In the bridge as a whole what is heard of a call is right on every path: the
\* superframes and the link control of a call, the voice, and what is shown of
\* its caller, the alias on DMR and the text on D-STAR.
THEOREM BridgeSafe == DVXSpec => [](CallsWhole /\ NoiseCorrected /\ CallerHeals) /\ VoiceClean
BY PathsApart, CallsStayWhole, NoiseCorrectedAlways, CallerHealsAlways, VoiceStaysClean, PTL

=============================================================================
