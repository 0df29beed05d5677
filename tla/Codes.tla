-------------------------------- MODULE Codes --------------------------------
(***************************************************************************)
(* The error-correcting codes of dvxcode: internal/golay, dmr/fec.go, the  *)
(* bursts and link control words of dmr/burst.go and dmr/lc.go, and the    *)
(* voice frames of ambe/frame.go.  A word is the set of the positions at   *)
(* which it holds a 1, and noise adds to it modulo 2.                      *)
(***************************************************************************)
EXTENDS Integers, Sequences, FiniteSets, FiniteSetsExt

Odd(S) == Cardinality(S) % 2 = 1
Add(a, b) == SymDiff(a, b)

\* The numbers, with bit 0 the lowest, and the bytes sent highest bit first.
Bits(n) == {i \in 0 .. 23 : (n \div 2^i) % 2 = 1}
Num(S) == MapThenSumSet(LAMBDA i : 2^i, S)
Byte(w, k) == {7 - i : i \in {j \in 0 .. 7 : 8 * k + j \in w}}
FromBytes(b) ==
  {i \in 0 .. 8 * Len(b) - 1 : 7 - (i % 8) \in b[(i \div 8) + 1]}

\* What the proofs take from the numbers of one byte.
ASSUME ByteFacts ==
  /\ Bits(0) = {}
  /\ \A n \in 0 .. 31 : Bits(n) \in SUBSET (0 .. 4)
  /\ \A n \in 0 .. 127 : Bits(n) \in SUBSET (0 .. 6)
  /\ \A n \in 0 .. 255 :
       /\ Bits(n) \in SUBSET (0 .. 7) /\ Num(Bits(n)) = n
       /\ Num(Bits(n) \cap 0 .. 1) = n % 4 /\ Num(Bits(n) \cap 0 .. 5) = n % 64
  /\ \A D \in SUBSET (0 .. 7) : Num(D) \in 0 .. 255

\* The sum of the rows of a generator that the data choose.
Rows(row, D) ==
  {j \in UNION {row[b] : b \in D} : Odd({b \in D : j \in row[b]})}

\* The word of data nearest to w; the smallest of several.
Nearest(code, w) ==
  LET d == [D \in DOMAIN code |-> Cardinality(Add(code[D], w))]
      m == Min({d[D] : D \in DOMAIN code})
  IN CHOOSE D \in DOMAIN code :
       d[D] = m /\ \A E \in DOMAIN code : d[E] = m => Num(D) <= Num(E)

-----------------------------------------------------------------------------
(* Golay(23,12): data in bits 22 to 11                                     *)

gen == LET g == <<\h63a, \h31d, \h7b4, \h3da, \h1ed, \h6cc,
                  \h366, \h1b3, \h6e3, \h54b, \h49f, \h475>>
       IN [b \in 11 .. 22 |-> Bits(g[23 - b])]

Encode23(D) == D \cup Rows(gen, D)
Syndrome(w) == Add(Rows(gen, w \cap 11 .. 22), w \cap 0 .. 10)

\* An error of at most three bits for every syndrome: the code is perfect.
syn ==
  LET data == UNION {kSubset(k, 11 .. 22) : k \in 0 .. 3}
      Rest(s, D) == Add(s, Rows(gen, D))
      Error(s) ==
        LET D == CHOOSE D \in data : Cardinality(D) + Cardinality(Rest(s, D)) <= 3
        IN D \cup Rest(s, D)
  IN [s \in SUBSET (0 .. 10) |-> Error(s)]

Decode23(w) ==
  LET e == syn[Syndrome(w)]
  IN [data |-> Add(w, e) \cap 11 .. 22, errs |-> Cardinality(e)]

\* The extended code: a parity bit below.
Encode24(D) ==
  LET w == Encode23(D)
  IN {b + 1 : b \in w} \cup {b \in {0} : Odd(w)}

\* Fault: an error that was detected counts as corrected.
Decode24_Trusting(w) ==
  LET r == Decode23({b - 1 : b \in w \ {0}})
  IN [data |-> r.data, errs |-> r.errs, ok |-> TRUE]

Decode24(w) ==
  LET r == Decode23({b - 1 : b \in w \ {0}})
      same == (0 \in Encode24(r.data)) = (0 \in w)
  IN [data |-> r.data, errs |-> IF same THEN r.errs ELSE r.errs + 1,
      ok |-> same \/ r.errs < 3]

\* What the proofs take from the numbers of gen, for all 4096 words and 2048
\* syndromes: the distance is seven, and three errors reach everything.
ASSUME GolayFacts ==
  /\ gen \in [11 .. 22 -> SUBSET (0 .. 10)]
  /\ \A D \in SUBSET (11 .. 22) : D # {} => Cardinality(Encode23(D)) >= 7
  /\ \A s \in SUBSET (0 .. 10) :
       /\ syn[s] \subseteq 0 .. 22 /\ Cardinality(syn[s]) <= 3
       /\ Syndrome(syn[s]) = s

-----------------------------------------------------------------------------
(* Voice frames: 72 bits in the air, four words, 49 parameter bits         *)

dW == <<0,0,3,2,1,1,0,0,1,1,0,0,3,2,1,1,3,2,1,1,0,0,3,2,
        0,0,3,2,1,1,0,0,1,1,0,0,3,2,1,1,3,2,1,1,0,0,3,2,
        0,0,3,2,1,1,0,0,1,1,0,0,3,2,1,1,3,3,2,1,0,0,3,3>>
dX == <<10,22,11,9,10,22,11,23,8,20,9,21,10,8,9,21,8,6,7,19,8,20,9,7,
        6,18,7,5,6,18,7,19,4,16,5,17,6,4,5,17,4,2,3,15,4,16,5,3,
        2,14,3,1,2,14,3,15,0,12,1,13,2,0,1,13,0,12,10,11,0,12,1,13>>
rW == <<0,1,0,1,0,1,0,1,0,1,0,1,0,1,0,1,0,1,0,1,0,1,0,2,0,2,0,2,0,2,0,2,0,2,0,2>>
rX == <<23,10,22,9,21,8,20,7,19,6,18,5,17,4,16,3,15,2,
        14,1,13,0,12,10,11,9,10,8,9,7,8,6,7,5,6,4>>
rY == <<0,2,0,2,0,2,0,2,0,3,0,3,1,3,1,3,1,3,1,3,1,3,1,3,1,3,1,3,1,3,1,3,1,3,1,3>>
rZ == <<5,3,4,2,3,1,2,0,1,13,0,12,22,11,21,10,20,9,
        19,8,18,7,17,6,16,5,15,4,14,3,13,2,12,1,11,0>>

\* Fault: the words are sent one after another.
Place_InOrder(mode, i) ==
  IF i < 24 THEN <<0, 23 - i>> ELSE IF i < 47 THEN <<1, 46 - i>>
  ELSE IF i < 58 THEN <<2, 57 - i>> ELSE <<3, 71 - i>>

\* Where the i-th bit in the air belongs: a word and a bit of it.
Place(mode, i) ==
  IF mode = "dstar" THEN <<dW[i + 1], dX[i + 1]>>
  ELSE IF i % 2 = 0 THEN <<rW[(i \div 2) + 1], rX[(i \div 2) + 1]>>
  ELSE <<rY[(i \div 2) + 1], rZ[(i \div 2) + 1]>>

Words ==
  ({0} \X (0 .. 23)) \cup ({1} \X (0 .. 22)) \cup ({2} \X (0 .. 10)) \cup ({3} \X (0 .. 13))

\* What the proofs take from the tables: every bit of the words has its place,
\* and of five neighbours at most three belong to a protected word.
ASSUME TableFacts ==
  /\ \A mode \in {"dstar", "dmr"} :
       /\ \A i, j \in 0 .. 71 : Place(mode, i) = Place(mode, j) => i = j
       /\ {Place(mode, i) : i \in 0 .. 71} = Words
  /\ \A i \in 0 .. 71 :
       LET five == (i .. i + 4) \cap 0 .. 71
           D(w) == {j \in five : dW[j + 1] = w}
           R(w) == {j \in five : IF j % 2 = 0 THEN rW[(j \div 2) + 1] = w
                                                ELSE rY[(j \div 2) + 1] = w}
       IN /\ Cardinality(D(0)) <= 3
          /\ Cardinality(D(1) \cup {j \in D(2) : dX[j + 1] = 10}) <= 3
          /\ \A w \in {0, 1} : Cardinality(R(w)) <= 3

FrameBits(mode, F) == {Place(mode, i) : i \in F}
InAir(mode, c) == {i \in 0 .. 71 : Place(mode, i) \in c}
Word(c, w) == {p[2] : p \in {b \in c : b[1] = w}}

\* The bits that whiten C1, from the data of C0.
pn(D) ==
  LET pr[k \in 0 .. 24] ==
        IF k = 0 THEN 16 * Num({b - 11 : b \in D})
        ELSE (173 * pr[k - 1] + 13849) % 65536
  IN {k \in 0 .. 23 : pr[k + 1] \div 32768 = 1}

\* C1 and, for D-STAR, its parity bit in bit 10 of C2.
Whiten(mode, D, c) ==
  LET p == pn(D)
  IN Add(c, {<<1, 22 - k>> : k \in p \ {23}}
            \cup {<<2, 10>> : k \in p \cap (IF mode = "dstar" THEN {23} ELSE {})})

\* Parameter bits of a frame whose words have these data.
Parameters(D0, D1, c, mode) ==
  {22 - b : b \in D0} \cup {34 - b : b \in D1}
  \cup {34 - b : b \in Word(c, 2) \ (IF mode = "dstar" THEN {10} ELSE {})}
  \cup {48 - b : b \in Word(c, 3)}

DecodeFrame(mode, F) ==
  LET c == FrameBits(mode, F)
      r0 == Decode24(Word(c, 0))
      d == Whiten(mode, r0.data, c)
      w1 == Word(d, 1)
      r1 == IF mode = "dstar"
            THEN Decode24({b + 1 : b \in w1} \cup {b \in {0} : <<2, 10>> \in d})
            ELSE [data |-> Decode23(w1).data, errs |-> Decode23(w1).errs, ok |-> TRUE]
  IN [bits |-> Parameters(r0.data, r1.data, d, mode),
      C0 |-> r0.errs, C1 |-> r1.errs, C0Parity |-> r0.ok, C1Parity |-> r1.ok]

EncodeFrame(mode, d) ==
  LET D0 == {22 - i : i \in d \cap 0 .. 11}
      D1 == {34 - i : i \in d \cap 12 .. 23}
      C2 == {34 - i : i \in d \cap 24 .. 34}
      Parity == IF 0 \in Encode24(D1) THEN C2 \cup {10} ELSE C2 \ {10}
      c == {<<0, b>> : b \in Encode24(D0)} \cup {<<1, b>> : b \in Encode23(D1)}
           \cup {<<2, b>> : b \in IF mode = "dstar" THEN Parity ELSE C2}
           \cup {<<3, 48 - i>> : i \in d \cap 35 .. 48}
  IN InAir(mode, Whiten(mode, D0, c))

\* reliable of xcode.go
reliable(mode, st) ==
  /\ st.C0Parity
  /\ mode = "dstar" => st.C1Parity
  /\ mode = "dmr" => ~(st.C0 = 3 /\ st.C1 = 3)

-----------------------------------------------------------------------------
(* Hamming codes by their parity equations, one bit corrected              *)

H1511 == <<{0, 1, 2, 3, 5, 7, 8}, {1, 2, 3, 4, 6, 8, 9},
           {2, 3, 4, 5, 7, 9, 10}, {0, 1, 2, 4, 6, 7, 10}>>
H139 == <<{0, 1, 3, 5, 6}, {0, 1, 2, 4, 6, 7}, {0, 1, 2, 3, 5, 7, 8}, {0, 2, 4, 5, 8}>>
H1611 == Append(H1511, {0, 2, 5, 6, 8, 9, 10})

Hamming(H, k, d) ==
  (d \cap 0 .. k - 1) \cup {k + j - 1 : j \in {i \in DOMAIN H : Odd(d \cap H[i])}}

correct1(H, k, d) ==
  LET clean == Hamming(H, k, d) = d
      one == {i \in 0 .. k + Len(H) - 1 :
                Hamming(H, k, Add(d, {i})) = Add(d, {i})}
  IN IF clean \/ one = {} THEN [word |-> d, fixed |-> FALSE, ok |-> clean]
     ELSE [word |-> Add(d, {Min(one)}), fixed |-> TRUE, ok |-> TRUE]

\* What the proofs take from the equations: one bit is corrected; of two in a
\* column seven apart, some in its last four bits may be left, but these come
\* right, or stay there, when the column is corrected once more.
Remnants == {E \in SUBSET (9 .. 12) : correct1(H139, 9, E).ok}
ASSUME HammingFacts ==
  /\ \A i \in 0 .. 14 : correct1(H1511, 11, {i}) = [word |-> {}, fixed |-> TRUE, ok |-> TRUE]
  /\ \A i \in 0 .. 12 : correct1(H139, 9, {i}) = [word |-> {}, fixed |-> TRUE, ok |-> TRUE]
  /\ \A i \in 0 .. 5 :
       LET w == correct1(H139, 9, {i, i + 7}).word
       IN i \in w /\ w \in SUBSET (0 .. 12) /\ w \cap 9 .. 12 \in Remnants
  /\ \A E \in Remnants :
       LET w == correct1(H139, 9, E).word
       IN w \in SUBSET (0 .. 12) /\ w \cap 9 .. 12 \in Remnants

-----------------------------------------------------------------------------
(* BPTC(196,96): a product code, its 196 bits taken in steps of 181        *)

bptcData == UNION {4 .. 11, 16 .. 26, 31 .. 41, 46 .. 56, 61 .. 71, 76 .. 86,
                   91 .. 101, 106 .. 116, 121 .. 131}
DataAt(p) == CHOOSE a \in bptcData : Cardinality(bptcData \cap 0 .. a - 1) = p
dataAt == [p \in 0 .. 95 |-> DataAt(p)]

Raw(a) == (a * 181) % 196

\* Raw bits go on both sides of the middle of a burst.
rawPos(i) == IF i < 98 THEN i ELSE i + 68

\* What the proofs take from the places: of eight neighbours in the air only the
\* first and the last can be in one column, seven rows apart; the data are in
\* the first eleven columns.
ASSUME BptcFacts ==
  /\ \A a, b \in 0 .. 195 : Raw(a) = Raw(b) => a = b
  /\ \A a, b \in 1 .. 195 :
       a < b /\ a % 15 = b % 15 /\ rawPos(Raw(a)) - rawPos(Raw(b)) \in -7 .. 7 =>
         b = a + 105 /\ rawPos(Raw(a)) - rawPos(Raw(b)) \in {-7, 7}
  /\ \A p, q \in 0 .. 95 : dataAt[p] = dataAt[q] => p = q
  /\ \A p \in 0 .. 95 : dataAt[p] \in 1 .. 135 /\ (dataAt[p] - 1) % 15 <= 10

Line(m, first, step, n) == {a \in 0 .. n - 1 : first + step * a \in m}
Row(m, r) == Line(m, 15 * r + 1, 1, 15)
Column(m, c) == Line(m, c + 1, 15, 13)
FromRows(row) == UNION {{15 * r + 1 + a : a \in row[r]} : r \in DOMAIN row}
FromColumns(col) == UNION {{c + 1 + 15 * a : a \in col[c]} : c \in DOMAIN col}

bptcEncode(in) ==
  LET d == {dataAt[p] : p \in in}
      m == FromRows([r \in 0 .. 8 |-> Hamming(H1511, 11, Row(d, r))])
      n == FromColumns([c \in 0 .. 14 |-> Hamming(H139, 9, Column(m, c))])
  IN {rawPos(Raw(a)) : a \in n}

bptcPass(m) ==
  LET col == [c \in 0 .. 14 |-> correct1(H139, 9, Column(m, c))]
      n == FromColumns([c \in 0 .. 14 |-> col[c].word]) \cup (m \cap {0})
      row == [r \in 0 .. 8 |-> correct1(H1511, 11, Row(n, r))]
  IN [m |-> FromRows([r \in 0 .. 8 |-> row[r].word]) \cup (n \cap ({0} \cup 136 .. 195)),
      fixed |-> (\E c \in 0 .. 14 : col[c].fixed) \/ (\E r \in 0 .. 8 : row[r].fixed),
      ok |-> (\A c \in 0 .. 14 : col[c].ok) /\ (\A r \in 0 .. 8 : row[r].ok)]

\* Fault: one pass only, so that what the rows correct never helps the columns.
Again_Never(so) == so

\* At most five passes, as long as something is corrected.
Again(so) == IF so.fixed THEN bptcPass(so.m) ELSE so
bptcDecode(b) ==
  LET pass[n \in 1 .. 5] ==
        IF n = 1 THEN bptcPass({a \in 0 .. 195 : rawPos(Raw(a)) \in b})
        ELSE Again(pass[n - 1])
      end == pass[5]
  IN [data |-> {p \in 0 .. 95 : dataAt[p] \in end.m}, ok |-> end.ok]

-----------------------------------------------------------------------------
(* Reed-Solomon(12,9), slot type, EMB                                      *)

\* The product of two bytes, which the code takes from tables of logarithms.
gmul(a, b) ==
  LET Times2(x) ==
        LET y == {i + 1 : i \in x} IN IF 8 \in y THEN Add(y, Bits(\h11d)) ELSE y
      t[i \in 0 .. 7] == IF i = 0 THEN a ELSE Times2(t[i - 1])
  IN Rows(t, b)

\* The three parity bytes in the order in which they are sent.
rs129(lc) ==
  LET p[k \in 0 .. 9] ==
        IF k = 0 THEN <<{}, {}, {}>>
        ELSE LET reg == p[k - 1]
                 fb == Add(Byte(lc, k - 1), reg[1])
             IN <<Add(reg[2], gmul(fb, Bits(14))), Add(reg[3], gmul(fb, Bits(56))),
                  gmul(fb, Bits(64))>>
  IN p[9]

golayRows == LET g == <<\hb08e, \he093, \h70a9, \h60dc, \h7036, \hd06c, \h90d9, \ha03d>>
             IN [i \in 0 .. 7 |-> Bits(g[i + 1])]

golay2087(D) ==
  LET c == Rows(golayRows, D)
  IN {b + 12 : b \in D} \cup {b + 4 : b \in c \cap 0 .. 7} \cup {b - 12 : b \in c \cap 12 .. 15}

qrRows == LET g == <<\h273, \h4e5, \h9c9, \h11e2, \h21b7, \h411e, \h804f>>
          IN [i \in 0 .. 6 |-> Bits(g[i + 1])]

qrEncode(D) == Rows(qrRows, D)
qrWords == [D \in SUBSET (0 .. 6) |-> qrEncode(D)]
golayWords == [D \in SUBSET (0 .. 7) |-> golay2087(D)]

\* What the proofs take from the rows: slot types differ in seven bits at least,
\* and no two EMBs, of sixteen bits, are alike.
ASSUME RowFacts ==
  /\ \A D, E \in SUBSET (0 .. 7) :
       D # E => Cardinality(Add(golayWords[D], golayWords[E])) >= 7
  /\ \A D, E \in SUBSET (0 .. 6) : qrWords[D] = qrWords[E] => D = E
  /\ \A D \in SUBSET (0 .. 6) : qrWords[D] \in SUBSET (0 .. 15)

\* Fault: the slot type is read from one side of the middle only.
SlotTypeAt_Left(i) == 98 + i

SlotTypeAt(i) == IF i < 10 THEN 98 + i ELSE 146 + i
SetSlotType(cc, dt) ==
  {SlotTypeAt(i) : i \in {j \in 0 .. 19 : 19 - j \in golay2087(Bits(16 * cc + dt))}}
SlotType(b) == Nearest(golayWords, {19 - i : i \in {j \in 0 .. 19 : SlotTypeAt(j) \in b}})

\* EMB: the colour code, no privacy, and the place of the fragment.
EMBAt(i) == IF i < 8 THEN 108 + i ELSE 140 + i
SetEMB(cc, lcss, frag) ==
  {EMBAt(i) : i \in {j \in 0 .. 15 : 15 - j \in qrEncode(Bits(8 * cc + lcss))}}
  \cup {116 + i : i \in frag}
EMB(b) ==
  LET w == {15 - i : i \in {j \in 0 .. 15 : EMBAt(j) \in b}}
      D == Nearest(qrWords, w)
  IN [lcss |-> Num(D \cap 0 .. 1), errs |-> Cardinality(Add(qrWords[D], w)),
      frag |-> {i \in 0 .. 31 : 116 + i \in b}]

-----------------------------------------------------------------------------
(* Link control: 72 bits, FLCO first                                       *)

Number(n, first, width) == {first + width - 1 - i : i \in {j \in Bits(n) : j < width}}
VoiceLC(src, dst) == Number(dst, 24, 24) \cup Number(src, 48, 24)
FLCO(lc) == Num(Byte(lc, 0) \cap 0 .. 5)

SyncBSData == LET b == <<\hDF, \hF5, \h7D, \h75, \hDF, \h5D>>
              IN FromBytes([k \in 1 .. 6 |-> Bits(b[k])])
Mask(dt) == IF dt = "terminator" THEN Bits(\h99) ELSE Bits(\h96)
DataType(dt) == IF dt = "terminator" THEN 2 ELSE 1

\* Fault: headers and terminators are masked alike.
Checks_OneMask(lc, dt) ==
  LET p == rs129(lc)
  IN {72 + i : i \in FromBytes([k \in 1 .. 3 |-> Add(p[k], Bits(\h96))])}

Checks(lc, dt) ==
  LET p == rs129(lc)
  IN {72 + i : i \in FromBytes([k \in 1 .. 3 |-> Add(p[k], Mask(dt))])}

EncodeFullLC(lc, dt, cc) ==
  bptcEncode(lc \cup Checks(lc, dt)) \cup SetSlotType(cc, DataType(dt))
  \cup {108 + i : i \in SyncBSData}

DecodeFullLC(b, dt) ==
  LET r == bptcDecode(b)
      lc == r.data \cap 0 .. 71
  IN [lc |-> lc, ok |-> r.ok /\ r.data \ lc = Checks(lc, dt)]

\* Embedded: seven rows of sixteen and a row of parity, sent by columns.
lcData == UNION {0 .. 10, 16 .. 26, 32 .. 41, 48 .. 57, 64 .. 73, 80 .. 89, 96 .. 105}
lcAt == [i \in 0 .. 71 |->
           CHOOSE a \in lcData : Cardinality(lcData \cap 0 .. a - 1) = i]
crcAt == <<106, 90, 74, 58, 42>>

\* What the proofs take from the table: the bits have places of their own, in
\* the first eleven columns.
ASSUME LCFacts ==
  /\ \A i, j \in 0 .. 71 : lcAt[i] = lcAt[j] => i = j
  /\ \A i \in 0 .. 71 :
       /\ lcAt[i] \in 0 .. 111 /\ lcAt[i] % 16 <= 10
       /\ \A k \in DOMAIN crcAt : lcAt[i] # crcAt[k]

Sum31(lc) ==
  LET n(k) == Num(Byte(lc, k))
  IN (n(0) + n(1) + n(2) + n(3) + n(4) + n(5) + n(6) + n(7) + n(8)) % 31
Sixteen(d, r) == Line(d, 16 * r, 1, 16)
SumOfRows(row) == {a \in 0 .. 15 : Odd({r \in 0 .. 6 : a \in row[r]})}
Sent(a) == 16 * (a % 8) + (a \div 8)

EmbeddedFragments(lc) ==
  LET d == {lcAt[i] : i \in lc} \cup {crcAt[i + 1] : i \in Bits(Sum31(lc))}
      row == [r \in 0 .. 6 |-> Hamming(H1611, 11, Sixteen(d, r))]
      all == {112 + a : a \in SumOfRows(row)}
             \cup UNION {{16 * r + a : a \in row[r]} : r \in 0 .. 6}
  IN [k \in 1 .. 4 |-> {i \in 0 .. 31 : Sent(32 * (k - 1) + i) \in all}]

\* Fault: rows that are not code words are taken as they are.
DecodeEmbedded_Unchecked(frag) ==
  LET d == UNION {{Sent(32 * (k - 1) + i) : i \in frag[k]} : k \in 1 .. 4}
  IN [lc |-> {i \in 0 .. 71 : lcAt[i] \in d}, ok |-> TRUE]

DecodeEmbedded(frag) ==
  LET d == UNION {{Sent(32 * (k - 1) + i) : i \in frag[k]} : k \in 1 .. 4}
      row == [r \in 0 .. 6 |-> correct1(H1611, 11, Sixteen(d, r))]
      word == [r \in 0 .. 6 |-> row[r].word]
      all == UNION {{16 * r + a : a \in word[r]} : r \in 0 .. 6}
      lc == {i \in 0 .. 71 : lcAt[i] \in all}
  IN [lc |-> lc,
      ok |-> /\ \A r \in 0 .. 6 : row[r].ok
             /\ Sixteen(d, 7) = SumOfRows(word)
             /\ Sum31(lc) = Num({i \in 0 .. 4 : crcAt[i + 1] \in all})]
=============================================================================
