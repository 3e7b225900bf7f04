----------------------------- MODULE TextProofs -----------------------------
(***************************************************************************)
(* The algorithms on bytes, ranges and texts do what they promise: pieces  *)
(* of an array make the whole, base64 comes back and its decoder stays in  *)
(* its buffer, quick_sort sorts and loses nothing, and local files come    *)
(* back from their URLs.  One inductive invariant for each of the three.   *)
(***************************************************************************)
EXTENDS Texts, SequenceTheorems, FunctionTheorems, FiniteSetTheorems,
        WellFoundedInduction, TLAPS

(***************************************************************************)
(* Pieces of a sequence, and the ends of a set of numbers.                 *)
(***************************************************************************)
LEMMA Pieces ==
    ASSUME NEW E, NEW s \in Seq(E), NEW m \in 1..(Len(s) + 1), NEW n \in 0..Len(s)
    PROVE  /\ SubSeq(s, m, n) \in Seq(E)
           /\ Len(SubSeq(s, m, n)) = IF m <= n THEN (n - m) + 1 ELSE 0
           /\ \A i \in 1..((n - m) + 1) : SubSeq(s, m, n)[i] = s[(m + i) - 1]
<1>1. Len(s) \in Nat /\ \A i \in 1..Len(s) : s[i] \in E
  BY LenProperties, ElementOfSeq
<1>2. m \in Int /\ n \in Int /\ \A i \in m..n : s[i] \in E
  BY <1>1
<1> QED BY <1>2, SubSeqProperties

\* A set of numbers has a least one.
LEMMA LeastNumber ==
    ASSUME NEW I \in SUBSET Nat, I # {}
    PROVE  \E x \in I : \A y \in I : x <= y
<1> DEFINE R == OpToRel(<, Nat)
<1>1. IsWellFoundedOn(R, Nat)
  BY NatLessThanWellFounded
<1>2. \A x, y \in Nat : <<y, x>> \in R <=> y < x
  BY DEF OpToRel
<1> HIDE DEF R
<1>3. \E x \in I : \A y \in I : ~ (<<y, x>> \in R)
  <2>1. I \subseteq Nat
    OBVIOUS
  <2> QED BY ONLY Zenon, <2>1, <1>1, WFMin, I # {}
<1>4. \A x \in I : x \in Nat
  OBVIOUS
<1>5. PICK x \in I : \A y \in I : ~ (<<y, x>> \in R)
  BY <1>3
<1>6. \A y \in I : x <= y
  <2> TAKE y \in I
  <2>1. ~ (y < x)
    BY <1>2, <1>4, <1>5
  <2>2. x \in Nat /\ y \in Nat
    BY <1>4
  <2> QED BY <2>1, <2>2
<1> QED BY <1>6

\* Max finds the greatest of a set of numbers that has an upper bound.
LEMMA GreatestNumber ==
    ASSUME NEW n \in Nat, NEW I \in SUBSET (0..n), I # {}
    PROVE  Max(I) \in I /\ \A y \in I : y <= Max(I)
<1> DEFINE J == {n - x : x \in I}
<1>1. \A x \in I : x \in 0..n
  OBVIOUS
<1>2. J \in SUBSET Nat /\ J # {}
  <2>1. \A x \in I : n - x \in Nat
    BY ONLY <1>1, n \in Nat
  <2>2. J \in SUBSET Nat
    BY ONLY Zenon, <2>1
  <2> QED BY Zenon, <2>2
<1>3. PICK z \in J : \A y \in J : z <= y
  <2> HIDE DEF J
  <2> QED BY <1>2, LeastNumber
<1>4. PICK x \in I : z = n - x
  BY <1>3
<1>5. ASSUME NEW y \in I PROVE x >= y
  <2>1. n - y \in J
    OBVIOUS
  <2>2. n - x <= n - y
    BY <1>3, <1>4, <2>1
  <2> QED BY <1>1, <2>2
<1>6. \E m \in I : \A y \in I : m >= y
  BY <1>5
<1>7. Max(I) \in I /\ \A y \in I : Max(I) >= y
  BY <1>6 DEF Max
<1> QED BY <1>1, <1>7
-----------------------------------------------------------------------------
\* What the bytes of an array are.
Bytes == 0..255

\* A piece of an array is one of bytes.
LEMMA BytePieces ==
    ASSUME NEW s \in Seq(Bytes), NEW m \in 1..(Len(s) + 1), NEW n \in 0..Len(s)
    PROVE  /\ SubSeq(s, m, n) \in Seq(Bytes)
           /\ Len(SubSeq(s, m, n)) = IF m <= n THEN (n - m) + 1 ELSE 0
           /\ \A i \in 1..((n - m) + 1) : SubSeq(s, m, n)[i] = s[(m + i) - 1]
<1> HIDE DEF Bytes
<1> QED BY Pieces

\* Two pieces that meet make one.
LEMMA BytesJoined ==
    ASSUME NEW s \in Seq(Bytes), NEW m \in 0..Len(s), NEW n \in m..Len(s)
    PROVE  SubSeq(s, 1, m) \o SubSeq(s, m + 1, n) = SubSeq(s, 1, n)
<1>1. 1 \in 1..(Len(s) + 1) /\ m \in (1 - 1)..Len(s)
  BY LenProperties
<1> HIDE DEF Bytes
<1> QED BY <1>1, ConcatAdjacentSubSeq

(***************************************************************************)
(* The operations that cut agree with each other, for any array.           *)
(***************************************************************************)
LEMMA LeftAndMid ==
    ASSUME NEW s \in Seq(Bytes), NEW pos \in 0..Len(s)
    PROVE  /\ Left(s, pos) = SubSeq(s, 1, pos) /\ Len(Left(s, pos)) = pos
           /\ \A i \in 1..pos : Left(s, pos)[i] = s[i]
           /\ DOMAIN Left(s, pos) = 1..pos
           /\ Mid(s, pos, 0) = SubSeq(s, pos + 1, Len(s))
           /\ Len(Mid(s, pos, 0)) = Len(s) - pos
           /\ \A len \in 1..(Len(s) - pos) : Mid(s, pos, len) = SubSeq(s, pos + 1, pos + len)
<1>0. Len(s) \in Nat /\ pos \in Nat /\ pos <= Len(s)
  BY LenProperties
<1>1. Left(s, pos) = SubSeq(s, 1, pos)
  BY <1>0 DEF Left, Lesser
<1>2. /\ SubSeq(s, 1, pos) \in Seq(Bytes) /\ Len(SubSeq(s, 1, pos)) = pos
      /\ \A i \in 1..pos : SubSeq(s, 1, pos)[i] = s[i]
  <2>1. 1 \in 1..(Len(s) + 1) /\ (pos - 1) + 1 = pos
    BY <1>0
  <2>2. /\ SubSeq(s, 1, pos) \in Seq(Bytes)
        /\ Len(SubSeq(s, 1, pos)) = IF 1 <= pos THEN (pos - 1) + 1 ELSE 0
        /\ \A i \in 1..((pos - 1) + 1) : SubSeq(s, 1, pos)[i] = s[(1 + i) - 1]
    BY <2>1, BytePieces
  <2> QED BY <1>0, <2>1, <2>2
<1>3. DOMAIN SubSeq(s, 1, pos) = 1..pos
  BY <1>2, LenProperties
<1>4. Mid(s, pos, 0) = SubSeq(s, pos + 1, Len(s))
  <2>1. CASE pos = Len(s)
    <3>1. SubSeq(s, pos + 1, Len(s)) = <<>>
      BY <1>0, <2>1, SubSeqEmpty
    <3> QED BY <1>0, <2>1, <3>1 DEF Mid
  <2>2. CASE pos < Len(s)
    <3>1. pos + (IF Len(s) - pos < Len(s) THEN Len(s) - pos ELSE Len(s)) = Len(s)
      BY <1>0, <2>2
    <3>2. ~(pos >= Len(s))
      BY <1>0, <2>2
    <3> QED BY <3>1, <3>2 DEF Mid, Lesser
  <2> QED BY <1>0, <2>1, <2>2
<1>5. Len(SubSeq(s, pos + 1, Len(s))) = Len(s) - pos
  <2>1. Len(SubSeq(s, pos + 1, Len(s))) =
           IF pos + 1 <= Len(s) THEN (Len(s) - (pos + 1)) + 1 ELSE 0
    <3>1. pos + 1 \in 1..(Len(s) + 1) /\ Len(s) \in 0..Len(s)
      BY <1>0
    <3> QED BY <3>1, BytePieces
  <2> QED BY <1>0, <2>1
<1>6. ASSUME NEW len \in 1..(Len(s) - pos)
      PROVE  Mid(s, pos, len) = SubSeq(s, pos + 1, pos + len)
  <2>1. /\ ~(pos >= Len(s)) /\ len # 0
        /\ (IF len < Len(s) THEN len ELSE Len(s)) = len
    BY <1>0
  <2> QED BY <2>1 DEF Mid, Lesser
<1> QED BY <1>1, <1>2, <1>3, <1>4, <1>5, <1>6

\* remove leaves what left and mid take from either side of what it removes.
LEMMA CutTakesOut ==
    ASSUME NEW s \in Seq(Bytes), NEW pos \in 0..Len(s), NEW len \in Nat
    PROVE  Cut(s, pos, len) =
               Left(s, pos) \o IF pos + len >= Len(s) THEN <<>> ELSE Mid(s, pos + len, 0)
<1>0. Len(s) \in Nat /\ pos \in Nat /\ pos <= Len(s)
  BY LenProperties
<1>1. Left(s, pos) = SubSeq(s, 1, pos)
  BY LeftAndMid
<1>2. SubSeq(s, 1, pos) \in Seq(Bytes)
  BY <1>0, BytePieces
<1>3. CASE pos >= Len(s)
  <2>1. pos = Len(s) /\ pos + len >= Len(s)
    BY <1>0, <1>3
  <2>2. SubSeq(s, 1, pos) = s
    BY <2>1, SubSeqFull
  <2>3. s \o <<>> = s
    BY ConcatEmptySeq
  <2> QED BY <1>1, <1>3, <2>1, <2>2, <2>3 DEF Cut
<1>4. CASE ~(pos >= Len(s)) /\ pos + len >= Len(s)
  <2>1. pos + (IF Len(s) - pos < len THEN Len(s) - pos ELSE len) + 1 = Len(s) + 1
    BY <1>0, <1>4
  <2>2. SubSeq(s, Len(s) + 1, Len(s)) = <<>>
    BY <1>0, SubSeqEmpty
  <2> QED BY <1>1, <1>4, <2>1, <2>2 DEF Cut, Lesser
<1>5. CASE ~(pos >= Len(s)) /\ ~(pos + len >= Len(s))
  <2>1. pos + (IF Len(s) - pos < len THEN Len(s) - pos ELSE len) + 1 = (pos + len) + 1
    BY <1>0, <1>5
  <2>2. pos + len \in 0..Len(s)
    BY <1>0, <1>5
  <2>3. Mid(s, pos + len, 0) = SubSeq(s, (pos + len) + 1, Len(s))
    BY <2>2, LeftAndMid
  <2> QED BY <1>1, <1>5, <2>1, <2>3 DEF Cut, Lesser
<1> QED BY <1>3, <1>4, <1>5

\* IndexOf does not go past an occurrence.
LEMMA FirstOccurrence ==
    ASSUME NEW s \in Seq(Bytes), NEW v, NEW i \in 1..Len(s), s[i] = v
    PROVE  IndexOf(s, v) \in 0..(i - 1)
<1> DEFINE I == {j \in 1..Len(s) : s[j] = v}
<1>0. Len(s) \in Nat /\ DOMAIN s = 1..Len(s)
  BY LenProperties
<1>1. I \in SUBSET Nat /\ i \in I
  BY <1>0
<1>2. SelectInSeq(s, LAMBDA x : x = v) = Min(I)
  BY <1>1 DEF SelectInSeq
<1>3. IndexOf(s, v) = SelectInSeq(s, LAMBDA x : x = v) - 1
  BY <1>0 DEF IndexOf
<1> HIDE DEF I
<1>4. Min(I) \in I /\ \A y \in I : Min(I) <= y
  <2>1. \E x \in I : \A y \in I : x <= y
    BY <1>1, LeastNumber
  <2> QED BY <2>1 DEF Min
<1>5. Min(I) \in 1..Len(s) /\ Min(I) <= i
  BY <1>1, <1>4 DEF I
<1> QED BY <1>0, <1>2, <1>3, <1>5

\* SlicesMakeTheWhole, of any array of bytes.
LEMMA SlicesAreRight ==
    ASSUME data \in Seq(Bytes)
    PROVE  SlicesMakeTheWhole
<1>0. Len(data) \in Nat /\ SubSeq(data, 1, Len(data)) = data
  BY LenProperties, SubSeqFull
<1>1. ASSUME NEW pos \in 0..Len(data)
      PROVE  Left(data, pos) \o Mid(data, pos, 0) = data
  <2>1. Len(data) \in pos..Len(data)
    BY <1>0
  <2>2. SubSeq(data, 1, pos) \o SubSeq(data, pos + 1, Len(data)) = SubSeq(data, 1, Len(data))
    BY <2>1, BytesJoined
  <2> QED BY <1>0, <2>2, LeftAndMid
<1>2. ASSUME NEW pos \in 0..Len(data)
      PROVE  StartsWith(data, Left(data, pos)) /\ EndsWith(data, Mid(data, pos, 0))
  <2>1. /\ Left(data, pos) = SubSeq(data, 1, pos) /\ Len(Left(data, pos)) = pos
        /\ Mid(data, pos, 0) = SubSeq(data, pos + 1, Len(data))
        /\ Len(Mid(data, pos, 0)) = Len(data) - pos
    BY LeftAndMid
  <2>2. pos <= Len(data) /\ Len(data) - pos <= Len(data)
        /\ Len(data) - (Len(data) - pos) + 1 = pos + 1
    BY <1>0
  <2> QED BY <2>1, <2>2 DEF StartsWith, EndsWith
<1>3. ASSUME NEW pos \in 0..Len(data), NEW len \in 1..(Len(data) - pos)
      PROVE  Left(data, pos) \o Mid(data, pos, len) \o Mid(data, pos + len, 0) = data
  <2>1. pos + len \in pos..Len(data) /\ pos + len \in 0..Len(data)
        /\ Len(data) \in (pos + len)..Len(data)
    BY <1>0
  <2>2. SubSeq(data, 1, pos) \o SubSeq(data, pos + 1, pos + len) = SubSeq(data, 1, pos + len)
    BY <2>1, BytesJoined
  <2>3. SubSeq(data, 1, pos + len) \o SubSeq(data, (pos + len) + 1, Len(data)) = data
    BY <1>0, <2>1, BytesJoined
  <2>4. Left(data, pos) = SubSeq(data, 1, pos)
        /\ Mid(data, pos, len) = SubSeq(data, pos + 1, pos + len)
    BY LeftAndMid
  <2>5. Mid(data, pos + len, 0) = SubSeq(data, (pos + len) + 1, Len(data))
    BY <2>1, LeftAndMid
  <2> QED BY <2>2, <2>3, <2>4, <2>5
<1>4. ASSUME NEW pos \in 0..Len(data), NEW len \in 0..(Len(data) + 1)
      PROVE  Cut(data, pos, len) =
                 Left(data, pos)
                     \o IF pos + len >= Len(data) THEN <<>> ELSE Mid(data, pos + len, 0)
  <2>1. len \in Nat
    OBVIOUS
  <2> QED BY <2>1, CutTakesOut
<1>5. ASSUME NEW pos \in 0..Len(data), NEW v \in Values, IndexOf(data, v) >= pos
      PROVE  v \notin Range(Left(data, pos))
  <2>1. SUFFICES ASSUME v \in Range(Left(data, pos)) PROVE FALSE
    OBVIOUS
  <2>2. DOMAIN Left(data, pos) = 1..pos /\ \A i \in 1..pos : Left(data, pos)[i] = data[i]
    BY LeftAndMid
  <2>3. PICK i \in 1..pos : data[i] = v
    BY <2>1, <2>2 DEF Range
  <2>4. IndexOf(data, v) \in 0..(i - 1)
    <3>1. i \in 1..Len(data)
      BY <1>0
    <3> QED BY <2>3, <3>1, FirstOccurrence
  <2> QED BY <1>0, <1>5, <2>4
<1> QED BY <1>1, <1>2, <1>3, <1>4, <1>5 DEF SlicesMakeTheWhole

(***************************************************************************)
(* Base64: a character stands for its value, no value is written as the    *)
(* padding, and the four values of a group make its three bytes again.     *)
(***************************************************************************)
LEMMA CharactersComeBack ==
    ASSUME NEW x \in 0..63
    PROVE  /\ Alphabet(x) \in 0..127 /\ Alphabet(x) # Pad
           /\ Inverses(Alphabet(x)) = {x}
<1>1. CASE x \in 0..25
  <2>1. Alphabet(x) = 65 + x
    BY <1>1 DEF Alphabet
  <2> QED BY <1>1, <2>1 DEF Pad, Inverses, InverseFromB64
<1>2. CASE x \in 26..51
  <2>1. Alphabet(x) = 71 + x
    BY <1>2 DEF Alphabet
  <2> QED BY <1>2, <2>1 DEF Pad, Inverses, InverseFromB64
<1>3. CASE x \in 52..61
  <2>1. Alphabet(x) = x - 4
    BY <1>3 DEF Alphabet
  <2> QED BY <1>3, <2>1 DEF Pad, Inverses, InverseFromB64
<1>4. CASE x = 62
  <2>1. Alphabet(x) = 43
    BY <1>4 DEF Alphabet
  <2> QED BY <1>4, <2>1 DEF Pad, Inverses, InverseFromB64
<1>5. CASE x = 63
  <2>1. Alphabet(x) = 47
    BY <1>5 DEF Alphabet
  <2> QED BY <1>5, <2>1 DEF Pad, Inverses, InverseFromB64
<1> QED BY <1>1, <1>2, <1>3, <1>4, <1>5

\* The table has values of at most seven bits.
LEMMA InverseRange ==
    ASSUME NEW c \in Bytes
    PROVE  Inverses(c) \subseteq {-1} \cup 0..127
<1>1. c # 255 => InverseFromB64(c) \in {-1} \cup 0..127
  BY DEF InverseFromB64, Bytes
<1> QED BY <1>1 DEF Inverses

\* Bytes past the end count as 0.
LEMMA BytesOfGroup ==
    ASSUME NEW s \in Seq(Bytes), NEW i \in Nat
    PROVE  ByteAt(s, i) \in 0..255
<1>1. Len(s) \in Nat /\ \A j \in 1..Len(s) : s[j] \in 0..255
  BY LenProperties, ElementOfSeq DEF Bytes
<1> QED BY <1>1 DEF ByteAt

\* The four values of a group, out of its three bytes.
LEMMA SextetsOfGroup ==
    ASSUME NEW s \in Seq(Bytes), NEW g \in Nat
    PROVE  /\ Sextet(s, g, 0) = ByteAt(s, 3 * g) \div 4
           /\ Sextet(s, g, 1) = ((ByteAt(s, 3 * g) % 4) * 16) + (ByteAt(s, (3 * g) + 1) \div 16)
           /\ Sextet(s, g, 2) =
                 ((ByteAt(s, (3 * g) + 1) % 16) * 4) + (ByteAt(s, (3 * g) + 2) \div 64)
           /\ Sextet(s, g, 3) = ByteAt(s, (3 * g) + 2) % 64
           /\ \A k \in 0..3 : Sextet(s, g, k) \in 0..63
<1> DEFINE b0 == ByteAt(s, 3 * g)
           b1 == ByteAt(s, (3 * g) + 1)
           b2 == ByteAt(s, (3 * g) + 2)
<1>1. b0 \in 0..255 /\ b1 \in 0..255 /\ b2 \in 0..255
  BY BytesOfGroup
<1>2. (3 * g) + 0 = 3 * g
  OBVIOUS
<1>3. /\ Sextet(s, g, 0) = b0 \div 4
      /\ Sextet(s, g, 1) = ((b0 % 4) * 16) + (b1 \div 16)
      /\ Sextet(s, g, 2) = ((b1 % 16) * 4) + (b2 \div 64)
      /\ Sextet(s, g, 3) = b2 % 64
  BY <1>2 DEF Sextet
<1> HIDE DEF b0, b1, b2
<1>4. /\ b0 \div 4 \in 0..63 /\ ((b0 % 4) * 16) + (b1 \div 16) \in 0..63
      /\ ((b1 % 16) * 4) + (b2 \div 64) \in 0..63 /\ b2 % 64 \in 0..63
  BY <1>1
<1>5. ASSUME NEW k \in 0..3 PROVE Sextet(s, g, k) \in 0..63
  <2>1. k = 0 \/ k = 1 \/ k = 2 \/ k = 3
    OBVIOUS
  <2>2. /\ Sextet(s, g, 0) \in 0..63 /\ Sextet(s, g, 1) \in 0..63
        /\ Sextet(s, g, 2) \in 0..63 /\ Sextet(s, g, 3) \in 0..63
    BY ONLY <1>3, <1>4, Zenon
  <2> QED BY ONLY <2>1, <2>2, Zenon
<1> QED BY <1>3, <1>5 DEF b0, b1, b2

(* The four values of three bytes, and the three bytes of four values.     *)
Value1(a) == a \div 4
Value2(a, b) == ((a % 4) * 16) + (b \div 16)
Value3(b, c) == ((b % 16) * 4) + (c \div 64)
Value4(c) == c % 64
Byte1(v, w) == ((v * 4) + ((w \div 16) % 4)) % 256
Byte2(v, w) == (((v % 16) * 16) + ((w \div 4) % 16)) % 256
Byte3(v, w) == (((v % 4) * 64) + w) % 256

\* Decoding n values makes n - 1 bytes.
LEMMA DecodedBytes ==
    ASSUME NEW p \in Seq(0..127), NEW n \in 2..4, n <= Len(p)
    PROVE  /\ Decoded(p, n) \in Seq(Bytes) /\ Len(Decoded(p, n)) = n - 1
           /\ Decoded(p, n)[1] = Byte1(p[1], p[2])
           /\ n > 2 => Decoded(p, n)[2] = Byte2(p[2], p[3])
           /\ n > 3 => Decoded(p, n)[3] = Byte3(p[3], p[4])
<1>1. /\ p[1] \in Int /\ p[2] \in Int
      /\ n > 2 => p[3] \in Int
      /\ n > 3 => p[4] \in Int
  <2>1. Len(p) \in Nat
    BY LenProperties
  <2>2. /\ 1 \in 1..Len(p) /\ 2 \in 1..Len(p)
        /\ n > 2 => 3 \in 1..Len(p)
        /\ n > 3 => 4 \in 1..Len(p)
    BY <2>1
  <2>3. ASSUME NEW i \in 1..Len(p) PROVE p[i] \in Int
    <3>1. p[i] \in 0..127
      BY ElementOfSeq
    <3>2. 0..127 \subseteq Int
      OBVIOUS
    <3> QED BY ONLY <3>1, <3>2, Zenon
  <2> QED BY ONLY <2>2, <2>3, Zenon
<1> DEFINE b1 == Byte1(p[1], p[2])
           b2 == IF n > 2 THEN Byte2(p[2], p[3]) ELSE 0
           b3 == IF n > 3 THEN Byte3(p[3], p[4]) ELSE 0
           b == <<b1, b2, b3>>
<1>2. b1 \in Bytes /\ b2 \in Bytes /\ b3 \in Bytes
  <2>1. ASSUME NEW x \in Int, NEW y \in Int
        PROVE  Byte1(x, y) \in Bytes /\ Byte2(x, y) \in Bytes /\ Byte3(x, y) \in Bytes
    BY DEF Bytes, Byte1, Byte2, Byte3
  <2>2. 0 \in Bytes
    BY DEF Bytes
  <2>3. b1 \in Bytes
    BY ONLY <1>1, <2>1
  <2>4. b2 \in Bytes
    BY ONLY <1>1, <2>1, <2>2
  <2>5. n > 3 => n > 2
    OBVIOUS
  <2>6. b3 \in Bytes
    BY ONLY <1>1, <2>1, <2>2, <2>5
  <2> QED BY <2>3, <2>4, <2>6
<1>3. Decoded(p, n) = SubSeq(b, 1, n - 1)
  BY DEF Decoded, Byte1, Byte2, Byte3
<1> HIDE DEF b1, b2, b3
<1>4. b \in Seq(Bytes) /\ Len(b) = 3 /\ b[1] = b1 /\ b[2] = b2 /\ b[3] = b3
  BY <1>2
<1>5. n - 1 \in 1..3 /\ n - 1 \in 0..Len(b) /\ 1 \in 1..(Len(b) + 1)
  BY <1>4
<1> HIDE DEF b
<1>6. /\ SubSeq(b, 1, n - 1) \in Seq(Bytes)
      /\ Len(SubSeq(b, 1, n - 1)) = IF 1 <= n - 1 THEN ((n - 1) - 1) + 1 ELSE 0
      /\ \A i \in 1..(((n - 1) - 1) + 1) : SubSeq(b, 1, n - 1)[i] = b[(1 + i) - 1]
  BY <1>4, <1>5, BytePieces
<1>7. Len(SubSeq(b, 1, n - 1)) = n - 1 /\ \A i \in 1..(n - 1) : SubSeq(b, 1, n - 1)[i] = b[i]
  BY <1>5, <1>6
<1>8. SubSeq(b, 1, n - 1)[1] = b1
  BY <1>4, <1>5, <1>7
<1>9. n > 2 => SubSeq(b, 1, n - 1)[2] = b2
  BY <1>4, <1>5, <1>7
<1>10. n > 3 => SubSeq(b, 1, n - 1)[3] = b3
  BY <1>4, <1>5, <1>7
<1>11. (n > 2 => b2 = Byte2(p[2], p[3])) /\ (n > 3 => b3 = Byte3(p[3], p[4]))
  BY DEF b2, b3
<1> QED BY <1>3, <1>6, <1>7, <1>8, <1>9, <1>10, <1>11 DEF b1

\* The same, without their values.
LEMMA DecodedLength ==
    ASSUME NEW p \in Seq(0..127), NEW n \in 2..4, n <= Len(p)
    PROVE  Decoded(p, n) \in Seq(Bytes) /\ Len(Decoded(p, n)) = n - 1
BY DecodedBytes

\* Three bytes are what the four values of them make.
SameBits(a, b, c) ==
    /\ Byte1(Value1(a), Value2(a, b)) = a
    /\ Byte2(Value2(a, b), Value3(b, c)) = b
    /\ Byte3(Value3(b, c), Value4(c)) = c

LEMMA BitsComeBack ==
    ASSUME NEW a \in 0..255, NEW b \in 0..255, NEW c \in 0..255
    PROVE  SameBits(a, b, c)
<1>1. (((a % 4) * 16) + (b \div 16)) \div 16 = a % 4
  OBVIOUS
<1>2. (((a % 4) * 16) + (b \div 16)) % 16 = b \div 16
  OBVIOUS
<1>3. (((b % 16) * 4) + (c \div 64)) \div 4 = b % 16
  OBVIOUS
<1>4. (((b % 16) * 4) + (c \div 64)) % 4 = c \div 64
  OBVIOUS
<1>5. (((a \div 4) * 4) + ((a % 4) % 4)) % 256 = a
  OBVIOUS
<1>6. (((b \div 16) * 16) + ((b % 16) % 16)) % 256 = b
  OBVIOUS
<1>7. (((c \div 64) * 64) + (c % 64)) % 256 = c
  OBVIOUS
<1> QED BY ONLY <1>1, <1>2, <1>3, <1>4, <1>5, <1>6, <1>7, Zenon
           DEF SameBits, Byte1, Byte2, Byte3, Value1, Value2, Value3, Value4

\* Decoding values of a group makes its bytes, as many as there are values for.
LEMMA GroupsComeBack ==
    ASSUME NEW s \in Seq(Bytes), NEW g \in Nat, NEW p \in Seq(0..127), NEW n \in 2..4,
           n <= Len(p), \A k \in 1..n : p[k] = Sextet(s, g, k - 1)
    PROVE  \A i \in 1..(n - 1) : Decoded(p, n)[i] = ByteAt(s, (3 * g) + (i - 1))
<1> DEFINE b0 == ByteAt(s, 3 * g)
           b1 == ByteAt(s, (3 * g) + 1)
           b2 == ByteAt(s, (3 * g) + 2)
           d == Decoded(p, n)
<1>1. b0 \in 0..255 /\ b1 \in 0..255 /\ b2 \in 0..255
  <2>1. 3 * g \in Nat /\ (3 * g) + 1 \in Nat /\ (3 * g) + 2 \in Nat
    BY ONLY g \in Nat
  <2> QED BY ONLY <2>1, s \in Seq(Bytes), BytesOfGroup
<1>2. p[1] = Value1(b0) /\ p[2] = Value2(b0, b1)
  <2>1. 1 \in 1..n /\ 2 \in 1..n
    OBVIOUS
  <2>2. p[1] = Sextet(s, g, 0) /\ p[2] = Sextet(s, g, 1)
    BY <2>1
  <2> QED BY ONLY <2>2, SextetsOfGroup, s \in Seq(Bytes), g \in Nat, Zenon DEF Value1, Value2
<1>3. n > 2 => p[3] = Value3(b1, b2)
  <2>1. n > 2 => p[3] = Sextet(s, g, 2)
    OBVIOUS
  <2> QED BY ONLY <2>1, SextetsOfGroup, s \in Seq(Bytes), g \in Nat, Zenon DEF Value3
<1>4. n > 3 => p[4] = Value4(b2)
  <2>1. n > 3 => p[4] = Sextet(s, g, 3)
    OBVIOUS
  <2> QED BY ONLY <2>1, SextetsOfGroup, s \in Seq(Bytes), g \in Nat, Zenon DEF Value4
<1>5. /\ d[1] = Byte1(p[1], p[2])
      /\ n > 2 => d[2] = Byte2(p[2], p[3])
      /\ n > 3 => d[3] = Byte3(p[3], p[4])
  BY DecodedBytes
<1> HIDE DEF b0, b1, b2, d
<1>6. /\ Byte1(Value1(b0), Value2(b0, b1)) = b0
      /\ Byte2(Value2(b0, b1), Value3(b1, b2)) = b1
      /\ Byte3(Value3(b1, b2), Value4(b2)) = b2
  <2>1. SameBits(b0, b1, b2)
    BY ONLY Zenon, <1>1, BitsComeBack
  <2> QED BY ONLY Zenon, <2>1 DEF SameBits
<1>7. /\ d[1] = b0
      /\ n > 2 => d[2] = b1
      /\ n > 3 => d[3] = b2
  <2>1. d[1] = b0
    BY ONLY <1>2, <1>5, <1>6, Zenon
  <2>2. ASSUME n > 2 PROVE d[2] = b1
    BY ONLY <1>2, <1>3, <1>5, <1>6, <2>2, Zenon
  <2>3. ASSUME n > 3 PROVE d[3] = b2
    <3>1. n > 2
      BY <2>3
    <3> QED BY ONLY <1>3, <1>4, <1>5, <1>6, <2>3, <3>1, Zenon
  <2> QED BY <2>1, <2>2, <2>3
<1>8. ASSUME NEW i \in 1..(n - 1) PROVE d[i] = ByteAt(s, (3 * g) + (i - 1))
  <2>1. CASE i = 1
    <3>1. (3 * g) + (i - 1) = 3 * g
      BY <2>1
    <3> QED BY <1>7, <2>1, <3>1 DEF b0
  <2>2. CASE i = 2
    <3>1. (3 * g) + (i - 1) = (3 * g) + 1 /\ n > 2
      BY <2>2
    <3> QED BY <1>7, <2>2, <3>1 DEF b1
  <2>3. CASE i = 3
    <3>1. (3 * g) + (i - 1) = (3 * g) + 2 /\ n > 3
      BY <2>3
    <3> QED BY <1>7, <2>3, <3>1 DEF b2
  <2> QED BY <2>1, <2>2, <2>3
<1> QED BY <1>8 DEF d

\* The text of an array, character by character.
LEMMA Written ==
    ASSUME NEW s \in Seq(Bytes)
    PROVE  /\ ToBase64(s) \in Seq(0..127)
           /\ Len(ToBase64(s)) = 4 * ((Len(s) + 2) \div 3)
           /\ DOMAIN ToBase64(s) = 1..Len(ToBase64(s))
           /\ \A g \in Nat, k \in 0..3 :
                 (4 * g) + k < Len(ToBase64(s)) =>
                    ToBase64(s)[((4 * g) + k) + 1] =
                        IF k >= 2 /\ (3 * g) + k > Len(s) THEN Pad ELSE Alphabet(Sextet(s, g, k))
<1> DEFINE n == 4 * ((Len(s) + 2) \div 3)
           e(c) == IF (c - 1) % 4 >= 2 /\ (3 * ((c - 1) \div 4)) + ((c - 1) % 4) > Len(s) THEN Pad
                   ELSE Alphabet(Sextet(s, (c - 1) \div 4, (c - 1) % 4))
<1>0. Len(s) \in Nat /\ n \in Nat
  BY LenProperties
<1>1. ToBase64(s) = [c \in 1..n |-> e(c)]
  BY DEF ToBase64
<1>2. ASSUME NEW c \in 1..n PROVE e(c) \in 0..127
  <2>1. (c - 1) \div 4 \in Nat /\ (c - 1) % 4 \in 0..3
    BY <1>0
  <2>2. Sextet(s, (c - 1) \div 4, (c - 1) % 4) \in 0..63
    BY <2>1, SextetsOfGroup
  <2>3. Alphabet(Sextet(s, (c - 1) \div 4, (c - 1) % 4)) \in 0..127
    BY <2>2, CharactersComeBack
  <2> QED BY <2>3 DEF Pad
<1> HIDE DEF e, n
<1>3. ToBase64(s) \in Seq(0..127)
  BY <1>0, <1>1, <1>2, IsASeq
<1>4. Len(ToBase64(s)) = n
  BY <1>0, <1>1
<1>5. ASSUME NEW g \in Nat, NEW k \in 0..3, (4 * g) + k < n
      PROVE  ToBase64(s)[((4 * g) + k) + 1] =
                 IF k >= 2 /\ (3 * g) + k > Len(s) THEN Pad ELSE Alphabet(Sextet(s, g, k))
  <2> DEFINE c == ((4 * g) + k) + 1
  <2>1. c \in 1..n /\ (c - 1) \div 4 = g /\ (c - 1) % 4 = k
    BY <1>0, <1>5
  <2>2. ToBase64(s)[c] = e(c)
    <3> HIDE DEF c
    <3> QED BY <1>1, <2>1
  <2>3. e(c) = IF k >= 2 /\ (3 * g) + k > Len(s) THEN Pad ELSE Alphabet(Sextet(s, g, k))
    <3> HIDE DEF c
    <3> QED BY <2>1 DEF e
  <2> QED BY <2>2, <2>3
<1> QED BY <1>1, <1>3, <1>4, <1>5 DEF n

(***************************************************************************)
(* The decoder.  It has read the text up to `position`, without padding,   *)
(* and has made of it three bytes for every four characters; those of      *)
(* groups that are intact are bytes of the array, and the pending values   *)
(* of intact characters are values of the group they belong to.            *)
(***************************************************************************)
TextAsWritten ==
    /\ Len(text) <= Len(ToBase64(data))
    /\ \A c \in 1..intact : text[c] = ToBase64(data)[c]

\* How far the decoder has come.
DecodingAgrees ==
    phase = "decoding" =>
        /\ TextAsWritten
        /\ Len(pending) = position % 4 /\ Len(out) = 3 * (position \div 4)
        /\ \A c \in 1..position : text[c] # Pad
        /\ \A k \in 1..Len(pending) :
              (4 * (position \div 4)) + k <= intact =>
                  pending[k] = Sextet(data, position \div 4, k - 1)
        /\ \A i \in 1..Len(out) :
              4 * (((i - 1) \div 3) + 1) <= intact => i <= Len(data) /\ out[i] = data[i]

\* The inductive invariant of the byte arrays.
BytesInv == BaTypeOK /\ NeverOverruns /\ DecodesBack /\ DecodingAgrees

\* What BaTypeOK says of each variable.
LEMMA BytesTyped ==
    ASSUME BaTypeOK
    PROVE  /\ data \in Seq(Bytes) /\ text \in Seq(Bytes) /\ out \in Seq(Bytes)
           /\ pending \in Seq(0..127)
           /\ Len(data) \in Nat /\ Len(text) \in Nat /\ Len(out) \in Nat /\ Len(pending) \in Nat
           /\ intact \in Nat /\ intact <= Len(text) /\ position \in Nat /\ position <= Len(text)
           /\ Len(pending) < 4
           /\ \A c \in 1..Len(text) : text[c] \in Bytes
<1>1. /\ data \in Seq(Bytes) /\ text \in Seq(Bytes) /\ out \in Seq(Bytes)
      /\ pending \in Seq(0..127) /\ Len(pending) < 4
  BY DEF BaTypeOK, Bytes
<1>2. /\ Len(data) \in Nat /\ Len(text) \in Nat /\ Len(out) \in Nat /\ Len(pending) \in Nat
  BY <1>1, LenProperties
<1>3. intact \in 0..Len(text) /\ position \in 0..Len(text)
  BY DEF BaTypeOK
<1>4. \A c \in 1..Len(text) : text[c] \in Bytes
  BY <1>1, ElementOfSeq
<1> QED BY <1>1, <1>2, <1>3, <1>4

\* The invariant holds of the empty array.
LEMMA BytesStart == BaInit => BytesInv
<1> SUFFICES ASSUME BaInit PROVE BytesInv
  OBVIOUS
<1>1. /\ data = <<>> /\ text = <<>> /\ out = <<>> /\ pending = <<>>
      /\ intact = 0 /\ position = 0 /\ phase = "editing"
  BY DEF BaInit
<1>2. <<>> \in Seq(0..255) /\ <<>> \in Seq(0..127) /\ Len(<<>>) = 0
  BY EmptySeq
<1>3. BaTypeOK
  BY <1>1, <1>2 DEF BaTypeOK
<1>4. NeverOverruns
  BY <1>1, <1>2 DEF NeverOverruns, Allocated
<1> QED BY <1>1, <1>3, <1>4 DEF BytesInv, DecodesBack, DecodingAgrees

(***************************************************************************)
(* Editing leaves an array of bytes.                                       *)
(***************************************************************************)
LEMMA CutIsBytes ==
    ASSUME NEW s \in Seq(Bytes), NEW pos \in Nat, NEW len \in Nat
    PROVE  Cut(s, pos, len) \in Seq(Bytes)
<1>0. Len(s) \in Nat
  BY LenProperties
<1>1. CASE pos >= Len(s)
  BY <1>1 DEF Cut
<1>2. CASE ~(pos >= Len(s))
  <2> DEFINE n == IF Len(s) - pos < len THEN Len(s) - pos ELSE len
  <2>1. /\ 1 \in 1..(Len(s) + 1) /\ pos \in 0..Len(s) /\ Len(s) \in 0..Len(s)
        /\ pos + n + 1 \in 1..(Len(s) + 1)
    BY <1>0, <1>2
  <2>2. Cut(s, pos, len) = SubSeq(s, 1, pos) \o SubSeq(s, pos + n + 1, Len(s))
    BY <1>2 DEF Cut, Lesser
  <2> HIDE DEF n
  <2>3. SubSeq(s, 1, pos) \in Seq(Bytes)
    BY <2>1, BytePieces
  <2>4. SubSeq(s, pos + n + 1, Len(s)) \in Seq(Bytes)
    BY <2>1, BytePieces
  <2> QED BY <2>2, <2>3, <2>4, ConcatProperties
<1> QED BY <1>1, <1>2

\* Resize makes an array of bytes.
LEMMA ResizeIsBytes ==
    ASSUME NEW s \in Seq(Bytes), NEW n \in Nat
    PROVE  Resize(s, n) \in Seq(Bytes)
<1>0. Len(s) \in Nat
  BY LenProperties
<1>1. CASE n <= Len(s)
  <2>1. 1 \in 1..(Len(s) + 1) /\ n \in 0..Len(s)
    BY <1>0, <1>1
  <2>2. SubSeq(s, 1, n) \in Seq(Bytes)
    BY <2>1, BytePieces
  <2> QED BY <1>1, <2>2 DEF Resize
<1>2. CASE ~(n <= Len(s))
  <2> DEFINE m == n - Len(s)
             e(i) == 0
  <2>1. m \in Nat /\ \A i \in 1..m : e(i) \in Bytes
    BY <1>0, <1>2 DEF Bytes
  <2>2. [i \in 1..m |-> e(i)] \in Seq(Bytes)
    <3> HIDE DEF m, e
    <3> QED BY <2>1, IsASeq
  <2>3. s \o [i \in 1..n - Len(s) |-> 0] \in Seq(Bytes)
    BY <2>2, ConcatProperties
  <2> QED BY <1>2, <2>3 DEF Resize
<1> QED BY <1>1, <1>2

\* Changing the array keeps the invariant.
LEMMA EditKeeps ==
    ASSUME BytesInv, Edit
    PROVE  BytesInv'
<1>1. /\ BaTypeOK /\ NeverOverruns /\ phase = "editing" /\ phase' = phase
      /\ text' = text /\ intact' = intact /\ position' = position
      /\ pending' = pending /\ out' = out
  BY DEF BytesInv, Edit
<1>2. data' \in Seq(Bytes)
  <2>1. data \in Seq(Bytes)
    BY <1>1, BytesTyped
  <2>2. PICK s \in {Append(data, v) : v \in Values}
                   \cup {Cut(data, pos, len) : pos, len \in 0..MaxBytes}
                   \cup {Resize(data, n) : n \in 0..MaxBytes} : data' = s
    BY DEF Edit
  <2>3. CASE s \in {Append(data, v) : v \in Values}
    <3>1. PICK v \in Values : s = Append(data, v)
      BY <2>3
    <3>2. v \in Bytes
      BY CharactersAreBytes DEF Bytes
    <3> QED BY <2>1, <2>2, <3>1, <3>2, AppendProperties
  <2>4. CASE s \in {Cut(data, pos, len) : pos, len \in 0..MaxBytes}
    <3>1. PICK pos \in 0..MaxBytes, len \in 0..MaxBytes : s = Cut(data, pos, len)
      BY <2>4
    <3>2. pos \in Nat /\ len \in Nat
      OBVIOUS
    <3> QED BY <2>1, <2>2, <3>1, <3>2, CutIsBytes
  <2>5. CASE s \in {Resize(data, n) : n \in 0..MaxBytes}
    <3>1. PICK n \in 0..MaxBytes : s = Resize(data, n)
      BY <2>5
    <3>2. n \in Nat
      OBVIOUS
    <3> QED BY <2>1, <2>2, <3>1, <3>2, ResizeIsBytes
  <2> QED BY <2>2, <2>3, <2>4, <2>5
<1>3. BaTypeOK'
  BY <1>1, <1>2 DEF BaTypeOK, Bytes
<1>4. NeverOverruns'
  BY <1>1 DEF NeverOverruns, Allocated
<1> QED BY <1>1, <1>3, <1>4 DEF BytesInv, DecodesBack, DecodingAgrees

\* Encoding keeps the invariant, the text damaged, cut or neither.
LEMMA EncodeKeeps ==
    ASSUME BytesInv, Encode
    PROVE  BytesInv'
<1> DEFINE written == ToBase64(data)
<1>1. /\ BaTypeOK /\ phase' = "decoding" /\ position' = 0 /\ pending' = <<>> /\ out' = <<>>
      /\ data' = data
      /\ \/ text' = written /\ intact' = Len(written)
         \/ \E i \in DOMAIN written, c \in Strays :
               text' = [written EXCEPT ![i] = c] /\ intact' = i - 1
         \/ \E n \in 0..Len(written) - 1 :
               text' = SubSeq(written, 1, n) /\ intact' = n
  BY DEF BytesInv, Encode
<1>2. data \in Seq(Bytes)
  BY <1>1, BytesTyped
<1>3. written \in Seq(Bytes) /\ DOMAIN written = 1..Len(written) /\ Len(written) \in Nat
  <2>1. written \in Seq(0..127) /\ DOMAIN written = 1..Len(written)
    BY <1>2, Written
  <2>2. 0..127 \subseteq Bytes
    BY DEF Bytes
  <2> HIDE DEF written
  <2>3. written \in Seq(Bytes)
    BY <2>1, <2>2, SeqMonotonic
  <2>4. Len(written) \in Nat
    BY ONLY <2>3, LenProperties
  <2> QED BY <2>1, <2>3, <2>4
<1> HIDE DEF written
<1>4. /\ text' \in Seq(Bytes) /\ Len(text') <= Len(written)
      /\ intact' \in 0..Len(text')
      /\ intact' \in 0..Len(written)
      /\ \A c \in 1..intact' : text'[c] = written[c]
  <2>1. CASE text' = written /\ intact' = Len(written)
    BY <1>3, <2>1
  <2>2. ASSUME NEW i \in DOMAIN written, NEW c \in Strays,
               text' = [written EXCEPT ![i] = c] /\ intact' = i - 1
        PROVE  /\ text' \in Seq(Bytes) /\ Len(text') = Len(written)
               /\ intact' \in 0..Len(written)
               /\ \A k \in 1..intact' : text'[k] = written[k]
    <3>1. i \in 1..Len(written) /\ c \in Bytes
      BY <1>3, CharactersAreBytes DEF Bytes
    <3>2. /\ text' \in Seq(Bytes) /\ Len(text') = Len(written)
          /\ \A j \in 1..Len(written) : text'[j] = IF j = i THEN c ELSE written[j]
      BY <1>3, <2>2, <3>1, ExceptSeq
    <3>3. intact' \in 0..Len(written) /\ \A k \in 1..intact' : k \in 1..Len(written) /\ k # i
      BY <1>3, <2>2, <3>1
    <3> QED BY <3>2, <3>3
  <2>3. ASSUME NEW n \in 0..Len(written) - 1,
               text' = SubSeq(written, 1, n) /\ intact' = n
        PROVE  /\ text' \in Seq(Bytes) /\ Len(text') = n
               /\ \A k \in 1..n : text'[k] = written[k]
    <3>1. /\ 1 \in 1..(Len(written) + 1) /\ n \in 0..Len(written)
          /\ IF 1 <= n THEN (n - 1) + 1 = n ELSE n = 0
      BY <1>3
    <3>2. /\ text' \in Seq(Bytes) /\ Len(text') = IF 1 <= n THEN (n - 1) + 1 ELSE 0
          /\ \A k \in 1..((n - 1) + 1) : text'[k] = written[(1 + k) - 1]
      BY <1>3, <2>3, <3>1, BytePieces
    <3> QED BY <3>1, <3>2
  <2> QED BY <1>1, <1>3, <2>1, <2>2, <2>3
<1>5. <<>> \in Seq(0..255) /\ <<>> \in Seq(0..127) /\ Len(<<>>) = 0
  BY EmptySeq
<1>6. BaTypeOK'
  BY <1>1, <1>2, <1>3, <1>4, <1>5 DEF BaTypeOK, Bytes
<1>7. NeverOverruns'
  <2>1. Len(out') = 0 /\ Len(text') \in Nat
    BY <1>1, <1>3, <1>4, <1>5
  <2> QED BY <2>1 DEF NeverOverruns, Allocated
<1>8. DecodingAgrees'
  <2>1. Len(out') = 0 /\ Len(pending') = 0
    BY <1>1, <1>5
  <2>2. TextAsWritten'
    BY <1>1, <1>4 DEF TextAsWritten, written
  <2> QED BY <1>1, <2>1, <2>2 DEF DecodingAgrees
<1>9. DecodesBack'
  BY <1>1 DEF DecodesBack
<1> QED BY <1>6, <1>7, <1>8, <1>9 DEF BytesInv

\* Starting again keeps the invariant.
LEMMA AgainKeeps ==
    ASSUME BytesInv, Again
    PROVE  BytesInv'
<1>1. /\ BaTypeOK /\ data' = data /\ phase' = "editing"
      /\ text' = <<>> /\ intact' = 0 /\ position' = 0 /\ out' = <<>> /\ pending' = <<>>
  BY DEF BytesInv, Again
<1>2. <<>> \in Seq(0..255) /\ <<>> \in Seq(0..127) /\ Len(<<>>) = 0
  BY EmptySeq
<1>3. BaTypeOK'
  BY <1>1, <1>2 DEF BaTypeOK
<1>4. NeverOverruns'
  BY <1>1, <1>2 DEF NeverOverruns, Allocated
<1> QED BY <1>1, <1>3, <1>4 DEF BytesInv, DecodesBack, DecodingAgrees

\* Four values make three bytes.
LEMMA DecodedFour ==
    ASSUME NEW p \in Seq(0..127), Len(p) = 4
    PROVE  Decoded(p, 4) \in Seq(Bytes) /\ Len(Decoded(p, 4)) = 3
<1> DEFINE n == 4
<1>1. n \in 2..4 /\ n <= Len(p) /\ n - 1 = 3
  OBVIOUS
<1> HIDE DEF n
<1>2. Decoded(p, n) \in Seq(Bytes) /\ Len(Decoded(p, n)) = n - 1
  BY ONLY <1>1, DecodedLength, p \in Seq(0..127)
<1> QED BY <1>1, <1>2 DEF n

\* The third character of a group is padding if the second byte is missing.
LEMMA PaddingWritten ==
    ASSUME NEW s \in Seq(Bytes), NEW g \in Nat,
           (4 * g) + 2 < Len(ToBase64(s)), (3 * g) + 2 > Len(s)
    PROVE  ToBase64(s)[((4 * g) + 2) + 1] = Pad
<1> DEFINE k == 2
<1>1. k \in 0..3 /\ k >= 2 /\ (4 * g) + k < Len(ToBase64(s)) /\ (3 * g) + k > Len(s)
  OBVIOUS
<1> HIDE DEF k
<1>2. ToBase64(s)[((4 * g) + k) + 1] =
          IF k >= 2 /\ (3 * g) + k > Len(s) THEN Pad ELSE Alphabet(Sextet(s, g, k))
  BY <1>1, Written
<1> QED BY <1>1, <1>2 DEF k

\* A byte of the first g groups is in one of them.
LEMMA GroupOfByte ==
    ASSUME NEW g \in Nat, NEW i \in 1..(3 * g)
    PROVE  (i - 1) \div 3 \in Nat /\ (i - 1) \div 3 < g
OBVIOUS

(***************************************************************************)
(* The next character of the text, if it is intact.                        *)
(***************************************************************************)
LEMMA NextCharacter ==
    ASSUME BaTypeOK, TextAsWritten, position + 1 <= intact,
           NEW g, g = position \div 4, NEW k, k = position % 4
    PROVE  /\ g \in Nat /\ k \in 0..3 /\ position = (4 * g) + k
           /\ (3 * g) + 1 <= Len(data)
           /\ text[position + 1] = IF k >= 2 /\ (3 * g) + k > Len(data) THEN Pad
                                  ELSE Alphabet(Sextet(data, g, k))
<1>1. /\ data \in Seq(Bytes) /\ Len(data) \in Nat /\ intact \in Nat /\ intact <= Len(text)
      /\ position \in Nat /\ Len(text) \in Nat
  BY BytesTyped
<1>2. g \in Nat /\ k \in 0..3 /\ position = (4 * g) + k
  BY <1>1
<1>3. /\ Len(text) <= Len(ToBase64(data)) /\ Len(ToBase64(data)) = 4 * ((Len(data) + 2) \div 3)
      /\ text[position + 1] = ToBase64(data)[position + 1]
  <2>1. position + 1 \in 1..intact
    BY <1>1
  <2> QED BY <1>1, <2>1, Written DEF TextAsWritten
<1>4. (4 * g) + k < Len(ToBase64(data))
  BY <1>1, <1>2, <1>3
<1>5. (3 * g) + 1 <= Len(data)
  BY <1>1, <1>2, <1>3, <1>4
<1>6. ToBase64(data)[((4 * g) + k) + 1] =
          IF k >= 2 /\ (3 * g) + k > Len(data) THEN Pad ELSE Alphabet(Sextet(data, g, k))
  BY <1>1, <1>2, <1>4, Written
<1> QED BY <1>2, <1>3, <1>5, <1>6

(***************************************************************************)
(* What a run of pending values of intact characters decodes to.           *)
(***************************************************************************)
LEMMA PendingBytes ==
    ASSUME NEW s \in Seq(Bytes), NEW g \in Nat, NEW p \in Seq(0..127), NEW n \in 2..4,
           n <= Len(p), \A k \in 1..n : p[k] = Sextet(s, g, k - 1),
           (3 * g) + (n - 1) <= Len(s)
    PROVE  \A i \in 1..(n - 1) : Decoded(p, n)[i] = s[(3 * g) + i]
<1>1. ASSUME NEW i \in 1..(n - 1) PROVE Decoded(p, n)[i] = s[(3 * g) + i]
  <2>1. Decoded(p, n)[i] = ByteAt(s, (3 * g) + (i - 1))
    BY GroupsComeBack
  <2>2. Len(s) \in Nat /\ (3 * g) + (i - 1) < Len(s) /\ ((3 * g) + (i - 1)) + 1 = (3 * g) + i
    BY LenProperties
  <2> QED BY <2>1, <2>2 DEF ByteAt
<1> QED BY <1>1

\* Taking one more character keeps the invariant.
LEMMA TakeKeeps ==
    ASSUME BytesInv, TakeCharacter
    PROVE  BytesInv'
<1> DEFINE g == position \div 4
           k == position % 4
           c == text[position + 1]
<1>0. PICK inverse \in Inverses(c) :
          /\ c # Pad /\ inverse >= 0
          /\ IF Len(pending) = 3
             THEN out' = out \o Decoded(Append(pending, inverse), 4) /\ pending' = <<>>
             ELSE out' = out /\ pending' = Append(pending, inverse)
  BY DEF TakeCharacter
<1>1. /\ BaTypeOK /\ NeverOverruns /\ DecodingAgrees /\ phase = "decoding" /\ phase' = phase
      /\ position < Len(text) /\ position' = position + 1
      /\ data' = data /\ text' = text /\ intact' = intact
  BY DEF BytesInv, TakeCharacter
<1>2. /\ data \in Seq(Bytes) /\ out \in Seq(Bytes) /\ pending \in Seq(0..127)
      /\ Len(data) \in Nat /\ Len(text) \in Nat /\ Len(out) \in Nat /\ Len(pending) \in Nat
      /\ intact \in Nat /\ intact <= Len(text) /\ position \in Nat
      /\ \A i \in 1..Len(text) : text[i] \in Bytes
  BY <1>1, BytesTyped
<1>3. /\ TextAsWritten /\ Len(pending) = k /\ Len(out) = 3 * g
      /\ \A i \in 1..position : text[i] # Pad
      /\ \A j \in 1..Len(pending) : (4 * g) + j <= intact => pending[j] = Sextet(data, g, j - 1)
      /\ \A i \in 1..Len(out) :
            4 * (((i - 1) \div 3) + 1) <= intact => i <= Len(data) /\ out[i] = data[i]
  BY <1>1 DEF DecodingAgrees
<1>4. g \in Nat /\ k \in 0..3 /\ position = (4 * g) + k
  BY <1>2
<1>5. inverse \in 0..127
  <2>1. c \in Bytes
    BY <1>1, <1>2
  <2>2. inverse \in {-1} \cup 0..127
    BY <1>0, <2>1, InverseRange
  <2> QED BY <1>0, <2>2
<1>6. position + 1 <= intact => inverse = Sextet(data, g, k) /\ ~(k >= 2 /\ (3 * g) + k > Len(data))
  <2>1. SUFFICES ASSUME position + 1 <= intact
                 PROVE  inverse = Sextet(data, g, k) /\ ~(k >= 2 /\ (3 * g) + k > Len(data))
    OBVIOUS
  <2>2. c = IF k >= 2 /\ (3 * g) + k > Len(data) THEN Pad ELSE Alphabet(Sextet(data, g, k))
    BY <1>1, <1>3, <2>1, NextCharacter
  <2>3. c = Alphabet(Sextet(data, g, k)) /\ ~(k >= 2 /\ (3 * g) + k > Len(data))
    BY <1>0, <2>2
  <2>4. Sextet(data, g, k) \in 0..63
    BY <1>2, <1>4, SextetsOfGroup
  <2>5. Inverses(c) = {Sextet(data, g, k)}
    BY <2>3, <2>4, CharactersComeBack
  <2> QED BY <1>0, <2>3, <2>5
<1> DEFINE q == Append(pending, inverse)
<1>7. /\ q \in Seq(0..127) /\ Len(q) = k + 1
      /\ \A j \in 1..k : q[j] = pending[j]
      /\ q[k + 1] = inverse
  BY <1>2, <1>3, <1>5, AppendProperties
<1> HIDE DEF g, k, c, q
<1>8. ASSUME NEW j \in 1..(k + 1), (4 * g) + j <= intact
      PROVE  q[j] = Sextet(data, g, j - 1)
  <2>1. CASE j = k + 1
    <3>1. position + 1 <= intact /\ j - 1 = k
      BY <1>4, <1>8, <2>1
    <3> QED BY <1>6, <1>7, <2>1, <3>1
  <2>2. CASE j # k + 1
    <3>1. j \in 1..k
      BY <1>4, <2>2
    <3> QED BY <1>3, <1>7, <1>8, <3>1
  <2> QED BY <2>1, <2>2
<1>9. \A i \in 1..position' : text[i] # Pad
  <2>1. ASSUME NEW i \in 1..(position + 1) PROVE text[i] # Pad
    <3>1. i \in 1..position \/ i = position + 1
      BY <1>2
    <3> QED BY <1>0, <1>3, <3>1 DEF c
  <2> QED BY <1>1, <2>1
<1>10. TextAsWritten'
  BY <1>1, <1>3 DEF TextAsWritten
<1>11. CASE Len(pending) # 3
  <2>1. /\ out' = out /\ pending' = q /\ k \in 0..2
    BY <1>0, <1>3, <1>4, <1>11 DEF q
  <2>2. position' \div 4 = g /\ position' % 4 = k + 1
    BY <1>1, <1>4, <2>1
  <2>3. BaTypeOK'
    <3>1. position' \in 0..Len(text)
      BY <1>1, <1>2
    <3>2. Len(pending') < 4
      BY <1>4, <1>7, <2>1
    <3> QED BY <1>1, <1>7, <2>1, <3>1, <3>2 DEF BaTypeOK
  <2>4. NeverOverruns'
    BY <1>1, <2>1 DEF NeverOverruns, Allocated
  <2>5. DecodingAgrees'
    BY <1>1, <1>3, <1>7, <1>8, <1>9, <1>10, <2>1, <2>2 DEF DecodingAgrees
  <2> QED BY <1>1, <2>3, <2>4, <2>5 DEF BytesInv, DecodesBack
<1>12. CASE Len(pending) = 3
  <2> DEFINE d == Decoded(q, 4)
  <2>1. /\ out' = out \o d /\ pending' = <<>> /\ k = 3 /\ position = (4 * g) + 3
    BY <1>0, <1>3, <1>4, <1>12 DEF q
  <2>2. position' \div 4 = g + 1 /\ position' % 4 = 0
    BY <1>1, <1>4, <2>1
  <2>3. Len(q) = 4
    BY <1>7, <2>1
  <2>4. d \in Seq(Bytes) /\ Len(d) = 3
    <3> HIDE DEF d
    <3> QED BY <1>7, <2>3, DecodedFour DEF d
  <2>5. (4 * g) + 4 <= intact =>
            (3 * g) + 3 <= Len(data) /\ \A i \in 1..3 : d[i] = data[(3 * g) + i]
    <3>1. SUFFICES ASSUME (4 * g) + 4 <= intact
                   PROVE  (3 * g) + 3 <= Len(data) /\ \A i \in 1..3 : d[i] = data[(3 * g) + i]
      OBVIOUS
    <3>2. ~((3 * g) + 3 > Len(data))
      BY <1>4, <1>6, <2>1, <3>1
    <3>3. (3 * g) + (4 - 1) <= Len(data) /\ 4 \in 2..4 /\ 4 <= Len(q)
      BY <1>2, <1>4, <2>3, <3>2
    <3>4. ASSUME NEW j \in 1..4 PROVE q[j] = Sextet(data, g, j - 1)
      <4>1. j \in 1..(k + 1) /\ (4 * g) + j <= intact
        BY <1>2, <1>4, <2>1, <3>1
      <4> QED BY <1>8, <4>1
    <3>5. ASSUME NEW n, n = 4
          PROVE  \A i \in 1..(n - 1) : Decoded(q, n)[i] = data[(3 * g) + i]
      <4>1. data \in Seq(Bytes) /\ g \in Nat /\ q \in Seq(0..127)
        BY <1>2, <1>4, <1>7
      <4>2. /\ n \in 2..4 /\ n <= Len(q) /\ (3 * g) + (n - 1) <= Len(data)
            /\ \A j \in 1..n : q[j] = Sextet(data, g, j - 1)
        BY ONLY Zenon, <3>3, <3>4, <3>5
      <4> HIDE DEF q, g
      <4> QED BY ONLY <4>1, <4>2, PendingBytes
    <3>6. \A i \in 1..(4 - 1) : d[i] = data[(3 * g) + i]
      BY ONLY Zenon, <3>5
    <3>7. 1..(4 - 1) = 1..3 /\ (3 * g) + (4 - 1) = (3 * g) + 3
      BY <1>4
    <3> QED BY ONLY Zenon, <3>3, <3>6, <3>7
  <2> HIDE DEF d
  <2>6. /\ out' \in Seq(Bytes) /\ Len(out') = Len(out) + 3
        /\ \A i \in 1..(Len(out) + 3) : out'[i] = IF i <= Len(out) THEN out[i] ELSE d[i - Len(out)]
    <3>1. /\ out \o d \in Seq(Bytes) /\ Len(out \o d) = Len(out) + Len(d)
          /\ \A i \in 1..(Len(out) + Len(d)) :
                (out \o d)[i] = IF i <= Len(out) THEN out[i] ELSE d[i - Len(out)]
      <4>1. out \in Seq(Bytes) /\ d \in Seq(Bytes)
        BY <1>2, <2>4
      <4> QED BY ONLY <4>1, ConcatProperties
    <3>2. out' = out \o d /\ Len(d) = 3
      BY <2>1, <2>4
    <3> QED BY ONLY <3>1, <3>2, Zenon
  <2>7. <<>> \in Seq(0..127) /\ Len(<<>>) = 0
    BY EmptySeq
  <2>8. BaTypeOK'
    <3>1. position' \in 0..Len(text)
      BY <1>1, <1>2
    <3> QED BY <1>1, <2>1, <2>6, <2>7, <3>1 DEF BaTypeOK, Bytes
  <2>9. NeverOverruns'
    <3>1. (3 * g) + 3 <= (Len(text) * 3) \div 4
      BY <1>1, <1>2, <1>4, <2>1
    <3> QED BY <1>1, <1>3, <2>6, <3>1 DEF NeverOverruns, Allocated
  <2>10. DecodingAgrees'
    <3>1. Len(pending') = 0
      BY <2>1, <2>7
    <3>2. Len(out') = 3 * (g + 1)
      BY <1>3, <1>4, <2>6
    <3>3. ASSUME NEW i \in 1..Len(out'), 4 * (((i - 1) \div 3) + 1) <= intact
          PROVE  i <= Len(data) /\ out'[i] = data[i]
      <4>1. CASE i <= Len(out)
        <5>1. i \in 1..Len(out) /\ out'[i] = out[i]
          BY <1>2, <2>6, <4>1
        <5> QED BY <1>3, <3>3, <5>1
      <4>2. CASE ~(i <= Len(out))
        <5>1. (i - 1) \div 3 = g /\ i - Len(out) \in 1..3 /\ (3 * g) + (i - Len(out)) = i
          BY <1>2, <1>3, <1>4, <3>2, <4>2
        <5>2. (4 * g) + 4 <= intact
          BY <1>2, <1>4, <3>3, <5>1
        <5>3. out'[i] = d[i - Len(out)]
          BY <2>6, <4>2
        <5>4. out'[i] = data[i]
          BY <2>5, <5>1, <5>2, <5>3
        <5> QED BY <1>2, <1>4, <2>5, <3>2, <5>2, <5>4
      <4> QED BY <4>1, <4>2
    <3> QED BY <1>1, <1>9, <1>10, <2>2, <3>1, <3>2, <3>3 DEF DecodingAgrees
  <2> QED BY <1>1, <2>8, <2>9, <2>10 DEF BytesInv, DecodesBack
<1> QED BY <1>11, <1>12

\* The last bytes, of an incomplete group, are as they should be as well.
LEMMA FinishKeeps ==
    ASSUME BytesInv, Finish
    PROVE  BytesInv'
<1> DEFINE g == position \div 4
           k == position % 4
           c == text[position + 1]
           d == Decoded(pending, k)
<1>1. /\ BaTypeOK /\ NeverOverruns /\ DecodingAgrees /\ phase = "decoding" /\ phase' = "decoded"
      /\ \/ position = Len(text)
         \/ position < Len(text) /\ (c = Pad \/ -1 \in Inverses(c))
      /\ out' = IF Len(pending) > 1 THEN out \o Decoded(pending, Len(pending)) ELSE out
      /\ pending' = <<>> /\ position' = position
      /\ data' = data /\ text' = text /\ intact' = intact
  BY DEF BytesInv, Finish
<1>2. /\ data \in Seq(Bytes) /\ out \in Seq(Bytes) /\ pending \in Seq(0..127)
      /\ Len(data) \in Nat /\ Len(text) \in Nat /\ Len(out) \in Nat /\ Len(pending) \in Nat
      /\ intact \in Nat /\ intact <= Len(text) /\ position \in Nat /\ position <= Len(text)
  BY <1>1, BytesTyped
<1>3. /\ TextAsWritten /\ Len(pending) = k /\ Len(out) = 3 * g
      /\ \A i \in 1..position : text[i] # Pad
      /\ \A j \in 1..Len(pending) : (4 * g) + j <= intact => pending[j] = Sextet(data, g, j - 1)
      /\ \A i \in 1..Len(out) :
            4 * (((i - 1) \div 3) + 1) <= intact => i <= Len(data) /\ out[i] = data[i]
  BY <1>1 DEF DecodingAgrees
<1>4. g \in Nat /\ k \in 0..3 /\ position = (4 * g) + k
  BY <1>2
<1>5. out' = IF k > 1 THEN out \o d ELSE out
  BY <1>1, <1>3
<1>6. k > 1 => d \in Seq(Bytes) /\ Len(d) = k - 1
  <2>1. SUFFICES ASSUME k > 1 PROVE d \in Seq(Bytes) /\ Len(d) = k - 1
    OBVIOUS
  <2>2. k \in 2..4 /\ k <= Len(pending) /\ pending \in Seq(0..127)
    BY <1>2, <1>3, <1>4, <2>1
  <2> HIDE DEF k
  <2> QED BY ONLY <2>2, DecodedLength
<1> HIDE DEF g, k, c, d
<1>7. /\ out' \in Seq(Bytes) /\ Len(out') = IF k > 1 THEN (3 * g) + (k - 1) ELSE 3 * g
      /\ \A i \in 1..Len(out') : out'[i] = IF i <= Len(out) THEN out[i] ELSE d[i - Len(out)]
  <2>1. CASE k > 1
    <3>1. /\ out \o d \in Seq(Bytes) /\ Len(out \o d) = Len(out) + Len(d)
          /\ \A i \in 1..(Len(out) + Len(d)) :
                (out \o d)[i] = IF i <= Len(out) THEN out[i] ELSE d[i - Len(out)]
      BY <1>2, <1>6, <2>1, ConcatProperties
    <3>2. out' = out \o d /\ Len(d) = k - 1
      BY <1>5, <1>6, <2>1
    <3> QED BY ONLY <1>3, <2>1, <3>1, <3>2, Zenon
  <2>2. CASE ~(k > 1)
    BY <1>2, <1>3, <1>5, <2>2
  <2> QED BY <2>1, <2>2
<1>8. <<>> \in Seq(0..127) /\ Len(<<>>) = 0
  BY EmptySeq
<1>9. BaTypeOK'
  BY <1>1, <1>7, <1>8 DEF BaTypeOK, Bytes
<1>10. NeverOverruns'
  <2>1. Len(out') <= (Len(text) * 3) \div 4
    BY <1>2, <1>4, <1>7
  <2> QED BY <1>1, <2>1 DEF NeverOverruns, Allocated
<1>11. CASE position + 1 <= intact
  <2>1. /\ (3 * g) + 1 <= Len(data)
        /\ c = IF k >= 2 /\ (3 * g) + k > Len(data) THEN Pad ELSE Alphabet(Sextet(data, g, k))
    BY <1>1, <1>3, <1>11, NextCharacter DEF g, k, c
  <2>2. c = Pad \/ -1 \in Inverses(c)
    BY <1>1, <1>2, <1>11
  <2>3. k >= 2 /\ (3 * g) + k > Len(data)
    <3>1. SUFFICES ASSUME c = Alphabet(Sextet(data, g, k)) PROVE FALSE
      BY <2>1
    <3>2. Sextet(data, g, k) \in 0..63
      BY <1>2, <1>4, SextetsOfGroup
    <3>3. c # Pad /\ Inverses(c) = {Sextet(data, g, k)}
      BY <3>1, <3>2, CharactersComeBack
    <3> QED BY <2>2, <3>2, <3>3
  <2>4. k = 3 => (3 * g) + 2 <= Len(data)
    <3>1. SUFFICES ASSUME k = 3, ~((3 * g) + 2 <= Len(data)) PROVE FALSE
      OBVIOUS
    <3>2. /\ (4 * g) + 2 < Len(ToBase64(data)) /\ (3 * g) + 2 > Len(data) /\ 2 >= 2
          /\ ((4 * g) + 2) + 1 \in 1..position /\ ((4 * g) + 2) + 1 \in 1..intact
      BY <1>2, <1>3, <1>4, <1>11, <3>1 DEF TextAsWritten
    <3>3. ToBase64(data)[((4 * g) + 2) + 1] = Pad
      BY <1>2, <1>4, <3>2, PaddingWritten
    <3>4. text[((4 * g) + 2) + 1] = Pad
      BY <1>3, <3>2, <3>3 DEF TextAsWritten
    <3> QED BY <1>3, <3>2, <3>4
  <2>5. Len(data) = (3 * g) + (k - 1) /\ k \in 2..3 /\ k > 1
    <3>1. CASE k = 2
      BY <1>2, <1>4, <2>1, <2>3, <3>1
    <3>2. CASE k = 3
      BY <1>2, <1>4, <2>3, <2>4, <3>2
    <3> QED BY <1>4, <2>3, <3>1, <3>2
  <2>6. \A i \in 1..(k - 1) : d[i] = data[(3 * g) + i]
    <3>1. ASSUME NEW j \in 1..k PROVE pending[j] = Sextet(data, g, j - 1)
      <4>1. j \in 1..Len(pending) /\ (4 * g) + j <= intact
        BY <1>2, <1>3, <1>4, <1>11
      <4> QED BY <1>3, <4>1
    <3>2. /\ data \in Seq(Bytes) /\ g \in Nat /\ pending \in Seq(0..127) /\ k \in 2..4
          /\ k <= Len(pending) /\ (3 * g) + (k - 1) <= Len(data)
      BY <1>2, <1>3, <1>4, <2>5
    <3> QED BY ONLY <3>1, <3>2, PendingBytes, Zenon DEF d
  <2>7. Len(out') = Len(data)
    BY <1>7, <2>5
  <2>8. ASSUME NEW i \in 1..Len(out') PROVE out'[i] = data[i]
    <3>1. CASE i <= Len(out)
      <4>1. 4 * (((i - 1) \div 3) + 1) <= intact /\ i \in 1..Len(out)
        <5>1. i \in 1..(3 * g) /\ i \in 1..Len(out) /\ (4 * g) + 1 <= intact
          BY <1>2, <1>3, <1>4, <1>7, <1>11, <3>1
        <5>2. (i - 1) \div 3 \in Nat /\ (i - 1) \div 3 < g
          BY <1>4, <5>1, GroupOfByte
        <5> QED BY <1>2, <1>4, <5>1, <5>2
      <4> QED BY <1>3, <1>7, <3>1, <4>1
    <3>2. CASE ~(i <= Len(out))
      <4>1. i - Len(out) \in 1..(k - 1) /\ (3 * g) + (i - Len(out)) = i
        BY <1>2, <1>3, <1>4, <1>7, <2>5, <3>2
      <4> QED BY <1>7, <2>6, <3>2, <4>1
    <3> QED BY <3>1, <3>2
  <2>9. out' = data
    BY <1>2, <1>7, <2>7, <2>8, SeqEqual
  <2>10. DecodesBack'
    <3> DEFINE whole == Lesser(3 * (intact \div 4), Len(data))
    <3>1. whole \in 0..Len(data)
      BY <1>2 DEF Lesser
    <3> HIDE DEF whole
    <3>2. IsPrefix(SubSeq(data, 1, whole), data)
      <4>1. 1 \in 1..(Len(data) + 1) /\ (whole - 1) + 1 = whole
        BY <1>2, <3>1
      <4>2. Len(SubSeq(data, 1, whole)) = IF 1 <= whole THEN (whole - 1) + 1 ELSE 0
        BY <1>2, <3>1, <4>1, BytePieces
      <4>3. Len(SubSeq(data, 1, whole)) = whole
        BY <1>2, <3>1, <4>2
      <4>4. SubSeq(data, 1, whole) \in Seq(Bytes)
        BY <1>2, <3>1, <4>1, BytePieces
      <4>5. SubSeq(SubSeq(data, 1, whole), 1, whole) = SubSeq(data, 1, whole)
        BY <4>3, <4>4, SubSeqFull
      <4> QED BY <1>2, <3>1, <4>3, <4>5 DEF IsPrefix
    <3> QED BY <1>1, <2>9, <3>2 DEF DecodesBack, whole
  <2> QED BY <1>1, <1>9, <1>10, <2>10 DEF BytesInv, DecodingAgrees
<1>12. CASE ~(position + 1 <= intact)
  <2> DEFINE m == 3 * (intact \div 4)
  <2>1. m \in Nat /\ m <= Len(out) /\ \A i \in 1..m : 4 * (((i - 1) \div 3) + 1) <= intact
    <3> DEFINE w == intact \div 4
    <3>1. w \in Nat /\ 4 * w <= intact /\ w <= g
      BY <1>2, <1>4, <1>12
    <3> HIDE DEF w
    <3>2. ASSUME NEW i \in 1..(3 * w) PROVE 4 * (((i - 1) \div 3) + 1) <= intact
      <4>1. (i - 1) \div 3 \in Nat /\ (i - 1) \div 3 < w
        BY <3>1, GroupOfByte
      <4> QED BY <1>2, <3>1, <4>1
    <3>3. m = 3 * w
      BY DEF w
    <3> HIDE DEF m
    <3> QED BY <1>3, <1>4, <3>1, <3>2, <3>3
  <2>2. ASSUME NEW i \in 1..m PROVE i <= Len(data) /\ out[i] = data[i]
    <3>1. i \in 1..Len(out) /\ 4 * (((i - 1) \div 3) + 1) <= intact
      BY <1>2, <2>1
    <3> QED BY <1>3, <3>1
  <2> HIDE DEF m
  <2>3. m <= Len(data)
    <3>1. CASE m = 0
      BY <1>2, <3>1
    <3>2. CASE m # 0
      <4>1. m \in 1..m
        BY <2>1, <3>2
      <4> QED BY <2>2, <4>1
    <3> QED BY <3>1, <3>2
  <2>4. Len(out) <= Len(out') /\ \A i \in 1..Len(out) : out'[i] = out[i]
    BY <1>2, <1>3, <1>4, <1>7
  <2>5. CASE intact = Len(ToBase64(data))
    <3>1. /\ position = Len(text) /\ intact = Len(text)
          /\ Len(text) = 4 * ((Len(data) + 2) \div 3)
      BY <1>2, <1>3, <1>12, <2>5, Written DEF TextAsWritten
    <3>2. k = 0 /\ m = Len(out) /\ Len(data) <= Len(out)
      <4> DEFINE x == (Len(data) + 2) \div 3
      <4>1. x \in Nat /\ Len(data) <= 3 * x /\ (4 * g) + k = 4 * x /\ intact = 4 * x
        BY <1>2, <1>4, <3>1
      <4> HIDE DEF x
      <4>2. k = 0 /\ g = x /\ intact \div 4 = x
        BY <1>4, <4>1
      <4> QED BY <1>3, <4>1, <4>2 DEF m
    <3>3. out' = out /\ Len(out) = Len(data)
      BY <1>2, <1>5, <2>3, <3>2
    <3>4. out = data
      BY <1>2, <2>2, <3>2, <3>3, SeqEqual
    <3>5. DecodesBack'
      BY <1>1, <2>5, <3>3, <3>4 DEF DecodesBack
    <3> QED BY <1>1, <1>9, <1>10, <3>5 DEF BytesInv, DecodingAgrees
  <2>6. CASE intact # Len(ToBase64(data))
    <3>1. Lesser(m, Len(data)) = m
      BY <1>2, <2>1, <2>3 DEF Lesser
    <3>2. /\ 1 \in 1..(Len(data) + 1) /\ 1 \in 1..(Len(out') + 1) /\ (m - 1) + 1 = m
          /\ m \in 0..Len(data) /\ m \in 0..Len(out') /\ m <= Len(out') /\ Len(out') \in Nat
      BY <1>2, <1>4, <1>7, <2>1, <2>3, <2>4
    <3> DEFINE a == SubSeq(data, 1, m)
               b == SubSeq(out', 1, m)
    <3>3. a \in Seq(Bytes) /\ Len(a) = m /\ \A i \in 1..m : a[i] = data[i]
      <4>1. /\ a \in Seq(Bytes) /\ Len(a) = (IF 1 <= m THEN (m - 1) + 1 ELSE 0)
            /\ \A i \in 1..((m - 1) + 1) : a[i] = data[(1 + i) - 1]
        BY <1>2, <3>2, BytePieces
      <4> HIDE DEF a
      <4> QED BY <2>1, <3>2, <4>1
    <3>4. b \in Seq(Bytes) /\ Len(b) = m /\ \A i \in 1..m : b[i] = out'[i]
      <4>1. /\ b \in Seq(Bytes) /\ Len(b) = (IF 1 <= m THEN (m - 1) + 1 ELSE 0)
            /\ \A i \in 1..((m - 1) + 1) : b[i] = out'[(1 + i) - 1]
        BY <1>7, <3>2, BytePieces
      <4> HIDE DEF b
      <4> QED BY <2>1, <3>2, <4>1
    <3> HIDE DEF a, b
    <3>5. ASSUME NEW i \in 1..Len(a) PROVE a[i] = b[i]
      <4>1. i \in 1..m /\ i \in 1..Len(out)
        BY <1>2, <2>1, <3>3
      <4> QED BY <2>2, <2>4, <3>3, <3>4, <4>1
    <3>6. a = b
      BY <3>3, <3>4, <3>5, SeqEqual
    <3>7. SubSeq(a, 1, m) = a
      BY <3>3, SubSeqFull
    <3>8. IsPrefix(a, out')
      <4>1. Len(a) <= Len(out')
        BY <3>2, <3>3
      <4>2. SubSeq(a, 1, Len(a)) = SubSeq(out', 1, Len(a))
        BY <3>3, <3>6, <3>7 DEF b
      <4> QED BY <4>1, <4>2 DEF IsPrefix
    <3>9. DecodesBack'
      BY <1>1, <2>6, <3>1, <3>8 DEF DecodesBack, a, m
    <3> QED BY <1>1, <1>9, <1>10, <3>9 DEF BytesInv, DecodingAgrees
  <2> QED BY <2>5, <2>6
<1> QED BY <1>11, <1>12

\* Every step keeps the invariant.
LEMMA BytesKeep == BytesInv /\ [BaNext]_baVars => BytesInv'
<1> SUFFICES ASSUME BytesInv, [BaNext]_baVars PROVE BytesInv'
  OBVIOUS
<1>1. CASE UNCHANGED baVars
  BY <1>1 DEF baVars, BytesInv, BaTypeOK, NeverOverruns, Allocated, DecodesBack, DecodingAgrees,
              TextAsWritten
<1> QED BY <1>1, EditKeeps, EncodeKeeps, TakeKeeps, FinishKeeps, AgainKeeps DEF BaNext
-----------------------------------------------------------------------------
(***************************************************************************)
(* Sorting.  The inductive invariant has, besides the type, what is        *)
(* promised between comparisons and how far the partition under way is.    *)
(***************************************************************************)
QsTypeOK ==
    /\ given \in Seq(Elements) /\ array \in [1..Len(given) -> Elements]
    /\ todo \in Seq(Int \X Int)
    /\ \/ part = NoPart
       \/ part \in [step : {"less", "equal"}, pivot : Elements,
                    front : Int, at : Int, middle : Int]

\* Every call has a range of the array to itself, and there is room for one more
\* call in it for every call behind it on the stack.
CallsFit ==
    \A k \in DOMAIN todo :
        /\ 1 <= todo[k][1] /\ todo[k][1] <= todo[k][2]
        /\ todo[k][2] + (Len(todo) - k) <= Len(given) + 1

\* The ranges of the calls follow each other with an element between them.
CallsApart == \A k, l \in DOMAIN todo : k < l => todo[k][2] < todo[l][1]

\* Two elements are in order unless a call has both of them before it.
InOrder ==
    \A i, j \in DOMAIN array :
        i < j => \/ array[i] <= array[j]
                 \/ \E k \in DOMAIN todo : todo[k][1] <= i /\ j < todo[k][2]

\* The array has the elements it had, as often as it had them.
NothingLost == \A x \in Elements : Occurrences(array, x) = Occurrences(given, x)

\* How far the partition under way has come.
PartAgrees ==
    part # NoPart =>
        /\ todo # <<>>
        /\ First <= part.front /\ part.front <= part.at /\ part.at <= Past
        /\ part.step = "less" =>
              /\ \A i \in First..(part.front - 1) : array[i] < part.pivot
              /\ \A i \in part.front..(part.at - 1) : ~(array[i] < part.pivot)
              /\ \E i \in First..(Past - 1) : array[i] = part.pivot
        /\ part.step = "equal" =>
              /\ First <= part.middle /\ part.middle <= part.front
              /\ \A i \in First..(part.middle - 1) : array[i] < part.pivot
              /\ \A i \in part.middle..(part.front - 1) : array[i] = part.pivot
              /\ \A i \in part.front..(part.at - 1) : part.pivot < array[i]
              /\ \A i \in part.at..(Past - 1) : part.pivot <= array[i]
              /\ \E i \in part.middle..(Past - 1) : array[i] = part.pivot

\* The inductive invariant of the sort.
SortInv == QsTypeOK /\ CallsFit /\ CallsApart /\ InOrder /\ NothingLost /\ PartAgrees

(***************************************************************************)
(* A swap of two places loses no element and makes none up: exchanging the *)
(* places is a bijection between the occurrences before and after it.      *)
(***************************************************************************)
LEMMA SwapKeeps ==
    ASSUME NEW n \in Nat, NEW a \in [1..n -> Elements], NEW i \in 1..n, NEW j \in 1..n,
           NEW b, b = IterSwap(a, i, j)
    PROVE  /\ b \in [1..n -> Elements]
           /\ b[i] = a[j] /\ b[j] = a[i]
           /\ \A k \in 1..n : k # i /\ k # j => b[k] = a[k]
           /\ \A x \in Elements : Occurrences(b, x) = Occurrences(a, x)
<1> DEFINE other(k) == IF k = i THEN j ELSE IF k = j THEN i ELSE k
<1>1. b \in [1..n -> Elements]
  BY DEF IterSwap
<1>2. \A k \in 1..n : other(k) \in 1..n /\ b[k] = a[other(k)] /\ other(other(k)) = k
  BY DEF IterSwap
<1>3. ASSUME NEW x \in Elements PROVE Occurrences(b, x) = Occurrences(a, x)
  <2> DEFINE S == {k \in 1..n : a[k] = x}
             T == {k \in 1..n : b[k] = x}
             f == [k \in S |-> other(k)]
  <2> HIDE DEF other
  <2>1. f \in [S -> T]
    BY <1>2
  <2>2. \A k, l \in S : f[k] = f[l] => k = l
    BY <1>2
  <2>3. \A t \in T : \E k \in S : f[k] = t
    <3>1. ASSUME NEW t \in T PROVE other(t) \in S /\ f[other(t)] = t
      BY <1>2
    <3> HIDE DEF f, S, T
    <3> QED BY <3>1
  <2>4. IsFiniteSet(S)
    <3>1. IsFiniteSet(1..n)
      BY FS_Interval
    <3>2. S \in SUBSET (1..n)
      OBVIOUS
    <3> HIDE DEF S
    <3> QED BY <3>1, <3>2, FS_Subset
  <2>5. ExistsBijection(S, T)
    <3> HIDE DEF f, S, T
    <3>1. f \in Bijection(S, T)
      BY <2>1, <2>2, <2>3, Fun_IsBij
    <3> QED BY <3>1 DEF ExistsBijection
  <2>6. Cardinality(T) = Cardinality(S)
    <3> HIDE DEF S, T
    <3> QED BY <2>4, <2>5, FS_Bijection
  <2>7. DOMAIN a = 1..n /\ DOMAIN b = 1..n
    BY <1>1
  <2> QED BY <2>6, <2>7 DEF Occurrences
<1>4. b[i] = a[j] /\ b[j] = a[i] /\ \A k \in 1..n : k # i /\ k # j => b[k] = a[k]
  BY <1>2
<1> QED BY <1>1, <1>3, <1>4

\* What QsTypeOK says of the calls and the array while a call is left.
LEMMA FirstCall ==
    ASSUME QsTypeOK, todo # <<>>
    PROVE  /\ Len(todo) \in Nat /\ Len(todo) >= 1 /\ DOMAIN todo = 1..Len(todo)
           /\ \A k \in 1..Len(todo) : todo[k][1] \in Int /\ todo[k][2] \in Int
           /\ First = todo[1][1] /\ Past = todo[1][2] /\ First \in Int /\ Past \in Int
           /\ Len(given) \in Nat /\ DOMAIN array = 1..Len(given)
           /\ \A i \in 1..Len(given) : array[i] \in Elements /\ array[i] \in Int
<1>1. Len(todo) \in Nat /\ Len(todo) >= 1 /\ DOMAIN todo = 1..Len(todo)
  BY LenProperties, EmptySeq DEF QsTypeOK
<1>2. \A k \in 1..Len(todo) : todo[k] \in Int \X Int
  BY ElementOfSeq DEF QsTypeOK
<1>3. Head(todo) = todo[1]
  BY DEF QsTypeOK
<1>4. Len(given) \in Nat
  BY LenProperties DEF QsTypeOK
<1>5. \A i \in 1..Len(given) : array[i] \in Elements /\ array[i] \in Int
  BY ElementsAreNumbers DEF QsTypeOK
<1>6. DOMAIN array = 1..Len(given)
  BY DEF QsTypeOK
<1> QED BY <1>1, <1>2, <1>3, <1>4, <1>5, <1>6 DEF First, Past

(***************************************************************************)
(* The range of the first call is part of the array, and what is around it *)
(* is in order with all of it.                                             *)
(***************************************************************************)
LEMMA AroundTheFirst ==
    ASSUME QsTypeOK, CallsFit, CallsApart, InOrder, todo # <<>>
    PROVE  /\ 1 <= First /\ First <= Past /\ Past <= Len(given) + 1
           /\ \A i, j \in DOMAIN array :
                 i < First /\ First <= j /\ j < Past => array[i] <= array[j]
           /\ \A i, j \in DOMAIN array :
                 First <= i /\ i < Past /\ Past <= j => array[i] <= array[j]
<1>0. /\ Len(todo) \in Nat /\ Len(todo) >= 1 /\ DOMAIN todo = 1..Len(todo)
      /\ \A k \in 1..Len(todo) : todo[k][1] \in Int /\ todo[k][2] \in Int
      /\ First = todo[1][1] /\ Past = todo[1][2] /\ First \in Int /\ Past \in Int
      /\ Len(given) \in Nat /\ DOMAIN array = 1..Len(given)
      /\ \A i \in 1..Len(given) : array[i] \in Int
  BY FirstCall
<1>1. 1 <= First /\ First <= Past /\ Past <= Len(given) + 1
  <2>1. 1 \in DOMAIN todo
    BY <1>0
  <2> QED BY <1>0, <2>1 DEF CallsFit
<1>2. \A k \in DOMAIN todo : k # 1 => Past < todo[k][1]
  <2>1. ASSUME NEW k \in DOMAIN todo, k # 1 PROVE Past < todo[k][1]
    <3>1. 1 \in DOMAIN todo /\ 1 < k
      BY <1>0, <2>1
    <3> QED BY <1>0, <3>1 DEF CallsApart
  <2> QED BY <2>1
<1>3. ASSUME NEW i \in DOMAIN array, NEW j \in DOMAIN array, NEW k \in DOMAIN todo,
             i < j, todo[k][1] <= i, j < todo[k][2]
      PROVE  /\ ~(i < First /\ First <= j /\ j < Past)
             /\ ~(First <= i /\ i < Past /\ Past <= j)
  <2>1. CASE k = 1
    BY <1>3, <2>1, <1>0
  <2>2. CASE k # 1
    BY <1>2, <1>3, <2>2, <1>0
  <2> QED BY <2>1, <2>2
<1>4. ASSUME NEW i \in DOMAIN array, NEW j \in DOMAIN array,
             \/ i < First /\ First <= j /\ j < Past
             \/ First <= i /\ i < Past /\ Past <= j
      PROVE  array[i] <= array[j]
  <2>1. i < j
    BY <1>4, <1>0
  <2>2. ~\E k \in DOMAIN todo : todo[k][1] <= i /\ j < todo[k][2]
    BY <1>3, <1>4, <2>1
  <2> QED BY <2>1, <2>2 DEF InOrder
<1> QED BY <1>1, <1>4

(***************************************************************************)
(* What the rest of the stack is once the first call is taken from it.     *)
(***************************************************************************)
LEMMA TheOtherCalls ==
    ASSUME QsTypeOK, todo # <<>>
    PROVE  /\ Tail(todo) \in Seq(Int \X Int) /\ Len(Tail(todo)) = Len(todo) - 1
           /\ DOMAIN Tail(todo) = 1..(Len(todo) - 1)
           /\ \A k \in 1..(Len(todo) - 1) : Tail(todo)[k] = todo[k + 1]
<1>1. todo \in Seq(Int \X Int)
  BY DEF QsTypeOK
<1>2. /\ Tail(todo) \in Seq(Int \X Int) /\ Len(Tail(todo)) = Len(todo) - 1
      /\ \A k \in 1..Len(Tail(todo)) : Tail(todo)[k] = todo[k + 1]
  BY <1>1, HeadTailProperties
<1>3. DOMAIN Tail(todo) = 1..Len(Tail(todo))
  BY <1>2, LenProperties
<1> QED BY <1>2, <1>3

\* The stack after a call has been replaced by two.
LEMMA TwoCallsMore ==
    ASSUME QsTypeOK, todo # <<>>, NEW c \in Int \X Int, NEW d \in Int \X Int
    PROVE  LET both == <<c, d>> \o Tail(todo)
           IN  /\ both \in Seq(Int \X Int) /\ Len(both) = Len(todo) + 1
               /\ DOMAIN both = 1..(Len(todo) + 1)
               /\ both[1] = c /\ both[2] = d
               /\ \A k \in 3..(Len(todo) + 1) : both[k] = todo[k - 1]
<1> DEFINE both == <<c, d>> \o Tail(todo)
<1>0. Len(todo) \in Nat /\ Len(todo) >= 1
  BY FirstCall
<1>1. <<c, d>> \in Seq(Int \X Int) /\ Len(<<c, d>>) = 2
      /\ <<c, d>>[1] = c /\ <<c, d>>[2] = d
  OBVIOUS
<1>2. /\ both \in Seq(Int \X Int) /\ Len(both) = 2 + Len(Tail(todo))
      /\ \A k \in 1..(2 + Len(Tail(todo))) :
            both[k] = IF k <= 2 THEN <<c, d>>[k] ELSE Tail(todo)[k - 2]
  <2> HIDE DEF both
  <2>1. Tail(todo) \in Seq(Int \X Int)
    BY TheOtherCalls
  <2> QED BY <1>1, <2>1, ConcatProperties DEF both
<1>3. DOMAIN both = 1..Len(both)
  <2> HIDE DEF both
  <2> QED BY <1>2, LenProperties
<1>4. Len(both) = Len(todo) + 1
  BY <1>0, <1>2, TheOtherCalls
<1>5. ASSUME NEW k \in 3..(Len(todo) + 1) PROVE both[k] = todo[k - 1]
  <2>1. k \in 1..(2 + Len(Tail(todo))) /\ ~(k <= 2) /\ k - 2 \in 1..(Len(todo) - 1)
        /\ (k - 2) + 1 = k - 1
    BY <1>0, TheOtherCalls
  <2>2. both[k] = Tail(todo)[k - 2]
    BY <1>2, <2>1
  <2> HIDE DEF both
  <2> QED BY <2>1, <2>2, TheOtherCalls
<1>6. both[1] = c /\ both[2] = d
  <2>1. 1 \in 1..(2 + Len(Tail(todo))) /\ 2 \in 1..(2 + Len(Tail(todo)))
    BY <1>0, TheOtherCalls
  <2>2. both[1] = <<c, d>>[1] /\ both[2] = <<c, d>>[2]
    BY <1>2, <2>1
  <2> QED BY <1>1, <2>2
<1> HIDE DEF both
<1> QED BY <1>2, <1>3, <1>4, <1>5, <1>6 DEF both

\* The first call has the whole array.
LEMMA SortStarts == QsInit => SortInv
<1> SUFFICES ASSUME QsInit PROVE SortInv
  OBVIOUS
<1>1. PICK n \in 0..MaxLength : array \in [1..n -> Elements]
  BY DEF QsInit
<1>2. n \in Nat /\ array \in Seq(Elements)
  BY <1>1, ElementsAreNumbers, SeqDef
<1>3. Len(array) = n
  BY <1>1, <1>2, LenProperties
<1>4. given = array /\ todo = << <<1, n + 1>> >> /\ part = NoPart
  BY <1>3 DEF QsInit
<1>5. DOMAIN todo = {1} /\ Len(todo) = 1 /\ todo[1] = <<1, n + 1>>
      /\ todo[1][1] = 1 /\ todo[1][2] = n + 1 /\ todo \in Seq(Int \X Int)
  BY <1>2, <1>4
<1>6. QsTypeOK
  BY <1>1, <1>2, <1>3, <1>4, <1>5 DEF QsTypeOK
<1>7. CallsFit /\ CallsApart
  BY <1>2, <1>3, <1>4, <1>5 DEF CallsFit, CallsApart
<1>8. InOrder
  <2>1. ASSUME NEW i \in DOMAIN array, NEW j \in DOMAIN array
        PROVE  todo[1][1] <= i /\ j < todo[1][2]
    BY <1>1, <1>2, <1>5
  <2> QED BY <1>5, <2>1 DEF InOrder
<1>9. NothingLost
  BY <1>4 DEF NothingLost
<1>10. PartAgrees
  BY <1>4 DEF PartAgrees
<1> QED BY <1>6, <1>7, <1>8, <1>9, <1>10 DEF SortInv

\* A call of at most one element leaves nothing out of order.
LEMMA ReturnKeeps ==
    ASSUME SortInv, Return
    PROVE  SortInv'
<1>0. /\ QsTypeOK /\ CallsFit /\ CallsApart /\ InOrder /\ NothingLost /\ todo # <<>>
      /\ todo' = Tail(todo) /\ array' = array /\ given' = given
      /\ part = NoPart /\ part' = NoPart /\ Past - First <= 1
  BY DEF SortInv, Return
<1>1. /\ Len(todo) \in Nat /\ Len(todo) >= 1 /\ DOMAIN todo = 1..Len(todo)
      /\ \A k \in 1..Len(todo) : todo[k][1] \in Int /\ todo[k][2] \in Int
      /\ First = todo[1][1] /\ Past = todo[1][2] /\ First \in Int /\ Past \in Int
      /\ Len(given) \in Nat /\ DOMAIN array = 1..Len(given)
  BY <1>0, FirstCall
<1>2. /\ todo' \in Seq(Int \X Int) /\ Len(todo') = Len(todo) - 1
      /\ DOMAIN todo' = 1..(Len(todo) - 1)
      /\ \A k \in 1..(Len(todo) - 1) : todo'[k] = todo[k + 1]
  BY <1>0, TheOtherCalls
<1>3. QsTypeOK'
  BY <1>0, <1>2 DEF QsTypeOK
<1>4. \A k \in DOMAIN todo' : k + 1 \in DOMAIN todo /\ todo'[k] = todo[k + 1]
  <2>1. ASSUME NEW k \in 1..(Len(todo) - 1)
        PROVE  k + 1 \in 1..Len(todo) /\ todo'[k] = todo[k + 1]
    BY <1>1, <1>2
  <2> QED BY <1>1, <1>2, <2>1, Zenon
<1>5. CallsFit'
  <2>1. ASSUME NEW k \in DOMAIN todo'
        PROVE  /\ 1 <= todo'[k][1] /\ todo'[k][1] <= todo'[k][2]
               /\ todo'[k][2] + (Len(todo') - k) <= Len(given') + 1
    <3>1. /\ 1 <= todo[k + 1][1] /\ todo[k + 1][1] <= todo[k + 1][2]
          /\ todo[k + 1][2] + (Len(todo) - (k + 1)) <= Len(given) + 1
      BY <1>0, <1>4 DEF CallsFit
    <3>2. (Len(todo) - 1) - k = Len(todo) - (k + 1)
      BY <1>1, <1>2
    <3> QED BY <1>0, <1>2, <1>4, <3>1, <3>2
  <2> QED BY <2>1 DEF CallsFit
<1>6. CallsApart'
  <2>1. ASSUME NEW k \in DOMAIN todo', NEW l \in DOMAIN todo', k < l
        PROVE  todo'[k][2] < todo'[l][1]
    <3>1. k + 1 < l + 1
      BY <1>1, <1>2, <2>1
    <3> QED BY <1>0, <1>4, <3>1 DEF CallsApart
  <2> QED BY <2>1 DEF CallsApart
<1>7. InOrder'
  <2>1. ASSUME NEW i \in DOMAIN array, NEW j \in DOMAIN array, i < j,
               NEW k \in DOMAIN todo, todo[k][1] <= i, j < todo[k][2]
        PROVE  \E m \in DOMAIN todo' : todo'[m][1] <= i /\ j < todo'[m][2]
    <3>1. k # 1
      BY <1>0, <1>1, <2>1
    <3>2. k - 1 \in DOMAIN todo' /\ (k - 1) + 1 = k
      <4>1. k \in 1..Len(todo) /\ Len(todo) \in Nat
        BY <1>1
      <4>2. k - 1 \in 1..(Len(todo) - 1) /\ (k - 1) + 1 = k
        BY ONLY <3>1, <4>1
      <4> QED BY ONLY <1>2, <4>2
    <3>3. todo'[k - 1] = todo[k]
      BY <1>4, <3>2
    <3> QED BY <2>1, <3>2, <3>3
  <2> QED BY <1>0, <2>1 DEF InOrder
<1>8. NothingLost'
  BY <1>0 DEF NothingLost
<1>9. PartAgrees'
  BY <1>0 DEF PartAgrees
<1> QED BY <1>3, <1>5, <1>6, <1>7, <1>8, <1>9 DEF SortInv

\* A partition starts with a pivot that is in its range.
LEMMA CallKeeps ==
    ASSUME SortInv, QuickSortCall
    PROVE  SortInv'
<1> DEFINE half == First + ((Past - First) \div 2)
<1>0. /\ QsTypeOK /\ CallsFit /\ CallsApart /\ InOrder /\ NothingLost /\ todo # <<>>
      /\ todo' = todo /\ array' = array /\ given' = given /\ Past - First > 1
      /\ part' = [step |-> "less", pivot |-> array[half],
                  front |-> First, at |-> First, middle |-> First]
  BY DEF SortInv, QuickSortCall
<1>1. /\ First \in Int /\ Past \in Int
      /\ Len(given) \in Nat /\ DOMAIN array = 1..Len(given)
      /\ \A i \in 1..Len(given) : array[i] \in Elements /\ array[i] \in Int
  BY <1>0, FirstCall
<1>2. 1 <= First /\ First <= Past /\ Past <= Len(given) + 1
  BY <1>0, AroundTheFirst
<1>3. half \in First..(Past - 1)
  BY <1>0, <1>1
<1>4. half \in 1..Len(given)
  BY <1>1, <1>2, <1>3
<1> HIDE DEF half
<1>5. QsTypeOK'
  BY <1>0, <1>1, <1>4 DEF QsTypeOK
<1>6. First' = First /\ Past' = Past
  BY <1>0 DEF First, Past
<1>7. PartAgrees'
  BY <1>0, <1>1, <1>2, <1>3, <1>6 DEF PartAgrees
<1>8. CallsFit' /\ CallsApart' /\ InOrder' /\ NothingLost'
  BY <1>0 DEF CallsFit, CallsApart, InOrder, NothingLost
<1> QED BY <1>5, <1>7, <1>8 DEF SortInv

\* Looking at one more element keeps both sides of the front apart.
LEMMA PartitionKeeps ==
    ASSUME SortInv, Partition
    PROVE  SortInv'
<1> DEFINE at == part.at
           front == part.front
           pivot == part.pivot
<1>0. /\ QsTypeOK /\ CallsFit /\ CallsApart /\ InOrder /\ NothingLost /\ PartAgrees
      /\ part # NoPart /\ at < Past /\ todo' = todo /\ given' = given
  BY DEF SortInv, Partition
<1>1. /\ part \in [step : {"less", "equal"}, pivot : Elements, front : Int, at : Int, middle : Int]
      /\ todo # <<>>
  BY <1>0 DEF QsTypeOK, PartAgrees
<1>2. /\ First \in Int /\ Past \in Int
      /\ Len(given) \in Nat /\ DOMAIN array = 1..Len(given)
      /\ \A i \in 1..Len(given) : array[i] \in Elements /\ array[i] \in Int
  BY <1>0, <1>1, FirstCall
<1>3. 1 <= First /\ First <= Past /\ Past <= Len(given) + 1
  BY <1>0, <1>1, AroundTheFirst
<1>4. First' = First /\ Past' = Past
  BY <1>0 DEF First, Past
<1>5. /\ at \in Int /\ front \in Int /\ pivot \in Int /\ part.middle \in Int
      /\ part.step \in {"less", "equal"} /\ First <= front /\ front <= at
  BY <1>0, <1>1, ElementsAreNumbers DEF PartAgrees
<1>6. CASE ~Satisfies(array[at])
  <2>1. array' = array /\ part' = [part EXCEPT !.at = at + 1]
    BY <1>0, <1>6 DEF Partition
  <2>2. QsTypeOK'
    <3>1. part' \in [step : {"less", "equal"}, pivot : Elements, front : Int, at : Int, middle : Int]
      BY <1>1, <1>5, <2>1
    <3> QED BY <1>0, <2>1, <3>1 DEF QsTypeOK
  <2>3. CallsFit' /\ CallsApart' /\ InOrder' /\ NothingLost'
    BY <1>0, <2>1 DEF CallsFit, CallsApart, InOrder, NothingLost
  <2>4. /\ part'.step = part.step /\ part'.front = front /\ part'.pivot = pivot
        /\ part'.middle = part.middle /\ part'.at = at + 1
    BY <1>1, <2>1
  <2>5. at \in 1..Len(given)
    BY <1>0, <1>2, <1>3, <1>5
  <2>6. part.step = "less" => ~(array[at] < pivot)
    BY <1>6 DEF Satisfies
  <2>7. part.step = "equal" => pivot < array[at]
    BY <1>6 DEF Satisfies
  <2>8. PartAgrees'
    <3> HIDE DEF at, front, pivot
    <3>1. ASSUME part.step = "less"
          PROVE  /\ \A i \in First..(front - 1) : array[i] < pivot
                 /\ \A i \in front..at : ~(array[i] < pivot)
                 /\ \E i \in First..(Past - 1) : array[i] = pivot
      BY <1>0, <1>5, <2>6, <3>1 DEF PartAgrees, at, front, pivot
    <3>2. ASSUME part.step = "equal"
          PROVE  /\ First <= part.middle /\ part.middle <= front
                 /\ \A i \in First..(part.middle - 1) : array[i] < pivot
                 /\ \A i \in part.middle..(front - 1) : array[i] = pivot
                 /\ \A i \in front..at : pivot < array[i]
                 /\ \A i \in (at + 1)..(Past - 1) : pivot <= array[i]
                 /\ \E i \in part.middle..(Past - 1) : array[i] = pivot
      BY <1>0, <1>5, <2>7, <3>2 DEF PartAgrees, at, front, pivot
    <3>3. (at + 1) - 1 = at
      BY <1>5 DEF at
    <3>4. todo' # <<>> /\ First' <= front /\ front <= at + 1 /\ at + 1 <= Past'
      BY <1>0, <1>1, <1>2, <1>4, <1>5 DEF at, front
    <3> QED BY <1>4, <2>1, <2>4, <3>1, <3>2, <3>3, <3>4 DEF PartAgrees
  <2> QED BY <2>2, <2>3, <2>8 DEF SortInv
<1>7. CASE Satisfies(array[at])
  <2>1. /\ array' = IterSwap(array, at, front)
        /\ part' = [part EXCEPT !.at = at + 1, !.front = front + 1]
    BY <1>0, <1>7 DEF Partition
  <2>2. at \in 1..Len(given) /\ front \in 1..Len(given) /\ front < Past
    BY <1>0, <1>2, <1>3, <1>5
  <2>3. /\ array' \in [1..Len(given) -> Elements]
        /\ array'[at] = array[front] /\ array'[front] = array[at]
        /\ \A k \in 1..Len(given) : k # at /\ k # front => array'[k] = array[k]
        /\ \A x \in Elements : Occurrences(array', x) = Occurrences(array, x)
    <3>1. array \in [1..Len(given) -> Elements]
      BY <1>0 DEF QsTypeOK
    <3> HIDE DEF at, front
    <3> DEFINE n == Len(given)
               b == array'
    <3>2. /\ n \in Nat /\ array \in [1..n -> Elements] /\ at \in 1..n /\ front \in 1..n
          /\ b = IterSwap(array, at, front)
      BY <1>2, <2>1, <2>2, <3>1
    <3> HIDE DEF n, b
    <3>3. /\ b \in [1..n -> Elements] /\ b[at] = array[front] /\ b[front] = array[at]
          /\ \A k \in 1..n : k # at /\ k # front => b[k] = array[k]
          /\ \A x \in Elements : Occurrences(b, x) = Occurrences(array, x)
      BY ONLY <3>2, SwapKeeps
    <3> QED BY <3>3, Zenon DEF n, b
  <2>4. /\ part'.step = part.step /\ part'.front = front + 1 /\ part'.pivot = pivot
        /\ part'.middle = part.middle /\ part'.at = at + 1
    BY <1>1, <2>1
  <2>5. QsTypeOK'
    <3>1. part' \in [step : {"less", "equal"}, pivot : Elements, front : Int, at : Int, middle : Int]
      <4>1. part' = [step |-> part.step, pivot |-> pivot, front |-> front + 1, at |-> at + 1,
                     middle |-> part.middle]
        BY <1>1, <2>1
      <4>2. pivot \in Elements /\ front + 1 \in Int /\ at + 1 \in Int
        BY <1>1, <1>5
      <4> HIDE DEF pivot
      <4> QED BY <1>5, <4>1, <4>2
    <3> QED BY <1>0, <2>3, <3>1 DEF QsTypeOK
  <2>6. CallsFit' /\ CallsApart'
    BY <1>0 DEF CallsFit, CallsApart
  <2>7. NothingLost'
    BY <1>0, <2>3 DEF NothingLost
  <2> DEFINE from(k) == IF k = at THEN front ELSE IF k = front THEN at ELSE k
  <2>8. \A k \in 1..Len(given) :
            /\ from(k) \in 1..Len(given) /\ array'[k] = array[from(k)]
            /\ First <= k /\ k < Past <=> First <= from(k) /\ from(k) < Past
            /\ ~(First <= k /\ k < Past) => from(k) = k
    BY <1>0, <1>2, <1>3, <1>5, <2>2, <2>3
  <2>9. InOrder'
    <3>1. DOMAIN array' = DOMAIN array
      BY <1>2, <2>3
    <3>2. ASSUME NEW i \in 1..Len(given), NEW j \in 1..Len(given), i < j,
                 ~(First <= i /\ j < Past)
          PROVE  \/ array'[i] <= array'[j]
                 \/ \E k \in DOMAIN todo : todo[k][1] <= i /\ j < todo[k][2]
      <4>1. CASE i < First /\ First <= j /\ j < Past
        <5>1. from(i) = i /\ First <= from(j) /\ from(j) < Past /\ from(j) \in 1..Len(given)
          BY <2>8, <4>1, <1>2
        <5> HIDE DEF from
        <5>2. array[i] <= array[from(j)]
          BY <1>0, <1>1, <1>2, <4>1, <5>1, AroundTheFirst
        <5> QED BY <2>8, <5>1, <5>2
      <4>2. CASE First <= i /\ i < Past /\ Past <= j
        <5>1. from(j) = j /\ First <= from(i) /\ from(i) < Past /\ from(i) \in 1..Len(given)
          BY <2>8, <4>2, <1>2
        <5> HIDE DEF from
        <5>2. array[from(i)] <= array[j]
          BY <1>0, <1>1, <1>2, <4>2, <5>1, AroundTheFirst
        <5> QED BY <2>8, <5>1, <5>2
      <4>3. CASE ~(First <= i /\ i < Past) /\ ~(First <= j /\ j < Past)
        <5>1. array'[i] = array[i] /\ array'[j] = array[j]
          BY <2>8, <4>3
        <5> QED BY <1>0, <1>2, <3>2, <5>1 DEF InOrder
      <4> QED BY <1>2, <3>2, <4>1, <4>2, <4>3
    <3>3. ASSUME NEW i \in 1..Len(given), NEW j \in 1..Len(given), First <= i, j < Past
          PROVE  \E k \in DOMAIN todo : todo[k][1] <= i /\ j < todo[k][2]
      <4>1. 1 \in DOMAIN todo /\ First = todo[1][1] /\ Past = todo[1][2]
        BY <1>0, <1>1, FirstCall
      <4> QED BY <3>3, <4>1
    <3> QED BY <1>0, <1>2, <3>1, <3>2, <3>3 DEF InOrder
  <2>10. PartAgrees'
    <3>1. todo' # <<>> /\ First' <= front + 1 /\ front + 1 <= at + 1 /\ at + 1 <= Past'
      BY <1>0, <1>1, <1>2, <1>4, <1>5
    <3>2. \A i \in First..(Past - 1) : i \in 1..Len(given)
      BY <1>2, <1>3
    <3>3. ASSUME part.step = "less"
          PROVE  /\ \A i \in First..front : array'[i] < pivot
                 /\ \A i \in (front + 1)..at : ~(array'[i] < pivot)
                 /\ \E i \in First..(Past - 1) : array'[i] = pivot
      <4>1. array[at] < pivot
        BY <1>7, <3>3 DEF Satisfies
      <4>2. /\ \A i \in First..(front - 1) : array[i] < pivot
            /\ \A i \in front..(at - 1) : ~(array[i] < pivot)
            /\ \E i \in First..(Past - 1) : array[i] = pivot
        BY <1>0, <3>3 DEF PartAgrees
      <4>3. PICK p \in First..(Past - 1) : array[p] = pivot
        BY <4>2
      <4> HIDE DEF at, front, pivot
      <4>4. ASSUME NEW i \in First..front PROVE array'[i] < pivot
        <5>1. CASE i = front
          BY <2>3, <4>1, <5>1
        <5>2. CASE i # front
          <6>1. i \in First..(front - 1) /\ i \in 1..Len(given) /\ i # at
            BY <1>2, <1>3, <1>5, <2>2, <5>2 DEF at, front
          <6> QED BY <2>3, <4>2, <5>2, <6>1
        <5> QED BY <5>1, <5>2
      <4>5. ASSUME NEW i \in (front + 1)..at PROVE ~(array'[i] < pivot)
        <5>1. i \in 1..Len(given) /\ i # front
          BY <1>2, <1>5, <2>2
        <5>2. CASE i = at
          <6>1. front \in front..(at - 1)
            BY <1>5, <5>1, <5>2
          <6> QED BY <2>3, <4>2, <5>2, <6>1
        <5>3. CASE i # at
          <6>1. i \in front..(at - 1)
            BY <1>5, <5>3
          <6> QED BY <2>3, <4>2, <5>1, <5>3, <6>1
        <5> QED BY <5>2, <5>3
      <4>6. \E i \in First..(Past - 1) : array'[i] = pivot
        <5>1. p # at
          BY <1>5, <4>1, <4>3 DEF pivot
        <5>2. CASE p = front
          <6>1. at \in First..(Past - 1)
            BY <1>0, <1>2, <1>5 DEF at
          <6> QED BY <2>3, <4>3, <5>2, <6>1
        <5>3. CASE p # front
          BY <2>3, <3>2, <4>3, <5>1, <5>3
        <5> QED BY <5>2, <5>3
      <4> QED BY <4>4, <4>5, <4>6
    <3>4. ASSUME part.step = "equal"
          PROVE  /\ First <= part.middle /\ part.middle <= front + 1
                 /\ \A i \in First..(part.middle - 1) : array'[i] < pivot
                 /\ \A i \in part.middle..front : array'[i] = pivot
                 /\ \A i \in (front + 1)..at : pivot < array'[i]
                 /\ \A i \in (at + 1)..(Past - 1) : pivot <= array'[i]
                 /\ \E i \in part.middle..(Past - 1) : array'[i] = pivot
      <4>1. First <= part.middle /\ part.middle <= front
        BY <1>0, <3>4 DEF PartAgrees
      <4>2. /\ \A i \in First..(part.middle - 1) : array[i] < pivot
            /\ \A i \in part.middle..(front - 1) : array[i] = pivot
            /\ \A i \in front..(at - 1) : pivot < array[i]
            /\ \A i \in at..(Past - 1) : pivot <= array[i]
        BY <1>0, <3>4 DEF PartAgrees
      <4>3. array[at] = pivot
        <5>1. ~(pivot < array[at])
          BY <1>7, <3>4 DEF Satisfies
        <5>2. pivot <= array[at]
          BY <1>0, <1>2, <1>5, <4>2
        <5> QED BY <1>2, <1>5, <2>2, <5>1, <5>2
      <4> DEFINE middle == part.middle
      <4>4. middle \in Int
        BY <1>5
      <4> HIDE DEF at, front, pivot, middle
      <4>5. ASSUME NEW i \in First..(middle - 1) PROVE array'[i] < pivot
        <5>1. i \in 1..Len(given) /\ i # at /\ i # front
          <6>1. /\ First \in Int /\ front \in Int /\ at \in Int /\ Len(given) \in Nat
                /\ 1 <= First /\ front <= at /\ at <= Len(given)
            BY <1>2, <1>3, <1>5, <2>2 DEF at, front
          <6>2. middle <= front
            BY <4>1 DEF front, middle
          <6> QED BY ONLY <4>4, <6>1, <6>2, i \in First..(middle - 1)
        <5> QED BY <2>3, <4>2, <5>1 DEF middle
      <4>6. ASSUME NEW i \in middle..front PROVE array'[i] = pivot
        <5>1. CASE i = front
          BY <2>3, <4>3, <5>1
        <5>2. CASE i # front
          <6>1. i \in middle..(front - 1) /\ i \in 1..Len(given) /\ i # at
            BY <1>2, <1>3, <1>5, <2>2, <4>1, <4>4, <5>2 DEF at, front, middle
          <6> QED BY <2>3, <4>2, <5>2, <6>1 DEF middle
        <5> QED BY <5>1, <5>2
      <4>7. ASSUME NEW i \in (front + 1)..at PROVE pivot < array'[i]
        <5>1. i \in 1..Len(given) /\ i # front
          BY <1>2, <1>5, <2>2 DEF at, front
        <5>2. CASE i = at
          <6>1. front \in front..(at - 1)
            BY <1>5, <5>1, <5>2 DEF at, front
          <6> QED BY <2>3, <4>2, <5>2, <6>1
        <5>3. CASE i # at
          <6>1. i \in front..(at - 1)
            BY <1>5, <5>3 DEF at, front
          <6> QED BY <2>3, <4>2, <5>1, <5>3, <6>1
        <5> QED BY <5>2, <5>3
      <4>8. ASSUME NEW i \in (at + 1)..(Past - 1) PROVE pivot <= array'[i]
        <5>1. i \in 1..Len(given) /\ i # at /\ i # front /\ i \in at..(Past - 1)
          BY <1>2, <1>3, <1>5, <2>2 DEF at, front
        <5> QED BY <2>3, <4>2, <5>1
      <4>9. front \in middle..(Past - 1) /\ front \in middle..front
        BY <1>2, <1>5, <2>2, <4>1, <4>4 DEF at, front, middle
      <4>10. First <= middle /\ middle <= front + 1
        BY <1>2, <1>5, <4>1, <4>4 DEF front, middle
      <4> QED BY <4>5, <4>6, <4>7, <4>8, <4>9, <4>10 DEF middle
    <3>5. (front + 1) - 1 = front /\ (at + 1) - 1 = at
      BY <1>5
    <3> HIDE DEF at, front, pivot
    <3> QED BY <1>4, <2>4, <3>1, <3>3, <3>4, <3>5 DEF PartAgrees
  <2> QED BY <2>5, <2>6, <2>7, <2>9, <2>10 DEF SortInv
<1> QED BY <1>6, <1>7

\* Behind middle1 nothing is less than the pivot.
LEMMA FirstHalfKeeps ==
    ASSUME SortInv, Middle1
    PROVE  SortInv'
<1>0. /\ QsTypeOK /\ CallsFit /\ CallsApart /\ InOrder /\ NothingLost /\ PartAgrees
      /\ part # NoPart /\ part.at = Past /\ part.step = "less"
      /\ part' = [part EXCEPT !.step = "equal", !.at = part.front, !.middle = part.front]
      /\ todo' = todo /\ given' = given /\ array' = array
  BY DEF SortInv, Middle1
<1>1. /\ part \in [step : {"less", "equal"}, pivot : Elements, front : Int, at : Int, middle : Int]
      /\ todo # <<>>
  BY <1>0 DEF QsTypeOK, PartAgrees
<1>2. /\ First \in Int /\ Past \in Int
      /\ Len(given) \in Nat /\ DOMAIN array = 1..Len(given)
      /\ \A i \in 1..Len(given) : array[i] \in Elements /\ array[i] \in Int
  BY <1>0, <1>1, FirstCall
<1>3. 1 <= First /\ First <= Past /\ Past <= Len(given) + 1
  BY <1>0, <1>1, AroundTheFirst
<1>4. First' = First /\ Past' = Past
  BY <1>0 DEF First, Past
<1>5. part' = [step |-> "equal", pivot |-> part.pivot, front |-> part.front, at |-> part.front,
               middle |-> part.front]
  BY <1>0, <1>1
<1>6. part.front \in Int /\ part.pivot \in Elements /\ part.pivot \in Int
  BY <1>1, ElementsAreNumbers
<1>7. QsTypeOK'
  BY <1>0, <1>5, <1>6 DEF QsTypeOK
<1>8. CallsFit' /\ CallsApart' /\ InOrder' /\ NothingLost'
  BY <1>0 DEF CallsFit, CallsApart, InOrder, NothingLost
<1>9. PartAgrees'
  <2> DEFINE front == part.front
             pivot == part.pivot
  <2>1. /\ First <= front /\ front <= Past
        /\ \A i \in First..(front - 1) : array[i] < pivot
        /\ \A i \in front..(Past - 1) : ~(array[i] < pivot)
        /\ \E i \in First..(Past - 1) : array[i] = pivot
    BY <1>0, <1>2, <1>6 DEF PartAgrees
  <2>2. PICK p \in First..(Past - 1) : array[p] = pivot
    BY <2>1
  <2> HIDE DEF front, pivot
  <2>3. p \in front..(Past - 1)
    <3>1. ~(p \in First..(front - 1))
      BY <1>6, <2>1, <2>2 DEF pivot
    <3> QED BY <1>2, <1>6, <2>1, <2>2, <3>1 DEF front
  <2>4. \A i \in front..(Past - 1) : pivot <= array[i]
    <3>1. ASSUME NEW i \in front..(Past - 1) PROVE pivot <= array[i]
      <4>1. i \in 1..Len(given)
        BY <1>2, <1>3, <1>6, <2>1 DEF front
      <4>2. array[i] \in Int /\ pivot \in Int
        BY <1>2, <1>6, <4>1 DEF pivot
      <4> QED BY <2>1, <4>2
    <3> QED BY <3>1
  <2>5. \A i \in front..(front - 1) : FALSE
    BY <1>6 DEF front
  <2>6. /\ part'.step = "equal" /\ part'.pivot = pivot /\ part'.front = front
        /\ part'.at = front /\ part'.middle = front
    BY <1>5 DEF front, pivot
  <2>7. todo' # <<>> /\ front <= front
    BY <1>0, <1>1, <1>6 DEF front
  <2> QED BY <1>0, <1>4, <2>1, <2>2, <2>3, <2>4, <2>5, <2>6, <2>7 DEF PartAgrees
<1> QED BY <1>7, <1>8, <1>9 DEF SortInv

\* Between middle1 and middle2 is the pivot, so the two calls are smaller and
\* everything else is in order.
LEMMA SecondHalfKeeps ==
    ASSUME SortInv, Middle2
    PROVE  SortInv'
<1> DEFINE middle == part.middle
           front == part.front
           pivot == part.pivot
<1>0. /\ QsTypeOK /\ CallsFit /\ CallsApart /\ InOrder /\ NothingLost /\ PartAgrees
      /\ part # NoPart /\ part.at = Past /\ part.step = "equal" /\ part' = NoPart
      /\ todo' = << <<First, middle>>, <<front, Past>> >> \o Tail(todo)
      /\ given' = given /\ array' = array
  BY DEF SortInv, Middle2
<1>1. /\ part \in [step : {"less", "equal"}, pivot : Elements, front : Int, at : Int, middle : Int]
      /\ todo # <<>>
  BY <1>0 DEF QsTypeOK, PartAgrees
<1>2. /\ First \in Int /\ Past \in Int /\ First = todo[1][1] /\ Past = todo[1][2]
      /\ Len(todo) \in Nat /\ Len(todo) >= 1 /\ DOMAIN todo = 1..Len(todo)
      /\ \A k \in 1..Len(todo) : todo[k][1] \in Int /\ todo[k][2] \in Int
      /\ Len(given) \in Nat /\ DOMAIN array = 1..Len(given)
      /\ \A i \in 1..Len(given) : array[i] \in Int
  BY <1>0, <1>1, FirstCall
<1>3. 1 <= First /\ First <= Past /\ Past <= Len(given) + 1
  BY <1>0, <1>1, AroundTheFirst
<1>4. front \in Int /\ middle \in Int /\ pivot \in Int
  BY <1>1, ElementsAreNumbers
<1>5. /\ First <= middle /\ middle <= front /\ front <= Past
      /\ \A i \in First..(middle - 1) : array[i] < pivot
      /\ \A i \in middle..(front - 1) : array[i] = pivot
      /\ \A i \in front..(Past - 1) : pivot < array[i]
      /\ \E i \in middle..(Past - 1) : array[i] = pivot
  BY <1>0 DEF PartAgrees
<1> HIDE DEF front, middle, pivot
<1>6. middle < front
  <2>1. PICK p \in middle..(Past - 1) : array[p] = pivot
    BY <1>5
  <2>2. ~(p \in front..(Past - 1))
    BY <1>4, <1>5, <2>1
  <2> QED BY <1>2, <1>4, <1>5, <2>1, <2>2
<1>7. <<First, middle>> \in Int \X Int /\ <<front, Past>> \in Int \X Int
  BY <1>2, <1>4
<1>8. /\ todo' \in Seq(Int \X Int) /\ Len(todo') = Len(todo) + 1
      /\ DOMAIN todo' = 1..(Len(todo) + 1)
      /\ todo'[1] = <<First, middle>> /\ todo'[2] = <<front, Past>>
      /\ \A k \in 3..(Len(todo) + 1) : todo'[k] = todo[k - 1]
  BY <1>0, <1>1, <1>7, TwoCallsMore
<1>9. QsTypeOK'
  BY <1>0, <1>8 DEF QsTypeOK
<1>10. todo'[1][1] = First /\ todo'[1][2] = middle /\ todo'[2][1] = front /\ todo'[2][2] = Past
  BY <1>8
<1>11. ASSUME NEW k \in 1..(Len(todo) + 1)
       PROVE  \/ k = 1 \/ k = 2
              \/ k \in 3..(Len(todo) + 1) /\ k - 1 \in 1..Len(todo) /\ k - 1 # 1
                 /\ todo'[k] = todo[k - 1]
  <2>1. ASSUME k # 1, k # 2
        PROVE  k \in 3..(Len(todo) + 1) /\ k - 1 \in 1..Len(todo) /\ k - 1 # 1
    <3>1. Len(todo) \in Nat
      BY <1>2
    <3> QED BY ONLY <2>1, <3>1, k \in 1..(Len(todo) + 1)
  <2> QED BY ONLY Zenon, <1>8, <2>1
<1>12. CallsFit'
  <2>1. ASSUME NEW k \in 1..(Len(todo) + 1)
        PROVE  /\ 1 <= todo'[k][1] /\ todo'[k][1] <= todo'[k][2]
               /\ todo'[k][2] + (Len(todo') - k) <= Len(given) + 1
    <3>1. Past + (Len(todo) - 1) <= Len(given) + 1
      <4>1. 1 \in DOMAIN todo
        BY <1>2
      <4> QED BY <1>0, <1>2, <4>1 DEF CallsFit
    <3>2. CASE k = 1
      <4>1. /\ 1 <= First /\ First <= middle
            /\ middle + ((Len(todo) + 1) - 1) <= Len(given) + 1
        <5>1. 1 <= First /\ First <= middle /\ middle <= Past
          BY <1>2, <1>3, <1>4, <1>5, <1>6
        <5>2. middle \in Int /\ Past \in Int /\ Len(todo) \in Nat /\ Len(given) \in Nat
          BY <1>2, <1>4
        <5>3. ASSUME NEW m \in Int, NEW p \in Int, NEW l \in Nat, NEW g \in Nat,
                     p + (l - 1) <= g + 1, m < p
              PROVE  m + ((l + 1) - 1) <= g + 1
          BY ONLY <5>3
        <5>4. middle < Past
          BY <1>2, <1>4, <1>5, <1>6
        <5>5. middle + ((Len(todo) + 1) - 1) <= Len(given) + 1
          BY ONLY <3>1, <5>2, <5>3, <5>4
        <5> QED BY ONLY Zenon, <5>1, <5>5
      <4>2. todo'[k][1] = First /\ todo'[k][2] = middle /\ Len(todo') = Len(todo) + 1
        BY <1>8, <1>10, <3>2
      <4> QED BY ONLY <3>2, <4>1, <4>2, Zenon
    <3>3. CASE k = 2
      <4>1. /\ 1 <= front /\ front <= Past
            /\ Past + ((Len(todo) + 1) - 2) <= Len(given) + 1
        <5>1. 1 <= front /\ front <= Past
          BY <1>2, <1>3, <1>4, <1>5, <1>6
        <5>2. Past \in Int /\ Len(todo) \in Nat
          BY <1>2
        <5>3. ASSUME NEW p \in Int, NEW l \in Nat
              PROVE  p + ((l + 1) - 2) = p + (l - 1)
          OBVIOUS
        <5>4. Past + ((Len(todo) + 1) - 2) = Past + (Len(todo) - 1)
          BY ONLY Zenon, <5>2, <5>3
        <5> QED BY ONLY Zenon, <3>1, <5>1, <5>4
      <4>2. todo'[k][1] = front /\ todo'[k][2] = Past /\ Len(todo') = Len(todo) + 1
        BY <1>8, <1>10, <3>3
      <4> QED BY ONLY <3>3, <4>1, <4>2, Zenon
    <3>4. CASE k - 1 \in 1..Len(todo) /\ todo'[k] = todo[k - 1]
      <4>1. /\ 1 <= todo[k - 1][1] /\ todo[k - 1][1] <= todo[k - 1][2]
            /\ todo[k - 1][2] + (Len(todo) - (k - 1)) <= Len(given) + 1
        BY <1>0, <1>2, <3>4 DEF CallsFit
      <4>2. Len(todo') - k = Len(todo) - (k - 1)
        BY <1>2, <1>8
      <4> QED BY <3>4, <4>1, <4>2
    <3> QED BY <1>11, <3>2, <3>3, <3>4
  <2> QED BY <1>0, <1>8, <2>1 DEF CallsFit
<1>13. \A k \in 2..Len(todo) : Past < todo[k][1]
  <2>1. ASSUME NEW k \in 2..Len(todo) PROVE Past < todo[k][1]
    <3>1. 1 \in DOMAIN todo /\ k \in DOMAIN todo /\ 1 < k
      BY <1>2
    <3> QED BY <1>0, <1>2, <3>1 DEF CallsApart
  <2> QED BY <2>1
<1>14. CallsApart'
  <2>1. ASSUME NEW k \in 1..(Len(todo) + 1), NEW l \in 1..(Len(todo) + 1), k < l
        PROVE  todo'[k][2] < todo'[l][1]
    <3>1. CASE l = 2
      <4>1. k = 1
        BY <2>1, <3>1
      <4> QED BY <1>6, <1>10, <3>1, <4>1
    <3>2. CASE l # 2
      <4>1. l - 1 \in 2..Len(todo) /\ todo'[l] = todo[l - 1] /\ todo[l - 1][1] \in Int
        BY <1>2, <1>8, <2>1, <3>2
      <4>2. CASE k = 1 \/ k = 2
        <5>1. todo'[k][2] = middle \/ todo'[k][2] = Past
          BY <1>10, <4>2
        <5>2. Past < todo[l - 1][1]
          BY <1>13, <4>1
        <5>3. todo'[l][1] = todo[l - 1][1]
          BY <4>1
        <5>4. middle < todo[l - 1][1]
          BY <1>2, <1>4, <1>5, <4>1, <5>2
        <5> QED BY ONLY <5>1, <5>2, <5>3, <5>4, Zenon
      <4>3. CASE k - 1 \in 1..Len(todo) /\ todo'[k] = todo[k - 1]
        <5>1. k - 1 \in DOMAIN todo /\ l - 1 \in DOMAIN todo /\ k - 1 < l - 1
          BY <1>2, <2>1, <4>1, <4>3
        <5>2. todo[k - 1][2] < todo[l - 1][1]
          BY <1>0, <5>1 DEF CallsApart
        <5> QED BY <4>1, <4>3, <5>2
      <4> QED BY <1>11, <4>2, <4>3
    <3> QED BY <3>1, <3>2
  <2> QED BY <1>8, <2>1 DEF CallsApart
<1>15. InOrder'
  <2>1. ASSUME NEW i \in 1..Len(given), NEW j \in 1..Len(given), i < j,
               NEW k \in 1..Len(todo), todo[k][1] <= i, j < todo[k][2]
        PROVE  \/ array[i] <= array[j]
               \/ \E m \in 1..(Len(todo) + 1) : todo'[m][1] <= i /\ j < todo'[m][2]
    <3>1. CASE k # 1
      <4>1. k + 1 \in 3..(Len(todo) + 1) /\ (k + 1) - 1 = k
        BY <1>2, <3>1
      <4>2. todo'[k + 1] = todo[k]
        <5>1. todo'[k + 1] = todo[(k + 1) - 1]
          BY ONLY <1>8, <4>1, Zenon
        <5> QED BY ONLY <4>1, <5>1, Zenon
      <4>3. k + 1 \in 1..(Len(todo) + 1)
        BY <1>2, <4>1
      <4> QED BY <2>1, <4>2, <4>3
    <3>2. CASE k = 1
      <4>1. First <= i /\ j < Past
        BY <1>2, <2>1, <3>2
      <4>2. 1 \in 1..(Len(todo) + 1) /\ 2 \in 1..(Len(todo) + 1)
        BY <1>2
      <4>3. CASE j < middle
        BY <1>10, <4>1, <4>2, <4>3
      <4>4. CASE front <= i
        BY <1>10, <4>1, <4>2, <4>4
      <4>5. CASE ~(j < middle) /\ ~(front <= i)
        <5>1. array[i] \in Int /\ array[j] \in Int
          BY <1>2
        <5>2. array[i] <= pivot
          <6>1. i \in First..(middle - 1) \/ i \in middle..(front - 1)
            BY <1>2, <1>4, <4>1, <4>5
          <6> QED BY <1>4, <1>5, <5>1, <6>1
        <5>3. pivot <= array[j]
          <6>1. j \in middle..(front - 1) \/ j \in front..(Past - 1)
            BY <1>2, <1>4, <4>1, <4>5
          <6> QED BY <1>4, <1>5, <5>1, <6>1
        <5> QED BY <1>4, <5>1, <5>2, <5>3
      <4> QED BY <4>3, <4>4, <4>5
    <3> QED BY <3>1, <3>2
  <2>2. ASSUME NEW i \in 1..Len(given), NEW j \in 1..Len(given), i < j
        PROVE  \/ array[i] <= array[j]
               \/ \E m \in 1..(Len(todo) + 1) : todo'[m][1] <= i /\ j < todo'[m][2]
    <3>1. \/ array[i] <= array[j]
          \/ \E k \in 1..Len(todo) : todo[k][1] <= i /\ j < todo[k][2]
      BY <1>0, <1>2, <2>2 DEF InOrder
    <3> QED BY <2>1, <2>2, <3>1
  <2>3. /\ array' = array /\ DOMAIN array = 1..Len(given)
        /\ DOMAIN todo' = 1..(Len(todo) + 1)
    BY <1>0, <1>2, <1>8
  <2>4. ASSUME NEW i \in DOMAIN array', NEW j \in DOMAIN array', i < j
        PROVE  \/ array'[i] <= array'[j]
               \/ \E m \in DOMAIN todo' : todo'[m][1] <= i /\ j < todo'[m][2]
    BY ONLY Zenon, <2>2, <2>3, <2>4, i \in DOMAIN array', j \in DOMAIN array'
  <2> QED BY ONLY Zenon, <2>4 DEF InOrder
<1>16. NothingLost' /\ PartAgrees'
  BY <1>0 DEF NothingLost, PartAgrees
<1> QED BY <1>9, <1>12, <1>14, <1>15, <1>16 DEF SortInv

(***************************************************************************)
(* Sorting keeps the invariant, whatever is sorted.                        *)
(***************************************************************************)
LEMMA SortKeeps == SortInv /\ [QsNext]_qsVars => SortInv'
<1> SUFFICES ASSUME SortInv, [QsNext]_qsVars PROVE SortInv'
  OBVIOUS
<1>1. CASE Return
  BY <1>1, ReturnKeeps
<1>2. CASE QuickSortCall
  BY <1>2, CallKeeps
<1>3. CASE Partition
  BY <1>3, PartitionKeeps
<1>4. CASE Middle1
  BY <1>4, FirstHalfKeeps
<1>5. CASE Middle2
  BY <1>5, SecondHalfKeeps
<1>6. CASE UNCHANGED qsVars
  <2>1. array' = array /\ given' = given /\ todo' = todo /\ part' = part
    BY <1>6 DEF qsVars
  <2>2. First' = First /\ Past' = Past
    BY <2>1 DEF First, Past
  <2>3. QsTypeOK' /\ CallsFit' /\ CallsApart' /\ InOrder' /\ NothingLost'
    BY <2>1 DEF SortInv, QsTypeOK, CallsFit, CallsApart, InOrder, NothingLost
  <2>4. PartAgrees'
    BY <2>1, <2>2 DEF SortInv, PartAgrees
  <2> QED BY <2>3, <2>4 DEF SortInv
<1> QED BY <1>1, <1>2, <1>3, <1>4, <1>5, <1>6 DEF QsNext

\* What is promised follows from the invariant; the stack fits as calls do not
\* overlap.
LEMMA SortIsRight == SortInv => SortsTheRest
<1> SUFFICES ASSUME SortInv PROVE SortsTheRest
  OBVIOUS
<1>1. Len(todo) <= Len(given) + 1
  <2>1. CASE todo = <<>>
    <3>1. Len(given) \in Nat
      BY LenProperties DEF SortInv, QsTypeOK
    <3> QED BY <2>1, <3>1
  <2>2. CASE todo # <<>>
    <3>1. QsTypeOK /\ CallsFit
      BY DEF SortInv
    <3>2. /\ Len(todo) \in Nat /\ 1 \in DOMAIN todo /\ Len(given) \in Nat
          /\ todo[1][1] \in Int /\ todo[1][2] \in Int
      BY <2>2, <3>1, FirstCall
    <3>3. /\ 1 <= todo[1][1] /\ todo[1][1] <= todo[1][2]
          /\ todo[1][2] + (Len(todo) - 1) <= Len(given) + 1
      BY <3>1, <3>2 DEF CallsFit
    <3> QED BY <3>2, <3>3
  <2> QED BY <2>1, <2>2
<1> QED BY <1>1 DEF SortInv, CallsApart, InOrder, NothingLost, SortsTheRest
-----------------------------------------------------------------------------
(***************************************************************************)
(* A path and the file name behind it are the whole text, wherever the     *)
(* path ends.                                                              *)
(***************************************************************************)
LEMMA PathAndName ==
    ASSUME NEW r \in Seq(Characters), PathEnds(r) # {}, NEW e, e = Max(PathEnds(r))
    PROVE  /\ e \in PathEnds(r) /\ e \in 0..Len(r) /\ \A f \in PathEnds(r) : f <= e
           /\ SubSeq(r, 1, e) \o SubSeq(r, e + 1, Len(r)) = r
<1>1. Len(r) \in Nat
  BY LenProperties
<1>2. PathEnds(r) \in SUBSET (0..Len(r))
  BY DEF PathEnds
<1>3. e \in PathEnds(r) /\ \A f \in PathEnds(r) : f <= e
  BY <1>1, <1>2, GreatestNumber
<1>4. /\ e \in 0..Len(r) /\ Len(r) \in e..Len(r)
      /\ 1 \in 1..(Len(r) + 1) /\ e \in (1 - 1)..Len(r)
  BY <1>1, <1>2, <1>3
<1>5. SubSeq(r, 1, e) \o SubSeq(r, e + 1, Len(r)) = SubSeq(r, 1, Len(r))
  BY <1>4, ConcatAdjacentSubSeq
<1> QED BY <1>3, <1>4, <1>5, SubSeqFull

\* Which characters differ.
LEMMA Tokens ==
    /\ "file" \in Characters /\ ":" \in Characters /\ "/" \in Characters
    /\ "file" # "/" /\ "file" # ":" /\ "file" # "." /\ "/" # ":" /\ "/" # "." /\ "." # ":"
    /\ \A a \in UrlLetters : a \notin Words /\ a # "/" /\ a # ":" /\ a # "."
  BY WordsAndLetters DEF Characters

(***************************************************************************)
(* The match is the one of the last colon a scheme can end at, with the    *)
(* shortest rest that is a path.                                           *)
(***************************************************************************)
LEMMA TheMatch ==
    ASSUME NEW t \in Seq(Characters), NEW c \in Schemes(t), \A d \in Schemes(t) : d <= c,
           NEW r \in AfterScheme(t, c), PathEnds(r) # {},
           \A q \in AfterScheme(t, c) : PathEnds(q) # {} => q = r \/ Len(r) < Len(q),
           Len(r) \in Nat, \A q \in AfterScheme(t, c) : Len(q) \in Nat,
           NEW e, e = Max(PathEnds(r))
    PROVE  /\ Url(t).scheme = SubSeq(t, 1, c - 1)
           /\ Url(t).path = SubSeq(r, 1, e)
           /\ Url(t).fileName = SubSeq(r, e + 1, Len(r))
<1>1. \A d \in Schemes(t) : d \in Int
  BY LenProperties DEF Schemes
<1> DEFINE matching == {d \in Schemes(t) : \E q \in AfterScheme(t, d) : PathEnds(q) # {}}
           colon == Max(matching)
           rest == CHOOSE p \in AfterScheme(t, colon) :
                       /\ PathEnds(p) # {}
                       /\ \A q \in AfterScheme(t, colon) : PathEnds(q) # {} => Len(p) <= Len(q)
           end == Max(PathEnds(rest))
<1>2. c \in matching /\ \A d \in matching : d \in Int /\ d <= c
  BY <1>1
<1>3. colon = c
  <2> HIDE DEF matching
  <2>1. \E x \in matching : \A y \in matching : x >= y
    BY <1>2
  <2>2. colon \in matching /\ \A y \in matching : colon >= y
    BY <2>1 DEF Max
  <2> HIDE DEF colon
  <2> QED BY <1>2, <2>2
<1>4. rest = r
  <2> HIDE DEF matching
  <2> DEFINE Best(p) == /\ PathEnds(p) # {}
                        /\ \A q \in AfterScheme(t, c) : PathEnds(q) # {} => Len(p) <= Len(q)
  <2>1. rest = CHOOSE p \in AfterScheme(t, c) : Best(p)
    BY <1>3
  <2>2. ASSUME NEW q \in AfterScheme(t, c), PathEnds(q) # {} PROVE Len(r) <= Len(q)
    BY <2>2
  <2>3. Best(r)
    BY <2>2
  <2>4. ASSUME NEW p \in AfterScheme(t, c), Best(p) PROVE p = r
    <3>1. Len(p) <= Len(r) /\ PathEnds(p) # {}
      BY <2>4
    <3>2. Len(p) \in Nat
      OBVIOUS
    <3> QED BY <3>1, <3>2
  <2> HIDE DEF Best, rest
  <2> QED BY <2>1, <2>3, <2>4
<1>5. matching # {}
  BY <1>2
<1>6. Url(t) = [scheme |-> SubSeq(t, 1, colon - 1), path |-> SubSeq(rest, 1, end),
                fileName |-> SubSeq(rest, end + 1, Len(rest))]
  <2>1. Url(t) = IF matching = {} THEN NoParts
                 ELSE [scheme |-> SubSeq(t, 1, colon - 1), path |-> SubSeq(rest, 1, end),
                       fileName |-> SubSeq(rest, end + 1, Len(rest))]
    BY ONLY Zenon DEF Url
  <2> HIDE DEF matching, colon, rest, end
  <2> QED BY <1>5, <2>1
<1>7. end = e
  <2> HIDE DEF rest
  <2> QED BY ONLY Zenon, <1>4, e = Max(PathEnds(r))
<1> HIDE DEF matching, colon, rest, end
<1>8. Url(t) = [scheme |-> SubSeq(t, 1, c - 1), path |-> SubSeq(r, 1, e),
                fileName |-> SubSeq(r, e + 1, Len(r))]
  BY ONLY Zenon, <1>3, <1>4, <1>6, <1>7
<1> DEFINE a == SubSeq(t, 1, c - 1)
           b == SubSeq(r, 1, e)
           f == SubSeq(r, e + 1, Len(r))
           u == Url(t)
<1>9. u = [scheme |-> a, path |-> b, fileName |-> f]
  BY ONLY Zenon, <1>8
<1> HIDE DEF a, b, f, u
<1>10. u.scheme = a /\ u.path = b /\ u.fileName = f
  BY ONLY <1>9
<1> QED BY <1>10 DEF a, b, f, u

(***************************************************************************)
(* A text without a colon before its first slash has no scheme: all of it  *)
(* is path and file name.                                                  *)
(***************************************************************************)
LEMMA UrlOfPath ==
    ASSUME NEW t \in Seq(Characters), PathEnds(t) # {}, Schemes(t) = {0},
           NEW e, e = Max(PathEnds(t))
    PROVE  /\ Url(t).scheme = <<>>
           /\ Url(t).path = SubSeq(t, 1, e)
<1>1. Len(t) \in Nat
  BY LenProperties
<1>2. SubSeq(t, 0 + 1, Len(t)) = t
  BY SubSeqFull
<1>3. AfterScheme(t, 0) = {t}
  BY <1>2 DEF AfterScheme
<1>4. /\ 0 \in Schemes(t) /\ \A d \in Schemes(t) : d <= 0
      /\ t \in AfterScheme(t, 0)
      /\ \A q \in AfterScheme(t, 0) : PathEnds(q) # {} => q = t \/ Len(t) < Len(q)
      /\ \A q \in AfterScheme(t, 0) : Len(q) \in Nat
  BY <1>1, <1>3
<1>5. Url(t).scheme = SubSeq(t, 1, 0 - 1) /\ Url(t).path = SubSeq(t, 1, e)
  BY <1>1, <1>4, TheMatch
<1>8. SubSeq(t, 1, 0 - 1) = <<>>
  BY SubSeqEmpty
<1> QED BY <1>5, <1>8

\* Both parts of a concatenation are pieces of it.
LEMMA TwoPieces ==
    ASSUME NEW E, NEW a \in Seq(E), NEW b \in Seq(E)
    PROVE  /\ a \o b \in Seq(E) /\ Len(a \o b) = Len(a) + Len(b) /\ Len(a) \in Nat /\ Len(b) \in Nat
           /\ \A i \in 1..Len(a) : (a \o b)[i] = a[i]
           /\ \A i \in 1..Len(b) : (a \o b)[Len(a) + i] = b[i]
           /\ SubSeq(a \o b, 1, Len(a)) = a
           /\ SubSeq(a \o b, Len(a) + 1, Len(a \o b)) = b
<1> DEFINE s == a \o b
<1>1. /\ s \in Seq(E) /\ Len(s) = Len(a) + Len(b)
      /\ \A i \in 1..(Len(a) + Len(b)) : s[i] = IF i <= Len(a) THEN a[i] ELSE b[i - Len(a)]
  BY ConcatProperties
<1>2. Len(a) \in Nat /\ Len(b) \in Nat
  BY LenProperties
<1> HIDE DEF s
<1>3. \A i \in 1..Len(a) : s[i] = a[i]
  BY <1>1, <1>2
<1>4. ASSUME NEW i \in 1..Len(b) PROVE s[Len(a) + i] = b[i]
  <2>1. Len(a) + i \in 1..(Len(a) + Len(b)) /\ ~(Len(a) + i <= Len(a)) /\ (Len(a) + i) - Len(a) = i
    BY <1>2
  <2> QED BY <1>1, <2>1
<1>5. SubSeq(s, 1, Len(a)) = a
  <2> DEFINE x == SubSeq(s, 1, Len(a))
  <2>1. /\ x \in Seq(E) /\ Len(x) = (IF 1 <= Len(a) THEN (Len(a) - 1) + 1 ELSE 0)
        /\ \A i \in 1..((Len(a) - 1) + 1) : x[i] = s[(1 + i) - 1]
    BY <1>1, <1>2, Pieces
  <2> HIDE DEF x
  <2>2. Len(x) = Len(a)
    BY <1>2, <2>1
  <2>3. ASSUME NEW i \in 1..Len(x) PROVE x[i] = a[i]
    BY <1>2, <1>3, <2>1, <2>2
  <2>4. x = a
    BY <2>1, <2>2, <2>3, SeqEqual
  <2> QED BY <2>4 DEF x
<1>6. SubSeq(s, Len(a) + 1, Len(s)) = b
  <2> DEFINE x == SubSeq(s, Len(a) + 1, Len(s))
  <2>1. /\ x \in Seq(E)
        /\ Len(x) = (IF Len(a) + 1 <= Len(s) THEN (Len(s) - (Len(a) + 1)) + 1 ELSE 0)
        /\ \A i \in 1..((Len(s) - (Len(a) + 1)) + 1) : x[i] = s[((Len(a) + 1) + i) - 1]
    BY <1>1, <1>2, Pieces
  <2> HIDE DEF x
  <2>2. Len(x) = Len(b)
    BY <1>1, <1>2, <2>1
  <2>3. ASSUME NEW i \in 1..Len(x) PROVE x[i] = b[i]
    <3>1. i \in 1..((Len(s) - (Len(a) + 1)) + 1) /\ ((Len(a) + 1) + i) - 1 = Len(a) + i
      BY <1>1, <1>2, <2>2
    <3>2. x[i] = s[Len(a) + i]
      BY <2>1, <3>1
    <3> QED BY <1>4, <2>2, <3>2
  <2>4. x = b
    BY <2>1, <2>2, <2>3, SeqEqual
  <2> QED BY <2>4 DEF x
<1> QED BY <1>1, <1>2, <1>3, <1>4, <1>5, <1>6 DEF s

\* The same of a text with two characters in front.
LEMMA BehindTwo ==
    ASSUME NEW a \in Seq(Characters), Len(a) = 2, NEW b \in Seq(Characters), NEW t, t = a \o b
    PROVE  /\ t \in Seq(Characters) /\ Len(b) \in Nat /\ Len(t) \in Nat /\ Len(t) = 2 + Len(b)
           /\ t[1] = a[1] /\ t[2] = a[2]
           /\ \A i \in 1..Len(b) : t[2 + i] = b[i]
           /\ SubSeq(t, 3, Len(t)) = b
           /\ IsPrefix(a, t)
<1>1. /\ t \in Seq(Characters) /\ Len(t) = Len(a) + Len(b) /\ Len(a) \in Nat /\ Len(b) \in Nat
      /\ \A i \in 1..Len(a) : t[i] = a[i]
      /\ \A i \in 1..Len(b) : t[Len(a) + i] = b[i]
      /\ SubSeq(t, 1, Len(a)) = a
      /\ SubSeq(t, Len(a) + 1, Len(t)) = b
  <2>1. /\ a \o b \in Seq(Characters) /\ Len(a \o b) = Len(a) + Len(b)
        /\ Len(a) \in Nat /\ Len(b) \in Nat
        /\ \A i \in 1..Len(a) : (a \o b)[i] = a[i]
        /\ \A i \in 1..Len(b) : (a \o b)[Len(a) + i] = b[i]
        /\ SubSeq(a \o b, 1, Len(a)) = a
        /\ SubSeq(a \o b, Len(a) + 1, Len(a \o b)) = b
    <3>1. a \in Seq(Characters) /\ b \in Seq(Characters)
      OBVIOUS
    <3> QED BY ONLY <3>1, TwoPieces
  <2> QED BY ONLY Zenon, <2>1, t = a \o b
<1>2. 1 \in 1..Len(a) /\ 2 \in 1..Len(a) /\ Len(a) + 1 = 3 /\ Len(a) <= Len(t)
  BY ONLY <1>1, Len(a) = 2
<1>3. t[1] = a[1] /\ t[2] = a[2]
  BY ONLY <1>1, <1>2
<1>4. SubSeq(t, 3, Len(t)) = b
  BY ONLY Zenon, <1>1, <1>2
<1>5. Len(t) \in Nat /\ Len(t) = 2 + Len(b)
  BY ONLY <1>1, Len(a) = 2
<1>6. \A i \in 1..Len(b) : t[2 + i] = b[i]
  BY ONLY Zenon, <1>1, Len(a) = 2
<1>7. SubSeq(a, 1, Len(a)) = a
  BY SubSeqFull
<1>8. IsPrefix(a, t)
  BY ONLY Zenon, <1>1, <1>2, <1>7 DEF IsPrefix
<1> QED BY <1>1, <1>3, <1>4, <1>5, <1>6, <1>8

(***************************************************************************)
(* "file:" and a rest, with "//" between them or not: if no later colon    *)
(* can end a scheme, the rest is the path of a local file.                 *)
(***************************************************************************)
LEMMA UrlOfFile ==
    ASSUME NEW m \in Seq(Characters), PathEnds(m) # {},
           NEW r, NEW t \in Seq(Characters), Len(t) \in Nat, 2 <= Len(t),
           t[1] = "file", t[2] = ":", SubSeq(t, 3, Len(t)) = r,
           \/ r = m /\ ~ IsPrefix(<<"/", "/">>, r)
           \/ /\ IsPrefix(<<"/", "/">>, r) /\ SubSeq(r, 3, Len(r)) = m
              /\ Len(r) \in Nat /\ Len(m) < Len(r),
           \A i \in 1..Len(t) : i # 2 /\ t[i] = ":" => \E j \in 1..(i - 1) : t[j] = "/"
    PROVE  ToLocalFile(Url(t)) = m
<1>1. DOMAIN t = 1..Len(t)
  BY LenProperties
<1>2. 0 \in Schemes(t)
  BY DEF Schemes
<1>3. 2 \in Schemes(t)
  <2>1. 2 \in DOMAIN t
    BY <1>1
  <2>2. \A j \in 1..(2 - 1) : t[j] # "/"
    BY Tokens
  <2>3. t[1] \in Words
    BY WordsAndLetters
  <2> QED BY <2>1, <2>2, <2>3 DEF Schemes
<1>4. ASSUME NEW d \in Schemes(t) PROVE d <= 2
  <2>1. CASE d = 0
    BY <2>1
  <2>2. CASE d # 0
    <3>1. d \in DOMAIN t /\ t[d] = ":" /\ \A j \in 1..(d - 1) : t[j] # "/"
      BY <2>2 DEF Schemes
    <3>2. d = 2
      BY <1>1, <3>1
    <3> QED BY <3>2
  <2> QED BY <2>1, <2>2
<1>5. Len(m) \in Nat
  BY LenProperties
<1>6. SubSeq(t, 2 + 1, Len(t)) = r
  <2>1. 2 + 1 = 3
    OBVIOUS
  <2> QED BY ONLY Zenon, <2>1, SubSeq(t, 3, Len(t)) = r
<1>7. AfterScheme(t, 2) = IF IsPrefix(<<"/", "/">>, r) THEN {SubSeq(r, 3, Len(r)), r} ELSE {r}
  <2>1. 2 > 0
    OBVIOUS
  <2> QED BY ONLY Zenon, <1>6, <2>1 DEF AfterScheme
<1>8. /\ m \in AfterScheme(t, 2)
      /\ \A q \in AfterScheme(t, 2) : Len(q) \in Nat /\ (q = m \/ Len(m) < Len(q))
  <2>1. CASE r = m /\ ~ IsPrefix(<<"/", "/">>, r)
    <3>1. AfterScheme(t, 2) = {m}
      BY ONLY Zenon, <1>7, <2>1
    <3> QED BY ONLY <1>5, <3>1
  <2>2. CASE /\ IsPrefix(<<"/", "/">>, r) /\ SubSeq(r, 3, Len(r)) = m
             /\ Len(r) \in Nat /\ Len(m) < Len(r)
    <3>1. AfterScheme(t, 2) = {m, r}
      BY ONLY Zenon, <1>7, <2>2
    <3> QED BY ONLY <1>5, <2>2, <3>1
  <2> QED BY <2>1, <2>2
<1>9. PICK e : e = Max(PathEnds(m))
  OBVIOUS
<1>10. SubSeq(m, 1, e) \o SubSeq(m, e + 1, Len(m)) = m
  BY <1>9, PathAndName
<1>11. /\ Url(t).scheme = SubSeq(t, 1, 2 - 1)
       /\ Url(t).path = SubSeq(m, 1, e)
       /\ Url(t).fileName = SubSeq(m, e + 1, Len(m))
  <2>1. \A q \in AfterScheme(t, 2) : PathEnds(q) # {} => q = m \/ Len(m) < Len(q)
    BY <1>8
  <2>2. \A q \in AfterScheme(t, 2) : Len(q) \in Nat
    BY <1>8
  <2>3. \A d \in Schemes(t) : d <= 2
    BY <1>4
  <2>4. t \in Seq(Characters) /\ m \in AfterScheme(t, 2) /\ PathEnds(m) # {}
    BY <1>8
  <2> QED BY ONLY <1>3, <1>5, <1>9, <2>1, <2>2, <2>3, <2>4, TheMatch
<1>12. SubSeq(t, 1, 2 - 1) # <<>> /\ SubSeq(t, 1, 2 - 1)[1] = "file"
  <2>1. /\ SubSeq(t, 1, 1) \in Seq(Characters)
        /\ Len(SubSeq(t, 1, 1)) = (IF 1 <= 1 THEN (1 - 1) + 1 ELSE 0)
        /\ \A i \in 1..((1 - 1) + 1) : SubSeq(t, 1, 1)[i] = t[(1 + i) - 1]
    <3>1. 1 \in 1..(Len(t) + 1) /\ 1 \in 0..Len(t) /\ t \in Seq(Characters)
      OBVIOUS
    <3> QED BY ONLY <3>1, Pieces
  <2>2. Len(SubSeq(t, 1, 1)) = 1 /\ SubSeq(t, 1, 1)[1] = t[1]
    BY <2>1
  <2>3. SubSeq(t, 1, 1) # <<>>
    BY <2>1, <2>2, EmptySeq
  <2> QED BY <2>2, <2>3
<1>13. IsLocalFile(Url(t))
  BY ONLY Zenon, <1>11, <1>12 DEF IsLocalFile
<1>14. ToLocalFile(Url(t)) = SubSeq(m, 1, e) \o SubSeq(m, e + 1, Len(m))
  BY ONLY Zenon, <1>11, <1>13 DEF ToLocalFile
<1> QED BY ONLY Zenon, <1>10, <1>14

\* A URL of "file://" and a path is that of the path, whatever is in it.
LEMMA WithSlashes ==
    ASSUME NEW m \in Seq(Characters), PathEnds(m) # {}, NEW T, T = <<"file", ":", "/", "/">> \o m
    PROVE  ToLocalFile(Url(T)) = m
<1>1. PICK r : r = <<"/", "/">> \o m
  OBVIOUS
<1>2. /\ <<"/", "/">> \in Seq(Characters) /\ Len(<<"/", "/">>) = 2
      /\ <<"file", ":">> \in Seq(Characters) /\ Len(<<"file", ":">>) = 2
      /\ <<"file", ":", "/", "/">> = <<"file", ":">> \o <<"/", "/">>
  BY ONLY Tokens
<1>3. T = <<"file", ":">> \o r
  <2>1. (<<"file", ":">> \o <<"/", "/">>) \o m = <<"file", ":">> \o (<<"/", "/">> \o m)
    BY <1>2, ConcatAssociative
  <2> QED BY ONLY Zenon, <1>1, <1>2, <2>1, T = <<"file", ":", "/", "/">> \o m
<1>4. /\ r \in Seq(Characters) /\ Len(m) \in Nat /\ Len(r) \in Nat /\ Len(r) = 2 + Len(m)
      /\ r[1] = <<"/", "/">>[1]
      /\ SubSeq(r, 3, Len(r)) = m
      /\ IsPrefix(<<"/", "/">>, r)
  <2>1. m \in Seq(Characters)
    OBVIOUS
  <2>2. PICK a : a = <<"/", "/">>
    OBVIOUS
  <2>3. a \in Seq(Characters) /\ Len(a) = 2 /\ r = a \o m
    BY ONLY Zenon, <1>1, <1>2, <2>2
  <2>4. r \in Seq(Characters) /\ Len(m) \in Nat /\ Len(r) \in Nat /\ Len(r) = 2 + Len(m)
    <3>1. /\ a \o m \in Seq(Characters) /\ Len(a \o m) = Len(a) + Len(m)
          /\ Len(a) \in Nat /\ Len(m) \in Nat
      BY ONLY <2>1, <2>3, TwoPieces
    <3> QED BY ONLY <2>3, <3>1
  <2>5. r[1] = a[1] /\ SubSeq(r, 3, Len(r)) = m
    BY ONLY Zenon, <2>1, <2>3, BehindTwo
  <2>6. IsPrefix(a, r)
    BY ONLY Zenon, <2>1, <2>3, BehindTwo
  <2> QED BY ONLY Zenon, <2>2, <2>4, <2>5, <2>6
<1>5. /\ T \in Seq(Characters) /\ Len(T) \in Nat /\ Len(T) = 2 + Len(r)
      /\ T[1] = <<"file", ":">>[1] /\ T[2] = <<"file", ":">>[2]
      /\ \A i \in 1..Len(r) : T[2 + i] = r[i]
      /\ SubSeq(T, 3, Len(T)) = r
  BY ONLY <1>2, <1>3, <1>4, BehindTwo
<1>6. T[1] = "file" /\ T[2] = ":" /\ r[1] = "/"
  BY ONLY <1>4, <1>5
<1>7. T[3] = "/"
  <2>1. 1 \in 1..Len(r) /\ 2 + 1 = 3
    BY ONLY <1>4
  <2> QED BY ONLY Zenon, <1>5, <1>6, <2>1
<1>8. ASSUME NEW i \in 1..Len(T), i # 2, T[i] = ":"
      PROVE  \E j \in 1..(i - 1) : T[j] = "/"
  <2>1. i # 1 /\ i # 3
    BY ONLY <1>6, <1>7, <1>8, Tokens
  <2>2. 3 \in 1..(i - 1)
    BY <1>5, <1>8, <2>1
  <2> QED BY ONLY Zenon, <1>7, <2>2
<1>9. 2 <= Len(T) /\ Len(m) < Len(r)
  BY ONLY <1>4, <1>5
<1>10. m \in Seq(Characters) /\ PathEnds(m) # {}
  OBVIOUS
<1> QED BY ONLY <1>4, <1>5, <1>6, <1>8, <1>9, <1>10, UrlOfFile

\* So is one of "file:" and a path without a colon and two slashes in front.
LEMMA WithoutSlashes ==
    ASSUME NEW m \in Seq(Characters), PathEnds(m) # {}, ~ IsPrefix(<<"/", "/">>, m),
           \A i \in 1..Len(m) : m[i] # ":", NEW T, T = <<"file", ":">> \o m
    PROVE  ToLocalFile(Url(T)) = m
<1>1. m \in Seq(Characters) /\ PathEnds(m) # {} /\ ~ IsPrefix(<<"/", "/">>, m)
  OBVIOUS
<1>2. <<"file", ":">> \in Seq(Characters) /\ Len(<<"file", ":">>) = 2
  BY ONLY Tokens
<1>3. /\ T \in Seq(Characters) /\ Len(T) \in Nat /\ Len(m) \in Nat /\ Len(T) = 2 + Len(m)
      /\ T[1] = <<"file", ":">>[1] /\ T[2] = <<"file", ":">>[2]
      /\ \A i \in 1..Len(m) : T[2 + i] = m[i]
      /\ SubSeq(T, 3, Len(T)) = m
  BY ONLY <1>1, <1>2, BehindTwo, T = <<"file", ":">> \o m
<1>4. T[1] = "file" /\ T[2] = ":"
  BY ONLY <1>3
<1>5. ASSUME NEW i \in 1..Len(T), i # 2, T[i] = ":"
      PROVE  \E j \in 1..(i - 1) : T[j] = "/"
  <2>1. i # 1
    BY ONLY <1>4, <1>5, Tokens
  <2>2. i - 2 \in 1..Len(m) /\ 2 + (i - 2) = i
    BY ONLY <1>3, <1>5, <2>1, i \in 1..Len(T)
  <2>3. T[i] = m[i - 2]
    BY ONLY Zenon, <1>3, <2>2
  <2>4. m[i - 2] # ":"
    BY ONLY Zenon, <2>2, \A k \in 1..Len(m) : m[k] # ":"
  <2> QED BY ONLY Zenon, <1>5, <2>3, <2>4
<1>6. 2 <= Len(T)
  BY ONLY <1>3
<1> QED BY ONLY <1>1, <1>3, <1>4, <1>5, <1>6, UrlOfFile

\* Places in a text and in the same text with a character in front.
LEMMA PlacesShift ==
    ASSUME NEW n \in Nat, NEW e \in 1..n, e # n,
           NEW l, l = (IF e + 1 <= n THEN (n - (e + 1)) + 1 ELSE 0), NEW j \in 2..(l - 1),
           NEW k, k = 1 + n
    PROVE  /\ j \in 1..((n - (e + 1)) + 1) /\ ((e + 1) + j) - 1 = e + j
           /\ e + j \in 1..n /\ 1 + (e + j) \in 2..(k - 1)
  OBVIOUS

\* A text without a scheme has a path if a slash in it can be the end of one.
LEMMA PathOnly ==
    ASSUME NEW t \in Seq(Characters), Schemes(t) = {0}, PathEnds(t) # {}
    PROVE  /\ Url(t).scheme = <<>>
           /\ Url(t).path = <<>> => PathEnds(t) \subseteq {0}
           /\ Url(t).path # <<>> => \E e \in PathEnds(t) : e \in 1..Len(t)
<1>1. PICK e : e = Max(PathEnds(t))
  OBVIOUS
<1>2. e \in PathEnds(t) /\ e \in 0..Len(t) /\ \A f \in PathEnds(t) : f <= e
  BY <1>1, PathAndName
<1>3. Url(t).scheme = <<>> /\ Url(t).path = SubSeq(t, 1, e)
  BY <1>1, UrlOfPath
<1>4. Len(t) \in Nat
  BY LenProperties
<1>5. CASE e = 0
  <2>1. SubSeq(t, 1, e) = <<>>
    BY <1>5, SubSeqEmpty
  <2>2. \A f \in PathEnds(t) : f \in Nat
    BY <1>4 DEF PathEnds
  <2>3. ASSUME NEW f \in PathEnds(t) PROVE f = 0
    <3>1. f <= e /\ f \in Nat
      BY <1>2, <2>2
    <3> QED BY ONLY <1>5, <3>1
  <2>4. PathEnds(t) \subseteq {0}
    BY <2>3
  <2> QED BY ONLY Zenon, <1>3, <2>1, <2>4
<1>6. CASE e # 0
  <2>1. e \in 1..Len(t)
    BY ONLY <1>2, <1>4, <1>6
  <2>2. SubSeq(t, 1, e) # <<>>
    <3>1. /\ SubSeq(t, 1, e) \in Seq(Characters)
          /\ Len(SubSeq(t, 1, e)) = IF 1 <= e THEN (e - 1) + 1 ELSE 0
      <4>1. 1 \in 1..(Len(t) + 1) /\ e \in 0..Len(t) /\ t \in Seq(Characters)
        BY <1>2, <1>4
      <4> QED BY ONLY <4>1, Pieces
    <3>2. Len(SubSeq(t, 1, e)) # 0
      BY <2>1, <3>1
    <3> QED BY <3>1, <3>2, EmptySeq
  <2> QED BY ONLY Zenon, <1>2, <1>3, <2>1, <2>2
<1> QED BY <1>5, <1>6

(***************************************************************************)
(* A path without a colon comes back as it was.  One without a directory   *)
(* does not start with two slashes: the first would be one.                *)
(***************************************************************************)
LEMMA NoColon ==
    ASSUME NEW t \in Seq(Characters), PathEnds(t) # {},
           \A i \in 1..Len(t) : t[i] # ":"
    PROVE  ToLocalFile(Url(FromLocalFile(t))) = t
<1>1. Len(t) \in Nat /\ DOMAIN t = 1..Len(t)
  BY LenProperties
<1>2. Schemes(t) = {0}
  BY ONLY Zenon, <1>1, \A i \in 1..Len(t) : t[i] # ":" DEF Schemes
<1>3. /\ Url(t).scheme = <<>>
      /\ Url(t).path = <<>> => PathEnds(t) \subseteq {0}
  BY <1>2, PathOnly
<1>4. CASE Url(t).path = <<>>
  <2>1. PICK T : T = <<"file", ":">> \o t
    OBVIOUS
  <2>2. FromLocalFile(t) = T
    BY ONLY Zenon, <1>3, <1>4, <2>1 DEF FromLocalFile
  <2>3. ASSUME IsPrefix(<<"/", "/">>, t) PROVE FALSE
    <3>1. /\ 2 <= Len(t)
          /\ SubSeq(<<"/", "/">>, 1, 2) = SubSeq(t, 1, 2)
      <4>1. Len(<<"/", "/">>) = 2
        OBVIOUS
      <4> QED BY ONLY Zenon, <2>3, <4>1 DEF IsPrefix
    <3>2. <<"/", "/">> \in Seq(Characters) /\ Len(<<"/", "/">>) = 2
      BY ONLY Tokens
    <3>3. SubSeq(<<"/", "/">>, 1, Len(<<"/", "/">>)) = <<"/", "/">>
      BY <3>2, SubSeqFull
    <3>4. SubSeq(t, 1, 2) = <<"/", "/">>
      BY ONLY Zenon, <3>1, <3>2, <3>3
    <3>5. \A i \in 1..((2 - 1) + 1) : SubSeq(t, 1, 2)[i] = t[(1 + i) - 1]
      <4>1. 1 \in 1..(Len(t) + 1) /\ 2 \in 0..Len(t) /\ t \in Seq(Characters)
        BY <1>1, <3>1
      <4> QED BY ONLY <4>1, Pieces
    <3>6. t[1] = "/" /\ t[2] = "/"
      <4>1. /\ 1 \in 1..((2 - 1) + 1) /\ (1 + 1) - 1 = 1
            /\ 2 \in 1..((2 - 1) + 1) /\ (1 + 2) - 1 = 2
            /\ <<"/", "/">>[1] = "/" /\ <<"/", "/">>[2] = "/"
        OBVIOUS
      <4> QED BY ONLY Zenon, <3>4, <3>5, <4>1
    <3>7. 0 \in PathEnds(t)
      BY <1>3, <1>4
    <3>8. IsFile(SubSeq(t, 0 + 1, Len(t)))
      BY ONLY <1>1, <3>1, <3>7 DEF PathEnds
    <3>9. IsFile(t)
      <4>1. SubSeq(t, 1, Len(t)) = t
        BY SubSeqFull
      <4>2. 0 + 1 = 1
        OBVIOUS
      <4> QED BY ONLY Zenon, <3>8, <4>1, <4>2
    <3>10. PICK i \in 2..(Len(t) - 1) : t[i] = "."
      BY <3>9 DEF IsFile
    <3>11. i # 2
      BY ONLY <3>6, <3>10, Tokens
    <3>12. PICK q : q = SubSeq(t, 2, Len(t))
      OBVIOUS
    <3>13. /\ q \in Seq(Characters)
           /\ Len(q) = (IF 2 <= Len(t) THEN (Len(t) - 2) + 1 ELSE 0)
           /\ \A k \in 1..((Len(t) - 2) + 1) : q[k] = t[(2 + k) - 1]
      <4>1. 2 \in 1..(Len(t) + 1) /\ Len(t) \in 0..Len(t) /\ t \in Seq(Characters)
        BY <1>1, <3>1
      <4> QED BY ONLY <3>12, <4>1, Pieces
    <3>14. i - 1 \in 2..(Len(q) - 1) /\ i - 1 \in 1..((Len(t) - 2) + 1) /\ (2 + (i - 1)) - 1 = i
      BY ONLY <1>1, <3>1, <3>10, <3>11, <3>13
    <3>15. q[i - 1] = "."
      BY ONLY <3>10, <3>13, <3>14
    <3>16. IsFile(q)
      BY ONLY <3>14, <3>15 DEF IsFile
    <3>17. 1 \in PathEnds(t)
      <4>1. 1 \in 0..Len(t)
        BY ONLY <1>1, <3>1
      <4>2. SubSeq(t, 1 + 1, Len(t)) = q
        <5>1. 1 + 1 = 2
          OBVIOUS
        <5> QED BY ONLY Zenon, <3>12, <5>1
      <4> QED BY ONLY <3>6, <3>16, <4>1, <4>2 DEF PathEnds
    <3> QED BY <1>3, <1>4, <3>17
  <2>4. ~ IsPrefix(<<"/", "/">>, t)
    BY <2>3
  <2>5. ToLocalFile(Url(T)) = t
    <3>1. t \in Seq(Characters) /\ PathEnds(t) # {} /\ \A i \in 1..Len(t) : t[i] # ":"
      OBVIOUS
    <3> QED BY ONLY <2>1, <2>4, <3>1, WithoutSlashes
  <2> QED BY ONLY Zenon, <2>2, <2>5
<1>5. CASE Url(t).path # <<>>
  <2>1. PICK T : T = <<"file", ":", "/", "/">> \o t
    OBVIOUS
  <2>2. ~ (Len(t) > 1 /\ t[2] = ":" /\ t[1] \in UrlLetters \cup {".", ":"})
    <3>1. Len(t) > 1 => 2 \in 1..Len(t)
      BY ONLY <1>1
    <3> QED BY ONLY Zenon, <3>1, \A i \in 1..Len(t) : t[i] # ":"
  <2>3. FromLocalFile(t) = T
    BY ONLY Zenon, <1>3, <1>5, <2>1, <2>2 DEF FromLocalFile
  <2>4. ToLocalFile(Url(T)) = t
    BY <2>1, WithSlashes
  <2> QED BY ONLY Zenon, <2>3, <2>4
<1> QED BY <1>4, <1>5

(***************************************************************************)
(* A path with a drive comes back with a slash in front.                   *)
(***************************************************************************)
LEMMA WithDrive ==
    ASSUME NEW t \in Seq(Characters), t # <<>>, PathEnds(t) # {}, t[1] \in UrlLetters,
           IsPrefix(<<":", "/">>, Tail(t)), Url(t).path # <<>>,
           \A i \in 3..Len(t) : t[i] # ":"
    PROVE  ToLocalFile(Url(FromLocalFile(t))) = <<"/">> \o t
<1>1. Len(t) \in Nat /\ DOMAIN t = 1..Len(t)
  BY LenProperties
<1>2. Len(t) >= 3 /\ t[2] = ":"
  <2>1. PICK q : q = Tail(t)
    OBVIOUS
  <2>2. q \in Seq(Characters) /\ Len(q) = Len(t) - 1 /\ \A i \in 1..Len(q) : q[i] = t[i + 1]
    BY <2>1, HeadTailProperties
  <2>3. 2 <= Len(q) /\ SubSeq(<<":", "/">>, 1, 2) = SubSeq(q, 1, 2)
    <3>1. Len(<<":", "/">>) = 2
      OBVIOUS
    <3> QED BY ONLY Zenon, <2>1, <3>1, IsPrefix(<<":", "/">>, Tail(t)) DEF IsPrefix
  <2>4. <<":", "/">> \in Seq(Characters) /\ Len(<<":", "/">>) = 2
    BY ONLY Tokens
  <2>5. SubSeq(<<":", "/">>, 1, Len(<<":", "/">>)) = <<":", "/">>
    BY <2>4, SubSeqFull
  <2>6. SubSeq(q, 1, 2) = <<":", "/">>
    BY ONLY Zenon, <2>3, <2>4, <2>5
  <2>7. \A i \in 1..((2 - 1) + 1) : SubSeq(q, 1, 2)[i] = q[(1 + i) - 1]
    <3>1. 1 \in 1..(Len(q) + 1) /\ 2 \in 0..Len(q)
      BY ONLY <1>1, <2>2, <2>3
    <3> QED BY ONLY <2>2, <3>1, Pieces
  <2>8. q[1] = ":"
    <3>1. 1 \in 1..((2 - 1) + 1) /\ (1 + 1) - 1 = 1 /\ <<":", "/">>[1] = ":"
      OBVIOUS
    <3> QED BY ONLY Zenon, <2>6, <2>7, <3>1
  <2>9. q[1] = t[1 + 1]
    BY ONLY <1>1, <2>2, <2>3
  <2> QED BY ONLY <1>1, <2>2, <2>3, <2>8, <2>9
<1>3. t[1] \notin Words /\ t[1] # ":"
  BY Tokens
<1>4. Schemes(t) = {0}
  <2>1. ASSUME NEW i \in 1..Len(t), t[i] = ":" PROVE i = 2
    BY ONLY <1>1, <1>3, <2>1, i \in 1..Len(t), \A k \in 3..Len(t) : t[k] # ":"
  <2> QED BY ONLY Zenon, <1>1, <1>3, <2>1 DEF Schemes
<1>5. /\ Url(t).scheme = <<>>
      /\ Url(t).path # <<>> => \E e \in PathEnds(t) : e \in 1..Len(t)
  BY <1>4, PathOnly
<1>6. PICK m : m = <<"/">> \o t
  OBVIOUS
<1>7. PICK T : T = <<"file", ":", "/", "/">> \o m
  OBVIOUS
<1>8. <<"/">> \in Seq(Characters) /\ <<"file", ":", "/", "/">> \in Seq(Characters)
  BY ONLY Tokens
<1>9. FromLocalFile(t) = T
  <2>1. Len(t) > 1
    BY <1>1, <1>2
  <2>2. FromLocalFile(t) = <<"file", ":", "/", "/", "/">> \o t
    BY ONLY Zenon, <1>2, <1>5, <2>1, Url(t).path # <<>>, t[1] \in UrlLetters DEF FromLocalFile
  <2>3. <<"file", ":", "/", "/", "/">> = <<"file", ":", "/", "/">> \o <<"/">>
    OBVIOUS
  <2>4. (<<"file", ":", "/", "/">> \o <<"/">>) \o t = <<"file", ":", "/", "/">> \o (<<"/">> \o t)
    BY <1>8, ConcatAssociative
  <2> QED BY ONLY Zenon, <1>6, <1>7, <2>2, <2>3, <2>4
<1>10. /\ m \in Seq(Characters) /\ Len(m) = 1 + Len(t) /\ m[1] = "/"
       /\ \A i \in 1..Len(t) : m[1 + i] = t[i]
  <2>1. /\ <<"/">> \o t \in Seq(Characters)
        /\ Len(<<"/">> \o t) = Len(<<"/">>) + Len(t)
        /\ \A i \in 1..Len(<<"/">>) : (<<"/">> \o t)[i] = <<"/">>[i]
        /\ \A i \in 1..Len(t) : (<<"/">> \o t)[Len(<<"/">>) + i] = t[i]
    BY <1>8, TwoPieces
  <2>2. Len(<<"/">>) = 1 /\ 1 \in 1..Len(<<"/">>) /\ <<"/">>[1] = "/"
    OBVIOUS
  <2> QED BY ONLY Zenon, <1>6, <2>1, <2>2
<1>11. PathEnds(m) # {}
  <2>1. PICK e \in PathEnds(t) : e \in 1..Len(t)
    BY <1>5
  <2>2. t[e] = "/" /\ (e = Len(t) \/ IsFile(SubSeq(t, e + 1, Len(t))))
    <3>1. e # 0
      BY ONLY <1>1, <2>1
    <3> QED BY ONLY Zenon, <2>1, <3>1 DEF PathEnds
  <2>3. CASE e = Len(t)
    <3>1. m[1 + e] = "/" /\ 1 + e = Len(m)
      BY ONLY <1>1, <1>10, <2>1, <2>2, <2>3
    <3>2. Len(m) \in 0..Len(m) /\ m[Len(m)] = "/"
      BY ONLY <1>1, <1>10, <3>1
    <3>3. Len(m) \in PathEnds(m)
      BY ONLY <3>2 DEF PathEnds
    <3> QED BY <3>3
  <2>4. CASE e # Len(t)
    <3>1. PICK q : q = SubSeq(t, e + 1, Len(t))
      OBVIOUS
    <3>2. /\ q \in Seq(Characters)
          /\ Len(q) = (IF e + 1 <= Len(t) THEN (Len(t) - (e + 1)) + 1 ELSE 0)
          /\ \A k \in 1..((Len(t) - (e + 1)) + 1) : q[k] = t[((e + 1) + k) - 1]
      <4>1. e + 1 \in 1..(Len(t) + 1) /\ Len(t) \in 0..Len(t) /\ t \in Seq(Characters)
        BY <1>1, <2>1
      <4> QED BY ONLY <3>1, <4>1, Pieces
    <3>3. IsFile(q)
      BY ONLY Zenon, <2>2, <2>4, <3>1
    <3>4. PICK j \in 2..(Len(q) - 1) : q[j] = "."
      BY ONLY <3>3 DEF IsFile
    <3>5. /\ j \in 1..((Len(t) - (e + 1)) + 1) /\ ((e + 1) + j) - 1 = e + j
          /\ e + j \in 1..Len(t) /\ 1 + (e + j) \in 2..(Len(m) - 1)
      BY ONLY <1>1, <1>10, <2>1, <2>4, <3>2, <3>4, PlacesShift
    <3>6. t[e + j] = "."
      BY ONLY <3>2, <3>4, <3>5
    <3>7. m[1 + (e + j)] = "."
      BY ONLY <1>10, <3>5, <3>6
    <3>8. IsFile(m)
      BY ONLY Zenon, <3>5, <3>7 DEF IsFile
    <3>9. SubSeq(m, 0 + 1, Len(m)) = m
      <4>1. 0 + 1 = 1
        OBVIOUS
      <4>2. SubSeq(m, 1, Len(m)) = m
        BY ONLY <1>10, SubSeqFull
      <4> QED BY ONLY Zenon, <4>1, <4>2
    <3>10. IsFile(SubSeq(m, 0 + 1, Len(m)))
      BY ONLY Zenon, <3>8, <3>9
    <3>11. 0 \in 0..Len(m)
      BY ONLY <1>1, <1>10
    <3>12. 0 \in PathEnds(m)
      BY ONLY Zenon, <3>10, <3>11 DEF PathEnds
    <3> QED BY <3>12
  <2> QED BY <2>3, <2>4
<1>12. ToLocalFile(Url(T)) = m
  BY ONLY <1>7, <1>10, <1>11, WithSlashes
<1> QED BY ONLY Zenon, <1>6, <1>9, <1>12

\* The inductive invariant of the paths: their characters are all it takes.
UrlTyped == local \in Seq(Characters)

\* LocalFilesComeBack, of any path.
LEMMA EveryPath ==
    ASSUME UrlTyped
    PROVE  LocalFilesComeBack
<1>1. Len(local) \in Nat /\ DOMAIN local = 1..Len(local) /\ local \in Seq(Characters)
  BY LenProperties DEF UrlTyped
<1>2. SUFFICES ASSUME local # <<>>, PathEnds(local) # {}
               PROVE  /\ (\A i \in DOMAIN local : local[i] # ":") =>
                            ToLocalFile(Url(FromLocalFile(local))) = local
                      /\ (local[1] \in UrlLetters /\ IsPrefix(<<":", "/">>, Tail(local))
                          /\ Url(local).path # <<>> /\ \A i \in 3..Len(local) : local[i] # ":") =>
                            ToLocalFile(Url(FromLocalFile(local))) = <<"/">> \o local
  BY Zenon DEF LocalFilesComeBack
<1>3. ASSUME \A i \in DOMAIN local : local[i] # ":"
      PROVE  ToLocalFile(Url(FromLocalFile(local))) = local
  BY ONLY Zenon, <1>1, <1>2, <1>3, NoColon
<1>4. ASSUME local[1] \in UrlLetters, IsPrefix(<<":", "/">>, Tail(local)),
             Url(local).path # <<>>, \A i \in 3..Len(local) : local[i] # ":"
      PROVE  ToLocalFile(Url(FromLocalFile(local))) = <<"/">> \o local
  BY ONLY Zenon, <1>1, <1>2, <1>4, WithDrive
<1> QED BY <1>3, <1>4

\* The empty path is one.
LEMMA UrlStarts == UrlInit => UrlTyped
  BY DEF UrlInit, UrlTyped

\* A longer path is one.
LEMMA UrlKeeps == UrlTyped /\ [UrlNext]_urlVars => UrlTyped'
<1> SUFFICES ASSUME UrlTyped, [UrlNext]_urlVars
             PROVE  UrlTyped'
  OBVIOUS
<1>1. CASE UNCHANGED urlVars
  BY <1>1 DEF UrlTyped, urlVars
<1>2. CASE UrlNext
  <2>1. PICK c \in Characters : local' = Append(local, c)
    BY <1>2 DEF UrlNext, Grow
  <2> QED BY <2>1, AppendProperties DEF UrlTyped
<1> QED BY <1>1, <1>2

-----------------------------------------------------------------------------
(* The decoder of base64 never writes past what it has allocated, whatever *)
(* text it is given, it returns what was encoded as far as the text is     *)
(* intact, and every way of cutting an array into pieces and removing some *)
(* agrees with the others (ByteArray).                                     *)
THEOREM BytesComeBack ==
    BaSpec => [](BaTypeOK /\ NeverOverruns /\ DecodesBack /\ SlicesMakeTheWhole)
<1>1. BytesInv => BaTypeOK /\ NeverOverruns /\ DecodesBack /\ SlicesMakeTheWhole
  <2>1. BytesInv => data \in Seq(Bytes)
    BY BytesTyped DEF BytesInv
  <2> QED BY <2>1, SlicesAreRight DEF BytesInv
<1> QED BY <1>1, BytesStart, BytesKeep, PTL DEF BaSpec

(* quick_sort puts any array of numbers in order: when no call of it is    *)
(* left the array is ascending and holds every number as often as before,  *)
(* and there are never more calls than the array is long, and one.         *)
THEOREM QuickSortSorts == QsSpec => []SortsTheRest
<1> QED BY SortStarts, SortKeeps, SortIsRight, PTL DEF QsSpec

(* The path of a file without a colon, of any length, is what toLocalFile  *)
(* makes of the Url that fromLocalFile makes of it, and one that starts    *)
(* with a drive comes back with a slash in front, if the last component is *)
(* empty or has an extension (Url): what LocalFilesComeBack says.          *)
THEOREM UrlsComeBack == UrlSpec => []LocalFilesComeBack
<1>1. UrlTyped => LocalFilesComeBack
  BY EveryPath
<1> QED BY <1>1, UrlStarts, UrlKeeps, PTL DEF UrlSpec

(* The three together, as the runs check them.                             *)
THEOREM TextIsRight == BaSpec /\ QsSpec /\ UrlSpec => []TextAgrees
<1>1. /\ BaTypeOK /\ NeverOverruns /\ DecodesBack /\ SlicesMakeTheWhole
      /\ SortsTheRest /\ LocalFilesComeBack
      => TextAgrees
  BY DEF TextAgrees
<1> QED BY <1>1, BytesComeBack, QuickSortSorts, UrlsComeBack, PTL
=============================================================================
