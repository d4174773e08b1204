-------------------------- MODULE OscMessageProofs --------------------------
(***************************************************************************)
(* What TLAPS proves of the codec. For packets of any length and content:  *)
(* the parser reads nothing outside them, and its recursion is bounded by  *)
(* their size. For batches of any size: it yields what was sent.           *)
(***************************************************************************)
EXTENDS OscMessage, SequenceTheorems, WellFoundedInduction, TLAPS

(***************************************************************************)
(* Numbers and sequences: induction, stated with a set instead of an       *)
(* operator, and what FlattenSeq() joins. OscDispatchProofs uses them too. *)
(***************************************************************************)
\* A set that holds 0 and the successor of each number it holds, holds all.
LEMMA NatSet ==
  ASSUME NEW S, 0 \in S, \A n \in Nat : n \in S => n + 1 \in S
  PROVE  \A n \in Nat : n \in S
<1> DEFINE T == Nat \ S
           R == OpToRel(<, Nat)
<1>1. \A x, y \in Nat : x < y => <<x, y>> \in R
  BY DEF OpToRel
<1>2. IsWellFoundedOn(R, Nat)
  BY NatLessThanWellFounded
<1> SUFFICES ASSUME T # {} PROVE FALSE
  OBVIOUS
<1>3. T \subseteq Nat
  OBVIOUS
<1> HIDE DEF T, R
<1>4. PICK x \in T : \A y \in T : ~(<<y, x>> \in R)
  BY <1>2, <1>3, WFMin
<1>5. x \in Nat /\ x # 0
  BY <1>4 DEF T
<1>6. x - 1 \in Nat /\ x - 1 < x /\ (x - 1) + 1 = x
  BY <1>5
<1>7. x - 1 \in S
  BY <1>1, <1>4, <1>5, <1>6 DEF T
<1> QED
  BY <1>4, <1>5, <1>6, <1>7 DEF T

-----------------------------------------------------------------------------
\* g[k] is the first k elements of ss in one.
Joins(g, ss, n) == \A i \in 1..n : g[i] = IF i = 1 THEN ss[i] ELSE g[i - 1] \o ss[i]

LEMMA JoinsExists ==
  ASSUME NEW S, NEW ss \in Seq(Seq(S))
  PROVE  \A n \in 0..Len(ss) : \E g \in [1..n -> Seq(S)] : Joins(g, ss, n)
<1> DEFINE N == {n \in Nat : n <= Len(ss) => \E g \in [1..n -> Seq(S)] : Joins(g, ss, n)}
<1>1. 0 \in N
  <2>1. [i \in 1..0 |-> <<>>] \in [1..0 -> Seq(S)] /\ 1..0 = {}
    OBVIOUS
  <2> QED
    BY <2>1 DEF Joins
<1>2. ASSUME NEW n \in Nat, n \in N, n + 1 <= Len(ss)
      PROVE  \E g \in [1..n + 1 -> Seq(S)] : Joins(g, ss, n + 1)
  <2>1. PICK g \in [1..n -> Seq(S)] : Joins(g, ss, n)
    BY <1>2
  <2> DEFINE x == IF n = 0 THEN ss[1] ELSE g[n] \o ss[n + 1]
             h == [i \in 1..n + 1 |-> IF i = n + 1 THEN x ELSE g[i]]
  <2>2. ss[n + 1] \in Seq(S)
    <3>1. n + 1 \in 1..Len(ss)
      BY <1>2
    <3> QED
      BY <3>1, ElementOfSeq
  <2>3. x \in Seq(S)
    <3>1. CASE n = 0
      BY <2>2, <3>1
    <3>2. CASE n # 0
      <4>1. n \in 1..n
        BY <3>2
      <4>2. g[n] \in Seq(S)
        BY <4>1
      <4> QED
        BY <2>2, <3>2, <4>2
    <3> QED
      BY <3>1, <3>2
  <2>4. h \in [1..n + 1 -> Seq(S)]
    BY <2>3
  <2>5. h[n + 1] = x /\ \A i \in 1..n : h[i] = g[i]
    <3>1. n + 1 \in 1..n + 1 /\ \A i \in 1..n : i \in 1..n + 1 /\ i # n + 1
      OBVIOUS
    <3> HIDE DEF x
    <3> QED
      BY <3>1
  <2> HIDE DEF h
  <2>6. Joins(h, ss, n + 1)
    <3> SUFFICES ASSUME NEW i \in 1..n + 1
                 PROVE  h[i] = IF i = 1 THEN ss[i] ELSE h[i - 1] \o ss[i]
      BY DEF Joins
    <3>1. CASE i = n + 1
      <4>1. CASE n = 0
        BY <2>5, <3>1, <4>1
      <4>2. CASE n # 0
        <5>1. i # 1 /\ i - 1 = n /\ n \in 1..n
          BY <3>1, <4>2
        <5>2. h[i] = g[n] \o ss[n + 1] /\ h[n] = g[n]
          BY <2>5, <3>1, <4>2, <5>1
        <5> QED
          BY <3>1, <5>1, <5>2
      <4> QED
        BY <4>1, <4>2
    <3>2. CASE i \in 1..n
      <4>1. i = 1 \/ i - 1 \in 1..n
        BY <3>2
      <4>2. g[i] = IF i = 1 THEN ss[i] ELSE g[i - 1] \o ss[i]
        BY <2>1, <3>2 DEF Joins
      <4> QED
        BY <2>5, <3>2, <4>1, <4>2
    <3> QED
      BY <3>1, <3>2
  <2> QED
    BY <2>4, <2>6
<1>3. \A n \in Nat : n \in N => n + 1 \in N
  BY <1>2
<1> HIDE DEF N
<1>4. \A n \in Nat : n \in N
  BY <1>1, <1>3, NatSet
<1> QED
  BY <1>4 DEF N

LEMMA JoinsUnique ==
  ASSUME NEW g, NEW h, NEW ss, NEW tt, NEW n, n \in Nat, Joins(g, ss, n), Joins(h, tt, n),
         \A i \in 1..n : ss[i] = tt[i]
  PROVE  \A i \in 1..n : g[i] = h[i]
<1> DEFINE N == {i \in Nat : i + 1 \in 1..n => g[i + 1] = h[i + 1]}
<1>1. 0 \in N
  BY DEF Joins
<1>2. ASSUME NEW i \in Nat, i \in N, (i + 1) + 1 \in 1..n
      PROVE  g[(i + 1) + 1] = h[(i + 1) + 1]
  <2>1. i + 1 \in 1..n /\ (i + 1) + 1 # 1 /\ ((i + 1) + 1) - 1 = i + 1
    BY <1>2
  <2>2. g[i + 1] = h[i + 1]
    BY <1>2, <2>1
  <2>3. /\ g[(i + 1) + 1] = g[i + 1] \o ss[(i + 1) + 1]
        /\ h[(i + 1) + 1] = h[i + 1] \o tt[(i + 1) + 1]
    BY <1>2, <2>1 DEF Joins
  <2> QED
    BY <1>2, <2>2, <2>3
<1>3. \A i \in Nat : i \in N => i + 1 \in N
  BY <1>2
<1> HIDE DEF N
<1>4. \A i \in Nat : i \in N
  BY <1>1, <1>3, NatSet
<1>5. ASSUME NEW i \in 1..n
      PROVE  g[i] = h[i]
  <2>1. i - 1 \in Nat /\ (i - 1) + 1 = i
    OBVIOUS
  <2>2. i - 1 \in N
    BY <1>4, <2>1
  <2> QED
    BY <2>1, <2>2 DEF N
<1> QED
  BY <1>5

\* FlattenSeq() is what its recursive function is for the last element.
LEMMA FlattenJoins ==
  ASSUME NEW S, NEW ss \in Seq(Seq(S)), Len(ss) # 0
  PROVE  \E g \in [1..Len(ss) -> Seq(S)] : Joins(g, ss, Len(ss)) /\ FlattenSeq(ss) = g[Len(ss)]
<1> DEFINE f == CHOOSE h : h = [i \in 1..Len(ss) |-> IF i = 1 THEN ss[i] ELSE h[i - 1] \o ss[i]]
<1>1. FlattenSeq(ss) = f[Len(ss)]
  BY DEF FlattenSeq
<1>2. PICK g \in [1..Len(ss) -> Seq(S)] : Joins(g, ss, Len(ss))
  BY JoinsExists
<1>3. g = [i \in 1..Len(ss) |-> IF i = 1 THEN ss[i] ELSE g[i - 1] \o ss[i]]
  BY <1>2 DEF Joins
<1>4. f = [i \in 1..Len(ss) |-> IF i = 1 THEN ss[i] ELSE f[i - 1] \o ss[i]]
  BY <1>3
<1> HIDE DEF f
<1>5. Joins(f, ss, Len(ss))
  BY <1>4 DEF Joins
<1>6. Len(ss) \in Nat /\ Len(ss) \in 1..Len(ss)
  OBVIOUS
<1>7. f[Len(ss)] = g[Len(ss)]
  BY <1>2, <1>5, <1>6, JoinsUnique, SMTT(30)
<1> QED
  BY <1>1, <1>2, <1>7

LEMMA FlattenType ==
  ASSUME NEW S, NEW ss \in Seq(Seq(S))
  PROVE  FlattenSeq(ss) \in Seq(S)
<1>1. CASE Len(ss) = 0
  <2>1. FlattenSeq(ss) = <<>>
    BY <1>1 DEF FlattenSeq
  <2> QED
    BY <2>1, EmptySeq
<1>2. CASE Len(ss) # 0
  <2>1. Len(ss) \in 1..Len(ss)
    BY <1>2
  <2>2. PICK g \in [1..Len(ss) -> Seq(S)] : FlattenSeq(ss) = g[Len(ss)]
    BY <1>2, FlattenJoins
  <2> QED
    BY <2>1, <2>2
<1> QED
  BY <1>1, <1>2

LEMMA FlattenEmpty == FlattenSeq(<<>>) = <<>>
BY DEF FlattenSeq

LEMMA FlattenAppend ==
  ASSUME NEW S, NEW ss, ss \in Seq(Seq(S)), NEW x \in Seq(S)
  PROVE  FlattenSeq(Append(ss, x)) = FlattenSeq(ss) \o x
<1>9. PICK tt : tt = Append(ss, x)
  OBVIOUS
<1>0. PICK n \in Nat : n = Len(ss)
  OBVIOUS
<1>1. /\ tt \in Seq(Seq(S)) /\ Len(tt) = n + 1 /\ n \in Nat /\ tt[n + 1] = x
      /\ \A i \in 1..n : tt[i] = ss[i]
  BY <1>0, <1>9
<1>2. PICK g : Joins(g, tt, n + 1) /\ FlattenSeq(tt) = g[n + 1]
  <2>1. Len(tt) # 0
    BY <1>1
  <2>2. \E g \in [1..Len(tt) -> Seq(S)] : Joins(g, tt, Len(tt)) /\ FlattenSeq(tt) = g[Len(tt)]
    BY <1>1, <2>1, FlattenJoins
  <2> QED
    BY <1>1, <2>2
<1>3. n + 1 \in 1..n + 1
  BY <1>1
<1>4. CASE n = 0
  <2>1. ss = <<>>
    BY <1>0, <1>4, EmptySeq
  <2>2. FlattenSeq(ss) = <<>>
    BY <2>1, FlattenEmpty
  <2>3. FlattenSeq(tt) = x
    BY <1>1, <1>2, <1>4 DEF Joins
  <2> QED
    BY <1>9, <2>2, <2>3
<1>5. CASE n # 0
  <2>1. PICK h : Joins(h, ss, n) /\ FlattenSeq(ss) = h[n]
    BY <1>0, <1>5, FlattenJoins
  <2>2. Joins(g, tt, n)
    <3> SUFFICES ASSUME NEW i \in 1..n
                 PROVE  g[i] = IF i = 1 THEN tt[i] ELSE g[i - 1] \o tt[i]
      BY DEF Joins
    <3>1. i \in 1..n + 1
      BY <1>1
    <3> QED
      BY <1>2, <3>1 DEF Joins
  <2>3. \A i \in 1..n : g[i] = h[i]
    <3>1. \A i \in 1..n : tt[i] = ss[i]
      BY <1>1
    <3>2. Joins(h, ss, n)
      BY <2>1
    <3>3. Joins(g, tt, n)
      BY <2>2
    <3>4. n \in Nat /\ \A i \in 1..n : ss[i] = tt[i]
      BY <3>1
    <3>5. \A i \in 1..n : h[i] = g[i]
      BY <3>2, <3>3, <3>4, JoinsUnique, SMTT(60)
    <3> QED
      BY <3>5
  <2>4. n \in 1..n /\ n + 1 # 1 /\ (n + 1) - 1 = n
    BY <1>1, <1>5
  <2>5. g[n + 1] = g[n] \o tt[n + 1]
    BY <1>2, <1>3, <2>4 DEF Joins
  <2> QED
    BY <1>1, <1>2, <2>1, <2>3, <2>4, <2>5, <1>9
<1> QED
  BY <1>4, <1>5

-----------------------------------------------------------------------------
-----------------------------------------------------------------------------
\* Arithmetic of the padding.

\* A string that ends before a boundary has its padding there too.
LEMMA PaddingFits ==
  ASSUME NEW d \in Nat, NEW n \in Nat, n % 4 = 0, d < n
  PROVE  /\ ((d + 4) \div 4) * 4 \in Nat /\ ((d + 4) \div 4) * 4 <= n
         /\ (((d + 4) \div 4) * 4) % 4 = 0
OBVIOUS

LEMMA BlobFits ==
  ASSUME NEW d \in Nat, NEW n \in Nat, n % 4 = 0, d <= n
  PROVE  Aligned(d) \in Nat /\ Aligned(d) <= n /\ Aligned(d) % 4 = 0 /\ d <= Aligned(d)
BY DEF Aligned

LEMMA Further ==
  ASSUME NEW a \in Int, NEW b \in Int, NEW c \in Int, (b - a) % 4 = 0, (c - b) % 4 = 0
  PROVE  (c - a) % 4 = 0
OBVIOUS

LEMMA Remaining ==
  ASSUME NEW a \in Int, NEW b \in Int, NEW c \in Int, (b - a) % 4 = 0, (c - a) % 4 = 0
  PROVE  (c - b) % 4 = 0
OBVIOUS

LEMMA Widths ==
  ASSUME NEW type \in Range(Tag) \ {Tag.s, Tag.b}
  PROVE  Width(type) \in {0, 4, 8}
BY DEF Range, Tag, Width

-----------------------------------------------------------------------------
\* The first k elements of several sequences in one, and how it grows.
Firsts(ss, k) == FlattenSeq(SubSeq(ss, 1, k))

LEMMA FirstsSteps ==
  ASSUME NEW S, NEW ss \in Seq(Seq(S))
  PROVE  /\ Firsts(ss, 0) = <<>> /\ Firsts(ss, Len(ss)) = FlattenSeq(ss)
         /\ \A k \in 0..Len(ss) : Firsts(ss, k) \in Seq(S)
         /\ \A k \in 1..Len(ss) : Firsts(ss, k) = Firsts(ss, k - 1) \o ss[k]
<1>1. SubSeq(ss, 1, 0) = <<>> /\ SubSeq(ss, 1, Len(ss)) = ss
  <2>1. SubSeq(ss, 1, 0) = <<>>
    BY SubSeqEmpty
  <2>2. SubSeq(ss, 1, Len(ss)) = ss
    BY SubSeqFull
  <2> QED
    BY <2>1, <2>2
<1>2. ASSUME NEW k \in 0..Len(ss)
      PROVE  SubSeq(ss, 1, k) \in Seq(Seq(S))
  <2>1. \A i \in 1..k : ss[i] \in Seq(S)
    BY ElementOfSeq
  <2> QED
    BY <2>1, SubSeqProperties
<1>3. ASSUME NEW k \in 1..Len(ss)
      PROVE  Firsts(ss, k) = Firsts(ss, k - 1) \o ss[k]
  <2>1. k - 1 \in 0..Len(ss) /\ ss[k] \in Seq(S) /\ 1 \in 1..Len(ss) /\ k \in 1..Len(ss)
    BY ElementOfSeq
  <2>2. SubSeq(ss, 1, k) = SubSeq(ss, 1, k - 1) \o <<ss[k]>>
    BY <2>1, SubSeqRecursiveSecond
  <2>3. SubSeq(ss, 1, k - 1) \in Seq(Seq(S))
    BY <1>2, <2>1
  <2>4. SubSeq(ss, 1, k) = Append(SubSeq(ss, 1, k - 1), ss[k])
    BY <2>1, <2>2, <2>3, AppendIsConcat
  <2> QED
    BY <2>1, <2>3, <2>4, FlattenAppend DEF Firsts
<1> QED
  BY <1>1, <1>2, <1>3, FlattenEmpty, FlattenType DEF Firsts

-----------------------------------------------------------------------------
(***************************************************************************)
(* What is built, in bytes: where each part of a message and of a batch    *)
(* stands, and that every part is a whole number of words.                 *)
(***************************************************************************)
\* Two sequences in one.
LEMMA BytesJoined ==
  \A s, t \in Seq(Byte) :
     /\ s \o t \in Seq(Byte) /\ Len(s \o t) = Len(s) + Len(t)
     /\ \A i \in 1..Len(s) + Len(t) : (s \o t)[i] = IF i <= Len(s) THEN s[i] ELSE t[i - Len(s)]
<1> SUFFICES ASSUME NEW s \in Seq(Byte), NEW t \in Seq(Byte)
             PROVE  /\ s \o t \in Seq(Byte) /\ Len(s \o t) = Len(s) + Len(t)
                    /\ \A i \in 1..Len(s) + Len(t) :
                          (s \o t)[i] = IF i <= Len(s) THEN s[i] ELSE t[i - Len(s)]
  OBVIOUS
<1> QED
  BY ConcatProperties

\* A number's bytes, as a sequence.
LEMMA FourBytes ==
  ASSUME NEW v \in [1..4 -> Byte]
  PROVE  v \in Seq(Byte) /\ Len(v) = 4
<1>1. PICK n \in Nat : n = 4
  OBVIOUS
<1>2. v \in [1..n -> Byte]
  BY <1>1
<1>3. v \in Seq(Byte) /\ Len(v) = n
  BY <1>2
<1> QED
  BY <1>1, <1>3

\* What padding adds.
LEMMA AlignedIs ==
  ASSUME NEW n \in Nat
  PROVE  Aligned(n) \in Nat /\ Aligned(n) % 4 = 0 /\ n <= Aligned(n)
BY DEF Aligned

LEMMA ZerosIs ==
  ASSUME NEW n \in Nat
  PROVE  Zeros(n) \in Seq(Byte) /\ Len(Zeros(n)) = n /\ \A k \in 1..n : Zeros(n)[k] = 0
<1>1. Zeros(n) \in [1..n -> Byte]
  BY DEF Zeros, Byte
<1> QED
  BY <1>1 DEF Zeros

\* A padded string: the string, and a NUL behind it.
LEMMA PaddedIs ==
  ASSUME NEW str \in Seq(Byte)
  PROVE  /\ Padded(str) \in Seq(Byte) /\ Len(Padded(str)) = Aligned(Len(str) + 1)
         /\ Len(Padded(str)) % 4 = 0 /\ Len(str) + 1 <= Len(Padded(str))
         /\ \A k \in 1..Len(str) : Padded(str)[k] = str[k]
         /\ Padded(str)[Len(str) + 1] = 0
<1> DEFINE n == Len(str)
           z == Aligned(n + 1) - n
<1>1. n \in Nat /\ Aligned(n + 1) \in Nat /\ Aligned(n + 1) % 4 = 0 /\ n + 1 <= Aligned(n + 1)
  <2>1. n \in Nat /\ n + 1 \in Nat
    OBVIOUS
  <2> QED
    BY <2>1, AlignedIs
<1>2. z \in Nat /\ 1 <= z /\ n + z = Aligned(n + 1)
  BY <1>1
<1>3. Padded(str) = str \o Zeros(z)
  BY DEF Padded
<1> HIDE DEF z
<1>4. Zeros(z) \in Seq(Byte) /\ Len(Zeros(z)) = z /\ Zeros(z)[1] = 0
  BY <1>2, ZerosIs
<1>5. /\ str \o Zeros(z) \in Seq(Byte) /\ Len(str \o Zeros(z)) = n + z
      /\ \A i \in 1..n + z : (str \o Zeros(z))[i] = IF i <= n THEN str[i] ELSE Zeros(z)[i - n]
  <2>1. PICK u \in Seq(Byte) : u = Zeros(z)
    BY <1>4
  <2>2. /\ str \o u \in Seq(Byte) /\ Len(str \o u) = Len(str) + Len(u)
        /\ \A i \in 1..Len(str) + Len(u) :
              (str \o u)[i] = IF i <= Len(str) THEN str[i] ELSE u[i - Len(str)]
    BY BytesJoined
  <2> QED
    BY <1>4, <2>1, <2>2
<1>6. (str \o Zeros(z))[n + 1] = 0
  <2>1. n + 1 \in 1..n + z /\ ~(n + 1 <= n) /\ (n + 1) - n = 1
    BY <1>1, <1>2
  <2> QED
    BY <1>4, <1>5, <2>1
<1>7. \A k \in 1..n : k \in 1..n + z /\ k <= n
  BY <1>1, <1>2
<1> QED
  BY <1>1, <1>2, <1>3, <1>5, <1>6, <1>7

\* A C string is bytes.
LEMMA CharsAreBytes == \A str \in Seq(Char) : str \in Seq(Byte)
<1>1. Char \subseteq Byte
  BY DEF Char, Byte
<1> QED
  BY <1>1, SeqMonotonic

LEMMA BE32Is ==
  ASSUME NEW n \in Nat
  PROVE  BE32(n) \in Seq(Byte) /\ Len(BE32(n)) = 4
<1> DEFINE a == (n \div 16777216) % 256
           b == (n \div 65536) % 256
           c == (n \div 256) % 256
           d == n % 256
<1>1. a \in 0..255 /\ b \in 0..255 /\ c \in 0..255 /\ d \in 0..255
  OBVIOUS
<1>2. BE32(n) = <<a, b, c, d>>
  BY DEF BE32
<1> HIDE DEF a, b, c, d
<1> QED
  BY <1>1, <1>2 DEF Byte

\* A length is written and read back.
LEMMA LengthKept ==
  ASSUME NEW n \in Nat, n <= MaxLength
  PROVE  /\ BE32(n) \in Seq(Byte) /\ Len(BE32(n)) = 4
         /\ ((BE32(n)[1] * 256 + BE32(n)[2]) * 256 + BE32(n)[3]) * 256 + BE32(n)[4] = n
<1> DEFINE a == (n \div 16777216) % 256
           b == (n \div 65536) % 256
           c == (n \div 256) % 256
           d == n % 256
<1>1. a \in 0..255 /\ b \in 0..255 /\ c \in 0..255 /\ d \in 0..255
  OBVIOUS
<1>2. BE32(n) = <<a, b, c, d>>
  BY DEF BE32
<1>3. ((a * 256 + b) * 256 + c) * 256 + d = n
  <2>1. n \div 16777216 \in 0..127
    BY DEF MaxLength
  <2>2. n \div 65536 = a * 256 + b
    BY <2>1
  <2>3. n \div 256 = (n \div 65536) * 256 + c
    OBVIOUS
  <2>4. n = (n \div 256) * 256 + d
    OBVIOUS
  <2> HIDE DEF a, b, c, d
  <2> QED
    BY <1>1, <2>2, <2>3, <2>4
<1> HIDE DEF a, b, c, d
<1> QED
  BY <1>1, <1>2, <1>3 DEF Byte

\* The parts of a message: its arguments' bytes, and its type tags.
ArgsBytes(m) == [k \in DOMAIN m.args |-> BuildArg(m.args[k])]

TagsOf(m) == <<Comma>> \o [k \in DOMAIN m.args |-> m.args[k].type]

\* What a caller hands over.
LEMMA SendableIs ==
  ASSUME NEW m \in Sendable
  PROVE  /\ m = [address |-> m.address, args |-> m.args]
         /\ m.address \in Seq(Char) /\ m.args \in Seq(Outbound)
         /\ Len(m.address) \in Nat \ {0} /\ m.address[1] = Slash
<1>1. m \in [address : Seq(Char), args : Seq(Outbound)] /\ m.address # <<>> /\ Head(m.address) = Slash
  BY DEF Sendable
<1> QED
  BY <1>1

\* An argument is of one of four types.
LEMMA OutboundIs ==
  ASSUME NEW arg \in Outbound
  PROVE  /\ arg = [type |-> arg.type, value |-> arg.value]
         /\ \/ arg.type \in {Tag.i, Tag.f} /\ arg.value \in Seq(Byte) /\ Len(arg.value) = 4
            \/ arg.type = Tag.s /\ arg.value \in Seq(Char)
            \/ arg.type = Tag.b /\ arg.value \in Seq(Byte)
         /\ arg.type \in Char
<1>1. Tag.i = 105 /\ Tag.f = 102 /\ Tag.s = 115 /\ Tag.b = 98
  BY DEF Tag
<1>2. CASE arg \in [type : {Tag.i, Tag.f}, value : [1..4 -> Byte]]
  <2>1. arg.value \in [1..4 -> Byte]
    BY <1>2
  <2>2. arg.value \in Seq(Byte) /\ Len(arg.value) = 4
    BY <2>1, FourBytes
  <2> QED
    BY <1>1, <1>2, <2>2 DEF Char
<1>3. CASE arg \in [type : {Tag.s}, value : Seq(Char)]
  BY <1>1, <1>3 DEF Char
<1>4. CASE arg \in [type : {Tag.b}, value : Seq(Byte)]
  BY <1>1, <1>4 DEF Char
<1> QED
  BY <1>2, <1>3, <1>4 DEF Outbound

\* The bytes of an argument.
LEMMA BuildArgIs ==
  ASSUME NEW arg \in Outbound
  PROVE  /\ arg.type \in {Tag.i, Tag.f} => BuildArg(arg) = arg.value
         /\ arg.type = Tag.s => BuildArg(arg) = Padded(arg.value)
         /\ arg.type = Tag.b =>
              BuildArg(arg) = (BE32(Len(arg.value)) \o arg.value) \o Zeros(Aligned(Len(arg.value)) - Len(arg.value))
         /\ BuildArg(arg) \in Seq(Byte) /\ Len(BuildArg(arg)) % 4 = 0
<1>1. Tag.i = 105 /\ Tag.f = 102 /\ Tag.s = 115 /\ Tag.b = 98
  BY DEF Tag
<1>2. CASE arg.type \in {Tag.i, Tag.f}
  <2>2. arg.type # Tag.s /\ arg.type # Tag.b
    BY <1>1, <1>2
  <2>1. BuildArg(arg) = arg.value
    BY <1>2, <2>2 DEF BuildArg
  <2>3. arg.value \in Seq(Byte) /\ Len(arg.value) = 4
    BY <2>2, OutboundIs
  <2>4. BuildArg(arg) \in Seq(Byte) /\ Len(BuildArg(arg)) % 4 = 0
    BY <2>1, <2>3
  <2> QED
    BY <2>1, <2>2, <2>4
<1>3. CASE arg.type = Tag.s
  <2>1. ~(arg.type \in {Tag.i, Tag.f}) /\ arg.type # Tag.b
    BY <1>1, <1>3
  <2>2. BuildArg(arg) = Padded(arg.value)
    BY <2>1 DEF BuildArg
  <2>3. arg.value \in Seq(Byte)
    BY <1>3, <2>1, OutboundIs, CharsAreBytes
  <2> QED
    BY <1>3, <2>1, <2>2, <2>3, PaddedIs
<1>4. CASE arg.type = Tag.b
  <2> DEFINE n == Len(arg.value)
             z == Aligned(n) - n
  <2>1. ~(arg.type \in {Tag.i, Tag.f}) /\ arg.type # Tag.s
    BY <1>1, <1>4
  <2>2. BuildArg(arg) = (BE32(n) \o arg.value) \o Zeros(z)
    BY <1>4, <2>1 DEF BuildArg
  <2>3. arg.value \in Seq(Byte) /\ n \in Nat
    BY <1>4, <2>1, OutboundIs
  <2>4. z \in Nat /\ (4 + n + z) % 4 = 0
    <3>1. Aligned(n) \in Nat /\ Aligned(n) % 4 = 0 /\ n <= Aligned(n)
      BY <2>3, AlignedIs
    <3> QED
      BY <2>3, <3>1
  <2> HIDE DEF n, z
  <2>5. BE32(n) \in Seq(Byte) /\ Len(BE32(n)) = 4
    BY <2>3, BE32Is
  <2>6. Zeros(z) \in Seq(Byte) /\ Len(Zeros(z)) = z
    BY <2>4, ZerosIs
  <2>7. BE32(n) \o arg.value \in Seq(Byte) /\ Len(BE32(n) \o arg.value) = 4 + n
    BY <2>3, <2>5, BytesJoined DEF n
  <2>8. BuildArg(arg) \in Seq(Byte) /\ Len(BuildArg(arg)) = 4 + n + z
    BY <2>2, <2>6, <2>7, BytesJoined
  <2> QED
    BY <1>4, <2>1, <2>2, <2>4, <2>8 DEF n, z
<1> QED
  BY <1>2, <1>3, <1>4, OutboundIs

\* The type tags name the arguments.
LEMMA TagsIs ==
  ASSUME NEW m \in Sendable
  PROVE  /\ TagsOf(m) \in Seq(Char) /\ Len(TagsOf(m)) = Len(m.args) + 1 /\ TagsOf(m)[1] = Comma
         /\ \A k \in 1..Len(m.args) : TagsOf(m)[k + 1] = m.args[k].type
<1> DEFINE types == [k \in DOMAIN m.args |-> m.args[k].type]
           n == Len(m.args)
<1>1. m.args \in Seq(Outbound)
  BY SendableIs
<1>2. n \in Nat /\ DOMAIN m.args = 1..n /\ \A k \in 1..n : m.args[k] \in Outbound
  BY <1>1
<1>3. \A k \in 1..n : m.args[k].type \in Char
  BY <1>2, OutboundIs
<1>4. types \in [1..n -> Char]
  BY <1>2, <1>3
<1>5. types \in Seq(Char) /\ Len(types) = n /\ \A k \in 1..n : types[k] = m.args[k].type
  BY <1>2, <1>4
<1>6. TagsOf(m) = <<Comma>> \o types
  BY DEF TagsOf
<1> HIDE DEF types
<1>7. <<Comma>> \in Seq(Char) /\ Len(<<Comma>>) = 1 /\ <<Comma>>[1] = Comma
  BY DEF Comma, Char
<1>8. /\ TagsOf(m) \in Seq(Char) /\ Len(TagsOf(m)) = 1 + n
      /\ \A i \in 1..1 + n : TagsOf(m)[i] = IF i <= 1 THEN Comma ELSE types[i - 1]
  BY <1>5, <1>6, <1>7, ConcatProperties
<1>9. \A k \in 1..n : k + 1 \in 1..1 + n /\ ~(k + 1 <= 1) /\ (k + 1) - 1 = k
  BY <1>2
<1>10. 1 \in 1..1 + n
  BY <1>2
<1> QED
  BY <1>2, <1>5, <1>8, <1>9, <1>10

\* A message: its address, its tags, its arguments.
LEMMA BuildIs ==
  ASSUME NEW m \in Sendable
  PROVE  /\ Build(m) = (Padded(m.address) \o Padded(TagsOf(m))) \o FlattenSeq(ArgsBytes(m))
         /\ Padded(m.address) \in Seq(Byte) /\ Padded(TagsOf(m)) \in Seq(Byte)
         /\ ArgsBytes(m) \in Seq(Seq(Byte)) /\ Len(ArgsBytes(m)) = Len(m.args)
         /\ \A k \in 1..Len(m.args) : ArgsBytes(m)[k] = BuildArg(m.args[k])
<1>1. Build(m) = (Padded(m.address) \o Padded(TagsOf(m))) \o FlattenSeq(ArgsBytes(m))
  BY DEF Build, BuildMessage, TagsOf, ArgsBytes
<1>2. m.address \in Seq(Byte) /\ TagsOf(m) \in Seq(Byte)
  BY SendableIs, TagsIs, CharsAreBytes
<1>3. m.args \in Seq(Outbound)
  BY SendableIs
<1>4. /\ Len(m.args) \in Nat /\ DOMAIN m.args = 1..Len(m.args)
      /\ \A k \in 1..Len(m.args) : m.args[k] \in Outbound
  BY <1>3
<1>5. \A k \in 1..Len(m.args) : BuildArg(m.args[k]) \in Seq(Byte)
  BY <1>4, BuildArgIs
<1>6. ArgsBytes(m) \in [1..Len(m.args) -> Seq(Byte)]
  BY <1>4, <1>5 DEF ArgsBytes
<1> QED
  BY <1>1, <1>2, <1>4, <1>6, PaddedIs DEF ArgsBytes

LEMMA SumAligned ==
  ASSUME NEW a \in Nat, NEW b \in Nat, a % 4 = 0, b % 4 = 0
  PROVE  (a + b) % 4 = 0
OBVIOUS

\* Sequences of whole words make a sequence of whole words.
LEMMA FirstsAligned ==
  ASSUME NEW ss \in Seq(Seq(Byte)), \A k \in 1..Len(ss) : Len(ss[k]) % 4 = 0
  PROVE  \A k \in 0..Len(ss) : Len(Firsts(ss, k)) \in Nat /\ Len(Firsts(ss, k)) % 4 = 0
<1> DEFINE N == {k \in Nat : k <= Len(ss) => Len(Firsts(ss, k)) % 4 = 0}
<1>1. 0 \in N
  <2>1. Firsts(ss, 0) = <<>>
    BY FirstsSteps
  <2>2. Len(Firsts(ss, 0)) = 0 /\ 0 % 4 = 0
    BY <2>1
  <2> QED
    BY <2>2
<1>2. ASSUME NEW k \in Nat, k \in N, k + 1 <= Len(ss)
      PROVE  Len(Firsts(ss, k + 1)) % 4 = 0
  <2>1. k + 1 \in 1..Len(ss) /\ (k + 1) - 1 = k /\ k \in 0..Len(ss)
    BY <1>2
  <2>2. Firsts(ss, k + 1) = Firsts(ss, k) \o ss[k + 1] /\ Firsts(ss, k) \in Seq(Byte)
    BY <2>1, FirstsSteps
  <2>3. ss[k + 1] \in Seq(Byte)
    BY <2>1, ElementOfSeq
  <2>4. Len(Firsts(ss, k + 1)) = Len(Firsts(ss, k)) + Len(ss[k + 1])
    BY <2>2, <2>3, ConcatProperties
  <2>5. Len(Firsts(ss, k)) \in Nat /\ Len(ss[k + 1]) \in Nat
    BY <2>2, <2>3
  <2>6. Len(Firsts(ss, k)) % 4 = 0 /\ Len(ss[k + 1]) % 4 = 0
    <3>1. k <= Len(ss)
      BY <2>1
    <3> QED
      BY <1>2, <2>1, <3>1
  <2> QED
    BY <2>4, <2>5, <2>6, SumAligned
<1>3. \A k \in Nat : k \in N => k + 1 \in N
  BY <1>2
<1> HIDE DEF N
<1>4. \A k \in Nat : k \in N
  BY <1>1, <1>3, NatSet
<1>5. ASSUME NEW k \in 0..Len(ss)
      PROVE  Len(Firsts(ss, k)) \in Nat
  <2>1. Firsts(ss, k) \in Seq(Byte)
    BY FirstsSteps
  <2> QED
    BY <2>1
<1>6. \A k \in 0..Len(ss) : k \in Nat /\ k <= Len(ss)
  OBVIOUS
<1> QED
  BY <1>4, <1>5, <1>6 DEF N

\* The elements of a bundle with their lengths.
Frames(es) == [k \in DOMAIN es |-> BE32(Len(es[k])) \o es[k]]

LEMMA FramesIs ==
  ASSUME NEW es \in Seq(Seq(Byte))
  PROVE  /\ Frames(es) \in Seq(Seq(Byte)) /\ Len(Frames(es)) = Len(es)
         /\ \A k \in 1..Len(es) :
               Frames(es)[k] = BE32(Len(es[k])) \o es[k] /\ Len(Frames(es)[k]) = 4 + Len(es[k])
<1>1. Len(es) \in Nat /\ DOMAIN es = 1..Len(es)
  OBVIOUS
<1>2. ASSUME NEW k \in 1..Len(es)
      PROVE  /\ BE32(Len(es[k])) \o es[k] \in Seq(Byte)
             /\ Len(BE32(Len(es[k])) \o es[k]) = 4 + Len(es[k])
  <2>1. es[k] \in Seq(Byte)
    BY ElementOfSeq
  <2>2. Len(es[k]) \in Nat
    BY <2>1
  <2>3. BE32(Len(es[k])) \in Seq(Byte) /\ Len(BE32(Len(es[k]))) = 4
    BY <2>2, BE32Is
  <2> QED
    BY <2>1, <2>3, BytesJoined
<1>3. Frames(es) \in [1..Len(es) -> Seq(Byte)]
  BY <1>1, <1>2 DEF Frames
<1>4. \A k \in 1..Len(es) : Frames(es)[k] = BE32(Len(es[k])) \o es[k]
  BY <1>1 DEF Frames
<1>5. Frames(es) \in Seq(Seq(Byte)) /\ Len(Frames(es)) = Len(es)
  BY <1>1, <1>3
<1> QED
  BY <1>2, <1>4, <1>5

\* The header of a bundle.
LEMMA HeaderIs ==
  /\ BundleName \in Seq(Byte) /\ Len(BundleName) = 8 /\ BundleName[1] = 35
  /\ Zeros(8) \in Seq(Byte) /\ Len(Zeros(8)) = 8
  /\ BundleName \o Zeros(8) \in Seq(Byte) /\ Len(BundleName \o Zeros(8)) = 16
<1>1. BundleName \in Seq(Byte) /\ Len(BundleName) = 8 /\ BundleName[1] = 35
  BY DEF BundleName, Byte
<1>2. Zeros(8) \in Seq(Byte) /\ Len(Zeros(8)) = 8
  BY ZerosIs
<1>3. /\ BundleName \o Zeros(8) \in Seq(Byte)
      /\ Len(BundleName \o Zeros(8)) = Len(BundleName) + Len(Zeros(8))
  BY <1>1, <1>2, BytesJoined, Zenon
<1> QED
  BY <1>1, <1>2, <1>3

\* A batch: its only element, or a header and frames.
LEMMA EndBatchIs ==
  ASSUME NEW es \in Seq(Seq(Byte))
  PROVE  /\ Len(es) = 1 => EndBatch(es) = es[1]
         /\ Len(es) # 1 => EndBatch(es) = (BundleName \o Zeros(8)) \o FlattenSeq(Frames(es))
         /\ EndBatch(es) \in Seq(Byte)
<1>1. Frames(es) \in Seq(Seq(Byte))
  BY FramesIs
<1>2. FlattenSeq(Frames(es)) \in Seq(Byte)
  BY <1>1, FlattenType
<1>3. CASE Len(es) = 1
  <2>1. 1 \in 1..Len(es)
    BY <1>3
  <2>2. es[1] \in Seq(Byte)
    BY <2>1, ElementOfSeq
  <2> QED
    BY <1>3, <2>2 DEF EndBatch
<1>4. CASE Len(es) # 1
  <2>1. EndBatch(es) = (BundleName \o Zeros(8)) \o FlattenSeq(Frames(es))
    BY <1>4 DEF EndBatch, Frames
  <2> QED
    BY <1>2, <1>4, <2>1, HeaderIs, BytesJoined
<1> QED
  BY <1>3, <1>4

-----------------------------------------------------------------------------
\* Where the calls are in the packet.
Offsets ==
    /\ data \in Seq(Byte) /\ lo \in Nat /\ hi \in Nat /\ pos \in Nat
    /\ bundles \in Seq([pos : Nat, hi : Nat])
    /\ read \in [from : Nat, to : Nat] /\ read.to <= Len(data)
    /\ MessageTypeOK
    /\ pc = "element" => bundles # <<>>

\* A bundle's header and the length of an element are 20 bytes.
Nested ==
    /\ \A k \in DOMAIN bundles : 20 * k - 4 <= bundles[k].pos
    /\ pc = "packet" => 20 * Len(bundles) <= lo

LEMMA NumberIsNat ==
  ASSUME data \in Seq(Byte), NEW p \in Nat
  PROVE  Number(p) \in Nat
<1>1. ASSUME NEW q \in Nat
      PROVE  At(q) \in Nat
  <2>1. CASE q < Len(data)
    <3>1. q + 1 \in DOMAIN data
      BY <2>1
    <3>2. data[q + 1] \in Byte
      BY <3>1
    <3>3. \A x \in Byte : x \in Nat
      BY DEF Byte
    <3> QED
      BY <2>1, <3>2, <3>3 DEF At
  <2>2. CASE ~(q < Len(data))
    BY <2>2 DEF At
  <2> QED
    BY <2>1, <2>2
<1> DEFINE a == At(p)
           b == At(p + 1)
           c == At(p + 2)
           d == At(p + 3)
<1>2. a \in Nat /\ b \in Nat /\ c \in Nat /\ d \in Nat
  BY <1>1
<1>3. Number(p) = ((a * 256 + b) * 256 + c) * 256 + d
  BY DEF Number
<1> HIDE DEF a, b, c, d
<1> QED
  BY <1>2, <1>3

LEMMA OffsetsInit == ParseInit => Offsets /\ Nested
<1> SUFFICES ASSUME ParseInit PROVE Offsets /\ Nested
  OBVIOUS
<1>1. data \in Seq(Byte)
  <2>1. ASSUME NEW b \in Batches
        PROVE  EndBatch(b.elements) \in Seq(Byte)
    <3>1. b.elements \in Seq(Seq(Byte))
      BY BatchesAssumption
    <3> QED
      BY <3>1, EndBatchIs
  <2> QED
    BY <2>1, PacketsAssumption DEF ParseInit
<1>2. Len(data) \in Nat
  BY <1>1
<1> QED
  BY <1>1, <1>2 DEF ParseInit, Offsets, Nested, MessageTypeOK

\* What the steps of one message do to its position.
LEMMA MessageStep ==
  ASSUME Offsets, Nested,
         pc \in {"address", "tags", "args"}, pc' \in {"tags", "args", "return"},
         pos' \in Nat, pos <= pos', pos' <= hi, (pos' - pos) % 4 = 0,
         UNCHANGED <<data, lo, hi, bundles>>,
         read' = read \/ (read' = [from |-> pos, to |-> read'.to] /\ read'.to \in Nat /\ read'.to <= hi)
  PROVE  Offsets' /\ Nested' /\ StepReadsInside
<1>1. (pos - lo) % 4 = 0 /\ lo <= pos /\ (hi - lo) % 4 = 0 /\ hi <= Len(data)
  BY DEF Offsets, MessageTypeOK
<1>2. (pos' - lo) % 4 = 0 /\ lo <= pos'
  <2>1. lo \in Int /\ pos \in Int /\ pos' \in Int
    BY DEF Offsets
  <2> QED
    BY <1>1, <2>1, Further
<1>3. Len(data) \in Nat
  BY DEF Offsets
<1>4. /\ read' \in [from : Nat, to : Nat] /\ read'.to <= Len(data)
      /\ read' # read => lo <= read'.from /\ read'.to <= hi
  BY <1>1, <1>3, SMTT(30) DEF Offsets
<1> QED
  BY <1>1, <1>2, <1>4 DEF Offsets, Nested, MessageTypeOK, StepReadsInside

\* read_string() stays in the message, padding included.
LEMMA StringFits ==
  ASSUME Offsets, pc \in {"address", "tags", "args"}, NEW nul \in StrEnd
  PROVE  /\ nul \in Nat /\ pos <= nul /\ nul + 1 <= hi
         /\ AfterPadding(nul) \in Nat /\ pos <= AfterPadding(nul) /\ AfterPadding(nul) <= hi
         /\ (AfterPadding(nul) - pos) % 4 = 0
<1>1. nul \in Nat /\ pos <= nul /\ nul + 1 <= hi
  BY DEF StrEnd, Offsets
<1>2. (hi - pos) % 4 = 0
  <2>1. (hi - lo) % 4 = 0 /\ (pos - lo) % 4 = 0
    BY DEF Offsets, MessageTypeOK
  <2>2. lo \in Int /\ pos \in Int /\ hi \in Int
    BY DEF Offsets
  <2> QED
    BY <2>1, <2>2, Remaining
<1> DEFINE d == nul - pos
           padded == ((d + 4) \div 4) * 4
<1>3. d \in Nat /\ hi - pos \in Nat /\ d < hi - pos
  BY <1>1 DEF Offsets
<1>4. padded \in Nat /\ padded <= hi - pos /\ padded % 4 = 0
  BY <1>2, <1>3, PaddingFits
<1>5. AfterPadding(nul) = pos + padded
  BY DEF AfterPadding
<1> HIDE DEF padded
<1> QED
  BY <1>1, <1>4, <1>5 DEF Offsets

-----------------------------------------------------------------------------
\* The actions.

Safe == Offsets' /\ Nested' /\ StepReadsInside

LEMMA PacketSafe ==
  ASSUME Offsets, Nested, Packet
  PROVE  Safe
<1>1. /\ pc = "packet" /\ UNCHANGED <<data, lo, hi>>
      /\ lo <= hi /\ hi <= Len(data) /\ Len(data) \in Nat /\ 20 * Len(bundles) <= lo
  BY DEF Packet, Offsets, Nested, MessageTypeOK
<1>2. CASE pc' = "return" /\ UNCHANGED <<pos, bundles, read>>
  BY <1>1, <1>2 DEF Offsets, Nested, MessageTypeOK, StepReadsInside, Safe
<1>3. CASE pc' = "address" /\ pos' = lo /\ WellSized /\ UNCHANGED <<bundles, read>>
  <2>1. (pos' - lo) % 4 = 0
    BY <1>3 DEF Offsets
  <2>2. (hi - lo) % 4 = 0
    BY <1>3 DEF WellSized
  <2> QED
    BY <1>1, <1>3, <2>1, <2>2 DEF Offsets, Nested, MessageTypeOK, StepReadsInside, Safe
<1>4. CASE /\ IsBundle /\ pc' = "element" /\ UNCHANGED pos
           /\ bundles' = Append(bundles, [pos |-> lo + 16, hi |-> hi])
           /\ read' = [from |-> lo, to |-> lo + 8]
  <2> DEFINE Calls == [pos : Nat, hi : Nat]
             new == [pos |-> lo + 16, hi |-> hi]
  <2>1. hi - lo >= 16
    BY <1>4 DEF IsBundle
  <2>2. /\ new \in Calls /\ new.pos = lo + 16 /\ new.hi = hi /\ bundles \in Seq(Calls)
        /\ lo \in Nat /\ hi \in Nat
    BY DEF Offsets
  <2> HIDE DEF Calls, new
  <2>3. bundles' = Append(bundles, new)
    BY <1>4 DEF new
  <2>4. /\ bundles' \in Seq(Calls) /\ bundles' # <<>> /\ Len(bundles) \in Nat
        /\ \A k \in DOMAIN bundles' :
              \/ k \in DOMAIN bundles /\ bundles'[k] = bundles[k]
              \/ k = Len(bundles) + 1 /\ bundles'[k] = new
    BY <2>2, <2>3
  <2>5. \A k \in DOMAIN bundles' :
          bundles'[k].pos <= bundles'[k].hi /\ bundles'[k].hi <= Len(data)
    BY <1>1, <2>1, <2>2, <2>4 DEF Offsets, MessageTypeOK
  <2>6. ASSUME NEW k \in DOMAIN bundles'
        PROVE  20 * k - 4 <= bundles'[k].pos
    <3>1. CASE k \in DOMAIN bundles /\ bundles'[k] = bundles[k]
      BY <3>1 DEF Nested
    <3>2. CASE k = Len(bundles) + 1 /\ bundles'[k] = new
      BY <1>1, <2>2, <2>4, <3>2
    <3> QED
      BY <2>4, <3>1, <3>2
  <2>7. /\ read' \in [from : Nat, to : Nat] /\ read'.to <= Len(data)
        /\ lo <= read'.from /\ read'.to <= hi
    BY <1>1, <1>4, <2>1, <2>2
  <2>8. bundles' \in Seq([pos : Nat, hi : Nat])
    BY <2>4 DEF Calls
  <2> QED
    BY <1>1, <1>4, <2>4, <2>5, <2>6, <2>7, <2>8
       DEF Offsets, Nested, MessageTypeOK, StepReadsInside, Safe
<1> QED
  BY <1>2, <1>3, <1>4 DEF Packet, Returns, Looks

LEMMA ElementSafe ==
  ASSUME Offsets, Nested, Element
  PROVE  Safe
<1> DEFINE Calls == [pos : Nat, hi : Nat]
           n == Len(bundles)
           b == bundles[n]
           size == Number(b.pos)
           start == b.pos + 4
<1>1. bundles \in Seq(Calls) /\ n \in Nat /\ n >= 1 /\ DOMAIN bundles = 1..n
  BY DEF Element, Offsets
<1>2. b \in Calls
  <2> HIDE DEF Calls
  <2> QED
    BY <1>1
<1>3. /\ b.pos \in Nat /\ b.hi \in Nat /\ b.pos <= b.hi /\ b.hi <= Len(data)
      /\ 20 * n - 4 <= b.pos /\ Len(data) \in Nat
  <2>1. n \in DOMAIN bundles
    BY <1>1
  <2>2. b.pos \in Nat /\ b.hi \in Nat
    BY <1>2
  <2>3. b.pos <= b.hi /\ b.hi <= Len(data)
    BY <2>1 DEF Offsets, MessageTypeOK
  <2>4. 20 * n - 4 <= b.pos
    BY <2>1 DEF Nested
  <2>5. Len(data) \in Nat
    BY DEF Offsets
  <2> QED
    BY <2>2, <2>3, <2>4, <2>5
<1>4. size \in Nat
  BY <1>3, NumberIsNat DEF Offsets
<1>5. pc = "element" /\ UNCHANGED <<data, pos>>
  BY DEF Element
<1>6. CASE /\ pc' = "return" /\ bundles' = Front(bundles) /\ UNCHANGED <<lo, hi>>
           /\ read' = read \/ (start <= b.hi /\ read' = [from |-> b.pos, to |-> start])
  <2>1. /\ bundles' \in Seq(Calls)
        /\ \A k \in DOMAIN bundles' : k \in DOMAIN bundles /\ bundles'[k] = bundles[k]
    <3> HIDE DEF Calls
    <3> QED
      BY <1>1, <1>6 DEF Front
  <2>2. read' \in [from : Nat, to : Nat] /\ read'.to <= Len(data)
    BY <1>3, <1>6, SMTT(30) DEF Offsets
  <2> HIDE DEF n, b, size, start
  <2> QED
    BY <1>5, <1>6, <2>1, <2>2 DEF Offsets, Nested, MessageTypeOK, StepReadsInside, Safe
<1>7. CASE /\ start <= b.hi /\ ~(size = 0 \/ size > b.hi - start)
           /\ lo' = start /\ hi' = start + size /\ pc' = "packet"
           /\ bundles' = [bundles EXCEPT ![n].pos = start + size]
           /\ read' = [from |-> b.pos, to |-> start]
  <2>1. /\ start \in Nat /\ start + size \in Nat /\ start + size <= b.hi
        /\ 20 * n <= start
    BY <1>3, <1>4, <1>7, SMTT(30)
  <2>2. /\ bundles' \in Seq(Calls) /\ DOMAIN bundles' = DOMAIN bundles /\ Len(bundles') = n
        /\ \A k \in DOMAIN bundles : k # n => bundles'[k] = bundles[k]
        /\ bundles'[n].pos = start + size /\ bundles'[n].hi = b.hi
    <3>1. [b EXCEPT !.pos = start + size] \in Calls
      BY <1>2, <2>1
    <3> DEFINE c == [b EXCEPT !.pos = start + size]
    <3>2. c.pos = start + size /\ c.hi = b.hi
      BY <1>2
    <3>3. bundles' = [bundles EXCEPT ![n] = c]
      BY <1>7
    <3> HIDE DEF c, Calls, b, size, start
    <3> QED
      BY <1>1, <3>1, <3>2, <3>3 DEF c
  <2>3. read' \in [from : Nat, to : Nat] /\ read'.to <= Len(data)
    BY <1>3, <1>7, <2>1
  <2>4. bundles' \in Seq([pos : Nat, hi : Nat])
    BY <2>2
  <2> HIDE DEF Calls, b, size, start, n
  <2>5. \A k \in DOMAIN bundles' :
          bundles'[k].pos <= bundles'[k].hi /\ bundles'[k].hi <= Len(data)
    BY <1>1, <1>3, <2>1, <2>2 DEF Offsets, MessageTypeOK
  <2>6. \A k \in DOMAIN bundles' : 20 * k - 4 <= bundles'[k].pos
    <3> TAKE k \in DOMAIN bundles'
    <3>1. k \in DOMAIN bundles /\ 20 * k - 4 <= bundles[k].pos
      BY <2>2 DEF Nested
    <3>2. CASE k # n
      BY <2>2, <3>1, <3>2
    <3>3. CASE k = n
      <4>1. bundles'[k].pos = start + size /\ 20 * n <= start /\ start \in Nat /\ size \in Nat
        BY <1>4, <2>1, <2>2, <3>3
      <4> QED
        BY <1>1, <3>3, <4>1
    <3> QED
      BY <3>2, <3>3
  <2>7. lo' \in Nat /\ hi' \in Nat /\ lo' <= hi' /\ hi' <= Len(data) /\ 20 * Len(bundles') <= lo'
    BY <1>3, <1>4, <1>7, <2>1, <2>2
  <2> QED
    BY <1>5, <1>7, <2>3, <2>4, <2>5, <2>6, <2>7, SMTT(30)
       DEF Offsets, Nested, MessageTypeOK, StepReadsInside, Safe
<1>8. start <= b.hi \/ start > b.hi
  BY <1>3
<1> HIDE DEF Calls, size, start
<1>9. b = Last(bundles) /\ size = Number(b.pos) /\ start = b.pos + 4 /\ n = Len(bundles)
  BY DEF Last, size, start
<1> HIDE DEF b, n
<1>10. \/ /\ pc' = "return" /\ bundles' = Front(bundles) /\ UNCHANGED <<lo, hi>>
          /\ read' = read \/ (start <= b.hi /\ read' = [from |-> b.pos, to |-> start])
       \/ /\ start <= b.hi /\ ~(size = 0 \/ size > b.hi - start)
          /\ lo' = start /\ hi' = start + size /\ pc' = "packet"
          /\ bundles' = [bundles EXCEPT ![n].pos = start + size]
          /\ read' = [from |-> b.pos, to |-> start]
  BY <1>8, <1>9, Zenon DEF Element, Returns, Looks
<1> QED
  BY <1>6, <1>7, <1>10

LEMMA ReadAddressSafe ==
  ASSUME Offsets, Nested, ReadAddress
  PROVE  Safe
<1>1. /\ pc = "address" /\ pos \in Nat /\ pos <= hi /\ hi \in Nat /\ (pos - pos) % 4 = 0
      /\ UNCHANGED <<data, lo, hi, bundles>>
  BY DEF ReadAddress, Offsets, MessageTypeOK
<1>2. CASE read' = [from |-> pos, to |-> hi] /\ pc' = "return" /\ pos' = pos
  BY <1>1, <1>2, MessageStep DEF Safe
<1>3. ASSUME NEW nul \in StrEnd, read' = [from |-> pos, to |-> nul + 1],
             pos' = AfterPadding(nul), pc' \in {"return", "tags"}
      PROVE  Safe
  <2>1. /\ nul \in Nat /\ nul + 1 <= hi
        /\ pos' \in Nat /\ pos <= pos' /\ pos' <= hi /\ (pos' - pos) % 4 = 0
    BY <1>1, <1>3, StringFits
  <2>2. read' = [from |-> pos, to |-> read'.to] /\ read'.to \in Nat /\ read'.to <= hi
    BY <1>3, <2>1
  <2> QED
    BY <1>1, <1>3, <2>1, <2>2, MessageStep DEF Safe
<1> QED
  BY <1>2, <1>3 DEF ReadAddress, Looks, Returns

LEMMA ReadTagsSafe ==
  ASSUME Offsets, Nested, ReadTags
  PROVE  Safe
<1>1. /\ pc = "tags" /\ pos \in Nat /\ pos <= hi /\ hi \in Nat /\ (pos - pos) % 4 = 0
      /\ UNCHANGED <<data, lo, hi, bundles>>
  BY DEF ReadTags, Offsets, MessageTypeOK
<1>2. CASE read' = [from |-> pos, to |-> hi] /\ pc' = "return" /\ pos' = pos
  BY <1>1, <1>2, MessageStep DEF Safe
<1>3. ASSUME NEW nul \in StrEnd, read' = [from |-> pos, to |-> nul + 1],
             pos' = AfterPadding(nul), pc' \in {"return", "args"}
      PROVE  Safe
  <2>1. /\ nul \in Nat /\ nul + 1 <= hi
        /\ pos' \in Nat /\ pos <= pos' /\ pos' <= hi /\ (pos' - pos) % 4 = 0
    BY <1>1, <1>3, StringFits
  <2>2. read' = [from |-> pos, to |-> read'.to] /\ read'.to \in Nat /\ read'.to <= hi
    BY <1>3, <2>1
  <2> QED
    BY <1>1, <1>3, <2>1, <2>2, MessageStep DEF Safe
<1> QED
  BY <1>2, <1>3 DEF ReadTags, Looks, Returns

LEMMA ReadArgSafe ==
  ASSUME Offsets, Nested, ReadArg
  PROVE  Safe
<1> DEFINE type == tags[Len(args) + 2]
           end == pos + 4 + Number(pos)
<1>1. /\ pc = "args" /\ pos \in Nat /\ pos <= hi /\ hi \in Nat /\ (pos - pos) % 4 = 0
      /\ UNCHANGED <<data, lo, hi, bundles>>
  BY DEF ReadArg, Offsets, MessageTypeOK
<1>2. Number(pos) \in Nat
  BY NumberIsNat DEF Offsets
<1>3. (hi - pos) % 4 = 0
  <2>1. (hi - lo) % 4 = 0 /\ (pos - lo) % 4 = 0
    BY <1>1 DEF Offsets, MessageTypeOK
  <2>2. lo \in Int /\ pos \in Int /\ hi \in Int
    BY DEF Offsets
  <2> QED
    BY <2>1, <2>2, Remaining
<1>4. CASE pc' = "return" /\ pos' = pos /\ read' = read
  BY <1>1, <1>4, MessageStep DEF Safe
<1>5. CASE pc' = "return" /\ pos' = pos /\ read' = [from |-> pos, to |-> hi]
  BY <1>1, <1>5, MessageStep DEF Safe
<1>6. ASSUME NEW nul \in StrEnd, pc' = pc,
             read' = [from |-> pos, to |-> nul + 1], pos' = AfterPadding(nul)
      PROVE  Safe
  <2>1. /\ nul \in Nat /\ nul + 1 <= hi
        /\ pos' \in Nat /\ pos <= pos' /\ pos' <= hi /\ (pos' - pos) % 4 = 0
    BY <1>1, <1>6, StringFits
  <2>2. read' = [from |-> pos, to |-> read'.to] /\ read'.to \in Nat /\ read'.to <= hi
    BY <1>6, <2>1
  <2> QED
    BY <1>1, <1>6, <2>1, <2>2, MessageStep DEF Safe
<1>7. CASE /\ Fits(4) /\ pc' = "return"
           /\ pos' = pos + 4 /\ read' = [from |-> pos, to |-> pos + 4]
  <2>1. pos' \in Nat /\ pos <= pos' /\ pos' <= hi /\ (pos' - pos) % 4 = 0
    BY <1>1, <1>7 DEF Fits
  <2> QED
    BY <1>1, <1>7, <2>1, MessageStep DEF Safe
<1>8. CASE /\ Fits(4) /\ ~(Number(pos) > hi - (pos + 4)) /\ pc' = pc
           /\ read' = [from |-> pos, to |-> end] /\ pos' = pos + 4 + Aligned(Number(pos))
  <2>1. hi - (pos + 4) \in Nat /\ Number(pos) <= hi - (pos + 4)
    BY <1>1, <1>2, <1>8 DEF Fits
  <2>2. (hi - (pos + 4)) % 4 = 0
    BY <1>1, <1>3
  <2>3. /\ Aligned(Number(pos)) \in Nat /\ Aligned(Number(pos)) <= hi - (pos + 4)
        /\ Aligned(Number(pos)) % 4 = 0
    BY <1>2, <2>1, <2>2, BlobFits
  <2>4. /\ pos' \in Nat /\ pos <= pos' /\ pos' <= hi
        /\ pos' - pos = 4 + Aligned(Number(pos))
    BY <1>1, <1>8, <2>3
  <2>5. (pos' - pos) % 4 = 0
    BY <2>3, <2>4
  <2>6. end \in Nat /\ end <= hi
    BY <1>1, <1>2, <2>1
  <2> HIDE DEF end
  <2> QED
    BY <1>1, <1>8, <2>4, <2>5, <2>6, MessageStep DEF Safe
<1>9. CASE /\ type \in Range(Tag) \ {Tag.s, Tag.b} /\ Fits(Width(type)) /\ pc' = pc
           /\ read' = [from |-> pos, to |-> pos + Width(type)] /\ pos' = pos + Width(type)
  <2>1. Width(type) \in {0, 4, 8}
    BY <1>9, Widths
  <2> DEFINE w == Width(type)
  <2>2. /\ w \in {0, 4, 8} /\ pos + w <= hi
        /\ read' = [from |-> pos, to |-> pos + w] /\ pos' = pos + w
    BY <1>9, <2>1 DEF Fits
  <2> HIDE DEF w
  <2>3. pos' \in Nat /\ pos <= pos' /\ pos' <= hi /\ (pos' - pos) % 4 = 0
    BY <1>1, <2>2
  <2>4. read' = [from |-> pos, to |-> read'.to] /\ read'.to \in Nat /\ read'.to <= hi
    BY <1>1, <2>2
  <2> QED
    BY <1>1, <1>9, <2>3, <2>4, MessageStep DEF Safe
<1> HIDE DEF type
<1>10. \/ type = Tag.s \/ type = Tag.b \/ type \in Range(Tag) \ {Tag.s, Tag.b}
       \/ type \notin Range(Tag) \cup {Tag.s, Tag.b}
  OBVIOUS
<1>11. Tag.s # Tag.b
  BY DEF Tag
<1> HIDE DEF end
<1>12. CASE type = Tag.s
  BY <1>5, <1>6, <1>11, <1>12 DEF ReadArg, type, Returns, Looks, Argument
<1>13. CASE type = Tag.b
  BY <1>4, <1>7, <1>8, <1>11, <1>13
     DEF ReadArg, type, end, Returns, Looks, Argument, Rejected
<1>14. CASE type \in Range(Tag) \ {Tag.s, Tag.b}
  BY <1>4, <1>9, <1>14 DEF ReadArg, type, Returns, Looks, Argument, Rejected
<1>15. CASE type \notin Range(Tag) \cup {Tag.s, Tag.b}
  BY <1>4, <1>15 DEF ReadArg, type, Returns, Looks, Argument, Rejected
<1> QED
  BY <1>10, <1>12, <1>13, <1>14, <1>15

LEMMA StepSafe ==
  ASSUME Offsets, Nested, [ParseNext]_parse_vars
  PROVE  Offsets' /\ Nested' /\ [StepReadsInside]_parse_vars
<1>1. CASE Return
  BY <1>1 DEF Return, Offsets, Nested, MessageTypeOK, StepReadsInside
<1>2. CASE Complete
  BY <1>2 DEF Complete, Returns, Offsets, Nested, MessageTypeOK, StepReadsInside
<1>3. CASE UNCHANGED parse_vars
  BY <1>3 DEF parse_vars, Offsets, Nested, MessageTypeOK
<1> QED
  BY <1>1, <1>2, <1>3, PacketSafe, ElementSafe, ReadAddressSafe, ReadTagsSafe, ReadArgSafe
     DEF ParseNext, Safe

-----------------------------------------------------------------------------
(***************************************************************************)
(* Whatever a datagram says of its lengths, osc_parse_packet() reads       *)
(* nothing behind it, and of a bundle's element nothing outside the        *)
(* element.                                                                *)
(***************************************************************************)
THEOREM ReadsInsideAlways == ParseSpec => ReadsInside
BY OffsetsInit, StepSafe, PTL DEF ParseSpec, ReadsInside

(***************************************************************************)
(* Between two steps every call's read position is where the next string   *)
(* or argument starts, at a multiple of four and not behind the call's     *)
(* end.                                                                    *)
(***************************************************************************)
THEOREM MessageTypeOKAlways == ParseSpec => []MessageTypeOK
<1>1. Offsets => MessageTypeOK
  BY DEF Offsets
<1> QED
  BY <1>1, OffsetsInit, StepSafe, PTL DEF ParseSpec

(***************************************************************************)
(* The recursion of osc_parse_packet() is no deeper than a twentieth of    *)
(* the packet's size.                                                      *)
(***************************************************************************)
THEOREM DepthBoundedAlways == ParseSpec => []DepthBounded
<1>1. ASSUME Offsets, Nested
      PROVE  DepthBounded
  <2>1. CASE bundles = <<>>
    BY <1>1, <2>1 DEF Offsets, DepthBounded
  <2>2. CASE bundles # <<>>
    <3> DEFINE n == Len(bundles)
               Calls == [pos : Nat, hi : Nat]
    <3>1. bundles \in Seq(Calls)
      BY <1>1 DEF Offsets
    <3>2. \A c \in Calls : c.pos \in Nat /\ c.hi \in Nat
      OBVIOUS
    <3> HIDE DEF Calls
    <3>3. n \in Nat /\ n \in DOMAIN bundles /\ bundles[n] \in Calls
      BY <2>2, <3>1
    <3>4. /\ bundles[n].pos \in Nat /\ bundles[n].hi \in Nat
          /\ 20 * n - 4 <= bundles[n].pos
          /\ bundles[n].pos <= bundles[n].hi /\ bundles[n].hi <= Len(data)
      BY <1>1, <3>2, <3>3 DEF Offsets, Nested, MessageTypeOK
    <3>5. Len(data) \in Nat
      BY <1>1 DEF Offsets
    <3> QED
      BY <3>3, <3>4, <3>5 DEF DepthBounded
  <2> QED
    BY <2>1, <2>2
<1> QED
  BY <1>1, OffsetsInit, StepSafe, PTL DEF ParseSpec

-----------------------------------------------------------------------------
(***************************************************************************)
(* The round trip: what lies in a packet at an offset is what a reader at  *)
(* that offset gets.                                                       *)
(***************************************************************************)
\* s lies in the packet, from p on and before to.
Holds(p, s, to) ==
    /\ p \in Nat /\ s \in Seq(Byte) /\ to \in Nat
    /\ p + Len(s) <= to /\ to <= Len(data)
    /\ \A i \in 1..Len(s) : data[p + i] = s[i]

\* Of two parts, the second lies behind the first.
LEMMA HoldsParts ==
  ASSUME data \in Seq(Byte), NEW p, NEW to, NEW s \in Seq(Byte), NEW t \in Seq(Byte), Holds(p, s \o t, to)
  PROVE  Holds(p, s, to) /\ Holds(p + Len(s), t, to)
<1> DEFINE u == s \o t
           m == Len(s)
           n == Len(t)
<1>1. /\ u \in Seq(Byte) /\ Len(u) = m + n
      /\ \A i \in 1..m + n : u[i] = IF i <= m THEN s[i] ELSE t[i - m]
  BY BytesJoined
<1>2. p \in Nat /\ to \in Nat /\ p + Len(u) <= to /\ to <= Len(data) /\ \A i \in 1..Len(u) : data[p + i] = u[i]
  BY DEF Holds
<1> HIDE DEF u
<1>3. m \in Nat /\ n \in Nat /\ Len(data) \in Nat
  OBVIOUS
<1>4. ASSUME NEW i \in 1..m
      PROVE  data[p + i] = s[i]
  <2>1. i \in 1..m + n /\ i \in 1..Len(u) /\ i <= m
    BY <1>1, <1>3
  <2> QED
    BY <1>1, <1>2, <2>1
<1>5. ASSUME NEW i \in 1..n
      PROVE  data[(p + m) + i] = t[i]
  <2>1. m + i \in 1..m + n /\ m + i \in 1..Len(u) /\ ~(m + i <= m) /\ (m + i) - m = i
    BY <1>1, <1>3
  <2>2. p + (m + i) = (p + m) + i
    BY <1>2, <1>3
  <2>3. data[p + (m + i)] = u[m + i] /\ u[m + i] = t[(m + i) - m]
    BY <1>1, <1>2, <2>1
  <2> QED
    BY <2>1, <2>2, <2>3
<1>6. p + m \in Nat /\ p + m <= to /\ (p + m) + n <= to
  BY <1>1, <1>2, <1>3
<1> QED
  BY <1>2, <1>4, <1>5, <1>6 DEF Holds

\* What lies in the packet is what a reader gets there.
LEMMA HoldsAt ==
  ASSUME data \in Seq(Byte), NEW p, NEW to, NEW s, Holds(p, s, to)
  PROVE  \A i \in 1..Len(s) : At(p + i - 1) = s[i]
<1>1. /\ p \in Nat /\ Len(s) \in Nat /\ to \in Nat /\ p + Len(s) <= to /\ to <= Len(data) /\ Len(data) \in Nat
      /\ \A i \in 1..Len(s) : data[p + i] = s[i]
  BY DEF Holds
<1>2. ASSUME NEW i \in 1..Len(s)
      PROVE  At(p + i - 1) = s[i]
  <2>1. p + i - 1 < Len(data) /\ (p + i - 1) + 1 = p + i
    BY <1>1
  <2>2. At(p + i - 1) = data[p + i]
    BY <2>1 DEF At
  <2> QED
    BY <1>1, <2>2
<1> QED
  BY <1>2

LEMMA HoldsSlice ==
  ASSUME data \in Seq(Byte), NEW p, NEW to, NEW s, Holds(p, s, to)
  PROVE  Slice(p, p + Len(s)) = s
<1>1. p \in Nat /\ s \in Seq(Byte) /\ Len(s) \in Nat
  BY DEF Holds
<1>2. \A i \in 1..Len(s) : At(p + i - 1) = s[i]
  BY HoldsAt
<1>3. (p + Len(s)) - p = Len(s)
  BY <1>1
<1>4. Slice(p, p + Len(s)) = [k \in 1..Len(s) |-> At(p + k - 1)]
  BY <1>3 DEF Slice
<1>5. [k \in 1..Len(s) |-> At(p + k - 1)] = [k \in 1..Len(s) |-> s[k]]
  BY <1>2
<1>6. [k \in 1..Len(s) |-> s[k]] = s
  BY <1>1
<1> QED
  BY <1>4, <1>5, <1>6

\* A number that was written is read back where it lies.
LEMMA HoldsNumber ==
  ASSUME data \in Seq(Byte), NEW p, NEW to, NEW n \in Nat, n <= MaxLength, Holds(p, BE32(n), to)
  PROVE  Number(p) = n
<1> DEFINE s == BE32(n)
<1>1. /\ s \in Seq(Byte) /\ Len(s) = 4
      /\ ((s[1] * 256 + s[2]) * 256 + s[3]) * 256 + s[4] = n
  BY LengthKept
<1>2. \A i \in 1..Len(s) : At(p + i - 1) = s[i]
  BY HoldsAt
<1> HIDE DEF s
<1>3. p \in Nat
  BY DEF Holds
<1>4. p + 1 - 1 = p /\ p + 2 - 1 = p + 1 /\ p + 3 - 1 = p + 2 /\ p + 4 - 1 = p + 3
  BY <1>3
<1>5. 1 \in 1..Len(s) /\ 2 \in 1..Len(s) /\ 3 \in 1..Len(s) /\ 4 \in 1..Len(s)
  BY <1>1
<1>6. At(p) = s[1] /\ At(p + 1) = s[2] /\ At(p + 2) = s[3] /\ At(p + 3) = s[4]
  BY <1>2, <1>4, <1>5
<1> QED
  BY <1>1, <1>6 DEF Number

\* Where the k-th part of several lies.
LEMMA HoldsFirsts ==
  ASSUME data \in Seq(Byte), NEW p, NEW to, NEW ss \in Seq(Seq(Byte)), Holds(p, FlattenSeq(ss), to)
  PROVE  /\ \A k \in 0..Len(ss) : Holds(p, Firsts(ss, k), to)
         /\ \A k \in 1..Len(ss) : Holds(p + Len(Firsts(ss, k - 1)), ss[k], to)
<1> DEFINE L == Len(ss)
           N == {j \in Nat : j <= L => Holds(p, Firsts(ss, L - j), to)}
<1>0. L \in Nat
  OBVIOUS
<1>1. 0 \in N
  <2>1. L - 0 = L
    BY <1>0
  <2>2. Firsts(ss, L) = FlattenSeq(ss)
    BY FirstsSteps
  <2> QED
    BY <2>1, <2>2
<1>2. ASSUME NEW k \in 1..L, Holds(p, Firsts(ss, k), to)
      PROVE  Holds(p, Firsts(ss, k - 1), to) /\ Holds(p + Len(Firsts(ss, k - 1)), ss[k], to)
  <2>1. k - 1 \in 0..L
    BY <1>0
  <2>2. Firsts(ss, k) = Firsts(ss, k - 1) \o ss[k]
    BY FirstsSteps
  <2>3. Firsts(ss, k - 1) \in Seq(Byte)
    BY <2>1, FirstsSteps
  <2>4. ss[k] \in Seq(Byte)
    BY ElementOfSeq
  <2>5. Holds(p, Firsts(ss, k - 1) \o ss[k], to)
    BY <1>2, <2>2
  <2> QED
    BY <2>3, <2>4, <2>5, HoldsParts
<1>3. ASSUME NEW j \in Nat, j \in N, j + 1 <= L
      PROVE  Holds(p, Firsts(ss, L - (j + 1)), to)
  <2>1. L - j \in 1..L /\ j <= L /\ (L - j) - 1 = L - (j + 1)
    BY <1>0, <1>3
  <2>2. Holds(p, Firsts(ss, L - j), to)
    BY <1>3, <2>1
  <2>3. Holds(p, Firsts(ss, (L - j) - 1), to)
    BY <1>2, <2>1, <2>2
  <2> QED
    BY <2>1, <2>3
<1>4. ASSUME NEW j \in Nat, j \in N
      PROVE  j + 1 \in N
  <2>1. j + 1 <= L => Holds(p, Firsts(ss, L - (j + 1)), to)
    BY <1>3, <1>4
  <2>2. j + 1 \in Nat
    OBVIOUS
  <2> HIDE DEF L
  <2> QED
    BY <2>1, <2>2
<1> HIDE DEF N
<1>5. \A j \in Nat : j \in N
  BY <1>1, <1>4, NatSet
<1>6. ASSUME NEW k \in 0..L
      PROVE  Holds(p, Firsts(ss, k), to)
  <2>1. L - k \in N /\ L - k <= L /\ L - (L - k) = k
    BY <1>0, <1>5
  <2> QED
    BY <2>1 DEF N
<1>7. \A k \in 1..L : k \in 0..L
  BY <1>0
<1> QED
  BY <1>2, <1>6, <1>7

\* read_string() finds what write_padded_string() wrote.
LEMMA StringKept ==
  ASSUME data \in Seq(Byte), NEW str \in Seq(Char), Holds(pos, Padded(str), hi)
  PROVE  /\ StrEnd = {pos + Len(str)} /\ Str(pos + Len(str)) = str
         /\ AfterPadding(pos + Len(str)) = pos + Len(Padded(str))
<1> DEFINE n == Len(str)
           s == Padded(str)
<1>1. str \in Seq(Byte) /\ n \in Nat /\ \A i \in 1..n : str[i] \in 1..255
  <2>1. str \in Seq(Byte) /\ n \in Nat
    BY CharsAreBytes
  <2>2. \A i \in 1..n : str[i] \in Char
    BY ElementOfSeq
  <2> QED
    BY <2>1, <2>2 DEF Char
<1>2. /\ s \in Seq(Byte) /\ Len(s) = Aligned(n + 1) /\ n + 1 <= Len(s) /\ Len(s) \in Nat
      /\ \A k \in 1..n : s[k] = str[k]
      /\ s[n + 1] = 0
  BY <1>1, PaddedIs
<1>3. \A i \in 1..Len(s) : At(pos + i - 1) = s[i]
  BY HoldsAt
<1>4. pos \in Nat /\ hi \in Nat /\ pos + Len(s) <= hi
  BY DEF Holds
<1> HIDE DEF s
<1>5. At(pos + n) = 0
  <2>1. n + 1 \in 1..Len(s) /\ pos + (n + 1) - 1 = pos + n
    BY <1>1, <1>2, <1>4
  <2>2. At(pos + (n + 1) - 1) = s[n + 1]
    BY <1>3, <2>1
  <2> QED
    BY <1>2, <2>1, <2>2
<1>6. ASSUME NEW q \in pos..pos + n - 1
      PROVE  At(q) # 0 /\ At(q) = str[q - pos + 1]
  <2>1. q - pos + 1 \in 1..n /\ q - pos + 1 \in 1..Len(s) /\ pos + (q - pos + 1) - 1 = q
    BY <1>1, <1>2, <1>4
  <2>2. At(pos + (q - pos + 1) - 1) = s[q - pos + 1]
    BY <1>3, <2>1
  <2>3. At(q) = str[q - pos + 1]
    BY <1>2, <2>1, <2>2
  <2>4. str[q - pos + 1] \in 1..255
    BY <1>1, <2>1
  <2>5. \A x \in 1..255 : x # 0
    OBVIOUS
  <2> QED
    BY <2>3, <2>4, <2>5, Zenon
<1>7. StrEnd = {pos + n}
  <2>1. ASSUME NEW q \in StrEnd
        PROVE  q = pos + n
    <3>1. /\ q \in Nat /\ pos <= q /\ q <= hi - 1 /\ At(q) = 0
          /\ \A r \in pos..q - 1 : At(r) # 0
      BY <1>4 DEF StrEnd
    <3>2. ~(q < pos + n)
      <4> SUFFICES ASSUME q < pos + n PROVE FALSE
        OBVIOUS
      <4>1. q \in pos..pos + n - 1
        BY <1>1, <1>4, <3>1
      <4> QED
        BY <1>6, <3>1, <4>1
    <3>3. ~(pos + n < q)
      <4> SUFFICES ASSUME pos + n < q PROVE FALSE
        OBVIOUS
      <4>1. pos + n \in pos..q - 1
        BY <1>1, <1>4, <3>1
      <4> QED
        BY <1>5, <3>1, <4>1
    <3>4. q \in Int /\ pos + n \in Int
      BY <1>1, <1>4, <3>1
    <3> DEFINE z == pos + n
    <3> HIDE DEF z
    <3>5. \A x, y \in Int : ~(x < y) /\ ~(y < x) => x = y
      OBVIOUS
    <3> QED
      BY <3>2, <3>3, <3>4, <3>5
  <2>2. pos + n \in StrEnd
    <3>1. pos + n \in pos..hi - 1
      BY <1>1, <1>2, <1>4
    <3>2. \A q \in pos..pos + n - 1 : At(q) # 0
      BY <1>6
    <3>3. PICK z : z = pos + n
      OBVIOUS
    <3>4. z \in pos..hi - 1 /\ At(z) = 0
      BY <1>5, <3>1, <3>3, Zenon
    <3>5. ASSUME NEW q \in pos..z - 1
          PROVE  At(q) # 0
      <4>1. q \in pos..pos + n - 1
        BY <1>1, <1>4, <3>3
      <4> QED
        BY <1>6, <4>1
    <3>6. z \in StrEnd
      BY <3>4, <3>5, Zenon DEF StrEnd
    <3> QED
      BY <3>3, <3>6, Zenon
  <2> QED
    BY <2>1, <2>2
<1>8. Str(pos + n) = str
  <2>1. (pos + n) - pos = n
    BY <1>1, <1>4
  <2>2. Str(pos + n) = [k \in 1..n |-> At(pos + k - 1)]
    BY <2>1 DEF Str, Slice
  <2>3. ASSUME NEW k \in 1..n
        PROVE  At(pos + k - 1) = str[k]
    <3>1. pos + k - 1 \in pos..pos + n - 1 /\ (pos + k - 1) - pos + 1 = k
      BY <1>1, <1>4
    <3>2. At(pos + k - 1) = str[(pos + k - 1) - pos + 1]
      BY <1>6, <3>1
    <3> QED
      BY <3>1, <3>2
  <2>4. [k \in 1..n |-> At(pos + k - 1)] = [k \in 1..n |-> str[k]]
    BY <2>3
  <2> QED
    BY <1>1, <2>2, <2>4
<1>9. AfterPadding(pos + n) = pos + Len(s)
  <2>1. ((pos + n) - pos + 4) = n + 4
    BY <1>1, <1>4
  <2>2. AfterPadding(pos + n) = pos + ((n + 4) \div 4) * 4
    BY <2>1 DEF AfterPadding
  <2>3. Aligned(n + 1) = ((n + 4) \div 4) * 4
    BY <1>1 DEF Aligned
  <2> QED
    BY <1>2, <2>2, <2>3
<1> QED
  BY <1>7, <1>8, <1>9 DEF s

-----------------------------------------------------------------------------
\* Where the elements of a batch lie in the packet: alone, element 1 is the
\* packet; else each follows its length, behind a header of 16 bytes.
Lone(b) == Len(b.elements) = 1

EndOf(b, k) ==
    IF Lone(b) THEN IF k = 0 THEN 0 ELSE Len(data)
    ELSE 16 + Len(Firsts(Frames(b.elements), k))

StartOf(b, k) == IF Lone(b) THEN 0 ELSE EndOf(b, k - 1) + 4

\* The packet is this batch, and says something.
Carries(b) == b \in Batches /\ data = EndBatch(b.elements) /\ FlattenSeq(b.messages) # <<>>

\* An element is a message of its batch, or says nothing.
LEMMA ElementIs ==
  ASSUME NEW b \in Batches
  PROVE  /\ b.elements \in Seq(Seq(Byte)) /\ b.messages \in Seq(Seq(Sendable))
         /\ Len(b.messages) = Len(b.elements) /\ Len(b.elements) \in Nat
         /\ EndBatch(b.elements) \in Seq(Byte) /\ Len(EndBatch(b.elements)) <= MaxLength
         /\ \A k \in 1..Len(b.elements) :
              /\ b.elements[k] \in Seq(Byte)
              /\ Len(b.elements[k]) \in Nat /\ Len(b.elements[k]) >= 4 /\ Len(b.elements[k]) % 4 = 0
              /\ \/ b.messages[k] = <<>> /\ Unreadable(b.elements[k])
                 \/ \E m \in Sendable : b.messages[k] = <<m>> /\ b.elements[k] = Build(m)
<1>1. /\ b \in [elements : Seq(Seq(Byte)), messages : Seq(Seq(Sendable))]
      /\ Len(b.messages) = Len(b.elements) /\ Len(EndBatch(b.elements)) <= MaxLength
      /\ \A k \in DOMAIN b.elements :
            \/ b.messages[k] = <<>> /\ Unreadable(b.elements[k])
            \/ Len(b.messages[k]) = 1 /\ b.elements[k] = Build(b.messages[k][1])
  BY BatchesAssumption
<1>2. /\ b.elements \in Seq(Seq(Byte)) /\ b.messages \in Seq(Seq(Sendable))
      /\ Len(b.elements) \in Nat /\ DOMAIN b.elements = 1..Len(b.elements)
  BY <1>1
<1>3. EndBatch(b.elements) \in Seq(Byte)
  BY <1>2, EndBatchIs
<1>4. ASSUME NEW k \in 1..Len(b.elements)
      PROVE  /\ b.elements[k] \in Seq(Byte)
             /\ Len(b.elements[k]) \in Nat /\ Len(b.elements[k]) >= 4 /\ Len(b.elements[k]) % 4 = 0
             /\ \/ b.messages[k] = <<>> /\ Unreadable(b.elements[k])
                \/ \E m \in Sendable : b.messages[k] = <<m>> /\ b.elements[k] = Build(m)
  <2> DEFINE e == b.elements[k]
  <2>1. e \in Seq(Byte) /\ Len(e) \in Nat
    <3>1. e \in Seq(Byte)
      BY <1>2, ElementOfSeq
    <3> QED
      BY <3>1
  <2>2. CASE b.messages[k] = <<>> /\ Unreadable(e)
    <3>1. e # <<>> /\ Len(e) % 4 = 0
      BY <2>2 DEF Unreadable
    <3>2. Len(e) # 0
      BY <2>1, <3>1, EmptySeq
    <3> HIDE DEF e
    <3>3. Len(e) >= 4
      BY <2>1, <3>1, <3>2
    <3> QED
      BY <2>1, <2>2, <3>1, <3>3 DEF e
  <2>3. CASE Len(b.messages[k]) = 1 /\ e = Build(b.messages[k][1])
    <3> DEFINE m == b.messages[k][1]
    <3>1. b.messages[k] \in Seq(Sendable)
      BY <1>1, <1>2, ElementOfSeq
    <3>2. m \in Sendable /\ b.messages[k] = <<m>>
      BY <2>3, <3>1
    <3> HIDE DEF m
    <3>3. PICK x : x = FlattenSeq(ArgsBytes(m))
      OBVIOUS
    <3>4. x \in Seq(Byte) /\ Len(x) \in Nat /\ Len(x) % 4 = 0
      <4>1. ArgsBytes(m) \in Seq(Seq(Byte)) /\ Len(ArgsBytes(m)) = Len(m.args)
        BY <3>2, BuildIs
      <4>2. ASSUME NEW j \in 1..Len(ArgsBytes(m))
            PROVE  Len(ArgsBytes(m)[j]) % 4 = 0
        <5>1. m.args \in Seq(Outbound) /\ j \in 1..Len(m.args)
          BY <3>2, <4>1, SendableIs
        <5>2. m.args[j] \in Outbound
          BY <5>1, ElementOfSeq
        <5>3. ArgsBytes(m)[j] = BuildArg(m.args[j])
          BY <3>2, <5>1, BuildIs
        <5> QED
          BY <5>2, <5>3, BuildArgIs
      <4>3. Len(ArgsBytes(m)) \in 0..Len(ArgsBytes(m))
        BY <4>1
      <4>4. Firsts(ArgsBytes(m), Len(ArgsBytes(m))) = x
        BY <3>3, <4>1, FirstsSteps
      <4>5. Len(x) \in Nat /\ Len(x) % 4 = 0
        BY <4>1, <4>2, <4>3, <4>4, FirstsAligned
      <4> QED
        BY <3>3, <4>1, <4>5, FlattenType
    <3>5. PICK y : y = Padded(m.address)
      OBVIOUS
    <3>6. PICK z : z = Padded(TagsOf(m))
      OBVIOUS
    <3>7. /\ y \in Seq(Byte) /\ z \in Seq(Byte)
          /\ Len(y) % 4 = 0 /\ Len(z) % 4 = 0 /\ Len(y) \in Nat /\ Len(z) \in Nat
      <4>1. m.address \in Seq(Byte) /\ TagsOf(m) \in Seq(Byte)
        BY <3>2, SendableIs, TagsIs, CharsAreBytes
      <4> QED
        BY <3>5, <3>6, <4>1, PaddedIs
    <3>8. Len(y) >= 1
      <4>1. m.address \in Seq(Byte)
        BY <3>2, SendableIs, CharsAreBytes
      <4>2. Len(m.address) \in Nat /\ Len(m.address) + 1 <= Len(y)
        BY <3>5, <4>1, PaddedIs
      <4> QED
        BY <3>7, <4>2
    <3>9. e = (y \o z) \o x
      BY <2>3, <3>2, <3>3, <3>5, <3>6, BuildIs DEF m
    <3>10. y \o z \in Seq(Byte) /\ Len(y \o z) = Len(y) + Len(z)
      BY <3>7, BytesJoined
    <3>11. Len(e) = Len(y) + Len(z) + Len(x)
      BY <3>4, <3>9, <3>10, BytesJoined
    <3> HIDE DEF e
    <3>12. Len(e) >= 4 /\ Len(e) % 4 = 0
      <4>1. (Len(y) + Len(z)) % 4 = 0 /\ Len(y) + Len(z) \in Nat
        BY <3>7, SumAligned
      <4>2. ((Len(y) + Len(z)) + Len(x)) % 4 = 0
        BY <3>4, <4>1, SumAligned
      <4>3. Len(e) % 4 = 0
        BY <3>11, <4>2
      <4>4. \A n \in Nat : n >= 1 /\ n % 4 = 0 => n >= 4
        OBVIOUS
      <4>5. Len(e) \in Nat /\ Len(e) >= 1
        BY <3>4, <3>7, <3>8, <3>11
      <4> QED
        BY <4>3, <4>4, <4>5
    <3> QED
      BY <2>1, <2>3, <3>2, <3>12 DEF e, m
  <2> QED
    BY <1>1, <1>2, <2>2, <2>3
<1> QED
  BY <1>1, <1>2, <1>3, <1>4

\* The layout of a batch.
LEMMA Layout ==
  ASSUME NEW b, Carries(b)
  PROVE  /\ data \in Seq(Byte) /\ Len(data) <= MaxLength
         /\ \A k \in 0..Len(b.elements) : EndOf(b, k) \in Nat /\ EndOf(b, k) <= Len(data)
         /\ EndOf(b, Len(b.elements)) = Len(data)
         /\ \A k \in 1..Len(b.elements) :
              /\ StartOf(b, k) \in Nat /\ EndOf(b, k) = StartOf(b, k) + Len(b.elements[k])
              /\ Holds(StartOf(b, k), b.elements[k], EndOf(b, k))
              /\ ~Lone(b) => Number(EndOf(b, k - 1)) = Len(b.elements[k])
         /\ ~Lone(b) => EndOf(b, 0) = 16 /\ Holds(0, BundleName, Len(data)) /\ Len(data) % 4 = 0
<1> DEFINE es == b.elements
           N == Len(es)
<1>1. /\ es \in Seq(Seq(Byte)) /\ N \in Nat
      /\ data \in Seq(Byte) /\ Len(data) <= MaxLength
      /\ \A k \in 1..N : es[k] \in Seq(Byte) /\ Len(es[k]) \in Nat /\ Len(es[k]) % 4 = 0
  BY ElementIs DEF Carries
<1>2. Len(data) \in Nat
  BY <1>1
<1>3. CASE Lone(b)
  <2>1. N = 1 /\ data = es[1]
    BY <1>1, <1>3, EndBatchIs DEF Lone, Carries
  <2>2. Holds(0, data, Len(data))
    BY <1>1, <1>2 DEF Holds
  <2>3. \A k \in 1..N : k = 1
    BY <2>1
  <2>4. EndOf(b, 0) = 0 /\ EndOf(b, 1) = Len(data) /\ StartOf(b, 1) = 0
    BY <1>3 DEF EndOf, StartOf
  <2>5. \A k \in 0..N : k = 0 \/ k = 1
    BY <2>1
  <2> HIDE DEF es, N
  <2> QED
    BY <1>1, <1>2, <1>3, <2>1, <2>2, <2>3, <2>4, <2>5 DEF es, N
<1>4. CASE ~Lone(b)
  <2> DEFINE fs == Frames(es)
  <2>1. /\ fs \in Seq(Seq(Byte)) /\ Len(fs) = N
        /\ \A k \in 1..N : fs[k] = BE32(Len(es[k])) \o es[k] /\ Len(fs[k]) = 4 + Len(es[k])
    BY <1>1, FramesIs
  <2>2. data = (BundleName \o Zeros(8)) \o FlattenSeq(fs)
    BY <1>1, <1>4, EndBatchIs DEF Lone, Carries
  <2> HIDE DEF fs
  <2>3. FlattenSeq(fs) \in Seq(Byte)
    BY <2>1, FlattenType
  <2>4. Holds(0, data, Len(data))
    BY <1>1, <1>2 DEF Holds
  <2>5. Holds(0, BundleName \o Zeros(8), Len(data)) /\ Holds(16, FlattenSeq(fs), Len(data))
    <3>1. Holds(0, (BundleName \o Zeros(8)) \o FlattenSeq(fs), Len(data))
      BY <2>2, <2>4
    <3>2. /\ Holds(0, BundleName \o Zeros(8), Len(data))
          /\ Holds(0 + Len(BundleName \o Zeros(8)), FlattenSeq(fs), Len(data))
      BY <1>1, <2>3, <3>1, HeaderIs, HoldsParts
    <3>3. 0 + Len(BundleName \o Zeros(8)) = 16
      BY HeaderIs
    <3> QED
      BY <3>2, <3>3
  <2>6. Holds(0, BundleName, Len(data))
    BY <1>1, <2>5, HeaderIs, HoldsParts
  <2>7. /\ \A k \in 0..N : Holds(16, Firsts(fs, k), Len(data))
        /\ \A k \in 1..N : Holds(16 + Len(Firsts(fs, k - 1)), fs[k], Len(data))
    BY <1>1, <2>1, <2>5, HoldsFirsts
  <2>8. \A k \in 0..N : EndOf(b, k) = 16 + Len(Firsts(fs, k))
    BY <1>4 DEF EndOf, fs
  <2>9. ASSUME NEW k \in 0..N
        PROVE  EndOf(b, k) \in Nat /\ EndOf(b, k) <= Len(data) /\ Len(Firsts(fs, k)) \in Nat
    <3>1. Firsts(fs, k) \in Seq(Byte) /\ 16 + Len(Firsts(fs, k)) <= Len(data)
      BY <2>7 DEF Holds
    <3> QED
      BY <2>8, <3>1
  <2>10. EndOf(b, N) = Len(data)
    <3>1. N \in 0..N
      BY <1>1
    <3>2. Firsts(fs, N) = FlattenSeq(fs)
      BY <2>1, FirstsSteps
    <3>3. Len(data) = 16 + Len(FlattenSeq(fs))
      BY <2>2, <2>3, HeaderIs, BytesJoined
    <3> QED
      BY <2>8, <3>1, <3>2, <3>3
  <2>11. ASSUME NEW k \in 1..N
         PROVE  /\ StartOf(b, k) \in Nat /\ EndOf(b, k) = StartOf(b, k) + Len(es[k])
                /\ Holds(StartOf(b, k), es[k], EndOf(b, k))
                /\ Number(EndOf(b, k - 1)) = Len(es[k])
    <3>1. k - 1 \in 0..N /\ k \in 0..N
      BY <1>1
    <3>2. EndOf(b, k - 1) = 16 + Len(Firsts(fs, k - 1)) /\ EndOf(b, k - 1) \in Nat
      BY <2>8, <2>9, <3>1
    <3>3. StartOf(b, k) = EndOf(b, k - 1) + 4
      BY <1>4 DEF StartOf
    <3>4. PICK w : w = BE32(Len(es[k]))
      OBVIOUS
    <3>5. es[k] \in Seq(Byte) /\ Len(es[k]) \in Nat /\ w \in Seq(Byte) /\ Len(w) = 4
      BY <1>1, <3>4, BE32Is
    <3>6. Holds(EndOf(b, k - 1), w \o es[k], Len(data))
      BY <2>1, <2>7, <3>2, <3>4
    <3>7. Holds(EndOf(b, k - 1), w, Len(data)) /\ Holds(EndOf(b, k - 1) + Len(w), es[k], Len(data))
      BY <1>1, <3>5, <3>6, HoldsParts
    <3>8. Holds(StartOf(b, k), es[k], Len(data))
      BY <3>3, <3>5, <3>7
    <3>9. EndOf(b, k) = StartOf(b, k) + Len(es[k])
      <4>1. Firsts(fs, k) = Firsts(fs, k - 1) \o fs[k] /\ Firsts(fs, k - 1) \in Seq(Byte)
        BY <2>1, <3>1, FirstsSteps
      <4>2. fs[k] \in Seq(Byte)
        BY <2>1, ElementOfSeq
      <4>3. Len(Firsts(fs, k)) = Len(Firsts(fs, k - 1)) + Len(fs[k])
        BY <4>1, <4>2, BytesJoined
      <4>4. Len(fs[k]) = 4 + Len(es[k])
        BY <2>1
      <4>5. Len(Firsts(fs, k - 1)) \in Nat
        BY <2>9, <3>1
      <4>6. EndOf(b, k) = 16 + Len(Firsts(fs, k))
        BY <2>8, <3>1
      <4>7. Len(es[k]) \in Nat
        BY <3>5
      <4> DEFINE x == Len(Firsts(fs, k - 1))
                 y == Len(es[k])
      <4>8. x \in Nat /\ y \in Nat
        BY <4>5, <4>7
      <4>9. EndOf(b, k) = 16 + (x + (4 + y))
        BY <4>3, <4>4, <4>6
      <4>10. StartOf(b, k) = (16 + x) + 4
        BY <3>2, <3>3
      <4> HIDE DEF x, y
      <4>11. EndOf(b, k) = StartOf(b, k) + y
        BY <4>8, <4>9, <4>10
      <4> QED
        BY <4>11 DEF y
    <3>10. Holds(StartOf(b, k), es[k], EndOf(b, k))
      <4>1. EndOf(b, k) \in Nat /\ EndOf(b, k) <= Len(data)
        BY <2>9, <3>1
      <4> QED
        BY <3>5, <3>8, <3>9, <4>1 DEF Holds
    <3>11. Len(es[k]) <= MaxLength
      <4>1. StartOf(b, k) + Len(es[k]) <= Len(data) /\ StartOf(b, k) \in Nat
        BY <3>8 DEF Holds
      <4> QED
        BY <1>1, <1>2, <3>5, <4>1 DEF MaxLength
    <3>12. Number(EndOf(b, k - 1)) = Len(es[k])
      BY <1>1, <3>4, <3>5, <3>7, <3>11, HoldsNumber
    <3> QED
      BY <3>8, <3>9, <3>10, <3>12 DEF Holds
  <2>12. EndOf(b, 0) = 16
    <3>1. Firsts(fs, 0) = <<>>
      BY <2>1, FirstsSteps
    <3>2. 0 \in 0..N
      BY <1>1
    <3>3. EndOf(b, 0) = 16 + Len(Firsts(fs, 0))
      BY <2>8, <3>2
    <3> QED
      BY <3>1, <3>3
  <2>13. Len(data) % 4 = 0
    <3>1. ASSUME NEW k \in 1..Len(fs)
          PROVE  Len(fs[k]) % 4 = 0
      <4>1. Len(fs[k]) = 4 + Len(es[k]) /\ Len(es[k]) \in Nat /\ Len(es[k]) % 4 = 0
        BY <1>1, <2>1
      <4>2. 4 \in Nat /\ 4 % 4 = 0
        OBVIOUS
      <4>3. (4 + Len(es[k])) % 4 = 0
        BY <4>1, <4>2, SumAligned
      <4> QED
        BY <4>1, <4>3
    <3>2. N \in 0..Len(fs)
      BY <1>1, <2>1
    <3>3. Len(Firsts(fs, N)) \in Nat /\ Len(Firsts(fs, N)) % 4 = 0
      BY <2>1, <3>1, <3>2, FirstsAligned
    <3>4. Len(data) = 16 + Len(Firsts(fs, N))
      <4>1. N \in 0..N
        BY <1>1
      <4>2. EndOf(b, N) = 16 + Len(Firsts(fs, N))
        BY <2>8, <4>1
      <4> QED
        BY <2>10, <4>2
    <3> QED
      BY <3>3, <3>4
  <2> HIDE DEF N, es
  <2> QED
    BY <1>1, <1>4, <2>6, <2>9, <2>10, <2>11, <2>12, <2>13 DEF es, N
<1> QED
  BY <1>3, <1>4

-----------------------------------------------------------------------------
(***************************************************************************)
(* How far the parser of a batch is, at each step: it has what the first   *)
(* elements say and works on the next, or is between two.                  *)
(***************************************************************************)
\* The call for the bundle, done with k elements.
Outer(b, k) == IF Lone(b) THEN <<>> ELSE <<[pos |-> EndOf(b, k), hi |-> Len(data)]>>

\* out, after k elements.
Said(b, k) == Firsts(b.messages, k)

\* In the call for element k.
Reading(b, k) ==
    /\ k \in 1..Len(b.elements) /\ lo = StartOf(b, k) /\ hi = EndOf(b, k)
    /\ bundles = Outer(b, k) /\ out = Said(b, k - 1)

\* In the loop of the bundle, done with k elements.
Between(b, k) ==
    k \in 0..Len(b.elements) /\ ~Lone(b) /\ bundles = Outer(b, k) /\ out = Said(b, k)

\* In the loop of an element that is a bundle of nothing.
InNothing(b, k) ==
    /\ k \in 1..Len(b.elements) /\ ~Lone(b) /\ out = Said(b, k)
    /\ bundles = Append(Outer(b, k), [pos |-> EndOf(b, k), hi |-> EndOf(b, k)])

\* Everything was read.
Finished(b) == result /\ out = FlattenSeq(b.messages)

\* In front of the bundle, or of an element.
AtPacket(b) ==
    \/ ~Lone(b) /\ lo = 0 /\ hi = Len(data) /\ bundles = <<>> /\ out = <<>>
    \/ \E k : Reading(b, k)

\* Behind an address: that of the message, or one whose tags are missing.
AtTags(b, k) ==
    /\ Reading(b, k) /\ args = <<>>
    /\ \/ /\ b.messages[k] = <<>> /\ pos \in Nat /\ (pos = hi \/ (pos < hi /\ At(pos) # Comma))
       \/ \E m \in Sendable :
             /\ b.messages[k] = <<m>> /\ b.elements[k] = Build(m)
             /\ address = m.address /\ pos = lo + Len(Padded(m.address))

\* Before argument j + 1 of m.
ArgOffset(m, j) ==
    lo + Len(Padded(m.address)) + Len(Padded(TagsOf(m))) + Len(Firsts(ArgsBytes(m), j))

AtArgs(b, k, m, j) ==
    /\ Reading(b, k) /\ m \in Sendable /\ j \in 0..Len(m.args)
    /\ b.messages[k] = <<m>> /\ b.elements[k] = Build(m)
    /\ address = m.address /\ tags = TagsOf(m)
    /\ args = SubSeq(m.args, 1, j) /\ pos = ArgOffset(m, j)

\* What holds at each of the machine's steps.
Stage(b) ==
    /\ pc = "packet" => AtPacket(b)
    /\ pc = "address" => \E k : Reading(b, k) /\ pos = lo /\ args = <<>>
    /\ pc = "tags" => \E k : AtTags(b, k)
    /\ pc = "args" => \E k, m, j : AtArgs(b, k, m, j)
    /\ pc = "element" => \E k : Between(b, k) \/ InNothing(b, k)
    /\ pc = "return" => (\E k : Between(b, k)) \/ (bundles = <<>> /\ Finished(b))
    /\ pc = "done" => Finished(b)

\* What a step may do when it ends an element.
LEMMA ElementEnds ==
  ASSUME NEW b, Carries(b), NEW k, Reading(b, k),
         pc' = "return", UNCHANGED <<data, bundles>>, out' = Said(b, k), Lone(b) => result'
  PROVE  Carries(b)' /\ Stage(b)'
<1>1. Carries(b)'
  BY DEF Carries
<1>2. k \in 1..Len(b.elements) /\ bundles = Outer(b, k) /\ Len(b.elements) \in Nat
  BY ElementIs DEF Reading, Carries
<1>3. CASE Lone(b)
  <2>1. k = 1 /\ Len(b.messages) = 1 /\ b.messages \in Seq(Seq(Sendable))
    <3>1. b \in Batches /\ Len(b.elements) = 1
      BY <1>3 DEF Lone, Carries
    <3>2. Len(b.messages) = Len(b.elements) /\ b.messages \in Seq(Seq(Sendable))
      BY <3>1, ElementIs
    <3> QED
      BY <1>2, <3>1, <3>2
  <2>2. out' = FlattenSeq(b.messages)
    BY <2>1, FirstsSteps DEF Said
  <2>3. bundles' = <<>>
    BY <1>2, <1>3 DEF Outer
  <2> QED
    BY <1>1, <1>3, <2>2, <2>3 DEF Stage, Finished
<1>4. CASE ~Lone(b)
  <2>1. k \in 0..Len(b.elements)
    BY <1>2
  <2>2. Outer(b, k)' = Outer(b, k) /\ Said(b, k)' = Said(b, k) /\ Lone(b)' = Lone(b)
    BY DEF Outer, Said, Lone, EndOf
  <2>3. Between(b, k)'
    BY <1>2, <1>4, <2>1, <2>2 DEF Between
  <2> QED
    BY <1>1, <2>3 DEF Stage
<1> QED
  BY <1>3, <1>4

\* What is said after an element of each kind.
LEMMA SaidSteps ==
  ASSUME NEW b \in Batches, NEW k \in 1..Len(b.elements)
  PROVE  /\ Said(b, 0) = <<>> /\ Said(b, Len(b.elements)) = FlattenSeq(b.messages)
         /\ Said(b, k - 1) \in Seq(Sendable) /\ b.messages[k] \in Seq(Sendable)
         /\ b.messages[k] = <<>> => Said(b, k) = Said(b, k - 1)
         /\ \A m \in Sendable : b.messages[k] = <<m>> => Said(b, k) = Append(Said(b, k - 1), m)
<1> DEFINE ss == b.messages
<1>1. /\ ss \in Seq(Seq(Sendable)) /\ Len(ss) = Len(b.elements) /\ Len(ss) \in Nat
  BY ElementIs
<1>2. k \in 1..Len(ss) /\ k - 1 \in 0..Len(ss) /\ ss[k] \in Seq(Sendable)
  BY <1>1, ElementOfSeq
<1> HIDE DEF ss
<1>3. /\ Firsts(ss, 0) = <<>> /\ Firsts(ss, Len(ss)) = FlattenSeq(ss)
      /\ Firsts(ss, k - 1) \in Seq(Sendable)
      /\ Firsts(ss, k) = Firsts(ss, k - 1) \o ss[k]
  BY <1>1, <1>2, FirstsSteps
<1>4. ss[k] = <<>> => Firsts(ss, k) = Firsts(ss, k - 1)
  BY <1>3, ConcatEmptySeq
<1>5. \A m \in Sendable : ss[k] = <<m>> => Firsts(ss, k) = Append(Firsts(ss, k - 1), m)
  BY <1>3, AppendIsConcat
<1> QED
  BY <1>1, <1>2, <1>3, <1>4, <1>5 DEF ss, Said

\* A lone element is a message: the packet says something.
LEMMA LoneSays ==
  ASSUME NEW b, Carries(b), Lone(b), NEW k \in 1..Len(b.elements)
  PROVE  b.messages[k] # <<>>
<1>1. k = 1 /\ Len(b.elements) = 1 /\ b \in Batches
  BY ElementIs DEF Lone, Carries
<1>2. Said(b, 0) = <<>> /\ Said(b, 1) = FlattenSeq(b.messages)
      /\ (b.messages[1] = <<>> => Said(b, 1) = Said(b, 0))
  <2>1. 1 \in 1..Len(b.elements) /\ 1 - 1 = 0
    BY <1>1
  <2> QED
    BY <1>1, <2>1, SaidSteps
<1> QED
  BY <1>1, <1>2 DEF Carries

\* A message starts with its address, and that with a slash.
LEMMA BuildStarts ==
  ASSUME NEW m \in Sendable
  PROVE  Build(m) \in Seq(Byte) /\ Build(m)[1] = Slash
<1>1. PICK y : y = Padded(m.address)
  OBVIOUS
<1>2. PICK z : z = Padded(TagsOf(m))
  OBVIOUS
<1>3. PICK x : x = FlattenSeq(ArgsBytes(m))
  OBVIOUS
<1>4. y \in Seq(Byte) /\ z \in Seq(Byte) /\ x \in Seq(Byte) /\ Build(m) = (y \o z) \o x
  BY <1>1, <1>2, <1>3, BuildIs, FlattenType
<1>5. m.address \in Seq(Byte) /\ Len(m.address) \in Nat \ {0} /\ m.address[1] = Slash
  BY SendableIs, CharsAreBytes
<1>6. Len(y) >= 1 /\ y[1] = Slash /\ Len(y) \in Nat
  <2>1. 1 \in 1..Len(m.address)
    BY <1>5
  <2>2. Len(m.address) + 1 <= Len(y) /\ y[1] = m.address[1]
    BY <1>1, <1>5, <2>1, PaddedIs
  <2> QED
    BY <1>4, <1>5, <2>2
<1>7. y \o z \in Seq(Byte) /\ Len(y \o z) >= 1 /\ (y \o z)[1] = Slash
  <2>1. y \o z \in Seq(Byte) /\ Len(y \o z) = Len(y) + Len(z) /\ Len(z) \in Nat
    BY <1>4, BytesJoined
  <2>2. 1 \in 1..Len(y) + Len(z) /\ 1 <= Len(y)
    BY <1>6, <2>1
  <2>3. (y \o z)[1] = y[1]
    BY <1>4, <2>2, BytesJoined
  <2> QED
    BY <1>6, <2>1, <2>3
<1>8. PICK w : w = y \o z
  OBVIOUS
<1>9. w \in Seq(Byte) /\ Len(w) >= 1 /\ w[1] = Slash /\ Len(w) \in Nat /\ Len(x) \in Nat
  BY <1>4, <1>7, <1>8
<1>10. 1 \in 1..Len(w) + Len(x) /\ 1 <= Len(w)
  BY <1>9
<1>11. w \o x \in Seq(Byte) /\ (w \o x)[1] = w[1]
  BY <1>4, <1>9, <1>10, BytesJoined
<1> QED
  BY <1>4, <1>8, <1>9, <1>11

-----------------------------------------------------------------------------
\* The parser starts in front of the first element, or of the bundle.
LEMMA ParseStarts ==
  ASSUME NEW b, Carries(b), ParseInit
  PROVE  Stage(b)
<1>1. pc = "packet" /\ lo = 0 /\ hi = Len(data) /\ bundles = <<>> /\ out = <<>>
  BY DEF ParseInit
<1>2. CASE Lone(b)
  <2>1. 1 \in 1..Len(b.elements) /\ 1 - 1 = 0 /\ b \in Batches
    BY <1>2 DEF Lone, Carries
  <2>2. StartOf(b, 1) = 0 /\ EndOf(b, 1) = Len(data) /\ Outer(b, 1) = <<>>
    BY <1>2 DEF StartOf, EndOf, Outer
  <2>3. Said(b, 1 - 1) = <<>>
    BY <2>1, SaidSteps
  <2>4. Reading(b, 1)
    BY <1>1, <2>1, <2>2, <2>3 DEF Reading
  <2> QED
    BY <1>1, <2>4 DEF Stage, AtPacket
<1>3. CASE ~Lone(b)
  BY <1>1, <1>3 DEF Stage, AtPacket
<1> QED
  BY <1>2, <1>3

\* osc_parse_packet() takes the batch for a bundle and its elements for
\* messages, except an empty bundle.
LEMMA PacketStage ==
  ASSUME NEW b, Carries(b), Stage(b), Packet
  PROVE  Carries(b)' /\ Stage(b)'
<1>1. /\ pc = "packet" /\ UNCHANGED <<data, sent, lo, hi, out>>
      /\ IF ~WellSized
         THEN Returns(FALSE) /\ UNCHANGED <<pos, bundles, address, tags, args, read>>
         ELSE IF IsBundle
         THEN /\ pc' = "element"
              /\ bundles' = Append(bundles, [pos |-> lo + 16, hi |-> hi])
         ELSE pc' = "address" /\ pos' = lo /\ args' = <<>> /\ UNCHANGED bundles
  BY Zenon DEF Packet
<1>2. Carries(b)' /\ Lone(b)' = Lone(b)
  BY <1>1 DEF Carries, Lone
<1>3. b \in Batches /\ data \in Seq(Byte) /\ Len(data) \in Nat
  BY Layout DEF Carries
<1>4. \A k : Outer(b, k)' = Outer(b, k) /\ Said(b, k)' = Said(b, k)
             /\ StartOf(b, k)' = StartOf(b, k) /\ EndOf(b, k)' = EndOf(b, k)
  BY <1>1 DEF Outer, Said, Lone, EndOf, StartOf
<1>5. CASE ~Lone(b) /\ lo = 0 /\ hi = Len(data) /\ bundles = <<>> /\ out = <<>>
  <2>1. EndOf(b, 0) = 16 /\ Holds(0, BundleName, Len(data)) /\ Len(data) % 4 = 0
    BY <1>5, Layout
  <2>2. 0 \in 0..Len(b.elements) /\ Said(b, 0) = <<>>
    <3>1. Len(b.elements) \in Nat /\ b.messages \in Seq(Seq(Sendable))
      BY <1>3, ElementIs
    <3>2. Firsts(b.messages, 0) = <<>>
      BY <3>1, FirstsSteps
    <3>3. 0 \in 0..Len(b.elements)
      BY <3>1
    <3> QED
      BY <3>2, <3>3 DEF Said
  <2>3. EndOf(b, 0) <= Len(data)
    BY <2>2, Layout
  <2>4. Slice(0, 8) = BundleName
    BY <1>3, <2>1, HeaderIs, HoldsSlice
  <2>5. WellSized /\ IsBundle
    <3>1. hi - lo = Len(data) /\ lo + 8 = 8
      BY <1>3, <1>5
    <3>2. hi - lo >= 16 /\ hi - lo >= 4 /\ (hi - lo) % 4 = 0
      BY <1>3, <2>1, <2>3, <3>1
    <3>3. Slice(lo, lo + 8) = BundleName
      BY <1>5, <2>4, <3>1
    <3> QED
      BY <3>2, <3>3 DEF WellSized, IsBundle
  <2>6. pc' = "element" /\ bundles' = <<[pos |-> 16, hi |-> Len(data)]>>
    <3>1. bundles' = Append(<<>>, [pos |-> lo + 16, hi |-> hi]) /\ lo + 16 = 16
      BY <1>1, <1>5, <2>5
    <3> QED
      BY <1>1, <1>5, <2>5, <3>1
  <2>7. Between(b, 0)'
    BY <1>1, <1>2, <1>4, <1>5, <2>1, <2>2, <2>6 DEF Between, Outer
  <2> QED
    BY <1>2, <2>6, <2>7 DEF Stage
<1>6. ASSUME NEW k, Reading(b, k)
      PROVE  Stage(b)'
  <2> DEFINE e == b.elements[k]
  <2>1. /\ k \in 1..Len(b.elements) /\ lo = StartOf(b, k) /\ hi = EndOf(b, k)
        /\ bundles = Outer(b, k) /\ out = Said(b, k - 1)
    BY <1>6 DEF Reading
  <2>2. /\ e \in Seq(Byte) /\ Len(e) \in Nat /\ Len(e) >= 4 /\ Len(e) % 4 = 0
        /\ \/ b.messages[k] = <<>> /\ Unreadable(e)
           \/ \E m \in Sendable : b.messages[k] = <<m>> /\ e = Build(m)
    BY <1>3, <2>1, ElementIs
  <2>3. lo \in Nat /\ hi \in Nat /\ hi = lo + Len(e) /\ Holds(lo, e, hi) /\ hi <= Len(data)
    <3>1. k \in 0..Len(b.elements)
      BY <1>3, <2>1, ElementIs
    <3> QED
      BY <2>1, <3>1, Layout
  <2> HIDE DEF e
  <2>4. WellSized
    <3>1. hi - lo = Len(e)
      BY <2>2, <2>3
    <3> QED
      BY <2>2, <3>1 DEF WellSized
  <2>5. CASE ~IsBundle
    <3>1. pc' = "address" /\ pos' = lo' /\ args' = <<>> /\ UNCHANGED bundles
      BY <1>1, <2>4, <2>5
    <3>2. Reading(b, k)'
      BY <1>1, <1>4, <2>1, <3>1 DEF Reading
    <3> QED
      BY <3>1, <3>2 DEF Stage
  <2>6. CASE IsBundle
    <3>1. /\ pc' = "element" /\ bundles' = Append(bundles, [pos |-> lo + 16, hi |-> hi])
          /\ hi - lo >= 16 /\ Slice(lo, lo + 8) = BundleName
      BY <1>1, <2>4, <2>6 DEF IsBundle
    <3>2. Len(e) >= 16
      BY <2>2, <2>3, <3>1
    <3>3. \A i \in 1..8 : e[i] = BundleName[i]
      <4> TAKE i \in 1..8
      <4>1. i \in 1..Len(e) /\ At(lo + i - 1) = e[i]
        <5>1. i \in 1..Len(e)
          BY <2>2, <3>2
        <5> QED
          BY <1>3, <2>3, <5>1, HoldsAt
      <4>2. (lo + 8) - lo = 8
        BY <2>3
      <4>3. Slice(lo, lo + 8) = [j \in 1..8 |-> At(lo + j - 1)]
        BY <4>2 DEF Slice
      <4>4. BundleName[i] = At(lo + i - 1)
        BY <3>1, <4>3
      <4> QED
        BY <4>1, <4>4
    <3>4. Head(e) = e[1] /\ e[1] # Slash
      <4>1. e[1] = 35
        BY <3>3, HeaderIs
      <4> QED
        BY <4>1 DEF Slash
    <3>5. ~ \E m \in Sendable : b.messages[k] = <<m>> /\ e = Build(m)
      <4> SUFFICES ASSUME NEW m \in Sendable, e = Build(m) PROVE FALSE
        OBVIOUS
      <4>1. Build(m)[1] = Slash
        BY BuildStarts
      <4> QED
        BY <3>4, <4>1
    <3>6. b.messages[k] = <<>> /\ Unreadable(e)
      BY <2>2, <3>5
    <3>7. NoAddress(e)
      BY <3>4, <3>6 DEF Unreadable, NoTags
    <3>8. Len(e) = 16
      <4>1. SubSeq(e, 1, 8) = BundleName
        <5>1. \A i \in 1..8 : e[i] \in Byte
          <6>1. \A i \in 1..8 : i \in 1..Len(e)
            BY <2>2, <3>2
          <6> QED
            BY <2>2, <6>1, ElementOfSeq
        <5>2. /\ SubSeq(e, 1, 8) \in Seq(Byte) /\ Len(SubSeq(e, 1, 8)) = 8
              /\ \A i \in 1..8 : SubSeq(e, 1, 8)[i] = e[i]
          BY <2>2, <3>2
        <5>3. \A i \in 1..Len(BundleName) : SubSeq(e, 1, 8)[i] = BundleName[i]
          BY <3>3, <5>2, HeaderIs
        <5> QED
          <6> DEFINE s == SubSeq(e, 1, 8)
          <6>1. /\ s \in Seq(Byte) /\ BundleName \in Seq(Byte) /\ Len(s) = Len(BundleName)
                /\ \A i \in 1..Len(s) : s[i] = BundleName[i]
            BY <5>2, <5>3, HeaderIs
          <6> HIDE DEF s
          <6>2. s = BundleName
            BY <6>1, SeqEqual
          <6> QED
            BY <6>2 DEF s
      <4>2. ~(Len(e) > 16)
        BY <3>7, <4>1, Zenon DEF NoAddress
      <4>3. Len(e) \in Nat
        BY <2>2
      <4>4. \A n \in Nat : n >= 16 /\ ~(n > 16) => n = 16
        OBVIOUS
      <4> QED
        BY <3>2, <4>2, <4>3, <4>4
    <3>9. ~Lone(b)
      BY <2>1, <3>6, LoneSays
    <3>10. Said(b, k) = Said(b, k - 1)
      BY <1>3, <2>1, <3>6, SaidSteps
    <3>11. lo + 16 = hi
      BY <2>3, <3>8
    <3>12. InNothing(b, k)'
      BY <1>1, <1>2, <1>4, <2>1, <3>1, <3>9, <3>10, <3>11 DEF InNothing
    <3> QED
      BY <3>1, <3>12 DEF Stage
  <2> QED
    BY <2>5, <2>6
<1> QED
  BY <1>1, <1>2, <1>5, <1>6 DEF Stage, AtPacket

\* What stays as long as the call for an element does.
LEMMA SameElement ==
  ASSUME NEW b, Carries(b), UNCHANGED data
  PROVE  /\ Carries(b)' /\ Lone(b)' = Lone(b)
         /\ \A k : /\ Outer(b, k)' = Outer(b, k) /\ Said(b, k)' = Said(b, k)
                   /\ StartOf(b, k)' = StartOf(b, k) /\ EndOf(b, k)' = EndOf(b, k)
                   /\ UNCHANGED <<lo, hi, bundles, out>> => Reading(b, k)' = Reading(b, k)
BY DEF Carries, Outer, Said, Lone, EndOf, StartOf, Reading

\* Where the element that is read lies, and what it is.
LEMMA ReadingIs ==
  ASSUME NEW b, Carries(b), NEW k, Reading(b, k)
  PROVE  /\ b \in Batches /\ k \in 1..Len(b.elements) /\ data \in Seq(Byte)
         /\ lo \in Nat /\ hi \in Nat /\ hi <= Len(data) /\ Len(data) <= MaxLength
         /\ b.elements[k] \in Seq(Byte) /\ hi = lo + Len(b.elements[k])
         /\ Holds(lo, b.elements[k], hi)
         /\ bundles = Outer(b, k) /\ out = Said(b, k - 1)
         /\ \/ b.messages[k] = <<>> /\ Unreadable(b.elements[k])
            \/ \E m \in Sendable : b.messages[k] = <<m>> /\ b.elements[k] = Build(m)
<1>1. /\ k \in 1..Len(b.elements) /\ lo = StartOf(b, k) /\ hi = EndOf(b, k)
      /\ bundles = Outer(b, k) /\ out = Said(b, k - 1) /\ b \in Batches
  BY DEF Reading, Carries
<1>2. k \in 0..Len(b.elements)
  BY <1>1, ElementIs
<1>3. /\ data \in Seq(Byte) /\ Len(data) <= MaxLength
      /\ lo \in Nat /\ hi \in Nat /\ hi <= Len(data)
      /\ hi = lo + Len(b.elements[k]) /\ Holds(lo, b.elements[k], hi)
  BY <1>1, <1>2, Layout
<1>4. /\ b.elements[k] \in Seq(Byte)
      /\ \/ b.messages[k] = <<>> /\ Unreadable(b.elements[k])
         \/ \E m \in Sendable : b.messages[k] = <<m>> /\ b.elements[k] = Build(m)
  BY <1>1, ElementIs
<1> QED
  BY <1>1, <1>3, <1>4

\* Where the parts of a message lie.
LEMMA MessageParts ==
  ASSUME NEW b, Carries(b), NEW k, Reading(b, k), NEW m \in Sendable, b.elements[k] = Build(m)
  PROVE  /\ Holds(lo, Padded(m.address), hi)
         /\ Holds(lo + Len(Padded(m.address)), Padded(TagsOf(m)), hi)
         /\ \A j \in 1..Len(m.args) : Holds(ArgOffset(m, j - 1), BuildArg(m.args[j]), hi)
         /\ ArgOffset(m, 0) = lo + Len(Padded(m.address)) + Len(Padded(TagsOf(m)))
         /\ \A j \in 1..Len(m.args) : ArgOffset(m, j) = ArgOffset(m, j - 1) + Len(BuildArg(m.args[j]))
<1> DEFINE y == Padded(m.address)
           z == Padded(TagsOf(m))
           ss == ArgsBytes(m)
           n == Len(m.args)
<1>1. /\ Build(m) = (y \o z) \o FlattenSeq(ss) /\ y \in Seq(Byte) /\ z \in Seq(Byte)
      /\ ss \in Seq(Seq(Byte)) /\ Len(ss) = n
      /\ \A j \in 1..n : ss[j] = BuildArg(m.args[j])
  BY BuildIs
<1>2. /\ data \in Seq(Byte) /\ lo \in Nat /\ hi \in Nat /\ Holds(lo, b.elements[k], hi)
  BY ReadingIs
<1>3. \A j : ArgOffset(m, j) = lo + Len(y) + Len(z) + Len(Firsts(ss, j))
  BY DEF ArgOffset
<1> HIDE DEF y, z, ss
<1>4. FlattenSeq(ss) \in Seq(Byte) /\ y \o z \in Seq(Byte) /\ Len(y \o z) = Len(y) + Len(z)
  BY <1>1, FlattenType, BytesJoined
<1>5. Len(y) \in Nat /\ Len(z) \in Nat
  BY <1>1
<1>6. Holds(lo, (y \o z) \o FlattenSeq(ss), hi)
  BY <1>1, <1>2
<1>7. Holds(lo, y \o z, hi) /\ Holds(lo + Len(y \o z), FlattenSeq(ss), hi)
  BY <1>2, <1>4, <1>6, HoldsParts
<1>8. Holds(lo, y, hi) /\ Holds(lo + Len(y), z, hi)
  BY <1>1, <1>2, <1>7, HoldsParts
<1> DEFINE p == lo + Len(y) + Len(z)
<1>9. p = lo + Len(y \o z) /\ p \in Nat
  BY <1>2, <1>4, <1>5
<1>10. Holds(p, FlattenSeq(ss), hi)
  BY <1>7, <1>9
<1>11. \A j : ArgOffset(m, j) = p + Len(Firsts(ss, j))
  BY <1>3
<1> HIDE DEF p
<1>12. \A j \in 1..n : Holds(p + Len(Firsts(ss, j - 1)), ss[j], hi)
  BY <1>1, <1>2, <1>10, HoldsFirsts
<1>13. Firsts(ss, 0) = <<>>
  BY <1>1, FirstsSteps
<1>14. ArgOffset(m, 0) = p
  BY <1>9, <1>11, <1>13
<1>15. ASSUME NEW j \in 1..n
       PROVE  ArgOffset(m, j) = ArgOffset(m, j - 1) + Len(BuildArg(m.args[j]))
  <2>0. n \in Nat
    BY <1>1
  <2>1. j - 1 \in 0..n
    BY <2>0
  <2>2. Firsts(ss, j) = Firsts(ss, j - 1) \o ss[j] /\ Firsts(ss, j - 1) \in Seq(Byte)
    BY <1>1, <2>1, FirstsSteps
  <2>3. ss[j] \in Seq(Byte)
    BY <1>1, ElementOfSeq
  <2>4. Len(Firsts(ss, j)) = Len(Firsts(ss, j - 1)) + Len(ss[j])
    BY <2>2, <2>3, BytesJoined
  <2>5. Len(Firsts(ss, j - 1)) \in Nat /\ Len(ss[j]) \in Nat
    BY <2>2, <2>3
  <2>6. ArgOffset(m, j) = p + (Len(Firsts(ss, j - 1)) + Len(ss[j]))
    BY <1>11, <2>4
  <2>7. ArgOffset(m, j - 1) = p + Len(Firsts(ss, j - 1))
    BY <1>11
  <2>8. \A x, u, v \in Nat : x + (u + v) = (x + u) + v
    OBVIOUS
  <2>9. ArgOffset(m, j) = ArgOffset(m, j - 1) + Len(ss[j])
    <3>1. PICK u \in Nat : u = Len(Firsts(ss, j - 1))
      BY <2>5
    <3>2. PICK v \in Nat : v = Len(ss[j])
      BY <2>5
    <3>3. ArgOffset(m, j) = p + (u + v) /\ ArgOffset(m, j - 1) = p + u
      BY <2>6, <2>7, <3>1, <3>2
    <3> QED
      BY <1>9, <2>8, <3>2, <3>3
  <2> QED
    BY <1>1, <2>9
<1>16. \A j \in 1..n : Holds(ArgOffset(m, j - 1), BuildArg(m.args[j]), hi)
  BY <1>1, <1>11, <1>12
<1> QED
  BY <1>8, <1>14, <1>15, <1>16 DEF y, z, p

-----------------------------------------------------------------------------
\* The call for an element returns to the loop of the bundle.
LEMMA ReturnStage ==
  ASSUME NEW b, Carries(b), Stage(b), Return
  PROVE  Carries(b)' /\ Stage(b)'
<1>1. /\ pc = "return" /\ pc' = IF bundles = <<>> THEN "done" ELSE "element"
      /\ UNCHANGED <<data, bundles, out, result>>
  BY DEF Return
<1>2. Carries(b)' /\ Lone(b)' = Lone(b) /\ \A k : Outer(b, k)' = Outer(b, k) /\ Said(b, k)' = Said(b, k)
  BY <1>1, SameElement
<1>3. (\E k : Between(b, k)) \/ (bundles = <<>> /\ Finished(b))
  BY <1>1 DEF Stage
<1>4. CASE bundles = <<>> /\ Finished(b)
  BY <1>1, <1>2, <1>4 DEF Stage, Finished
<1>5. ASSUME NEW k, Between(b, k)
      PROVE  Stage(b)'
  <2>1. ~Lone(b) /\ bundles = <<[pos |-> EndOf(b, k), hi |-> Len(data)]>>
    BY <1>5 DEF Between, Outer
  <2>2. bundles # <<>>
    BY <2>1
  <2>3. pc' = "element" /\ Between(b, k)'
    BY <1>1, <1>2, <1>5, <2>2 DEF Between
  <2> QED
    BY <2>3 DEF Stage
<1> QED
  BY <1>2, <1>3, <1>4, <1>5

\* Calls nest two deep at most.
LEMMA LastOfOne == \A x : /\ Len(<<x>>) = 1 /\ Last(<<x>>) = x /\ Front(<<x>>) = <<>>
<1> TAKE x
<1>1. PICK s : s = <<x>>
  OBVIOUS
<1>2. s \in Seq({x}) /\ Len(s) = 1 /\ s[1] = x
  BY <1>1
<1>3. SubSeq(s, 1, 0) = <<>> /\ 1 - 1 = 0
  BY SubSeqEmpty
<1>4. Last(s) = s[1]
  BY <1>2 DEF Last
<1>5. Front(s) = SubSeq(s, 1, 0)
  BY <1>2, <1>3 DEF Front
<1> QED
  BY <1>1, <1>2, <1>3, <1>4, <1>5

LEMMA LastOfTwo ==
  \A x, y : /\ Len(Append(<<x>>, y)) = 2 /\ Last(Append(<<x>>, y)) = y
            /\ Front(Append(<<x>>, y)) = <<x>>
<1> TAKE x, y
<1>1. PICK s : s = Append(<<x>>, y)
  OBVIOUS
<1>2. s \in Seq({x, y}) /\ Len(s) = 2 /\ s[1] = x /\ s[2] = y
  BY <1>1
<1>3. 2 - 1 = 1
  OBVIOUS
<1>4. SubSeq(s, 1, 1) = <<x>>
  <2>1. PICK u : u = SubSeq(s, 1, 1)
    OBVIOUS
  <2>2. PICK v : v = <<x>>
    OBVIOUS
  <2>3. u \in Seq({x, y}) /\ Len(u) = 1 /\ u[1] = x
    BY <1>2, <2>1
  <2>4. v \in Seq({x, y}) /\ Len(v) = 1 /\ v[1] = x
    BY <2>2
  <2>5. u = v
    BY <2>3, <2>4, SeqEqual
  <2> QED
    BY <2>1, <2>2, <2>5
<1>5. Last(s) = s[2]
  BY <1>2 DEF Last
<1>6. Front(s) = SubSeq(s, 1, 1)
  BY <1>2, <1>3 DEF Front
<1> QED
  BY <1>1, <1>2, <1>4, <1>5, <1>6

\* The loop of the bundle goes from one element to the next by its length,
\* and ends behind the last; a bundle of nothing ends at once.
LEMMA ElementStage ==
  ASSUME NEW b, Carries(b), Stage(b), Element
  PROVE  Carries(b)' /\ Stage(b)'
<1> DEFINE c == Last(bundles)
           size == Number(c.pos)
           start == c.pos + 4
<1>1. /\ pc = "element" /\ UNCHANGED <<data, out>>
      /\ IF start > c.hi
         THEN Returns(TRUE) /\ bundles' = Front(bundles)
         ELSE IF size = 0 \/ size > c.hi - start
              THEN Returns(TRUE) /\ bundles' = Front(bundles)
              ELSE /\ lo' = start /\ hi' = start + size /\ pc' = "packet"
                   /\ bundles' = [bundles EXCEPT ![Len(bundles)].pos = start + size]
  BY Zenon DEF Element
<1> HIDE DEF c, size, start
<1>2. /\ Carries(b)' /\ Lone(b)' = Lone(b)
      /\ \A k : /\ Outer(b, k)' = Outer(b, k) /\ Said(b, k)' = Said(b, k)
                /\ StartOf(b, k)' = StartOf(b, k) /\ EndOf(b, k)' = EndOf(b, k)
  BY <1>1, SameElement
<1>3. b \in Batches /\ data \in Seq(Byte) /\ Len(data) \in Nat /\ Len(b.elements) \in Nat
  <2>1. b \in Batches /\ data \in Seq(Byte)
    BY Layout DEF Carries
  <2> QED
    BY <2>1, ElementIs
<1>4. ASSUME NEW k, InNothing(b, k)
      PROVE  Stage(b)'
  <2>1. /\ k \in 1..Len(b.elements) /\ k \in 0..Len(b.elements) /\ ~Lone(b) /\ out = Said(b, k)
        /\ bundles = Append(<<[pos |-> EndOf(b, k), hi |-> Len(data)]>>, [pos |-> EndOf(b, k), hi |-> EndOf(b, k)])
    BY <1>3, <1>4 DEF InNothing, Outer
  <2>2. c.pos = EndOf(b, k) /\ c.hi = EndOf(b, k) /\ Front(bundles) = Outer(b, k)
    BY <2>1, LastOfTwo DEF c, Outer
  <2>3. EndOf(b, k) \in Nat
    BY <2>1, Layout
  <2>4. start > c.hi
    BY <2>2, <2>3 DEF start
  <2>5. pc' = "return" /\ bundles' = Outer(b, k)
    BY <1>1, <2>2, <2>4 DEF Returns
  <2>6. Between(b, k)'
    BY <1>1, <1>2, <2>1, <2>5 DEF Between
  <2> QED
    BY <2>5, <2>6 DEF Stage
<1>5. ASSUME NEW k, Between(b, k)
      PROVE  Stage(b)'
  <2>1. /\ k \in 0..Len(b.elements) /\ ~Lone(b) /\ out = Said(b, k)
        /\ bundles = <<[pos |-> EndOf(b, k), hi |-> Len(data)]>>
    BY <1>5 DEF Between, Outer
  <2>2. c.pos = EndOf(b, k) /\ c.hi = Len(data) /\ Front(bundles) = <<>> /\ Len(bundles) = 1
    BY <2>1, LastOfOne DEF c
  <2>3. EndOf(b, k) \in Nat /\ EndOf(b, k) <= Len(data)
    BY <2>1, Layout
  <2>4. CASE k = Len(b.elements)
    <3>1. EndOf(b, k) = Len(data)
      BY <2>4, Layout
    <3>2. start > c.hi
      BY <1>3, <2>2, <3>1 DEF start
    <3>3. pc' = "return" /\ result' = TRUE /\ bundles' = <<>>
      BY <1>1, <2>2, <3>2 DEF Returns
    <3>4. out' = FlattenSeq(b.messages)
      <4>1. b.messages \in Seq(Seq(Sendable)) /\ Len(b.messages) = Len(b.elements)
        BY <1>3, ElementIs
      <4> QED
        BY <1>1, <2>1, <2>4, <4>1, FirstsSteps DEF Said
    <3> QED
      BY <3>3, <3>4 DEF Stage, Finished
  <2>5. CASE k # Len(b.elements)
    <3> DEFINE e == b.elements[k + 1]
    <3>1. k + 1 \in 1..Len(b.elements) /\ k + 1 \in 0..Len(b.elements) /\ (k + 1) - 1 = k
      BY <1>3, <2>1, <2>5
    <3>2. e \in Seq(Byte) /\ Len(e) \in Nat /\ Len(e) >= 4
      BY <1>3, <3>1, ElementIs
    <3>3. /\ StartOf(b, k + 1) = EndOf(b, k) + 4
          /\ EndOf(b, k + 1) = StartOf(b, k + 1) + Len(e) /\ EndOf(b, k + 1) <= Len(data)
          /\ Number(EndOf(b, k)) = Len(e)
      BY <2>1, <3>1, Layout DEF StartOf
    <3> HIDE DEF e
    <3>4. /\ start = StartOf(b, k + 1) /\ size = Len(e) /\ start + size = EndOf(b, k + 1)
          /\ start \in Nat
      BY <2>2, <2>3, <3>3 DEF start, size
    <3>5. ~(start > c.hi) /\ ~(size = 0 \/ size > c.hi - start)
      BY <1>3, <2>2, <3>2, <3>3, <3>4
    <3>6. /\ lo' = start /\ hi' = start + size /\ pc' = "packet"
          /\ bundles' = [bundles EXCEPT ![1].pos = start + size]
      BY <1>1, <2>2, <3>5
    <3>7. bundles' = <<[pos |-> EndOf(b, k + 1), hi |-> Len(data)]>>
      BY <2>1, <3>4, <3>6
    <3>8. Reading(b, k + 1)'
      BY <1>1, <1>2, <2>1, <3>1, <3>4, <3>6, <3>7 DEF Reading, Outer
    <3> QED
      BY <3>6, <3>8 DEF Stage, AtPacket
  <2> QED
    BY <2>4, <2>5
<1> QED
  BY <1>1, <1>2, <1>4, <1>5 DEF Stage

\* An element that says nothing is given up.
LEMMA Rejects ==
  ASSUME NEW b, Carries(b), NEW k, Reading(b, k), b.messages[k] = <<>>,
         pc' = "return", UNCHANGED <<data, bundles, out>>
  PROVE  Carries(b)' /\ Stage(b)'
<1>1. b \in Batches /\ k \in 1..Len(b.elements) /\ out = Said(b, k - 1)
  BY ReadingIs
<1>2. out' = Said(b, k)
  BY <1>1, SaidSteps
<1>3. ~Lone(b)
  BY <1>1, LoneSays
<1> QED
  BY <1>2, <1>3, ElementEnds

\* A string that is not empty, where it is read.
LEMMA TextKept ==
  ASSUME data \in Seq(Byte), NEW str \in Seq(Char), Len(str) # 0, Holds(pos, Padded(str), hi)
  PROVE  /\ StrEnd # {} /\ At(pos) = str[1]
         /\ \A nul \in StrEnd :
               /\ nul # pos /\ Str(nul) = str /\ AfterPadding(nul) = pos + Len(Padded(str))
<1>1. /\ StrEnd = {pos + Len(str)} /\ Str(pos + Len(str)) = str
      /\ AfterPadding(pos + Len(str)) = pos + Len(Padded(str))
  BY StringKept
<1>2. pos \in Nat /\ Len(str) \in Nat \ {0} /\ str \in Seq(Byte)
  BY CharsAreBytes DEF Holds
<1>3. pos + Len(str) # pos
  BY <1>2
<1>4. At(pos) = str[1]
  <2>1. 1 \in 1..Len(str) /\ pos + 1 - 1 = pos
    BY <1>2
  <2>2. Padded(str)[1] = str[1] /\ Len(str) + 1 <= Len(Padded(str)) /\ Padded(str) \in Seq(Byte)
    BY <1>2, <2>1, PaddedIs
  <2>3. 1 \in 1..Len(Padded(str))
    BY <1>2, <2>2
  <2>4. At(pos + 1 - 1) = Padded(str)[1]
    BY <2>3, HoldsAt
  <2> QED
    BY <2>1, <2>2, <2>4
<1> QED
  BY <1>1, <1>3, <1>4

\* A message's address is read as it was given; anything else is no address.
LEMMA ReadAddressStage ==
  ASSUME NEW b, Carries(b), Stage(b), ReadAddress
  PROVE  Carries(b)' /\ Stage(b)'
<1>1. /\ pc = "address" /\ UNCHANGED <<data, lo, hi, bundles, args, out>>
      /\ IF StrEnd = {} THEN pc' = "return"
         ELSE \E nul \in StrEnd :
                 /\ address' = Str(nul) /\ pos' = AfterPadding(nul)
                 /\ pc' = IF nul = pos \/ At(pos) # Slash THEN "return" ELSE "tags"
  BY DEF ReadAddress, Returns
<1>2. PICK k : Reading(b, k) /\ pos = lo /\ args = <<>>
  BY <1>1 DEF Stage
<1>3. Carries(b)' /\ Reading(b, k)' = Reading(b, k)
  BY <1>1, SameElement
<1> DEFINE e == b.elements[k]
<1>4. /\ data \in Seq(Byte) /\ lo \in Nat /\ hi \in Nat /\ hi <= Len(data) /\ Len(data) \in Nat
      /\ e \in Seq(Byte) /\ hi = lo + Len(e) /\ Holds(lo, e, hi)
      /\ b \in Batches /\ k \in 1..Len(b.elements)
      /\ \/ b.messages[k] = <<>> /\ Unreadable(e)
         \/ \E m \in Sendable : b.messages[k] = <<m>> /\ e = Build(m)
  BY <1>2, ReadingIs
<1>5. ASSUME NEW m \in Sendable, b.messages[k] = <<m>>, e = Build(m)
      PROVE  Stage(b)'
  <2>1. Holds(pos, Padded(m.address), hi)
    BY <1>2, <1>5, MessageParts
  <2>2. m.address \in Seq(Char) /\ Len(m.address) # 0 /\ m.address[1] = Slash
    BY SendableIs
  <2>3. pc' = "tags" /\ address' = m.address /\ pos' = lo + Len(Padded(m.address))
    BY <1>1, <1>2, <1>4, <2>1, <2>2, TextKept
  <2>4. AtTags(b, k)'
    BY <1>1, <1>2, <1>3, <1>5, <2>3 DEF AtTags
  <2> QED
    BY <2>3, <2>4 DEF Stage
<1>6. CASE b.messages[k] = <<>> /\ NoAddress(e)
  <2>1. 1 \in 1..Len(e) /\ lo + 1 - 1 = lo
    <3>1. Len(e) \in Nat /\ Len(e) >= 4
      BY <1>4, ElementIs
    <3> QED
      BY <1>4, <3>1
  <2>2. At(lo + 1 - 1) = e[1]
    BY <1>4, <2>1, HoldsAt
  <2>3. At(pos) # Slash
    BY <1>2, <1>6, <2>1, <2>2 DEF NoAddress
  <2>4. pc' = "return"
    BY <1>1, <2>3
  <2> QED
    BY <1>1, <1>2, <1>6, <2>4, Rejects
<1>7. CASE b.messages[k] = <<>> /\ NoTags(e)
  <2> DEFINE L(n) == SubSeq(e, 1, n)
             R(n) == SubSeq(e, Len(Padded(L(n))) + 1, Len(e))
  <2>1. PICK n \in 1..Len(e) :
           /\ L(n) \in Seq(Char) /\ e = Padded(L(n)) \o R(n)
           /\ R(n) # <<>> => Head(R(n)) # Comma
    BY <1>7 DEF NoTags
  <2>2. Head(e) = Slash
    BY <1>7 DEF NoTags
  <2>3. Len(L(n)) = n /\ L(n)[1] = Slash /\ n # 0
    <3>1. Len(L(n)) = n /\ L(n)[1] = e[1] /\ n # 0
      BY <1>4
    <3> QED
      BY <2>2, <3>1
  <2>4. PICK text : text = L(n)
    OBVIOUS
  <2>5. text \in Seq(Char) /\ Len(text) # 0 /\ text[1] = Slash
    BY <2>1, <2>3, <2>4
  <2>6. PICK head : head = Padded(text)
    OBVIOUS
  <2>7. PICK rest : rest = R(n)
    OBVIOUS
  <2>8. /\ head \in Seq(Byte) /\ Len(head) \in Nat
        /\ e = head \o rest /\ rest = SubSeq(e, Len(head) + 1, Len(e))
        /\ rest # <<>> => Head(rest) # Comma
    <3>1. text \in Seq(Byte)
      BY <2>5, CharsAreBytes
    <3>2. head \in Seq(Byte)
      BY <2>6, <3>1, PaddedIs
    <3> HIDE DEF e
    <3>3. rest = SubSeq(e, Len(head) + 1, Len(e))
      BY <2>4, <2>6, <2>7
    <3> HIDE DEF L, R
    <3>4. e = head \o rest /\ (rest # <<>> => Head(rest) # Comma)
      BY <2>1, <2>4, <2>6, <2>7
    <3>5. Len(head) \in Nat
      BY <3>2
    <3> QED
      BY <3>2, <3>3, <3>4, <3>5
  <2> HIDE DEF L, R, e
  <2>9. rest \in Seq(Byte)
    <3>1. e \in Seq(Byte) /\ Len(e) \in Nat
      BY <1>4
    <3>2. PICK from \in Nat : from = Len(head) + 1
      BY <2>8
    <3>3. \A i \in from..Len(e) : e[i] \in Byte
      <4>1. from >= 1
        BY <2>8, <3>2
      <4>2. \A i \in from..Len(e) : i \in 1..Len(e)
        BY <3>1, <4>1
      <4> QED
        BY <3>1, <4>2, ElementOfSeq
    <3>4. from \in Int /\ Len(e) \in Int
      BY <3>1
    <3>5. SubSeq(e, from, Len(e)) \in Seq(Byte)
      BY <3>3, <3>4, SubSeqProperties
    <3> QED
      BY <2>8, <3>2, <3>5
  <2>10. Holds(lo, head, hi) /\ Holds(lo + Len(head), rest, hi)
    BY <1>4, <2>8, <2>9, HoldsParts
  <2>11. pc' = "tags" /\ pos' = lo + Len(head)
    <3>1. Holds(pos, Padded(text), hi)
      BY <1>2, <2>6, <2>10
    <3> QED
      BY <1>1, <1>2, <1>4, <2>5, <2>6, <3>1, TextKept
  <2>12. pos' \in Nat /\ (pos' = hi \/ (pos' < hi /\ At(pos') # Comma))
    <3>1. CASE rest = <<>>
      <4>1. e = head
        BY <2>8, <3>1, ConcatEmptySeq
      <4>2. hi = lo + Len(e) /\ hi \in Nat /\ pos' = lo + Len(head)
        BY <1>4, <2>11
      <4>3. lo + Len(e) = lo + Len(head)
        BY <4>1
      <4>4. pos' = hi
        BY <4>2, <4>3
      <4> QED
        BY <4>2, <4>4
    <3>2. CASE rest # <<>>
      <4>1. Len(rest) \in Nat /\ Len(rest) # 0
        BY <2>9, <3>2, EmptySeq
      <4>2. 1 \in 1..Len(rest) /\ Head(rest) = rest[1]
        BY <2>9, <4>1
      <4>3. lo + Len(head) \in Nat /\ (lo + Len(head)) + 1 - 1 = lo + Len(head)
        BY <1>4, <2>8
      <4>4. At((lo + Len(head)) + 1 - 1) = rest[1]
        BY <1>4, <2>10, <4>2, HoldsAt
      <4>5. (lo + Len(head)) + Len(rest) <= hi
        BY <2>10 DEF Holds
      <4>6. lo + Len(head) < hi
        <5>1. PICK p \in Nat : p = lo + Len(head)
          BY <4>3
        <5>2. PICK l \in Nat : l = Len(rest) /\ l # 0
          BY <4>1
        <5>3. p + l <= hi /\ hi \in Nat
          BY <1>4, <4>5, <5>1, <5>2
        <5>4. p < hi
          BY <5>2, <5>3
        <5> QED
          BY <5>1, <5>4
      <4>7. At(lo + Len(head)) # Comma
        BY <2>8, <3>2, <4>2, <4>3, <4>4
      <4> QED
        BY <2>11, <4>3, <4>6, <4>7
    <3> QED
      BY <3>1, <3>2
  <2>13. At(pos)' = At(pos')
    BY <1>1 DEF At
  <2>14. AtTags(b, k)'
    BY <1>1, <1>2, <1>3, <1>7, <2>12, <2>13 DEF AtTags
  <2> QED
    BY <1>3, <2>11, <2>14 DEF Stage
<1> QED
  BY <1>3, <1>4, <1>5, <1>6, <1>7 DEF Unreadable

\* So are its type tags; an element without them is given up.
LEMMA ReadTagsStage ==
  ASSUME NEW b, Carries(b), Stage(b), ReadTags
  PROVE  Carries(b)' /\ Stage(b)'
<1>1. /\ pc = "tags" /\ UNCHANGED <<data, lo, hi, bundles, address, args, out>>
      /\ IF StrEnd = {} THEN pc' = "return"
         ELSE \E nul \in StrEnd :
                 /\ tags' = Str(nul) /\ pos' = AfterPadding(nul)
                 /\ pc' = IF nul = pos \/ At(pos) # Comma THEN "return" ELSE "args"
  BY DEF ReadTags, Returns
<1>2. PICK k : AtTags(b, k)
  BY <1>1 DEF Stage
<1>3. Reading(b, k) /\ args = <<>> /\ Carries(b)' /\ Reading(b, k)' = Reading(b, k)
  BY <1>1, <1>2, SameElement DEF AtTags
<1>4. data \in Seq(Byte) /\ lo \in Nat /\ hi \in Nat
  BY <1>3, ReadingIs
<1>5. ASSUME NEW m \in Sendable, b.messages[k] = <<m>>, b.elements[k] = Build(m),
             address = m.address, pos = lo + Len(Padded(m.address))
      PROVE  Stage(b)'
  <2>1. /\ Holds(pos, Padded(TagsOf(m)), hi)
        /\ ArgOffset(m, 0) = pos + Len(Padded(TagsOf(m)))
    BY <1>3, <1>5, MessageParts
  <2>2. TagsOf(m) \in Seq(Char) /\ Len(TagsOf(m)) # 0 /\ TagsOf(m)[1] = Comma
    <3>1. Len(m.args) \in Nat
      BY SendableIs
    <3>2. TagsOf(m) \in Seq(Char) /\ Len(TagsOf(m)) = Len(m.args) + 1 /\ TagsOf(m)[1] = Comma
      BY TagsIs
    <3> QED
      BY <3>1, <3>2
  <2>3. pc' = "args" /\ tags' = TagsOf(m) /\ pos' = ArgOffset(m, 0)
    BY <1>1, <1>4, <2>1, <2>2, TextKept
  <2>4. ArgOffset(m, 0)' = ArgOffset(m, 0)
    BY <1>1 DEF ArgOffset
  <2>5. SubSeq(m.args, 1, 0) = <<>> /\ 0 \in 0..Len(m.args)
    BY SendableIs, SubSeqEmpty
  <2>6. AtArgs(b, k, m, 0)'
    BY <1>1, <1>3, <1>5, <2>3, <2>4, <2>5 DEF AtArgs
  <2> QED
    BY <2>3, <2>6 DEF Stage
<1>6. CASE b.messages[k] = <<>> /\ pos \in Nat /\ (pos = hi \/ (pos < hi /\ At(pos) # Comma))
  <2>1. pos = hi => StrEnd = {}
    BY <1>4 DEF StrEnd
  <2>2. pc' = "return"
    BY <1>1, <1>6, <2>1
  <2> QED
    BY <1>1, <1>3, <1>6, <2>2, Rejects
<1> QED
  BY <1>2, <1>3, <1>5, <1>6 DEF AtTags

\* The first j + 1 elements are the first j and one more.
LEMMA OneMore ==
  ASSUME NEW S, NEW s \in Seq(S), NEW j \in Nat, j + 1 \in 1..Len(s)
  PROVE  /\ Len(SubSeq(s, 1, j)) = j /\ s[j + 1] \in S
         /\ Append(SubSeq(s, 1, j), s[j + 1]) = SubSeq(s, 1, j + 1)
<1>1. s[j + 1] \in S /\ Len(s) \in Nat /\ j <= Len(s)
  BY ElementOfSeq
<1>2. \A i \in 1..j + 1 : s[i] \in S
  <2>1. \A i \in 1..j + 1 : i \in 1..Len(s)
    BY <1>1
  <2> QED
    BY <2>1, ElementOfSeq
<1>3. PICK u : u = SubSeq(s, 1, j)
  OBVIOUS
<1>4. PICK v : v = SubSeq(s, 1, j + 1)
  OBVIOUS
<1>5. u \in Seq(S) /\ Len(u) = j /\ \A i \in 1..j : u[i] = s[i]
  <2>1. \A i \in 1..j : i \in 1..j + 1 /\ 1 + i - 1 = i
    OBVIOUS
  <2>2. \A i \in 1..j : s[i] \in S
    BY <1>2, <2>1
  <2>3. /\ u \in Seq(S) /\ Len(u) = IF 1 <= j THEN j - 1 + 1 ELSE 0
        /\ \A i \in 1..j - 1 + 1 : u[i] = s[1 + i - 1]
    BY <1>3, <2>2, SubSeqProperties
  <2>4. (IF 1 <= j THEN j - 1 + 1 ELSE 0) = j /\ j - 1 + 1 = j
    OBVIOUS
  <2> QED
    BY <2>1, <2>3, <2>4
<1>6. v \in Seq(S) /\ Len(v) = j + 1 /\ \A i \in 1..j + 1 : v[i] = s[i]
  <2>1. \A i \in 1..j + 1 : 1 + i - 1 = i
    OBVIOUS
  <2>2. /\ v \in Seq(S) /\ Len(v) = IF 1 <= j + 1 THEN (j + 1) - 1 + 1 ELSE 0
        /\ \A i \in 1..(j + 1) - 1 + 1 : v[i] = s[1 + i - 1]
    BY <1>2, <1>4, SubSeqProperties
  <2>3. (IF 1 <= j + 1 THEN (j + 1) - 1 + 1 ELSE 0) = j + 1 /\ (j + 1) - 1 + 1 = j + 1
    OBVIOUS
  <2> QED
    BY <2>1, <2>2, <2>3
<1>7. PICK w : w = Append(u, s[j + 1])
  OBVIOUS
<1>8. /\ w \in Seq(S) /\ Len(w) = j + 1
      /\ \A i \in 1..j + 1 : w[i] = IF i <= j THEN u[i] ELSE s[j + 1]
  BY <1>1, <1>5, <1>7
<1>9. \A i \in 1..Len(w) : w[i] = v[i]
  <2> SUFFICES ASSUME NEW i \in 1..j + 1 PROVE w[i] = v[i]
    BY <1>8
  <2>1. i \in 1..j \/ i = j + 1
    OBVIOUS
  <2>2. CASE i \in 1..j
    <3>1. i <= j
      BY <2>2
    <3> QED
      BY <1>5, <1>6, <1>8, <2>2, <3>1
  <2>3. CASE i = j + 1
    <3>1. ~(i <= j)
      BY <2>3
    <3> QED
      BY <1>6, <1>8, <2>3, <3>1
  <2> QED
    BY <2>1, <2>2, <2>3
<1>10. w = v
  BY <1>6, <1>8, <1>9, SeqEqual
<1> QED
  BY <1>1, <1>3, <1>4, <1>5, <1>7, <1>10

\* A blob is read back where it lies.
LEMMA BlobKept ==
  ASSUME data \in Seq(Byte), Len(data) <= MaxLength, NEW value \in Seq(Byte),
         Holds(pos, (BE32(Len(value)) \o value) \o Zeros(Aligned(Len(value)) - Len(value)), hi)
  PROVE  /\ Fits(4) /\ ~(Number(pos) > hi - (pos + 4)) /\ Number(pos) = Len(value)
         /\ Slice(pos + 4, pos + 4 + Number(pos)) = value
         /\ pos + 4 + Aligned(Number(pos))
              = pos + Len((BE32(Len(value)) \o value) \o Zeros(Aligned(Len(value)) - Len(value)))
<1>1. PICK n \in Nat : n = Len(value)
  OBVIOUS
<1>2. PICK length : length = BE32(n)
  OBVIOUS
<1>3. PICK a \in Nat : a = Aligned(n) /\ n <= a
  BY AlignedIs
<1>4. PICK padding : padding = Zeros(a - n)
  OBVIOUS
<1>5. a - n \in Nat
  BY <1>3
<1>6. length \in Seq(Byte) /\ Len(length) = 4 /\ padding \in Seq(Byte) /\ Len(padding) = a - n
  BY <1>2, <1>4, <1>5, BE32Is, ZerosIs
<1>7. length \o value \in Seq(Byte) /\ Len(length \o value) = 4 + n
  <2>1. length \o value \in Seq(Byte) /\ Len(length \o value) = Len(length) + Len(value)
    BY <1>6, BytesJoined
  <2> QED
    BY <1>1, <1>6, <2>1
<1>8. Len((length \o value) \o padding) = (4 + n) + (a - n)
  <2>1. Len((length \o value) \o padding) = Len(length \o value) + Len(padding)
    BY <1>6, <1>7, BytesJoined
  <2> QED
    BY <1>6, <1>7, <2>1
<1>9. Holds(pos, (length \o value) \o padding, hi)
  BY <1>1, <1>2, <1>3, <1>4
<1>10. Holds(pos, length \o value, hi)
  BY <1>6, <1>7, <1>9, HoldsParts
<1>11. Holds(pos, length, hi) /\ Holds(pos + 4, value, hi)
  <2>1. Holds(pos, length, hi) /\ Holds(pos + Len(length), value, hi)
    BY <1>6, <1>10, HoldsParts
  <2> QED
    BY <1>6, <2>1
<1>12. /\ pos \in Nat /\ hi \in Nat /\ pos + 4 <= hi /\ (pos + 4) + n <= hi
       /\ hi <= Len(data) /\ Len(data) \in Nat
  BY <1>1, <1>6, <1>11 DEF Holds
<1>13. n <= MaxLength
  BY <1>12 DEF MaxLength
<1>14. Number(pos) = n
  BY <1>2, <1>11, <1>13, HoldsNumber
<1>15. Slice(pos + 4, (pos + 4) + n) = value
  BY <1>1, <1>11, HoldsSlice
<1>16. Fits(4) /\ ~(n > hi - (pos + 4))
  BY <1>12 DEF Fits
<1>17. pos + 4 + a = pos + Len((length \o value) \o padding)
  BY <1>3, <1>8, <1>12
<1> QED
  BY <1>1, <1>2, <1>3, <1>4, <1>14, <1>15, <1>16, <1>17

\* parse_message() reads an argument as it was given to osc_build_message().
LEMMA ArgKept ==
  ASSUME data \in Seq(Byte), Len(data) <= MaxLength, NEW arg \in Outbound,
         Holds(pos, BuildArg(arg), hi), ReadArg, tags[Len(args) + 2] = arg.type
  PROVE  /\ pc' = "args" /\ args' = Append(args, arg) /\ pos' = pos + Len(BuildArg(arg))
         /\ UNCHANGED <<data, lo, hi, bundles, address, tags, out>>
<1> DEFINE type == tags[Len(args) + 2]
           end == pos + 4 + Number(pos)
<1>1. /\ pc = "args" /\ UNCHANGED <<data, lo, hi, bundles, address, tags, out>>
      /\ type = arg.type /\ arg = [type |-> arg.type, value |-> arg.value]
  BY OutboundIs DEF ReadArg
<1>2. \A value, from, next :
         Argument(value, from, next) /\ value = arg.value =>
            args' = Append(args, arg) /\ pos' = next /\ pc' = "args"
  BY <1>1 DEF Argument
<1>3. Tag.s # Tag.b /\ {Tag.i, Tag.f} \subseteq Range(Tag) \ {Tag.s, Tag.b}
      /\ Width(Tag.i) = 4 /\ Width(Tag.f) = 4
  BY DEF Tag, Range, Width
<1> HIDE DEF type, end
<1>4. CASE arg.type = Tag.s /\ arg.value \in Seq(Char)
  <2>1. /\ StrEnd = {pos + Len(arg.value)} /\ Str(pos + Len(arg.value)) = arg.value
        /\ AfterPadding(pos + Len(arg.value)) = pos + Len(BuildArg(arg))
    BY <1>4, BuildArgIs, StringKept
  <2>2. \E nul \in StrEnd : Argument(Str(nul), nul + 1, AfterPadding(nul))
    <3>1. StrEnd # {}
      BY <2>1
    <3>2. tags[Len(args) + 2] = Tag.s
      BY <1>1, <1>4 DEF type
    <3> QED
      BY <1>3, <3>1, <3>2 DEF ReadArg, Returns, Looks, Argument
  <2>3. PICK nul \in StrEnd : Argument(Str(nul), nul + 1, AfterPadding(nul))
    BY <2>2
  <2> QED
    BY <1>1, <1>2, <2>1, <2>3
<1>5. CASE arg.type = Tag.b /\ arg.value \in Seq(Byte)
  <2>1. /\ Fits(4) /\ ~(Number(pos) > hi - (pos + 4)) /\ Slice(pos + 4, end) = arg.value
        /\ pos + 4 + Aligned(Number(pos)) = pos + Len(BuildArg(arg))
    <3>1. PICK value \in Seq(Byte) : value = arg.value
      BY <1>5
    <3>2. BuildArg(arg) = (BE32(Len(value)) \o value) \o Zeros(Aligned(Len(value)) - Len(value))
      BY <1>5, <3>1, BuildArgIs
    <3>3. Holds(pos, (BE32(Len(value)) \o value) \o Zeros(Aligned(Len(value)) - Len(value)), hi)
      BY <3>2
    <3>4. /\ Fits(4) /\ ~(Number(pos) > hi - (pos + 4))
          /\ Slice(pos + 4, pos + 4 + Number(pos)) = value
          /\ pos + 4 + Aligned(Number(pos))
               = pos + Len((BE32(Len(value)) \o value) \o Zeros(Aligned(Len(value)) - Len(value)))
      BY <3>3, BlobKept
    <3> QED
      BY <3>1, <3>2, <3>4, Zenon DEF end
  <2>2. Argument(Slice(pos + 4, end), end, pos + 4 + Aligned(Number(pos)))
    BY <1>1, <1>3, <1>5, <2>1 DEF ReadArg, type, end
  <2> QED
    BY <1>1, <1>2, <2>1, <2>2
<1>6. CASE arg.type \in {Tag.i, Tag.f} /\ arg.value \in Seq(Byte) /\ Len(arg.value) = 4
  <2>1. Holds(pos, arg.value, hi) /\ BuildArg(arg) = arg.value
    BY <1>6, BuildArgIs
  <2>2. Width(type) = 4 /\ Fits(4)
    <3>1. pos + 4 <= hi
      BY <1>6, <2>1 DEF Holds
    <3> QED
      BY <1>1, <1>3, <1>6, <3>1 DEF Fits
  <2>3. Slice(pos, pos + 4) = arg.value
    BY <1>6, <2>1, HoldsSlice
  <2>4. type \in Range(Tag) \ {Tag.s, Tag.b}
    BY <1>1, <1>3, <1>6
  <2>5. Argument(IF type \in {Tag.i, Tag.f} THEN Slice(pos, pos + 4) ELSE <<>>,
                 pos + Width(type), pos + Width(type))
    BY <2>2, <2>4 DEF ReadArg, type
  <2>6. Argument(Slice(pos, pos + 4), pos + 4, pos + 4)
    BY <1>1, <1>6, <2>2, <2>5
  <2> QED
    BY <1>1, <1>2, <1>6, <2>1, <2>3, <2>6
<1> QED
  BY <1>4, <1>5, <1>6, OutboundIs

\* One argument more.
LEMMA ReadArgStage ==
  ASSUME NEW b, Carries(b), Stage(b), ReadArg
  PROVE  Carries(b)' /\ Stage(b)'
<1>1. pc = "args" /\ Len(args) + 1 < Len(tags) /\ UNCHANGED <<data, lo, hi, bundles, out>>
  BY DEF ReadArg
<1>2. PICK k, m, j : AtArgs(b, k, m, j)
  BY <1>1 DEF Stage
<1>3. /\ Reading(b, k) /\ m \in Sendable /\ j \in 0..Len(m.args)
      /\ b.messages[k] = <<m>> /\ b.elements[k] = Build(m)
      /\ address = m.address /\ tags = TagsOf(m)
      /\ args = SubSeq(m.args, 1, j) /\ pos = ArgOffset(m, j)
  BY <1>2 DEF AtArgs
<1>4. Carries(b)' /\ Reading(b, k)' = Reading(b, k) /\ ArgOffset(m, j + 1)' = ArgOffset(m, j + 1)
  BY <1>1, SameElement DEF ArgOffset
<1>5. data \in Seq(Byte) /\ Len(data) <= MaxLength /\ lo \in Nat /\ hi \in Nat
  BY <1>3, ReadingIs
<1>6. m.args \in Seq(Outbound) /\ Len(m.args) \in Nat /\ Len(tags) = Len(m.args) + 1 /\ j \in Nat
  BY <1>3, SendableIs, TagsIs
<1>7. Len(args) = j
  <2>1. CASE j = 0
    <3>1. args = <<>>
      BY <1>3, <2>1, SubSeqEmpty
    <3> QED
      BY <2>1, <3>1
  <2>2. CASE j # 0
    <3>1. j - 1 \in Nat /\ (j - 1) + 1 = j /\ j \in 1..Len(m.args)
      BY <1>3, <1>6, <2>2
    <3> QED
      BY <1>3, <1>6, <3>1
  <2> QED
    BY <2>1, <2>2
<1>8. j + 1 \in 1..Len(m.args) /\ (j + 1) - 1 = j /\ (j + 1) + 1 = Len(args) + 2
      /\ j + 1 \in 0..Len(m.args)
  BY <1>1, <1>6, <1>7
<1>9. PICK arg : arg = m.args[j + 1]
  OBVIOUS
<1>10. arg \in Outbound /\ Append(args, arg) = SubSeq(m.args, 1, j + 1)
  BY <1>3, <1>6, <1>8, <1>9, OneMore
<1>11. tags[Len(args) + 2] = arg.type
  <2>1. TagsOf(m)[(j + 1) + 1] = m.args[j + 1].type
    BY <1>3, <1>8, TagsIs
  <2> QED
    BY <1>3, <1>8, <1>9, <2>1
<1>12. /\ Holds(pos, BuildArg(arg), hi)
       /\ ArgOffset(m, j + 1) = pos + Len(BuildArg(arg))
  <2>1. /\ Holds(ArgOffset(m, (j + 1) - 1), BuildArg(m.args[j + 1]), hi)
        /\ ArgOffset(m, j + 1) = ArgOffset(m, (j + 1) - 1) + Len(BuildArg(m.args[j + 1]))
    BY <1>3, <1>8, MessageParts
  <2> QED
    BY <1>3, <1>8, <1>9, <2>1
<1>13. /\ pc' = "args" /\ args' = Append(args, arg) /\ pos' = pos + Len(BuildArg(arg))
       /\ UNCHANGED <<address, tags>>
  BY <1>5, <1>10, <1>11, <1>12, ArgKept
<1>14. AtArgs(b, k, m, j + 1)'
  BY <1>3, <1>4, <1>8, <1>10, <1>12, <1>13 DEF AtArgs
<1> QED
  BY <1>4, <1>13, <1>14 DEF Stage

\* All the arguments: the message is the one that was sent.
LEMMA CompleteStage ==
  ASSUME NEW b, Carries(b), Stage(b), Complete
  PROVE  Carries(b)' /\ Stage(b)'
<1>1. /\ pc = "args" /\ Len(args) + 1 = Len(tags) /\ UNCHANGED <<data, bundles>>
      /\ out' = Append(out, [address |-> address, args |-> args])
      /\ pc' = "return" /\ result' = TRUE
  BY DEF Complete, Returns
<1>2. PICK k, m, j : AtArgs(b, k, m, j)
  BY <1>1 DEF Stage
<1>3. /\ Reading(b, k) /\ m \in Sendable /\ j \in 0..Len(m.args)
      /\ b.messages[k] = <<m>>
      /\ address = m.address /\ tags = TagsOf(m) /\ args = SubSeq(m.args, 1, j)
  BY <1>2 DEF AtArgs
<1>4. m.args \in Seq(Outbound) /\ Len(m.args) \in Nat /\ Len(tags) = Len(m.args) + 1
  BY <1>3, SendableIs, TagsIs
<1>5. args = m.args
  <2>1. Len(args) = j
    BY <1>3, <1>4
  <2>2. j = Len(m.args)
    BY <1>1, <1>3, <1>4, <2>1
  <2>3. SubSeq(m.args, 1, Len(m.args)) = m.args
    BY <1>4
  <2> QED
    BY <1>3, <2>2, <2>3
<1>6. [address |-> address, args |-> args] = m
  BY <1>3, <1>5, SendableIs
<1>7. out' = Said(b, k)
  <2>1. b \in Batches /\ k \in 1..Len(b.elements) /\ out = Said(b, k - 1)
    BY <1>3, ReadingIs
  <2> QED
    BY <1>1, <1>3, <1>6, <2>1, SaidSteps
<1> QED
  BY <1>1, <1>3, <1>7, ElementEnds

-----------------------------------------------------------------------------
\* Every step keeps the parser on its way through the batch.
LEMMA StageStep ==
  ASSUME NEW b, Carries(b), Stage(b), [ParseNext]_parse_vars
  PROVE  Carries(b)' /\ Stage(b)'
<1>1. CASE UNCHANGED parse_vars
  <2>1. UNCHANGED <<data, pc, lo, hi, pos, bundles, address, tags, args, result, out>>
    BY <1>1 DEF parse_vars
  <2>2. /\ Carries(b)' /\ Lone(b)' = Lone(b)
        /\ \A k : /\ Outer(b, k)' = Outer(b, k) /\ Said(b, k)' = Said(b, k)
                  /\ EndOf(b, k)' = EndOf(b, k) /\ Reading(b, k)' = Reading(b, k)
    BY <2>1, SameElement
  <2>3. \A k : Between(b, k)' = Between(b, k) /\ InNothing(b, k)' = InNothing(b, k)
    BY <2>1, <2>2 DEF Between, InNothing
  <2>4. AtPacket(b)' = AtPacket(b) /\ Finished(b)' = Finished(b)
    BY <2>1, <2>2 DEF AtPacket, Finished
  <2>5. \A k : AtTags(b, k)' = AtTags(b, k)
    BY <2>1, <2>2 DEF AtTags, At
  <2>6. \A k, m, j : AtArgs(b, k, m, j)' = AtArgs(b, k, m, j)
    BY <2>1, <2>2 DEF AtArgs, ArgOffset
  <2> QED
    BY <2>1, <2>2, <2>3, <2>4, <2>5, <2>6 DEF Stage
<1> QED
  BY <1>1, PacketStage, ElementStage, ReturnStage, ReadAddressStage, ReadTagsStage, ReadArgStage,
     CompleteStage DEF ParseNext

\* The packet says what was sent, and the parser is that far.
Faithful == sent # <<>> => \E b : Carries(b) /\ sent = FlattenSeq(b.messages) /\ Stage(b)

(***************************************************************************)
(* osc_parse_packet() of what osc_build_message() and end_batch() built    *)
(* returns true and yields the messages that were given to them, in their  *)
(* order, whatever their number, addresses and arguments: nothing that     *)
(* this program sends is lost or changed by its own codec, and an element  *)
(* that cannot be read costs none of the others.                           *)
(***************************************************************************)
THEOREM ParsesWhatWasBuiltAlways == ParseSpec => []ParsesWhatWasBuilt
<1>1. ParseInit => Faithful
  <2> SUFFICES ASSUME ParseInit, sent # <<>>
               PROVE  \E b : Carries(b) /\ sent = FlattenSeq(b.messages) /\ Stage(b)
    BY DEF Faithful
  <2>1. PICK b \in Batches : data = EndBatch(b.elements) /\ sent = FlattenSeq(b.messages)
    BY DEF ParseInit
  <2>2. Carries(b)
    BY <2>1 DEF Carries
  <2> QED
    BY <2>1, <2>2, ParseStarts
<1>2. Faithful /\ [ParseNext]_parse_vars => Faithful'
  <2> SUFFICES ASSUME Faithful, [ParseNext]_parse_vars, sent' # <<>>
               PROVE  (\E b : Carries(b) /\ sent = FlattenSeq(b.messages) /\ Stage(b))'
    BY DEF Faithful
  <2>1. sent' = sent
    BY DEF ParseNext, Packet, Element, Return, ReadAddress, ReadTags, ReadArg, Complete, parse_vars
  <2>2. PICK b : Carries(b) /\ sent = FlattenSeq(b.messages) /\ Stage(b)
    BY <2>1 DEF Faithful
  <2>3. Carries(b)' /\ Stage(b)'
    BY <2>2, StageStep
  <2> QED
    BY <2>1, <2>2, <2>3
<1>3. Faithful => ParsesWhatWasBuilt
  BY DEF Faithful, Stage, Finished, ParsesWhatWasBuilt
<1> QED
  BY <1>1, <1>2, <1>3, PTL DEF ParseSpec

=============================================================================
