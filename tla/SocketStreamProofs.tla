-------------------------- MODULE SocketStreamProofs --------------------------
(***************************************************************************)
(* Proofs about SocketStream on blocking sockets (~NonBlocking), for       *)
(* prefixes and bytes of any size, any sizes and numbers of messages, any  *)
(* capacity, and whether or not the connection may break.  They rest on    *)
(* where the reader and the writer are in the stream: the bytes on the     *)
(* wire are those between them, none missing and none twice, until recv    *)
(* reports an error.  On a non-blocking socket that is not so, and the run *)
(* SocketStreamNonBlocking shows what happens.                             *)
(***************************************************************************)
EXTENDS SocketStream, SequenceTheorems, WellFoundedInduction, TLAPS

-----------------------------------------------------------------------------
(* Induction over the naturals *)

LessThan == {p \in Nat \X Nat : p[1] < p[2]}

LEMMA LessThanWellFounded == IsWellFoundedOn(LessThan, Nat)
<1>1. IsWellFoundedOn(OpToRel(<, Nat), Nat)
  BY NatLessThanWellFounded
<1>2. OpToRel(<, Nat) = LessThan
  BY Zenon DEF OpToRel, LessThan
<1> QED BY <1>1, <1>2, Zenon

LEMMA Least == ASSUME NEW T \in SUBSET Nat, T # {} PROVE \E x \in T : \A y \in T : x <= y
<1>1. \E x \in T : \A y \in T : ~(<<y, x>> \in LessThan)
  BY LessThanWellFounded, WFMin
<1>2. \A x, y \in Nat : <<x, y>> \in LessThan <=> x < y
  BY DEF LessThan
<1>3. PICK x \in T : \A y \in T : ~(<<y, x>> \in LessThan)
  BY <1>1
<1>4. ASSUME NEW y \in T PROVE x <= y
  <2>1. x \in Nat /\ y \in Nat
    OBVIOUS
  <2>2. ~(y < x)
    BY <1>2, <1>3, <2>1
  <2> QED BY <2>1, <2>2
<1> QED BY <1>4

LEMMA Induction == ASSUME NEW S, 0 \in S, \A n \in Nat : n \in S => n + 1 \in S PROVE Nat \subseteq S
<1> SUFFICES ASSUME Nat \ S # {} PROVE FALSE
  OBVIOUS
<1>1. PICK x \in Nat \ S : \A y \in Nat \ S : x <= y
  BY Least
<1>2. x # 0
  OBVIOUS
<1>3. x - 1 \in Nat /\ x - 1 \in S
  BY <1>1, <1>2
<1> QED BY <1>1, <1>3

-----------------------------------------------------------------------------
(* The weights of the digits *)

LEMMA Positive == ASSUME NEW a \in Nat \ {0}, NEW b \in Nat \ {0} PROVE a * b \in Nat \ {0}
OBVIOUS

\* g has the powers of Base up to the n-th.
Powers(g, n) == g \in [0 .. n -> Nat \ {0}] /\ g[0] = 1 /\ \A i \in 1 .. n : g[i] = Base * g[i - 1]

LEMMA PowersExist == ASSUME NEW n \in Nat PROVE \E g : Powers(g, n)
<1> DEFINE S == {m \in Nat : \E g : Powers(g, m)}
<1>1. 0 \in S
  <2>1. Powers([i \in 0 .. 0 |-> 1], 0)
    BY DEF Powers
  <2> QED BY <2>1
<1>2. ASSUME NEW m \in Nat, m \in S PROVE m + 1 \in S
  <2>1. PICK g : Powers(g, m)
    BY <1>2
  <2> DEFINE h == [i \in 0 .. m + 1 |-> IF i = m + 1 THEN Base * g[m] ELSE g[i]]
  <2>2. Base * g[m] \in Nat \ {0}
    BY <2>1, StreamAssumption, Positive DEF Powers
  <2>3. h \in [0 .. m + 1 -> Nat \ {0}]
    BY <2>1, <2>2 DEF Powers
  <2>4. h[0] = 1
    BY <2>1 DEF Powers
  <2>5. ASSUME NEW i \in 1 .. m + 1 PROVE h[i] = Base * h[i - 1]
    <3>1. i - 1 \in 0 .. m + 1 /\ i - 1 # m + 1 /\ h[i - 1] = g[i - 1]
      OBVIOUS
    <3>2. CASE i = m + 1
      BY <3>1, <3>2
    <3>3. CASE i # m + 1
      BY <2>1, <3>1, <3>3 DEF Powers
    <3> QED BY <3>2, <3>3
  <2>6. Powers(h, m + 1)
    BY <2>3, <2>4, <2>5 DEF Powers
  <2> QED BY <2>6
<1> HIDE DEF S
<1>3. Nat \subseteq S
  BY <1>1, <1>2, Induction
<1> QED BY <1>3 DEF S

LEMMA PowersUnique ==
  ASSUME NEW n \in Nat, NEW m \in Nat, NEW g, NEW h, Powers(g, n), Powers(h, m)
  PROVE  \A i \in Nat : i <= n /\ i <= m => g[i] = h[i]
<1> DEFINE S == {i \in Nat : i <= n /\ i <= m => g[i] = h[i]}
<1>1. 0 \in S
  BY DEF Powers
<1>2. ASSUME NEW i \in Nat, i \in S PROVE i + 1 \in S
  <2> SUFFICES ASSUME i + 1 <= n, i + 1 <= m PROVE g[i + 1] = h[i + 1]
    OBVIOUS
  <2>1. g[i + 1] = Base * g[i] /\ h[i + 1] = Base * h[i]
    BY DEF Powers
  <2> QED BY <1>2, <2>1
<1> HIDE DEF S
<1>3. Nat \subseteq S
  BY <1>1, <1>2, Induction
<1> QED BY <1>3 DEF S

\* The recursive definition has a value: the first weight is 1, each other is
\* Base times the one before.
LEMMA WeightIs == /\ Weight \in [Nat -> Nat \ {0}]
                  /\ Weight[0] = 1
                  /\ \A n \in Nat : Weight[n + 1] = Base * Weight[n]
<1> DEFINE F == [n \in Nat |-> (CHOOSE g : Powers(g, n))[n]]
<1>1. \A n \in Nat : Powers(CHOOSE g : Powers(g, n), n)
  BY PowersExist
<1>2. F \in [Nat -> Nat \ {0}]
  <2>1. ASSUME NEW n \in Nat PROVE F[n] \in Nat \ {0}
    <3>1. PICK g : g = (CHOOSE h : Powers(h, n)) /\ Powers(g, n)
      BY <1>1
    <3>2. g[n] \in Nat \ {0}
      BY <3>1 DEF Powers
    <3> QED BY <3>1, <3>2
  <2> QED BY <2>1
<1>3. F[0] = 1
  BY <1>1 DEF Powers
<1>4. ASSUME NEW n \in Nat PROVE F[n + 1] = Base * F[n]
  <2>1. PICK g : g = (CHOOSE h : Powers(h, n + 1)) /\ Powers(g, n + 1)
    BY <1>1
  <2>2. PICK h : h = (CHOOSE k : Powers(k, n)) /\ Powers(h, n)
    BY <1>1
  <2>3. g[n] = h[n]
    BY <2>1, <2>2, PowersUnique
  <2>4. g[n + 1] = Base * g[n]
    <3>1. n + 1 \in 1 .. n + 1 /\ (n + 1) - 1 = n
      OBVIOUS
    <3>2. \A i \in 1 .. n + 1 : g[i] = Base * g[i - 1]
      BY <2>1 DEF Powers
    <3> QED BY <3>1, <3>2
  <2> QED BY <2>1, <2>2, <2>3, <2>4
<1> HIDE DEF F
<1>5. F = [n \in Nat |-> IF n = 0 THEN 1 ELSE Base * F[n - 1]]
  <2>1. ASSUME NEW n \in Nat, n # 0 PROVE F[n] = Base * F[n - 1]
    <3>1. n - 1 \in Nat /\ (n - 1) + 1 = n
      BY <2>1
    <3> QED BY <3>1, <1>4
  <2>2. F = [n \in Nat |-> F[n]]
    BY <1>2
  <2> QED BY <1>3, <2>1, <2>2
<1>6. Weight = [n \in Nat |-> IF n = 0 THEN 1 ELSE Base * Weight[n - 1]]
  BY <1>5 DEF Weight
<1>7. ASSUME NEW n \in Nat PROVE Weight[n + 1] = Base * Weight[n]
  BY <1>6
<1> DEFINE S == {n \in Nat : Weight[n] \in Nat \ {0}}
<1>8. 0 \in S /\ Weight[0] = 1
  BY <1>6
<1>9. ASSUME NEW n \in Nat, n \in S PROVE n + 1 \in S
  BY <1>7, <1>9, StreamAssumption, Positive
<1> HIDE DEF S
<1>10. Nat \subseteq S
  BY <1>8, <1>9, Induction
<1>11. \A n \in Nat : Weight[n] \in Nat \ {0}
  BY <1>10 DEF S
<1> QED BY <1>6, <1>7, <1>8, <1>11

LEMMA Limits == /\ MaxLength \in Nat
                /\ PrefixSize \in Nat \ {0}
                /\ Sizes \subseteq 0 .. MaxLength
                /\ MaxMessages \in Nat
                /\ Capacity \in Nat
BY WeightIs, StreamAssumption DEF MaxLength

-----------------------------------------------------------------------------
(* A length has one sequence of digits *)

LEMMA DivMod ==
  ASSUME NEW a \in Nat, NEW b \in Nat \ {0}
  PROVE  a \div b \in Nat /\ a % b \in 0 .. b - 1 /\ a = b * (a \div b) + (a % b)
<1>1. a % b \in 0 .. b - 1
  OBVIOUS
<1>2. a \div b \in Nat
  OBVIOUS
<1>3. a = b * (a \div b) + (a % b)
  OBVIOUS
<1> QED BY <1>1, <1>2, <1>3

LEMMA QuotientUnique ==
  ASSUME NEW b \in Nat \ {0}, NEW p \in Nat, NEW q \in Nat, NEW r \in 0 .. b - 1, NEW t \in 0 .. b - 1,
         b * p + r = b * q + t
  PROVE  p = q
<1>1. ASSUME NEW x \in Nat, NEW y \in Nat, x < y PROVE b * x + b <= b * y
  <2>1. x + 1 <= y
    BY <1>1
  <2>2. b * (x + 1) <= b * y
    BY <2>1
  <2> QED BY <2>2
<1>2. ~(p < q)
  BY <1>1
<1>3. ~(q < p)
  BY <1>1
<1> QED BY <1>2, <1>3

\* To drop one digit more is to divide once more.
LEMMA DivDiv ==
  ASSUME NEW a \in Nat, NEW w \in Nat \ {0}, NEW b \in Nat \ {0}
  PROVE  a \div (b * w) = (a \div w) \div b
<1> DEFINE q == a \div w
           r == a % w
           p == q \div b
           t == q % b
           c == b * w
<1>1. q \in Nat /\ r \in 0 .. w - 1 /\ a = w * q + r
  BY DivMod
<1>2. p \in Nat /\ t \in 0 .. b - 1 /\ q = b * p + t
  BY <1>1, DivMod
<1> HIDE DEF q, r, p, t
<1>3. a = c * p + (w * t + r)
  <2>1. w * q = w * (b * p) + w * t
    BY <1>1, <1>2
  <2>2. w * (b * p) = (b * w) * p
    BY <1>1, <1>2
  <2> QED BY <1>1, <1>2, <2>1, <2>2
<1>4. w * t + r \in 0 .. c - 1
  <2>1. w * t <= w * (b - 1) /\ w * (b - 1) = b * w - w
    BY <1>2
  <2>2. w * t \in Nat /\ b * w \in Nat
    BY <1>2
  <2> QED BY <1>1, <2>1, <2>2
<1>5. c \in Nat \ {0}
  BY Positive
<1> HIDE DEF c
<1>6. a \div c \in Nat /\ a % c \in 0 .. c - 1 /\ a = c * (a \div c) + (a % c)
  BY <1>5, DivMod
<1>7. a \div c = p
  BY <1>2, <1>3, <1>4, <1>5, <1>6, QuotientUnique
<1> QED BY <1>7 DEF c, p, q

LEMMA SmallQuotient ==
  ASSUME NEW a \in Nat, NEW b \in Nat \ {0}, a < b
  PROVE  a \div b = 0
<1>1. a \div b \in Nat /\ a % b \in 0 .. b - 1 /\ a = b * (a \div b) + (a % b)
  BY DivMod
<1>2. b * 0 + a = a
  OBVIOUS
<1> QED BY <1>1, <1>2, QuotientUnique

\* Two lengths with the same digits are equal.
LEMMA DigitsUnique ==
  ASSUME NEW l \in 0 .. MaxLength, NEW m \in 0 .. MaxLength,
         \A i \in 1 .. PrefixSize : (l \div Weight[i - 1]) % Base = (m \div Weight[i - 1]) % Base
  PROVE  l = m
<1> DEFINE S == {n \in Nat : n <= PrefixSize => l \div Weight[PrefixSize - n] = m \div Weight[PrefixSize - n]}
<1>1. l \in Nat /\ m \in Nat
  BY Limits
<1>2. 0 \in S
  <2>1. Weight[PrefixSize] \in Nat \ {0} /\ l < Weight[PrefixSize] /\ m < Weight[PrefixSize]
    BY WeightIs, Limits DEF MaxLength
  <2>2. l \div Weight[PrefixSize] = 0 /\ m \div Weight[PrefixSize] = 0
    BY <1>1, <2>1, SmallQuotient
  <2>3. PrefixSize - 0 = PrefixSize
    BY Limits
  <2> QED BY <2>2, <2>3
<1>3. ASSUME NEW n \in Nat, n \in S PROVE n + 1 \in S
  <2> SUFFICES ASSUME n + 1 <= PrefixSize
               PROVE  l \div Weight[PrefixSize - (n + 1)] = m \div Weight[PrefixSize - (n + 1)]
    OBVIOUS
  <2> DEFINE i == PrefixSize - n
             w == Weight[i - 1]
  <2>1. i \in 1 .. PrefixSize /\ i - 1 \in Nat /\ (i - 1) + 1 = i /\ i - 1 = PrefixSize - (n + 1)
    BY Limits
  <2>2. w \in Nat \ {0} /\ Weight[i] = Base * w
    BY <2>1, WeightIs
  <2>3. l \div Weight[i] = m \div Weight[i]
    BY <1>3, Limits
  <2>4. (l \div w) % Base = (m \div w) % Base
    BY <2>1
  <2> HIDE DEF i, w
  <2>5. (l \div w) \div Base = (m \div w) \div Base
    <3>1. Base \in Nat \ {0}
      BY StreamAssumption
    <3>2. l \div (Base * w) = (l \div w) \div Base
      BY <1>1, <2>2, <3>1, DivDiv
    <3>3. m \div (Base * w) = (m \div w) \div Base
      BY <1>1, <2>2, <3>1, DivDiv
    <3> QED BY <2>2, <2>3, <3>2, <3>3
  <2>6. l \div w \in Nat /\ m \div w \in Nat
    BY <1>1, <2>2, DivMod
  <2>7. /\ l \div w = Base * ((l \div w) \div Base) + ((l \div w) % Base)
        /\ m \div w = Base * ((m \div w) \div Base) + ((m \div w) % Base)
    BY <2>6, DivMod, StreamAssumption
  <2>8. l \div w = m \div w
    BY <2>4, <2>5, <2>7
  <2> QED BY <2>1, <2>8 DEF w
<1> HIDE DEF S
<1>4. Nat \subseteq S
  BY <1>2, <1>3, Induction
<1>5. l \div Weight[0] = m \div Weight[0]
  <2>1. PrefixSize \in S /\ PrefixSize <= PrefixSize /\ PrefixSize - PrefixSize = 0
    BY <1>4, Limits
  <2> QED BY <2>1 DEF S
<1>6. l \div 1 = l /\ m \div 1 = m
  BY <1>1
<1> QED BY <1>5, <1>6, WeightIs

-----------------------------------------------------------------------------
(* Where the writer and the reader are in the stream *)

Size(k) == PrefixSize + written[k]

\* The byte that follows another in the stream; byte 0 stands for the place
\* before a frame.
After(b) == IF b[2] < Size(b[1]) THEN <<b[1], b[2] + 1>> ELSE <<b[1] + 1, 1>>

InFrame(b) == b[1] \in 1 .. Len(written) /\ b[2] \in 1 .. Size(b[1])

Writing == wpc \in {"prefix", "payload"}

\* The byte the writer sends next, which may be of a frame to come.
NextOut == IF Writing THEN After(<<Len(written), SentUpTo>>) ELSE <<Len(written) + 1, 1>>

\* The frame the reader is at.
Frame == Len(delivered) + 1

\* How much of it the reader has.
ReadUpTo == IF rpc = "prefix" THEN PrefixSize - awaited
            ELSE IF rpc = "payload" THEN PrefixSize + length - awaited ELSE 0

\* The byte the reader should receive next.
NextIn == IF ReadUpTo > 0 THEN After(<<Frame, ReadUpTo>>) ELSE <<Frame, 1>>

\* What a loop has left is no more than what it began with.
CountInv == /\ Writing => Len(written) > 0
            /\ wpc = "prefix" => unsent <= PrefixSize
            /\ wpc = "payload" => unsent <= written[Len(written)]
            /\ rpc = "prefix" => awaited <= PrefixSize
            /\ rpc = "payload" => awaited <= length

\* The wire has the bytes from the reader's place to the writer's, or to where
\* the connection broke.
WireInv == /\ \A j \in 1 .. Len(wire) : InFrame(wire[j])
           /\ \A j \in 1 .. Len(wire) - 1 : wire[j + 1] = After(wire[j])
           /\ wire # <<>> => wire[1] = NextIn
           /\ ~reset => IF wire = <<>> THEN NextIn = NextOut ELSE After(wire[Len(wire)]) = NextOut

\* The reader has the first part of its frame.
ReaderInv == /\ rpc # "aborted"
             /\ ReadUpTo > 0 => Frame <= Len(written)
             /\ rpc = "prefix" => /\ Len(prefix) = PrefixSize - awaited
                                  /\ \A i \in 1 .. Len(prefix) : prefix[i] = <<Frame, i>>
             /\ rpc = "payload" => /\ length = written[Frame]
                                   /\ \A i \in 1 .. length - awaited : buffer[i] = <<Frame, PrefixSize + i>>

\* Where recv has reported an error nothing is known but the types.
IInv == /\ TypeOK
        /\ CountInv
        /\ ~failed => WireInv /\ ReaderInv

-----------------------------------------------------------------------------
(* Types *)

LEMMA Numbers ==
  ASSUME TypeOK
  PROVE  /\ Len(written) \in Nat /\ Len(wire) \in Nat /\ Len(prefix) \in Nat /\ Len(delivered) \in Nat
         /\ \A k \in 1 .. Len(written) : /\ written[k] \in 0 .. MaxLength
                                         /\ k \in 1 .. MaxMessages
                                         /\ Size(k) \in PrefixSize .. PrefixSize + MaxLength
         /\ \A j \in 1 .. Len(wire) : wire[j] \in Byte
         /\ unsent \in Nat /\ awaited \in Nat /\ length \in Nat
<1>1. Len(written) \in Nat /\ Len(wire) \in Nat /\ Len(prefix) \in Nat /\ Len(delivered) \in Nat
  BY LenProperties DEF TypeOK
<1>2. ASSUME NEW k \in 1 .. Len(written)
      PROVE  written[k] \in 0 .. MaxLength /\ k \in 1 .. MaxMessages
  <2>1. written[k] \in Sizes
    BY ElementOfSeq DEF TypeOK
  <2>2. written[k] \in 0 .. MaxLength
    BY <2>1, Limits
  <2>3. Len(written) <= MaxMessages
    BY DEF TypeOK
  <2> QED BY <1>1, <2>2, <2>3, Limits
<1>3. \A k \in 1 .. Len(written) : Size(k) \in PrefixSize .. PrefixSize + MaxLength
  BY <1>2, Limits DEF Size
<1>4. \A j \in 1 .. Len(wire) : wire[j] \in Byte
  BY ElementOfSeq DEF TypeOK
<1> QED BY <1>1, <1>2, <1>3, <1>4, Limits DEF TypeOK

LEMMA ByteIs ==
  ASSUME NEW k, NEW i
  PROVE  <<k, i>> \in Byte <=> k \in 1 .. MaxMessages /\ i \in 1 .. PrefixSize + MaxLength
BY DEF Byte

LEMMA InitialCounts == Init => TypeOK /\ CountInv
<1> SUFFICES ASSUME Init PROVE TypeOK /\ CountInv
  OBVIOUS
<1>1. /\ <<>> \in Seq(Sizes) /\ <<>> \in Seq(Byte) /\ <<>> \in Seq(Seq(Byte \cup {Blank}))
      /\ Len(<<>>) = 0
  BY EmptySeq
<1>2. buffer \in [1 .. MaxLength -> Byte \cup {Blank}]
  BY DEF Init
<1>3. 0 \in 0 .. PrefixSize + MaxLength /\ 0 \in 0 .. MaxLength /\ 0 <= MaxMessages
  BY Limits
<1>4. TypeOK
  BY <1>1, <1>2, <1>3 DEF Init, TypeOK
<1>5. CountInv
  BY DEF Init, CountInv, Writing
<1> QED BY <1>4, <1>5

LEMMA BeginWriteCounts ==
  ASSUME TypeOK, CountInv, BeginWrite
  PROVE  TypeOK' /\ CountInv'
<1>1. PICK size \in Sizes : written' = Append(written, size)
  BY DEF BeginWrite
<1>2. written' \in Seq(Sizes) /\ Len(written') = Len(written) + 1
  BY <1>1, AppendProperties DEF TypeOK
<1>3. Len(written') <= MaxMessages /\ Len(written') > 0
  BY <1>2, Numbers, Limits DEF BeginWrite, TypeOK
<1>4. unsent' \in 0 .. PrefixSize + MaxLength /\ unsent' <= PrefixSize
  BY Limits DEF BeginWrite
<1> QED BY <1>2, <1>3, <1>4 DEF BeginWrite, readerVars, TypeOK, CountInv, Writing

\* The bytes that send() takes are the next ones of the frame.
LEMMA Transmitted ==
  ASSUME TypeOK, CountInv, NEW n \in 1 .. unsent, Transmit(n)
  PROVE  /\ Len(written) \in 1 .. MaxMessages
         /\ SentUpTo \in Nat /\ SentUpTo + n <= Size(Len(written))
         /\ wire' \in Seq(Byte)
         /\ Len(wire') = Len(wire) + n
         /\ \A j \in 1 .. Len(wire) : wire'[j] = wire[j]
         /\ \A i \in 1 .. n : wire'[Len(wire) + i] = <<Len(written), SentUpTo + i>>
<1> DEFINE new == [i \in 1 .. n |-> <<Len(written), SentUpTo + i>>]
           w == Len(written)
<1>1. w \in 1 .. MaxMessages /\ written[w] \in 0 .. MaxLength /\ Size(w) \in PrefixSize .. PrefixSize + MaxLength
  BY Numbers DEF Transmit, CountInv, Writing
<1>2. SentUpTo \in Nat /\ SentUpTo + n <= Size(w)
  <2>1. CASE wpc = "prefix"
    <3>1. SentUpTo = PrefixSize - unsent /\ unsent <= PrefixSize
      BY <2>1 DEF SentUpTo, CountInv
    <3>2. n \in Nat /\ unsent \in Nat /\ n <= unsent
      BY Numbers
    <3> QED BY <3>1, <3>2, <1>1, Limits
  <2>2. CASE wpc = "payload"
    <3>1. SentUpTo = Size(w) - unsent /\ unsent <= written[w] /\ Size(w) = PrefixSize + written[w]
      BY <2>2 DEF SentUpTo, FrameSize, Size, CountInv
    <3>2. n \in Nat /\ unsent \in Nat /\ n <= unsent
      BY Numbers
    <3> QED BY <3>1, <3>2, <1>1, Limits
  <2> QED BY <2>1, <2>2 DEF Transmit
<1>3. n \in Nat
  BY Numbers
<1>4. \A i \in 1 .. n : <<w, SentUpTo + i>> \in Byte
  <2>1. \A i \in 1 .. n : SentUpTo + i \in 1 .. PrefixSize + MaxLength
    BY <1>1, <1>2, <1>3, Limits
  <2> QED BY <1>1, <2>1, ByteIs
<1>5. new \in Seq(Byte) /\ Len(new) = n
  <2>1. new \in [1 .. n -> Byte]
    BY <1>4
  <2> QED BY <1>3, <2>1, SeqDef, LenProperties
<1>6. wire' = wire \o new /\ wire \in Seq(Byte)
  BY DEF Transmit, TypeOK
<1>7. \A i \in 1 .. n : new[i] = <<w, SentUpTo + i>>
  OBVIOUS
<1> HIDE DEF new
<1>8. /\ wire' \in Seq(Byte)
      /\ Len(wire') = Len(wire) + n
      /\ \A j \in 1 .. Len(wire) + n : wire'[j] = IF j <= Len(wire) THEN wire[j] ELSE new[j - Len(wire)]
  BY <1>5, <1>6, ConcatProperties
<1>9. \A i \in 1 .. n : wire'[Len(wire) + i] = <<w, SentUpTo + i>>
  <2> SUFFICES ASSUME NEW i \in 1 .. n PROVE wire'[Len(wire) + i] = <<w, SentUpTo + i>>
    OBVIOUS
  <2>1. /\ Len(wire) + i \in 1 .. Len(wire) + n /\ ~(Len(wire) + i <= Len(wire))
        /\ (Len(wire) + i) - Len(wire) = i
    BY <1>3, Numbers
  <2> QED BY <1>7, <1>8, <2>1
<1>10. \A j \in 1 .. Len(wire) : wire'[j] = wire[j]
  BY <1>3, <1>8, Numbers
<1> QED BY <1>1, <1>2, <1>8, <1>9, <1>10

LEMMA SendCounts ==
  ASSUME TypeOK, CountInv, Send
  PROVE  TypeOK' /\ CountInv'
<1>1. PICK n \in 1 .. unsent : Transmit(n) /\ unsent' = unsent - n
  BY DEF Send
<1>2. wire' \in Seq(Byte)
  BY <1>1, Transmitted
<1>3. unsent' \in 0 .. PrefixSize + MaxLength /\ unsent' <= unsent
  BY <1>1, Limits DEF TypeOK
<1>4. CountInv'
  <2>1. wpc = "payload" => unsent' <= written[Len(written)]
    <3>1. wpc = "payload" => written[Len(written)] \in Nat /\ unsent <= written[Len(written)]
      BY Numbers, Limits DEF CountInv, Writing
    <3> QED BY <1>3, <3>1, Numbers, Limits
  <2>2. wpc = "prefix" => unsent' <= PrefixSize
    BY <1>3, Numbers, Limits DEF CountInv
  <2> QED BY <1>1, <2>1, <2>2 DEF Transmit, readerVars, CountInv, Writing
<1> QED BY <1>1, <1>2, <1>3, <1>4 DEF Transmit, readerVars, TypeOK

\* recv() takes the first bytes of the wire.
LEMMA Taken ==
  ASSUME TypeOK, NEW n \in 1 .. awaited, n <= Len(wire), Take(n)
  PROVE  /\ wire' \in Seq(Byte)
         /\ Len(wire') = Len(wire) - n
         /\ \A j \in 1 .. Len(wire) - n : wire'[j] = wire[n + j]
<1>1. n \in Nat /\ Len(wire) \in Nat
  BY Numbers
<1>2. wire' = SubSeq(wire, n + 1, Len(wire)) /\ wire \in Seq(Byte)
  BY DEF Take, TypeOK
<1>3. wire' \in Seq(Byte)
  <2>1. \A i \in n + 1 .. Len(wire) : wire[i] \in Byte
    BY <1>1, Numbers
  <2> QED BY <1>1, <1>2, <2>1, SubSeqProperties
<1>4. /\ Len(wire') = IF n + 1 <= Len(wire) THEN Len(wire) - (n + 1) + 1 ELSE 0
      /\ \A i \in 1 .. Len(wire) - (n + 1) + 1 : wire'[i] = wire[n + 1 + i - 1]
  BY <1>1, <1>2, SubSeqProperties
<1>5. \A j \in 1 .. Len(wire) - n : wire'[j] = wire[n + j]
  <2> SUFFICES ASSUME NEW j \in 1 .. Len(wire) - n PROVE wire'[j] = wire[n + j]
    OBVIOUS
  <2>1. j \in 1 .. Len(wire) - (n + 1) + 1 /\ n + 1 + j - 1 = n + j
    BY <1>1
  <2> QED BY <1>4, <2>1
<1> QED BY <1>1, <1>3, <1>4, <1>5

LEMMA ReceiveCounts ==
  ASSUME TypeOK, CountInv, Receive
  PROVE  TypeOK' /\ CountInv'
<1>1. PICK n \in 1 .. awaited : n <= Len(wire) /\ Take(n)
  BY DEF Receive
<1>2. wire' \in Seq(Byte)
  BY <1>1, Taken
<1>3. awaited' \in 0 .. PrefixSize + MaxLength /\ awaited' <= awaited /\ awaited' = awaited - n
  BY <1>1, Limits DEF Take, TypeOK
<1>4. prefix' \in Seq(Byte)
  <2>1. \A i \in 1 .. n : wire[i] \in Byte
    BY <1>1, Numbers
  <2>2. SubSeq(wire, 1, n) \in Seq(Byte)
    BY <2>1, Numbers, SubSeqProperties
  <2>3. prefix \o SubSeq(wire, 1, n) \in Seq(Byte)
    BY <2>2, ConcatProperties DEF TypeOK
  <2> QED BY <1>1, <2>3 DEF Take, TypeOK
<1>5. buffer' \in [1 .. MaxLength -> Byte \cup {Blank}]
  <2>1. CASE rpc = "payload" /\ buffer' = Filled(length - awaited, n)
    <3> DEFINE start == length - awaited
    <3>1. start \in Int
      BY Numbers
    <3>2. \A i \in start + 1 .. start + n : wire[i - start] \in Byte
      BY <1>1, <3>1, Numbers
    <3>3. \A i \in 1 .. MaxLength : (IF i \in start + 1 .. start + n THEN wire[i - start] ELSE buffer[i])
                                        \in Byte \cup {Blank}
      BY <3>2 DEF TypeOK
    <3> QED BY <2>1, <3>3 DEF Filled
  <2> QED BY <1>1, <2>1 DEF Take, TypeOK
<1>6. CountInv'
  <2>1. rpc = "payload" => awaited' <= length
    BY <1>3, Numbers, Limits DEF CountInv
  <2>2. rpc = "prefix" => awaited' <= PrefixSize
    BY <1>3, Numbers, Limits DEF CountInv
  <2> QED BY <1>1, <2>1, <2>2 DEF Take, writerVars, CountInv, Writing
<1> QED BY <1>1, <1>2, <1>3, <1>4, <1>5, <1>6 DEF Take, writerVars, TypeOK

LEMMA ResetCounts ==
  ASSUME TypeOK, CountInv, Reset
  PROVE  TypeOK' /\ CountInv'
<1>1. PICK n \in 0 .. Len(wire) : wire' = SubSeq(wire, 1, n)
  BY DEF Reset
<1>2. wire' \in Seq(Byte)
  <2>1. n \in Int /\ \A i \in 1 .. n : wire[i] \in Byte
    BY Numbers
  <2> QED BY <1>1, <2>1, SubSeqProperties
<1> QED BY <1>2 DEF Reset, writerVars, readerVars, TypeOK, CountInv, Writing

LEMMA ParseCounts ==
  ASSUME TypeOK, CountInv, Parse
  PROVE  TypeOK' /\ CountInv'
<1>1. Content \in Seq(Byte \cup {Blank})
  <2>1. length \in 0 .. MaxLength /\ \A i \in 1 .. length : buffer[i] \in Byte \cup {Blank}
    BY Limits DEF TypeOK
  <2> QED BY <2>1, SubSeqProperties DEF Content
<1>2. delivered' \in Seq(Seq(Byte \cup {Blank}))
  BY <1>1, AppendProperties DEF Parse, TypeOK
<1> QED BY <1>2 DEF Parse, writerVars, TypeOK, CountInv, Writing

\* The loops' counts stay within their parts, whatever breaks.
LEMMA CountsStay ==
  ASSUME TypeOK, CountInv, [Next]_vars
  PROVE  TypeOK' /\ CountInv'
<1>1. CASE PrefixSent \/ FrameSent \/ SendFails \/ Close
  <2>1. PrefixSent => written[Len(written)] \in 0 .. PrefixSize + MaxLength
    BY Numbers, Limits DEF PrefixSent, CountInv, Writing
  <2>2. 0 \in 0 .. PrefixSize + MaxLength
    BY Limits
  <2>3. unsent' \in 0 .. PrefixSize + MaxLength
    BY <1>1, <2>1, <2>2 DEF PrefixSent, FrameSent, SendFails, Close, TypeOK
  <2>4. TypeOK'
    BY <1>1, <2>3 DEF PrefixSent, FrameSent, SendFails, Close, readerVars, TypeOK
  <2>5. CountInv'
    BY <1>1, <2>1, Limits DEF PrefixSent, FrameSent, SendFails, Close, readerVars, CountInv, Writing
  <2> QED BY <2>4, <2>5
<1>2. CASE BeginRead
  <2>1. <<>> \in Seq(Byte) /\ PrefixSize \in 0 .. PrefixSize + MaxLength /\ PrefixSize <= PrefixSize
    BY EmptySeq, Limits
  <2> QED BY <1>2, <2>1 DEF BeginRead, writerVars, TypeOK, CountInv, Writing
<1>3. CASE PrefixRead \/ ReceiveFails \/ ParseAborts
  <2>1. (\A l \in Lengths(prefix) : l \in 0 .. MaxLength) /\ (\A l \in 0 .. MaxLength : l \in 0 .. PrefixSize + MaxLength /\ l <= l)
    BY Limits DEF Lengths
  <2>2. 0 \in 0 .. PrefixSize + MaxLength /\ \A l \in 0 .. MaxLength : 0 <= l
    BY Limits
  <2>3. length' \in 0 .. MaxLength
    BY <1>3, <2>1 DEF PrefixRead, ReceiveFails, ParseAborts, TypeOK
  <2>4. awaited' \in 0 .. PrefixSize + MaxLength
    BY <1>3, <2>1, <2>2 DEF PrefixRead, ReceiveFails, ParseAborts, TypeOK
  <2>5. TypeOK'
    BY <1>3, <2>3, <2>4 DEF PrefixRead, ReceiveFails, ParseAborts, writerVars, TypeOK
  <2>6. rpc' = "payload" => awaited' <= length'
    BY <1>3, <2>1, <2>2, <2>3 DEF PrefixRead, ReceiveFails, ParseAborts
  <2>7. rpc' # "prefix"
    BY <1>3 DEF PrefixRead, ReceiveFails, ParseAborts
  <2>8. CountInv'
    BY <1>3, <2>6, <2>7 DEF PrefixRead, ReceiveFails, ParseAborts, writerVars, CountInv, Writing
  <2> QED BY <2>5, <2>8
<1>4. CASE UNCHANGED vars
  BY <1>4 DEF vars, writerVars, readerVars, TypeOK, CountInv, Writing
<1> QED BY <1>1, <1>2, <1>3, <1>4, BeginWriteCounts, SendCounts, ReceiveCounts, ResetCounts, ParseCounts
         DEF Next, Writer, Reader

\* The variables keep their types, also on a socket that does not block and
\* after the connection broke: no loop takes more than it was asked for.
THEOREM TypeCorrect == Safety => []TypeOK
<1>1. TypeOK /\ CountInv /\ [Next]_vars => TypeOK' /\ CountInv'
  BY CountsStay
<1> QED BY <1>1, InitialCounts, PTL DEF Safety

-----------------------------------------------------------------------------
(* The wire has the bytes from the reader's place to the writer's *)

\* A step that leaves the wire alone, and neither end at another place.
LEMMA WireStays ==
  ASSUME WireInv, UNCHANGED <<written, wire>>, NextIn' = NextIn, ~reset' => ~reset /\ NextOut' = NextOut
  PROVE  WireInv'
<1>1. /\ \A b : After(b)' = After(b)
      /\ \A b : InFrame(b)' <=> InFrame(b)
  BY DEF After, InFrame, Size
<1>2. /\ \A j \in 1 .. Len(wire) : InFrame(wire[j])'
      /\ \A j \in 1 .. Len(wire) - 1 : wire'[j + 1] = After(wire[j])'
      /\ After(wire[Len(wire)])' = After(wire[Len(wire)])
  BY <1>1 DEF WireInv, After, InFrame, Size
<1> QED BY <1>2 DEF WireInv

LEMMA WriterMoves ==
  ASSUME IInv, ~failed, PrefixSent \/ FrameSent \/ SendFails \/ Close, ~NonBlocking
  PROVE  WireInv' /\ ReaderInv'
<1>1. UNCHANGED <<written, wire, reset, readerVars>>
  BY DEF PrefixSent, FrameSent, SendFails, Close
<1>2. ReaderInv'
  BY <1>1 DEF IInv, ReaderInv, ReadUpTo, Frame, readerVars
<1>3. NextIn' = NextIn
  BY <1>1 DEF NextIn, ReadUpTo, Frame, After, Size, readerVars
<1>4. ASSUME ~reset PROVE NextOut' = NextOut
  <2> DEFINE w == Len(written)
  <2>1. Writing => w \in 1 .. w /\ Size(w) = PrefixSize + written[w] /\ written[w] \in Nat /\ FrameSize = Size(w)
    BY Numbers, Limits DEF IInv, CountInv, Size, FrameSize
  <2>2. CASE PrefixSent
    <3>1. NextOut = After(<<w, PrefixSize>>)
      <4>1. SentUpTo = PrefixSize
        BY <2>2, Limits DEF PrefixSent, SentUpTo
      <4> QED BY <2>2, <4>1 DEF PrefixSent, NextOut, Writing
    <3>2. NextOut' = After(<<w, PrefixSize>>)
      <4>1. SentUpTo' = PrefixSize
        BY <2>1, <2>2, Limits DEF PrefixSent, SentUpTo, FrameSize, Writing
      <4> QED BY <2>2, <4>1 DEF PrefixSent, NextOut, Writing, After, Size
    <3> QED BY <3>1, <3>2
  <2>3. CASE FrameSent
    <3>1. SentUpTo = Size(w)
      BY <2>1, <2>3, Limits DEF FrameSent, SentUpTo, Writing
    <3>2. NextOut = <<w + 1, 1>>
      BY <2>1, <2>3, <3>1, Limits DEF FrameSent, NextOut, After, Writing
    <3> QED BY <2>3, <3>2 DEF FrameSent, NextOut, Writing
  <2>4. CASE SendFails
    BY <1>4, <2>4 DEF SendFails
  <2>5. CASE Close
    BY <2>5 DEF Close, NextOut, Writing
  <2> QED BY <2>2, <2>3, <2>4, <2>5
<1> QED BY <1>1, <1>2, <1>3, <1>4, WireStays DEF IInv

\* A new frame is behind all bytes that are on their way.
LEMMA FrameAdded ==
  ASSUME IInv, ~failed, BeginWrite
  PROVE  WireInv' /\ ReaderInv'
<1> DEFINE w == Len(written)
<1>1. PICK size \in Sizes : written' = Append(written, size)
  BY DEF BeginWrite
<1>2. Len(written') = w + 1 /\ (\A k \in 1 .. w : written'[k] = written[k]) /\ written'[w + 1] = size /\ w \in Nat
  BY <1>1, AppendProperties, LenProperties DEF IInv, TypeOK
<1>3. UNCHANGED <<wire, reset, readerVars>> /\ wpc = "idle" /\ wpc' = "prefix" /\ unsent' = PrefixSize
  BY DEF BeginWrite
<1>4. /\ \A b : b[1] \in 1 .. w => After(b)' = After(b)
      /\ \A b : InFrame(b) => InFrame(b)' /\ b[1] \in 1 .. w
  BY <1>2 DEF After, InFrame, Size
<1>5. ReaderInv'
  <2>1. ReadUpTo' = ReadUpTo /\ Frame' = Frame
    BY <1>3 DEF ReadUpTo, Frame, readerVars
  <2>2. rpc = "payload" => Frame \in 1 .. w
    <3>1. rpc = "payload" => ReadUpTo > 0
      BY Numbers, Limits DEF IInv, CountInv, ReadUpTo
    <3> QED BY <3>1, <1>2, Numbers DEF IInv, ReaderInv, Frame
  <2>3. ReadUpTo > 0 => Frame <= w + 1
    BY <1>2, Numbers DEF IInv, ReaderInv, Frame
  <2> QED BY <1>2, <1>3, <2>1, <2>2, <2>3 DEF IInv, ReaderInv, readerVars
<1>6. NextIn' = NextIn
  <2>1. ReadUpTo' = ReadUpTo /\ Frame' = Frame
    BY <1>3 DEF ReadUpTo, Frame, readerVars
  <2>2. ReadUpTo > 0 => Frame \in 1 .. w
    BY <1>2, Numbers DEF IInv, ReaderInv, Frame
  <2>3. ReadUpTo > 0 => After(<<Frame, ReadUpTo>>)' = After(<<Frame, ReadUpTo>>)
    BY <1>2, <2>1, <2>2 DEF After, Size
  <2> QED BY <2>1, <2>3 DEF NextIn
<1>7. NextOut' = NextOut
  <2>1. NextOut = <<w + 1, 1>>
    BY <1>3 DEF NextOut, Writing
  <2>2. SentUpTo' = 0
    BY <1>3, Limits DEF SentUpTo
  <2>3. 0 < PrefixSize + written'[w + 1]
    <3>1. size \in 0 .. MaxLength
      BY Limits
    <3> QED BY <1>2, <3>1, Limits
  <2>4. NextOut' = <<w + 1, 1>>
    BY <1>2, <1>3, <2>2, <2>3 DEF NextOut, Writing, After, Size
  <2> QED BY <2>1, <2>4
<1>8. /\ \A j \in 1 .. Len(wire) : InFrame(wire[j])' /\ wire[j][1] \in 1 .. w
      /\ \A j \in 1 .. Len(wire) - 1 : wire'[j + 1] = After(wire[j])'
  <2>1. \A j \in 1 .. Len(wire) : InFrame(wire[j]) /\ wire[j][1] \in 1 .. w
    BY <1>4 DEF IInv, WireInv
  <2>2. \A j \in 1 .. Len(wire) - 1 : wire[j + 1] = After(wire[j]) /\ j \in 1 .. Len(wire)
    BY Numbers DEF IInv, WireInv
  <2>3. \A j \in 1 .. Len(wire) : InFrame(wire[j])'
    BY <1>2, <1>3, <2>1 DEF InFrame, Size, readerVars
  <2>4. \A j \in 1 .. Len(wire) : After(wire[j])' = After(wire[j])
    BY <1>2, <1>3, <2>1 DEF After, Size, readerVars
  <2> QED BY <1>3, <2>1, <2>2, <2>3, <2>4
<1>9. wire # <<>> => After(wire[Len(wire)])' = After(wire[Len(wire)])
  <2>1. wire # <<>> => Len(wire) \in 1 .. Len(wire)
    BY EmptySeq, Numbers DEF IInv, TypeOK
  <2> QED BY <1>2, <1>3, <1>8, <2>1 DEF After, Size
<1> QED BY <1>3, <1>5, <1>6, <1>7, <1>8, <1>9 DEF IInv, WireInv

\* The bytes sent join those on the wire.
LEMMA BytesSent ==
  ASSUME IInv, ~failed, Send
  PROVE  WireInv' /\ ReaderInv'
<1> DEFINE w == Len(written)
           u == SentUpTo
           L == Len(wire)
<1>1. PICK n \in 1 .. unsent : Transmit(n) /\ unsent' = unsent - n
  BY DEF Send
<1>2. /\ w \in 1 .. MaxMessages /\ u \in Nat /\ u + n <= Size(w)
      /\ wire' \in Seq(Byte) /\ Len(wire') = L + n
      /\ \A j \in 1 .. L : wire'[j] = wire[j]
      /\ \A i \in 1 .. n : wire'[L + i] = <<w, u + i>>
  <2>1. TypeOK /\ CountInv
    BY DEF IInv
  <2> QED BY <1>1, <2>1, Transmitted
<1>3. n \in Nat \ {0} /\ L \in Nat /\ Size(w) \in Nat /\ w \in 1 .. w /\ L = Len(wire)
  <2>1. n \in Nat \ {0} /\ L \in Nat
    BY Numbers DEF IInv
  <2>2. w \in 1 .. w
    BY <1>2, Limits
  <2>3. Size(w) \in Nat
    BY <2>2, Numbers, Limits DEF IInv
  <2> QED BY <2>1, <2>2, <2>3
<1>4. UNCHANGED <<written, wpc, reset, readerVars>> /\ ~reset /\ Writing
  BY <1>1 DEF Transmit, Writing
<1>5. ReaderInv' /\ NextIn' = NextIn
  BY <1>4 DEF IInv, ReaderInv, ReadUpTo, Frame, NextIn, After, Size, readerVars
<1>6. NextOut = <<w, u + 1>>
  BY <1>2, <1>3, <1>4 DEF NextOut, After
<1>7. NextOut' = After(<<w, u + n>>)
  <2>1. SentUpTo' = u + n
    BY <1>1, <1>3, <1>4, Numbers, Limits DEF IInv, SentUpTo, FrameSize, Size
  <2> QED BY <1>4, <2>1 DEF NextOut, Writing, After, Size
<1> HIDE DEF w, u, L
<1>8. /\ \A b : After(b)' = After(b)
      /\ \A b : InFrame(b)' <=> InFrame(b)
      /\ \A i \in 1 .. n : InFrame(<<w, u + i>>)
      /\ \A i \in 1 .. n - 1 : After(<<w, u + i>>) = <<w, u + (i + 1)>>
  <2>1. /\ \A b : After(b)' = After(b)
        /\ \A b : InFrame(b)' <=> InFrame(b)
    BY <1>4 DEF After, InFrame, Size
  <2>2. \A i \in 1 .. n : u + i \in 1 .. Size(w)
    BY <1>2, <1>3
  <2>3. \A i \in 1 .. n : InFrame(<<w, u + i>>)
    BY <1>3, <2>2 DEF InFrame, w
  <2>4. \A i \in 1 .. n - 1 : u + i < Size(w) /\ u + i + 1 = u + (i + 1)
    BY <1>2, <1>3
  <2>5. \A i \in 1 .. n - 1 : After(<<w, u + i>>) = <<w, u + (i + 1)>>
    BY <2>4 DEF After
  <2> QED BY <2>1, <2>3, <2>5
<1>9. \A j \in 1 .. L + n : j \in 1 .. L \/ (j - L \in 1 .. n /\ j = L + (j - L))
  BY <1>3
<1>10. ASSUME NEW j \in 1 .. L + n PROVE InFrame(wire'[j])
  <2>1. CASE j \in 1 .. L
    BY <1>2, <1>3, <2>1 DEF IInv, WireInv
  <2>2. CASE j - L \in 1 .. n /\ j = L + (j - L)
    BY <1>2, <1>8, <2>2
  <2> QED BY <1>9, <2>1, <2>2
<1>11. ASSUME NEW j \in 1 .. L + n - 1 PROVE wire'[j + 1] = After(wire'[j])
  <2>1. CASE j \in 1 .. L - 1
    <3>1. j + 1 \in 1 .. L /\ j \in 1 .. L
      BY <1>3, <2>1
    <3>2. wire[j + 1] = After(wire[j])
      BY <1>3, <2>1 DEF IInv, WireInv
    <3> QED BY <1>2, <3>1, <3>2
  <2>2. CASE j = L /\ L > 0
    <3>1. wire # <<>> /\ 1 \in 1 .. n /\ L \in 1 .. L
      BY <1>3, <2>2, EmptySeq
    <3>2. After(wire[L]) = NextOut
      BY <1>3, <1>4, <3>1 DEF IInv, WireInv
    <3>3. wire'[L + 1] = <<w, u + 1>> /\ wire'[L] = wire[L]
      BY <1>2, <3>1
    <3> QED BY <1>6, <2>2, <3>2, <3>3
  <2>3. CASE j \in L + 1 .. L + n - 1
    <3>1. PICK i \in 1 .. n - 1 : j = L + i
      <4>1. j - L \in 1 .. n - 1 /\ j = L + (j - L)
        BY <1>3, <2>3
      <4> QED BY <4>1
    <3>2. i \in 1 .. n /\ i + 1 \in 1 .. n /\ j + 1 = L + (i + 1)
      BY <1>3, <3>1
    <3> QED BY <1>2, <1>8, <3>1, <3>2
  <2> QED BY <1>3, <2>1, <2>2, <2>3
<1>12. wire' # <<>> => wire'[1] = NextIn
  <2>1. CASE wire = <<>>
    <3>1. L = 0 /\ 1 \in 1 .. n /\ L + 1 = 1
      BY <1>3, <2>1, EmptySeq
    <3>2. NextIn = NextOut
      BY <1>4, <2>1 DEF IInv, WireInv
    <3> QED BY <1>2, <1>6, <3>1, <3>2
  <2>2. CASE wire # <<>>
    <3>1. 1 \in 1 .. L
      BY <1>3, <2>2, EmptySeq DEF IInv, TypeOK
    <3> QED BY <1>2, <2>2, <3>1 DEF IInv, WireInv
  <2> QED BY <2>1, <2>2
<1>13. wire' # <<>> /\ After(wire'[L + n]) = NextOut'
  <2>1. n \in 1 .. n /\ L + n # 0
    BY <1>3
  <2>2. wire' # <<>>
    BY <1>2, <2>1, EmptySeq
  <2> QED BY <1>2, <1>7, <2>1, <2>2
<1>14. WireInv'
  <2>1. Len(wire') = L + n
    BY <1>2
  <2>2. (\A j \in 1 .. L + n : InFrame(wire'[j])) <=> (\A j \in 1 .. Len(wire') : InFrame(wire[j])')
    BY <1>4, <2>1 DEF InFrame, Size
  <2>3. \A j \in 1 .. Len(wire') - 1 : wire'[j + 1] = After(wire[j])'
    <3> TAKE j \in 1 .. Len(wire') - 1
    <3>1. j \in 1 .. L + n - 1
      BY <1>3, <2>1
    <3>3. wire'[j + 1] = After(wire'[j])
      BY <1>11, <3>1
    <3>2. written' = written
      BY <1>4
    <3> QED BY <3>2, <3>3 DEF After, Size
  <2>4. After(wire[Len(wire)])' = After(wire'[L + n])
    BY <1>4, <2>1 DEF After, Size
  <2> QED BY <1>5, <1>10, <1>11, <1>12, <1>13, <2>2, <2>3, <2>4 DEF WireInv
<1> QED BY <1>5, <1>14

\* A connection that breaks keeps the first of the bytes.
LEMMA BytesLost ==
  ASSUME IInv, ~failed, Reset
  PROVE  WireInv' /\ ReaderInv'
<1>1. PICK n \in 0 .. Len(wire) : wire' = SubSeq(wire, 1, n)
  BY DEF Reset
<1>2. UNCHANGED <<writerVars, readerVars>> /\ reset'
  BY DEF Reset
<1>3. ReaderInv' /\ NextIn' = NextIn
  BY <1>2 DEF IInv, ReaderInv, ReadUpTo, Frame, NextIn, After, Size, writerVars, readerVars
<1>4. Len(wire') = n /\ \A j \in 1 .. n : wire'[j] = wire[j]
  <2>1. n \in Int /\ \A i \in 1 .. n : wire[i] \in Byte
    BY Numbers DEF IInv
  <2>2. /\ Len(wire') = IF 1 <= n THEN n - 1 + 1 ELSE 0
        /\ \A i \in 1 .. n - 1 + 1 : wire'[i] = wire[1 + i - 1]
    BY <1>1, <2>1, SubSeqProperties
  <2>3. Len(wire') = n
    BY <2>2, Numbers DEF IInv
  <2>4. \A j \in 1 .. n : j \in 1 .. n - 1 + 1 /\ 1 + j - 1 = j
    BY <2>1
  <2> QED BY <2>2, <2>3, <2>4
<1>5. /\ \A j \in 1 .. n : j \in 1 .. Len(wire)
      /\ \A j \in 1 .. n - 1 : j \in 1 .. n /\ j + 1 \in 1 .. n /\ j \in 1 .. Len(wire) - 1
  BY Numbers DEF IInv
<1>6. \A j \in 1 .. n : InFrame(wire[j])'
  BY <1>2, <1>4, <1>5 DEF IInv, WireInv, InFrame, Size, writerVars
<1>7. \A j \in 1 .. n - 1 : wire'[j + 1] = After(wire[j])'
  BY <1>2, <1>4, <1>5 DEF IInv, WireInv, After, Size, writerVars
<1>8. wire' # <<>> => wire'[1] = NextIn
  <2>1. wire' # <<>> => n # 0
    <3>1. n = 0 => wire' = <<>>
      BY <1>1, SubSeqEmpty
    <3> QED BY <3>1
  <2>2. n # 0 => 1 \in 1 .. n /\ wire # <<>>
    BY Numbers, EmptySeq DEF IInv
  <2> QED BY <1>4, <2>1, <2>2 DEF IInv, WireInv
<1> QED BY <1>2, <1>3, <1>4, <1>6, <1>7, <1>8 DEF WireInv

\* The bytes on the wire up to the end of a frame are those of the frame.
LEMMA RunOfFrame ==
  ASSUME TypeOK, WireInv, NEW k, NEW u \in Nat, NEW n \in 1 .. Len(wire),
         wire[1] = <<k, u + 1>>, Size(k) \in Nat, u + n <= Size(k)
  PROVE  \A i \in 1 .. n : wire[i] = <<k, u + i>>
<1> DEFINE S == {i \in Nat : i + 1 <= n => wire[i + 1] = <<k, u + (i + 1)>>}
<1>1. n \in Nat /\ n <= Len(wire) /\ Len(wire) \in Nat
  BY Numbers
<1>2. 0 \in S
  OBVIOUS
<1>3. ASSUME NEW i \in Nat, i \in S PROVE i + 1 \in S
  <2> SUFFICES ASSUME i + 1 + 1 <= n PROVE wire[i + 1 + 1] = <<k, u + (i + 1 + 1)>>
    OBVIOUS
  <2>1. wire[i + 1] = <<k, u + (i + 1)>>
    BY <1>1, <1>3
  <2>2. wire[i + 1 + 1] = After(wire[i + 1])
    <3>1. i + 1 \in 1 .. Len(wire) - 1
      BY <1>1
    <3> QED BY <3>1 DEF WireInv
  <2>3. u + (i + 1) < Size(k) /\ u + (i + 1) + 1 = u + (i + 1 + 1)
    BY <1>1
  <2> QED BY <2>1, <2>2, <2>3 DEF After
<1> HIDE DEF S
<1>4. Nat \subseteq S
  BY <1>2, <1>3, Induction
<1>5. ASSUME NEW i \in 1 .. n PROVE wire[i] = <<k, u + i>>
  <2>1. i - 1 \in Nat /\ i - 1 \in S /\ (i - 1) + 1 = i /\ i <= n
    BY <1>1, <1>4
  <2>2. (i - 1) + 1 <= n => wire[(i - 1) + 1] = <<k, u + ((i - 1) + 1)>>
    BY <2>1 DEF S
  <2> QED BY <2>1, <2>2
<1> QED BY <1>5

\* A reader in a frame knows which, and asks for no byte behind it.
LEMMA ReaderPlace ==
  ASSUME IInv, ~failed
  PROVE  /\ Frame \in Nat \ {0} /\ ReadUpTo \in Nat
         /\ ReadUpTo > 0 => Frame \in 1 .. Len(written)
         /\ rpc = "payload" => /\ ReadUpTo = PrefixSize + length - awaited
                               /\ ReadUpTo > 0 /\ length = written[Frame]
                               /\ ReadUpTo + awaited = Size(Frame)
                               /\ length - awaited \in Nat
         /\ rpc = "prefix" => ReadUpTo = PrefixSize - awaited /\ ReadUpTo + awaited = PrefixSize
<1>1. Frame \in Nat \ {0}
  BY Numbers DEF IInv, Frame
<1>2. rpc = "prefix" => /\ ReadUpTo = PrefixSize - awaited /\ ReadUpTo + awaited = PrefixSize
                        /\ ReadUpTo \in Nat
  BY Numbers, Limits DEF IInv, CountInv, ReadUpTo
<1>3. rpc = "payload" => /\ ReadUpTo = PrefixSize + length - awaited /\ ReadUpTo \in Nat /\ ReadUpTo > 0
                         /\ length - awaited \in Nat
                         /\ ReadUpTo + awaited = PrefixSize + length
  BY Numbers, Limits DEF IInv, CountInv, ReadUpTo
<1>4. rpc = "payload" => length = written[Frame]
  BY DEF IInv, ReaderInv
<1>5. ReadUpTo \in Nat
  BY <1>2, <1>3 DEF ReadUpTo
<1>6. ReadUpTo > 0 => Frame \in 1 .. Len(written)
  BY <1>1, Numbers DEF IInv, ReaderInv
<1> QED BY <1>1, <1>2, <1>3, <1>4, <1>5, <1>6 DEF Size

\* A prefix that is complete has one value.
LEMMA PrefixValue ==
  ASSUME IInv, ~failed, rpc = "prefix", awaited = 0
  PROVE  Frame \in 1 .. Len(written) /\ \A l \in Lengths(prefix) : l = written[Frame]
<1>1. ReadUpTo = PrefixSize /\ Frame \in 1 .. Len(written)
  BY ReaderPlace, Limits
<1>2. Len(prefix) = PrefixSize /\ \A i \in 1 .. PrefixSize : prefix[i] = <<Frame, i>>
  BY Limits DEF IInv, ReaderInv
<1>3. ASSUME NEW l \in Lengths(prefix) PROVE l = written[Frame]
  <2>1. /\ l \in 0 .. MaxLength
        /\ \A i \in 1 .. PrefixSize : (l \div Weight[i - 1]) % Base \in IF i <= Len(prefix) THEN Digits(prefix[i]) ELSE {0}
    BY DEF Lengths
  <2>2. ASSUME NEW i \in 1 .. PrefixSize
        PROVE  (l \div Weight[i - 1]) % Base = (written[Frame] \div Weight[i - 1]) % Base
    <3>1. i <= Len(prefix) /\ prefix[i] = <<Frame, i>> /\ i <= PrefixSize
      BY <1>2, Limits
    <3>2. Digits(prefix[i]) = {(written[Frame] \div Weight[i - 1]) % Base}
      BY <3>1 DEF Digits
    <3> QED BY <2>1, <3>1, <3>2
  <2>3. written[Frame] \in 0 .. MaxLength
    BY <1>1, Numbers DEF IInv
  <2> QED BY <2>1, <2>2, <2>3, DigitsUnique
<1> QED BY <1>1, <1>3

\* A payload that is complete is what was written.
LEMMA PayloadValue ==
  ASSUME IInv, ~failed, rpc = "payload", awaited = 0
  PROVE  Frame \in 1 .. Len(written) /\ Content = Payload(Frame)
<1>1. Frame \in 1 .. Len(written) /\ length = written[Frame] /\ length - awaited = length
  BY ReaderPlace, Numbers DEF IInv
<1>2. \A i \in 1 .. length : buffer[i] = <<Frame, PrefixSize + i>>
  BY <1>1 DEF IInv, ReaderInv
<1>3. length \in 0 .. MaxLength /\ \A i \in 1 .. length : buffer[i] \in Byte \cup {Blank}
  BY Limits DEF IInv, TypeOK
<1>4. /\ Content \in Seq(Byte \cup {Blank})
      /\ Len(Content) = IF 1 <= length THEN length - 1 + 1 ELSE 0
      /\ \A i \in 1 .. length - 1 + 1 : Content[i] = buffer[1 + i - 1]
  BY <1>3, SubSeqProperties DEF Content
<1>5. Len(Content) = length
  BY <1>3, <1>4
<1>6. ASSUME NEW i \in 1 .. length PROVE Content[i] = <<Frame, PrefixSize + i>>
  <2>1. i \in 1 .. length - 1 + 1 /\ 1 + i - 1 = i
    BY <1>3
  <2> QED BY <1>2, <1>4, <2>1
<1>7. Content = [i \in 1 .. length |-> Content[i]]
  BY <1>4, <1>5, LenProperties
<1>8. Content = [i \in 1 .. length |-> <<Frame, PrefixSize + i>>]
  BY <1>6, <1>7
<1> QED BY <1>1, <1>8 DEF Payload

\* What recv returns is the next part of the frame.
LEMMA BytesReceived ==
  ASSUME IInv, ~failed, Receive
  PROVE  WireInv' /\ ReaderInv'
<1> DEFINE u == ReadUpTo
           L == Len(wire)
<1>1. PICK n \in 1 .. awaited : n <= Len(wire) /\ Take(n)
  BY DEF Receive
<1>2. /\ UNCHANGED <<written, wpc, unsent, reset, rpc, length, failed, delivered>>
      /\ awaited' = awaited - n /\ rpc \in {"prefix", "payload"}
  BY <1>1 DEF Take, writerVars
<1>3. /\ wire' \in Seq(Byte)
      /\ Len(wire') = L - n
      /\ \A j \in 1 .. L - n : wire'[j] = wire[n + j]
  BY <1>1, Taken DEF IInv
<1>4. n \in Nat \ {0} /\ L \in Nat /\ n <= L /\ n <= awaited /\ awaited \in Nat /\ L = Len(wire)
  BY <1>1, Numbers DEF IInv
<1>5. wire # <<>> /\ wire[1] = NextIn /\ 1 \in 1 .. L /\ n \in 1 .. L
  BY <1>4, EmptySeq DEF IInv, WireInv
<1>6. Frame \in 1 .. Len(written) /\ Size(Frame) \in Nat /\ PrefixSize <= Size(Frame)
  <2>1. u = 0 => InFrame(<<Frame, 1>>)
    BY <1>5 DEF IInv, WireInv, NextIn
  <2>2. u = 0 => Frame \in 1 .. Len(written)
    BY <2>1 DEF InFrame
  <2>3. Frame \in 1 .. Len(written)
    BY <2>2, ReaderPlace
  <2> QED BY <2>3, Numbers, Limits DEF IInv
<1>7. u \in Nat /\ u + n <= Size(Frame)
  BY <1>2, <1>4, <1>6, ReaderPlace, Limits
<1>8. wire[1] = <<Frame, u + 1>>
  <2>1. u > 0 => u < Size(Frame)
    BY <1>4, <1>6, <1>7
  <2> QED BY <1>5, <1>7, <2>1 DEF NextIn, After
<1>9. \A i \in 1 .. n : wire[i] = <<Frame, u + i>>
  BY <1>5, <1>6, <1>7, <1>8, RunOfFrame DEF IInv
<1>10. ReadUpTo' = u + n /\ Frame' = Frame
  <2>1. Frame' = Frame
    BY <1>2 DEF Frame
  <2>2. CASE rpc = "prefix"
    <3>1. ReadUpTo = PrefixSize - awaited
      BY <2>2 DEF ReadUpTo
    <3>2. ReadUpTo' = PrefixSize - (awaited - n)
      BY <1>2, <2>2 DEF ReadUpTo
    <3>3. ReadUpTo' = ReadUpTo + n
      BY <1>4, <3>1, <3>2, Limits
    <3> QED BY <2>1, <3>3
  <2>3. CASE rpc = "payload"
    <3>1. ReadUpTo = PrefixSize + length - awaited
      BY <2>3 DEF ReadUpTo
    <3>2. ReadUpTo' = PrefixSize + length - (awaited - n)
      BY <1>2, <2>3 DEF ReadUpTo
    <3>3. length \in Nat
      BY Numbers DEF IInv
    <3>4. ReadUpTo' = ReadUpTo + n
      BY <1>4, <3>1, <3>2, <3>3, Limits
    <3> QED BY <2>1, <3>4
  <2> QED BY <1>2, <2>1, <2>2, <2>3
<1>11. NextIn' = After(wire[n])
  <2>1. NextIn' = After(<<Frame, u + n>>)
    BY <1>2, <1>4, <1>7, <1>10 DEF NextIn, After, Size
  <2> QED BY <1>4, <1>9, <2>1
<1>12. WireInv'
  <2>1. \A j \in 1 .. L - n : n + j \in 1 .. L /\ n + j - 1 \in 1 .. L - 1
    BY <1>4
  <2>2. \A j \in 1 .. Len(wire') : InFrame(wire[j])'
    <3> TAKE j \in 1 .. Len(wire')
    <3>1. wire'[j] = wire[n + j] /\ InFrame(wire[n + j])
      BY <1>3, <1>4, <2>1 DEF IInv, WireInv
    <3> QED BY <1>2, <3>1 DEF InFrame, Size
  <2>3. \A j \in 1 .. Len(wire') - 1 : wire'[j + 1] = After(wire[j])'
    <3> TAKE j \in 1 .. Len(wire') - 1
    <3>1. j \in 1 .. L - n /\ j + 1 \in 1 .. L - n /\ n + j \in 1 .. L - 1 /\ n + (j + 1) = n + j + 1
      BY <1>3, <1>4
    <3>2. wire'[j] = wire[n + j] /\ wire'[j + 1] = wire[n + j + 1]
      BY <1>3, <3>1
    <3>3. wire[n + j + 1] = After(wire[n + j])
      BY <3>1 DEF IInv, WireInv
    <3>4. wire'[j + 1] = After(wire'[j]) /\ written' = written
      BY <1>2, <3>2, <3>3
    <3> QED BY <3>4 DEF After, Size
  <2>4. wire' # <<>> => wire'[1] = NextIn'
    <3> SUFFICES ASSUME wire' # <<>> PROVE wire'[1] = NextIn'
      OBVIOUS
    <3>1. L - n > 0
      BY <1>3, <1>4, EmptySeq
    <3>2. 1 \in 1 .. L - n /\ n \in 1 .. L - 1
      BY <1>4, <3>1
    <3>3. wire'[1] = wire[n + 1] /\ wire[n + 1] = After(wire[n])
      BY <1>3, <3>2 DEF IInv, WireInv
    <3> QED BY <1>11, <3>3
  <2>5. NextOut' = NextOut
    BY <1>2 DEF NextOut, After, Size, SentUpTo, FrameSize, Writing
  <2>6. ~reset => After(wire[L]) = NextOut
    BY <1>4, <1>5 DEF IInv, WireInv
  <2>7. ~reset /\ wire' = <<>> => NextIn' = NextOut'
    <3>1. wire' = <<>> => n = L
      BY <1>3, <1>4, EmptySeq
    <3> QED BY <1>11, <2>5, <2>6, <3>1
  <2>8. ~reset /\ wire' # <<>> => After(wire[Len(wire)])' = NextOut'
    <3> SUFFICES ASSUME ~reset, wire' # <<>> PROVE After(wire[Len(wire)])' = NextOut'
      OBVIOUS
    <3>1. L - n \in 1 .. L - n /\ n + (L - n) = L
      BY <1>3, <1>4, EmptySeq
    <3>2. wire'[Len(wire')] = wire[L]
      BY <1>3, <3>1
    <3>3. After(wire[Len(wire)])' = After(wire[L])
      BY <1>2, <3>2 DEF After, Size
    <3> QED BY <2>5, <2>6, <3>3
  <2> QED BY <1>2, <2>2, <2>3, <2>4, <2>7, <2>8 DEF WireInv
<1>13. ReaderInv'
  <2>1. CASE rpc = "prefix" /\ prefix' = prefix \o SubSeq(wire, 1, n)
    <3> DEFINE new == SubSeq(wire, 1, n)
               p == Len(prefix)
    <3>1. /\ new \in Seq(Byte) /\ Len(new) = n
          /\ \A i \in 1 .. n : new[i] = wire[i]
      <4>1. \A i \in 1 .. n : wire[i] \in Byte
        BY <1>4, Numbers DEF IInv
      <4>2. /\ new \in Seq(Byte)
            /\ Len(new) = IF 1 <= n THEN n - 1 + 1 ELSE 0
            /\ \A i \in 1 .. n - 1 + 1 : new[i] = wire[1 + i - 1]
        BY <1>4, <4>1, SubSeqProperties
      <4>3. \A i \in 1 .. n : i \in 1 .. n - 1 + 1 /\ 1 + i - 1 = i
        BY <1>4
      <4> HIDE DEF new
      <4> QED BY <1>4, <4>2, <4>3
    <3> HIDE DEF new
    <3>2. /\ Len(prefix') = p + n
          /\ \A i \in 1 .. p + n : prefix'[i] = IF i <= p THEN prefix[i] ELSE new[i - p]
      <4>1. prefix' = prefix \o new /\ prefix \in Seq(Byte)
        BY <2>1 DEF new, IInv, TypeOK
      <4>2. /\ Len(prefix') = Len(prefix) + Len(new)
            /\ \A i \in 1 .. Len(prefix) + Len(new) : prefix'[i] = IF i <= Len(prefix) THEN prefix[i] ELSE new[i - Len(prefix)]
        BY <3>1, <4>1, ConcatProperties
      <4>3. Len(new) = n
        BY <3>1
      <4> QED BY <4>2, <4>3
    <3>3. p = PrefixSize - awaited /\ p = u /\ p \in Nat
      BY <1>7, <2>1, ReaderPlace DEF IInv, ReaderInv
    <3>4. \A i \in 1 .. p + n : prefix'[i] = <<Frame, i>>
      <4> TAKE i \in 1 .. p + n
      <4>1. CASE i <= p
        <5>1. i \in 1 .. p
          BY <1>4, <3>3, <4>1
        <5>2. prefix[i] = <<Frame, i>>
          BY <2>1, <5>1 DEF IInv, ReaderInv
        <5> QED BY <3>2, <4>1, <5>2
      <4>2. CASE ~(i <= p)
        <5>1. i - p \in 1 .. n /\ u + (i - p) = i
          BY <1>4, <3>3, <4>2
        <5> QED BY <1>9, <3>1, <3>2, <4>2, <5>1
      <4> QED BY <4>1, <4>2
    <3>5. Len(prefix') = PrefixSize - awaited'
      BY <1>2, <1>4, <3>2, <3>3, Limits
    <3>6. Frame <= Len(written)
      BY <1>6
    <3> QED BY <1>2, <1>10, <2>1, <3>2, <3>4, <3>5, <3>6 DEF ReaderInv
  <2>2. CASE rpc = "payload" /\ buffer' = Filled(length - awaited, n)
    <3> DEFINE start == length - awaited
    <3>1. start \in Nat /\ length - awaited' = start + n /\ u = PrefixSize + start
          /\ length \in 0 .. MaxLength /\ start + n <= length
      BY <1>2, <1>4, <2>2, ReaderPlace, Numbers, Limits DEF IInv, TypeOK
    <3>2. \A i \in 1 .. start : buffer[i] = <<Frame, PrefixSize + i>>
      BY <2>2 DEF IInv, ReaderInv
    <3> HIDE DEF start
    <3>3. buffer' = [i \in 1 .. MaxLength |-> IF i \in start + 1 .. start + n THEN wire[i - start] ELSE buffer[i]]
      BY <2>2 DEF Filled, start
    <3>4. \A i \in 1 .. start + n : buffer'[i] = <<Frame, PrefixSize + i>>
      <4> TAKE i \in 1 .. start + n
      <4>1. i \in 1 .. MaxLength
        BY <1>4, <3>1, Limits
      <4>2. CASE i \in start + 1 .. start + n
        <5>1. i - start \in 1 .. n /\ u + (i - start) = PrefixSize + i
          BY <1>4, <3>1, <4>2, Limits
        <5> QED BY <1>9, <3>3, <4>1, <4>2, <5>1
      <4>3. CASE i \notin start + 1 .. start + n
        <5>1. i \in 1 .. start
          BY <1>4, <3>1, <4>3
        <5> QED BY <3>2, <3>3, <4>1, <4>3, <5>1
      <4> QED BY <4>2, <4>3
    <3>5. length = written[Frame]
      BY <2>2, ReaderPlace
    <3> QED BY <1>2, <1>6, <1>10, <2>2, <3>1, <3>4, <3>5 DEF ReaderInv
  <2> QED BY <1>1, <2>1, <2>2 DEF Take
<1> QED BY <1>12, <1>13

\* The reader's other steps leave it where it is in the stream.
LEMMA ReaderMoves ==
  ASSUME IInv, ~failed, BeginRead \/ PrefixRead \/ Parse \/ ParseAborts
  PROVE  WireInv' /\ ReaderInv'
<1>1. UNCHANGED <<writerVars, wire, reset>>
  BY DEF BeginRead, PrefixRead, Parse, ParseAborts
<1>2. NextOut' = NextOut
  BY <1>1 DEF NextOut, After, Size, SentUpTo, FrameSize, Writing, writerVars
<1>3. NextIn' = NextIn /\ ReaderInv'
  <2>1. CASE BeginRead
    <3>1. ReadUpTo = 0 /\ ReadUpTo' = 0 /\ Frame' = Frame
      BY <2>1, Limits DEF BeginRead, ReadUpTo, Frame
    <3>2. prefix' = <<>> /\ Len(prefix') = 0 /\ PrefixSize - awaited' = 0 /\ rpc' = "prefix"
      BY <2>1, Limits, EmptySeq DEF BeginRead
    <3> QED BY <3>1, <3>2 DEF NextIn, ReaderInv
  <2>2. CASE PrefixRead
    <3>1. Frame \in 1 .. Len(written) /\ length' = written[Frame] /\ awaited' = length' /\ length' \in Nat
      BY <2>2, PrefixValue, Numbers DEF PrefixRead, IInv
    <3>2. ReadUpTo = PrefixSize /\ ReadUpTo' = PrefixSize /\ Frame' = Frame
      BY <2>2, <3>1, Limits DEF PrefixRead, ReadUpTo, Frame
    <3>3. NextIn' = NextIn
      BY <1>1, <3>2 DEF NextIn, After, Size, writerVars
    <3>4. length' - awaited' = 0
      BY <3>1
    <3> QED BY <1>1, <2>2, <3>1, <3>2, <3>3, <3>4 DEF PrefixRead, ReaderInv, writerVars
  <2>3. CASE Parse
    <3>1. /\ Frame \in 1 .. Len(written) /\ ReadUpTo = Size(Frame) /\ ReadUpTo > 0
          /\ Size(Frame) \in Nat
      BY <2>3, ReaderPlace, Numbers, Limits DEF Parse, IInv
    <3>2. NextIn = <<Frame + 1, 1>>
      BY <3>1 DEF NextIn, After
    <3>3. Frame' = Frame + 1
      <4>1. Len(delivered') = Len(delivered) + 1
        BY <2>3, CountsStay, AppendProperties DEF Parse, IInv, TypeOK, Next, Reader
      <4> QED BY <4>1 DEF Frame
    <3>4. ReadUpTo' = 0 /\ rpc' = "idle"
      BY <2>3 DEF Parse, ReadUpTo
    <3> QED BY <3>2, <3>3, <3>4 DEF NextIn, ReaderInv
  <2>4. CASE ParseAborts
    <3>1. WellFormed
      BY <2>4, PayloadValue DEF ParseAborts, WellFormed
    <3> QED BY <2>4, <3>1 DEF ParseAborts
  <2> QED BY <2>1, <2>2, <2>3, <2>4
<1> QED BY <1>1, <1>2, <1>3, WireStays DEF IInv, writerVars

LEMMA InitialState == Init => IInv
<1> SUFFICES ASSUME Init PROVE IInv
  OBVIOUS
<1>1. Len(<<>>) = 0
  OBVIOUS
<1>2. ReaderInv
  BY DEF Init, ReaderInv, ReadUpTo
<1>3. WireInv
  BY <1>1 DEF Init, WireInv, NextIn, NextOut, ReadUpTo, Frame, Writing
<1> QED BY <1>2, <1>3, InitialCounts DEF IInv

LEMMA Inductive == ASSUME IInv, [Next]_vars, ~NonBlocking PROVE IInv'
<1>1. TypeOK' /\ CountInv'
  BY CountsStay DEF IInv
<1>2. ASSUME ~failed' PROVE ~failed /\ WireInv' /\ ReaderInv'
  <2>1. ~failed
    BY <1>2 DEF Next, Writer, Reader, BeginWrite, Send, Transmit, PrefixSent, FrameSent, SendFails, Close, Reset,
                BeginRead, Receive, Take, PrefixRead, ReceiveFails, Parse, ParseAborts, vars, readerVars
  <2>2. ~ReceiveFails
    BY <1>2 DEF ReceiveFails
  <2>3. CASE UNCHANGED vars
    <3>1. NextIn' = NextIn /\ NextOut' = NextOut
      BY <2>3 DEF vars, writerVars, readerVars, NextIn, NextOut, ReadUpTo, Frame, After, Size, SentUpTo, FrameSize, Writing
    <3>2. ReaderInv'
      BY <2>1, <2>3 DEF vars, writerVars, readerVars, IInv, ReaderInv, ReadUpTo, Frame
    <3>3. UNCHANGED <<written, wire, reset>>
      BY <2>3 DEF vars, writerVars
    <3> QED BY <2>1, <3>1, <3>2, <3>3, WireStays DEF IInv
  <2> QED BY <2>1, <2>2, <2>3, WriterMoves, FrameAdded, BytesSent, BytesLost, BytesReceived, ReaderMoves
           DEF Next, Writer, Reader
<1> QED BY <1>1, <1>2 DEF IInv

\* On a blocking socket the invariant holds throughout.
THEOREM Invariance == ~NonBlocking /\ Safety => []IInv
<1> SUFFICES ASSUME ~NonBlocking PROVE Safety => []IInv
  OBVIOUS
<1>1. IInv /\ [Next]_vars => IInv'
  BY Inductive
<1> QED BY <1>1, InitialState, PTL DEF Safety

\* However send and recv cut the bytes, a reader between two frames finds the
\* first byte of a frame, until recv reports an error.
THEOREM FramesStayAligned == ~NonBlocking /\ Safety => []FrameAligned
<1>1. ASSUME IInv, ~failed, wire # <<>>
      PROVE  /\ rpc = "idle" => wire[1][2] = 1
             /\ rpc = "prefix" /\ awaited > 0 => wire[1][2] = Len(prefix) + 1
             /\ rpc = "payload" /\ awaited = 0 => wire[1][2] = 1
  <2>1. wire[1] = NextIn
    BY <1>1 DEF IInv, WireInv
  <2>2. rpc = "idle" => NextIn = <<Frame, 1>>
    BY DEF NextIn, ReadUpTo
  <2>3. rpc = "prefix" /\ awaited > 0 => NextIn = <<Frame, Len(prefix) + 1>>
    <3> SUFFICES ASSUME rpc = "prefix", awaited > 0 PROVE NextIn = <<Frame, Len(prefix) + 1>>
      OBVIOUS
    <3>1. ReadUpTo = Len(prefix) /\ ReadUpTo < PrefixSize /\ ReadUpTo \in Nat
      BY <1>1, ReaderPlace, Numbers, Limits DEF IInv, ReaderInv
    <3>2. ReadUpTo > 0 => ReadUpTo < Size(Frame)
      BY <1>1, <3>1, ReaderPlace, Numbers, Limits DEF IInv
    <3> QED BY <3>1, <3>2 DEF NextIn, After
  <2>4. rpc = "payload" /\ awaited = 0 => NextIn = <<Frame + 1, 1>>
    <3> SUFFICES ASSUME rpc = "payload", awaited = 0 PROVE NextIn = <<Frame + 1, 1>>
      OBVIOUS
    <3>1. ReadUpTo = Size(Frame) /\ ReadUpTo > 0 /\ Size(Frame) \in Nat
      BY <1>1, ReaderPlace, Numbers, Limits DEF IInv
    <3> QED BY <3>1 DEF NextIn, After
  <2> QED BY <2>1, <2>2, <2>3, <2>4
<1>2. IInv => FrameAligned
  BY <1>1 DEF FrameAligned
<1> QED BY <1>2, Invariance, PTL

\* Where ReadSidebandMessage cannot parse what it has.
AbortsFollowErrors == ~ParseSucceeds => failed /\ reset

\* The assertion of ReadSidebandMessage fails only where recv has reported an
\* error on a connection that broke.
THEOREM AssertionNeedsAnError == ~NonBlocking /\ Safety => []AbortsFollowErrors
<1> SUFFICES ASSUME ~NonBlocking PROVE Safety => []AbortsFollowErrors
  OBVIOUS
<1>1. Init => (failed => reset)
  BY DEF Init
<1>2. (failed => reset) /\ [Next]_vars => (failed => reset)'
  BY DEF Next, Writer, Reader, BeginWrite, Send, Transmit, PrefixSent, FrameSent, SendFails, Close, Reset,
         BeginRead, Receive, Take, PrefixRead, ReceiveFails, Parse, ParseAborts, vars, writerVars, readerVars
<1>3. Safety => [](failed => reset)
  BY <1>1, <1>2, PTL DEF Safety
<1>4. IInv /\ (failed => reset) => AbortsFollowErrors
  BY DEF IInv, ReaderInv, ParseSucceeds, AbortsFollowErrors
<1> QED BY <1>3, <1>4, Invariance, PTL

-----------------------------------------------------------------------------
(* The promise to ReadSidebandMessage and WriteSidebandMessage *)

\* The contents of messages of the given sizes, as MessageChannel has them.
Contents(sizes) == [k \in DOMAIN sizes |-> [i \in 1 .. sizes[k] |-> <<k, PrefixSize + i>>]]

Messages == Contents(written)

LEMMA OneMoreElement ==
  ASSUME NEW S, NEW q \in Seq(S), NEW r \in Seq(S), Len(r) = Len(q) + 1, \A i \in 1 .. Len(q) : r[i] = q[i]
  PROVE  Channel!OneMore(q, r)
<1>1. Len(q) \in Nat /\ \A i \in 1 .. Len(q) : i \in 1 .. Len(r)
  BY LenProperties
<1>2. \A i \in 1 .. Len(q) : r[i] \in S
  BY <1>1, ElementOfSeq
<1>3. /\ SubSeq(r, 1, Len(q)) \in Seq(S)
      /\ Len(SubSeq(r, 1, Len(q))) = Len(q)
      /\ \A i \in 1 .. Len(q) : SubSeq(r, 1, Len(q))[i] = r[i]
  BY <1>1, <1>2, SubSeqProperties
<1>4. SubSeq(r, 1, Len(q)) = q
  BY <1>3, SeqEqual
<1> QED BY <1>4 DEF Channel!OneMore

LEMMA ContentsAre ==
  ASSUME NEW sizes \in Seq(Sizes)
  PROVE  /\ Contents(sizes) \in Seq(Seq(Nat \X Nat))
         /\ Len(Contents(sizes)) = Len(sizes)
         /\ \A k \in 1 .. Len(sizes) : Contents(sizes)[k] = [i \in 1 .. sizes[k] |-> <<k, PrefixSize + i>>]
<1>1. DOMAIN sizes = 1 .. Len(sizes) /\ Len(sizes) \in Nat
  BY LenProperties
<1>2. ASSUME NEW k \in 1 .. Len(sizes)
      PROVE  [i \in 1 .. sizes[k] |-> <<k, PrefixSize + i>>] \in Seq(Nat \X Nat)
  <2>1. sizes[k] \in Nat /\ k \in Nat
    <3>1. sizes[k] \in Sizes
      BY ElementOfSeq
    <3>2. sizes[k] \in 0 .. MaxLength
      BY <3>1, Limits
    <3> QED BY <3>2, Limits
  <2>2. \A i \in 1 .. sizes[k] : <<k, PrefixSize + i>> \in Nat \X Nat
    BY <2>1, Limits
  <2> DEFINE p == [i \in 1 .. sizes[k] |-> <<k, PrefixSize + i>>]
  <2>3. p \in [1 .. sizes[k] -> Nat \X Nat]
    BY <2>2
  <2> HIDE DEF p
  <2>4. p \in Seq(Nat \X Nat)
    BY <2>1, <2>3, SeqDef
  <2> QED BY <2>4 DEF p
<1>3. Contents(sizes) \in [1 .. Len(sizes) -> Seq(Nat \X Nat)]
  BY <1>1, <1>2 DEF Contents
<1>4. \A k \in 1 .. Len(sizes) : Contents(sizes)[k] = [i \in 1 .. sizes[k] |-> <<k, PrefixSize + i>>]
  BY <1>1 DEF Contents
<1> DEFINE c == Contents(sizes)
           T == Seq(Nat \X Nat)
<1>5. c \in [1 .. Len(sizes) -> T]
  BY <1>3
<1> HIDE DEF c, T
<1>6. c \in Seq(T) /\ Len(c) = Len(sizes)
  BY <1>1, <1>5, SeqDef, LenProperties
<1> QED BY <1>4, <1>6 DEF c, T

\* The written messages are what the refinement mapping says.
LEMMA MessagesAre == Messages = [k \in DOMAIN written |-> Payload(k)]
BY DEF Messages, Contents, Payload

LEMMA WriteIsWrite ==
  ASSUME IInv, BeginWrite
  PROVE  Channel!Write
<1>1. PICK size \in Sizes : written' = Append(written, size)
  BY DEF BeginWrite
<1>2. /\ Len(written') = Len(written) + 1 /\ Len(written) \in Nat
      /\ \A k \in 1 .. Len(written) : written'[k] = written[k]
  BY <1>1, AppendProperties, LenProperties DEF IInv, TypeOK
<1>3. written \in Seq(Sizes) /\ written' \in Seq(Sizes)
  BY BeginWriteCounts DEF IInv, TypeOK
<1>4. /\ Messages \in Seq(Seq(Nat \X Nat)) /\ Len(Messages) = Len(written)
      /\ Messages' \in Seq(Seq(Nat \X Nat)) /\ Len(Messages') = Len(written')
  BY <1>3, ContentsAre DEF Messages
<1>5. ASSUME NEW k \in 1 .. Len(written) PROVE Messages'[k] = Messages[k]
  <2>1. k \in 1 .. Len(written') /\ written'[k] = written[k]
    BY <1>2
  <2>2. Messages[k] = [i \in 1 .. written[k] |-> <<k, PrefixSize + i>>]
    BY <1>3, ContentsAre DEF Messages
  <2>3. Messages'[k] = [i \in 1 .. written'[k] |-> <<k, PrefixSize + i>>]
    BY <1>3, <2>1, ContentsAre DEF Messages
  <2> QED BY <2>1, <2>2, <2>3
<1>6. Channel!OneMore(Messages, Messages')
  BY <1>2, <1>4, <1>5, OneMoreElement
<1>7. UNCHANGED <<delivered, failed>>
  BY DEF BeginWrite, readerVars
<1> QED BY <1>6, <1>7 DEF Channel!Write, Messages, Contents, Payload

LEMMA ParseIsDeliver ==
  ASSUME IInv, Parse
  PROVE  Channel!Deliver \/ Channel!Stray
<1>1. delivered' = Append(delivered, Content) /\ UNCHANGED <<written, failed>>
  BY DEF Parse, writerVars
<1>2. UNCHANGED Messages
  BY <1>1 DEF Messages
<1>3. CASE failed
  <2>1. /\ delivered \in Seq(Seq(Byte \cup {Blank})) /\ delivered' \in Seq(Seq(Byte \cup {Blank}))
        /\ Len(delivered') = Len(delivered) + 1
        /\ \A i \in 1 .. Len(delivered) : delivered'[i] = delivered[i]
    <3>1. Content \in Seq(Byte \cup {Blank})
      <4>1. length \in 0 .. MaxLength /\ \A i \in 1 .. length : buffer[i] \in Byte \cup {Blank}
        BY Limits DEF IInv, TypeOK
      <4> QED BY <4>1, SubSeqProperties DEF Content
    <3> QED BY <1>1, <3>1, AppendProperties DEF IInv, TypeOK
  <2>2. Channel!OneMore(delivered, delivered')
    BY <2>1, OneMoreElement
  <2> QED BY <1>1, <1>2, <1>3, <2>2 DEF Channel!Stray, Messages, Contents, Payload
<1>4. CASE ~failed
  <2>1. Frame \in 1 .. Len(written) /\ Content = Payload(Frame) /\ Frame = Len(delivered) + 1
    BY <1>4, PayloadValue DEF Parse, Frame
  <2>2. Len(Messages) = Len(written) /\ Messages[Frame] = Payload(Frame)
    BY <2>1, ContentsAre DEF Messages, Payload, IInv, TypeOK
  <2>3. Len(delivered) < Len(Messages)
    BY <2>1, <2>2, Numbers DEF IInv
  <2>4. delivered' = Append(delivered, Messages[Len(delivered) + 1])
    BY <1>1, <2>1, <2>2
  <2> QED BY <1>1, <1>2, <1>4, <2>3, <2>4 DEF Channel!Deliver, Messages, Contents, Payload
<1> QED BY <1>3, <1>4

\* Every step of the stream is a step of MessageChannel, or changes nothing it
\* speaks of.
LEMMA StepsAreChannelSteps ==
  ASSUME IInv, [Next]_vars
  PROVE  [Channel!Next]_Channel!vars
<1>1. CASE ReceiveFails
  <2>1. UNCHANGED Messages /\ failed' = TRUE /\ UNCHANGED delivered
    BY <1>1 DEF ReceiveFails, writerVars, Messages
  <2> QED BY <2>1 DEF Channel!Next, Channel!Break, Messages, Contents, Payload
<1>2. CASE \/ Send \/ PrefixSent \/ FrameSent \/ SendFails \/ Close \/ Reset
           \/ BeginRead \/ Receive \/ PrefixRead \/ ParseAborts \/ UNCHANGED vars
  <2>1. UNCHANGED <<written, delivered, failed>>
    BY <1>2 DEF Send, Transmit, PrefixSent, FrameSent, SendFails, Close, Reset, BeginRead, Receive, Take, PrefixRead,
                ParseAborts, vars, writerVars, readerVars
  <2> QED BY <2>1 DEF Channel!vars, Payload
<1> QED BY <1>1, <1>2, WriteIsWrite, ParseIsDeliver DEF Next, Writer, Reader, Channel!Next

\* On a blocking socket messages of any sizes arrive whole, once and in order,
\* however they are cut, until recv reports an error.
THEOREM DeliversMessages == ~NonBlocking /\ Safety => ImplementsMessageChannel
<1> SUFFICES ASSUME ~NonBlocking PROVE Safety => ImplementsMessageChannel
  OBVIOUS
<1>1. Init => Channel!Init
  <2> SUFFICES ASSUME Init PROVE Channel!Init
    OBVIOUS
  <2>1. written = <<>> /\ delivered = <<>> /\ failed = FALSE
    BY DEF Init
  <2>2. written \in Seq(Sizes) /\ Len(written) = 0
    BY <2>1, EmptySeq
  <2>3. Messages = <<>>
    BY <2>2, ContentsAre, EmptySeq DEF Messages
  <2> QED BY <2>1, <2>3, MessagesAre DEF Channel!Init
<1>2. IInv /\ [Next]_vars => [Channel!Next]_Channel!vars
  BY StepsAreChannelSteps
<1> QED BY <1>1, <1>2, Invariance, PTL DEF Safety, ImplementsMessageChannel, Channel!Spec
=============================================================================
