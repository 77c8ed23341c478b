------------------------- MODULE NetSession_proofs -------------------------
(***************************************************************************)
(* Proofs about the sessions of a server, for every number of connections, *)
(* every byte format and whatever the peers send.                          *)
(***************************************************************************)
EXTENDS NetSession, SequenceTheorems, NatLemmas, TLAPS

-----------------------------------------------------------------------------
(* The bytes of frames and plans.                                          *)

\* The function f gives the bytes of the first frames of p, up to k of them.
SentTo(p, k, f) ==
    f = [i \in 0..k |-> IF i = 0 THEN <<>> ELSE f[i - 1] \o FrameBytes(p[i])]

\* There is such a function for any bound.
LEMMA SentExists ==
    ASSUME NEW p, NEW k \in Nat
    PROVE  \E f : SentTo(p, k, f)
<1> DEFINE T == {n \in 0..k : \E f : SentTo(p, n, f)}
<1>1. 0 \in T
  <2> DEFINE f == [i \in 0..0 |-> <<>>]
  <2>1. SentTo(p, 0, f)
    BY DEF SentTo
  <2> QED
    BY <2>1
<1>2. ASSUME NEW n \in 0..k, n \in T, n < k
      PROVE  n + 1 \in T
  <2>1. PICK f : SentTo(p, n, f)
    BY <1>2
  <2> DEFINE g == [i \in 0..(n + 1) |->
                     IF i = 0 THEN <<>> ELSE f[i - 1] \o FrameBytes(p[i])]
  <2>2. \A i \in 0..n : f[i] = IF i = 0 THEN <<>> ELSE f[i - 1] \o FrameBytes(p[i])
    BY <2>1, Zenon DEF SentTo
  <2>3. \A i \in 0..n : g[i] = f[i]
    BY <2>2
  <2>4. g = [i \in 0..(n + 1) |->
                     IF i = 0 THEN <<>> ELSE g[i - 1] \o FrameBytes(p[i])]
    <3>1. \A i \in 0..(n + 1) : i # 0 => i - 1 \in 0..n
      OBVIOUS
    <3>2. \A i \in 0..(n + 1) : i # 0 => f[i - 1] = g[i - 1]
      BY <2>3, <3>1
    <3> DEFINE D == 0..(n + 1)
               h == [i \in D |-> IF i = 0 THEN <<>> ELSE g[i - 1] \o FrameBytes(p[i])]
    <3>3. \A i \in D : g[i] = h[i]
      BY <3>2
    <3>4. g = [i \in D |-> g[i]] /\ h = [i \in D |-> h[i]]
      OBVIOUS
    <3>5. g = h
      <4> HIDE DEF D, g, h
      <4> QED
        BY <3>3, <3>4
    <3> QED
      BY <3>5
  <2>5. SentTo(p, n + 1, g)
    BY ONLY <2>4 DEF SentTo
  <2>6. n + 1 \in 0..k
    BY <1>2
  <2> HIDE DEF g
  <2> QED
    BY <2>5, <2>6
<1>3. k \in T
  <2> HIDE DEF T
  <2> QED
    BY <1>1, <1>2, UpToInduction
<1> QED
  BY <1>3

\* So Sent is it.
LEMMA SentIs ==
    ASSUME NEW p \in Seq(Frames)
    PROVE  SentTo(p, Len(p), Sent(p))
<1>1. Len(p) \in Nat
  OBVIOUS
<1>2. \E f : SentTo(p, Len(p), f)
  BY <1>1, SentExists
<1>3. Sent(p) = CHOOSE f : SentTo(p, Len(p), f)
  BY DEF Sent, SentTo
<1> QED
  BY <1>2, <1>3, Zenon

\* The recursion equations of Sent.
LEMMA SentStep ==
    ASSUME NEW p \in Seq(Frames)
    PROVE  /\ Sent(p)[0] = <<>>
           /\ \A i \in 1..Len(p) : Sent(p)[i] = Sent(p)[i - 1] \o FrameBytes(p[i])
<1>1. Len(p) \in Nat
  OBVIOUS
<1>2. \A i \in 0..Len(p) :
          Sent(p)[i] = IF i = 0 THEN <<>> ELSE Sent(p)[i - 1] \o FrameBytes(p[i])
  BY SentIs, Zenon DEF SentTo
<1>3. 0 \in 0..Len(p) /\ \A i \in 1..Len(p) : i \in 0..Len(p) /\ i # 0
  BY <1>1
<1> QED
  BY <1>2, <1>3, Zenon

\* Concatenation of bytes is associative and can be cancelled.
LEMMA ByteConcat ==
    \A a, b, c \in Seq(Byte) :
        (a \o b) \o c = a \o (b \o c) /\ a \o b \in Seq(Byte)
<1> TAKE a, b, c \in Seq(Byte)
<1> QED
  BY ConcatAssociative, ConcatProperties

LEMMA ByteCancel ==
    \A a, b, c \in Seq(Byte) : a \o b = a \o c => b = c
<1> TAKE a, b, c \in Seq(Byte)
<1>1. \A S : \A s, t, v \in Seq(S) : s \o t = s \o v => t = v
  BY ConcatSimplifications
<1> QED
  BY <1>1

\* A byte has at least two values.
LEMMA BaseFacts == Base \in Nat /\ Base > 1
BY FormatAssumption

\* A number and its last digit.
LEMMA Division ==
    ASSUME NEW n \in Nat
    PROVE  /\ n \div Base \in Nat /\ n % Base \in Byte
           /\ n = (n \div Base) * Base + (n % Base)
<1>1. n \div Base \in Nat /\ n % Base \in 0..(Base - 1)
  BY BaseFacts
<1>2. n = Base * (n \div Base) + (n % Base)
  BY BaseFacts
<1>3. ASSUME NEW k \in Nat PROVE k * Base = Base * k
  BY BaseFacts
<1> QED
  BY <1>1, <1>2, <1>3 DEF Byte

\* A length is written as four bytes.
LEMMA DigitsType ==
    ASSUME NEW n \in Nat
    PROVE  Digits(n) \in Seq(Byte) /\ Len(Digits(n)) = 4
<1> DEFINE n1 == n \div Base  n2 == n1 \div Base
           a == (n2 \div Base) % Base  b == n2 % Base
           c == n1 % Base  d == n % Base
<1>1. n1 \in Nat
  BY Division
<1>2. n2 \in Nat
  BY <1>1, Division
<1>3. a \in Byte /\ b \in Byte /\ c \in Byte /\ d \in Byte
  BY <1>1, <1>2, Division
<1>4. Digits(n) = <<a, b, c, d>>
  BY DEF Digits
<1> HIDE DEF a, b, c, d
<1> QED
  BY <1>3, <1>4

\* decode() reads the number that a peer wrote.
LEMMA NumberDigits ==
    ASSUME NEW n \in 0..(UintRange - 1)
    PROVE  Number(Digits(n)) = n
<1> DEFINE n1 == n \div Base  n2 == n1 \div Base  n3 == n2 \div Base
<1>0. n \in Nat /\ Base \in Nat /\ Base > 1
  BY FormatAssumption
<1>1. n1 \in Nat /\ n = n1 * Base + (n % Base) /\ n % Base \in Nat
  BY <1>0, Division DEF Byte
<1>2. n2 \in Nat /\ n1 = n2 * Base + (n1 % Base) /\ n1 % Base \in Nat
  BY <1>1, Division DEF Byte
<1>3. n3 \in Nat /\ n2 = n3 * Base + (n2 % Base) /\ n2 % Base \in Nat
  BY <1>2, Division DEF Byte
<1>4. Number(Digits(n)) = (((n3 % Base) * Base + (n2 % Base)) * Base + (n1 % Base)) * Base + (n % Base)
  <2>1. Digits(n) = <<n3 % Base, n2 % Base, n1 % Base, n % Base>>
    BY Zenon DEF Digits
  <2> HIDE DEF n1, n2, n3
  <2> QED
    BY <2>1 DEF Number
<1> HIDE DEF n1, n2, n3
<1>5. n3 < Base
  <2> SUFFICES ASSUME n3 >= Base PROVE FALSE
    BY <1>0, <1>3
  <2>0. ASSUME NEW x \in Nat, NEW y \in Nat, x >= y
        PROVE  x * Base \in Nat /\ y * Base \in Nat /\ x * Base >= y * Base
    <3>1. x * Base \in Nat /\ y * Base \in Nat /\ (x - y) * Base \in Nat
      BY <1>0, <2>0
    <3>2. (x - y) * Base = x * Base - y * Base
      BY <1>0
    <3> QED
      BY <3>1, <3>2
  <2> DEFINE b2 == Base * Base  b3 == b2 * Base
  <2>1. b2 \in Nat /\ n3 * Base >= b2 /\ n3 * Base \in Nat
    BY <1>0, <1>3, <2>0
  <2>2. n2 >= b2
    BY <1>2, <1>3, <2>1
  <2> HIDE DEF b2
  <2>3. b3 \in Nat /\ n2 * Base >= b3 /\ n2 * Base \in Nat
    BY <1>2, <2>0, <2>1, <2>2
  <2>4. n1 >= b3
    BY <1>1, <1>2, <2>3
  <2> HIDE DEF b3
  <2>5. b3 * Base \in Nat /\ n1 * Base >= b3 * Base /\ n1 * Base \in Nat
    BY <1>1, <2>0, <2>3, <2>4
  <2>6. n >= b3 * Base
    BY <1>0, <1>1, <2>5
  <2>7. b3 * Base = UintRange
    BY DEF b2, b3, UintRange
  <2> QED
    BY <2>5, <2>6, <2>7
<1>6. n3 % Base = n3
  BY <1>0, <1>3, <1>5
<1> QED
  BY <1>1, <1>2, <1>3, <1>4, <1>6

\* The bytes of a frame, one by one.
LEMMA FrameType ==
    ASSUME NEW f \in Frames
    PROVE  /\ FrameBytes(f) \in Seq(Byte)
           /\ Len(FrameBytes(f)) = 6 + Len(f.body)
           /\ FrameBytes(f)[1] = f.head
           /\ \A i \in 1..4 : FrameBytes(f)[i + 1] = Digits(f.size)[i]
           /\ \A i \in 1..Len(f.body) : FrameBytes(f)[i + 5] = f.body[i]
           /\ FrameBytes(f)[6 + Len(f.body)] = f.tail
<1> DEFINE a == <<f.head>>  b == Digits(f.size)  c == f.body  d == <<f.tail>>
<1>0. f.head \in Byte /\ f.size \in Nat /\ f.body \in Seq(Byte) /\ f.tail \in Byte
  BY DEF Frames
<1>1. /\ a \in Seq(Byte) /\ Len(a) = 1 /\ a[1] = f.head
      /\ c \in Seq(Byte) /\ Len(c) \in Nat
      /\ d \in Seq(Byte) /\ Len(d) = 1 /\ d[1] = f.tail
  BY <1>0
<1>2. b \in Seq(Byte) /\ Len(b) = 4
  BY <1>0, DigitsType
<1>3. FrameBytes(f) = ((a \o b) \o c) \o d
  BY DEF FrameBytes
<1> HIDE DEF a, b, c, d
<1> DEFINE ab == a \o b  abc == ab \o c
<1>4. /\ ab \in Seq(Byte) /\ Len(ab) = Len(a) + Len(b)
      /\ \A i \in 1..(Len(a) + Len(b)) : ab[i] = IF i <= Len(a) THEN a[i] ELSE b[i - Len(a)]
  BY <1>1, <1>2, ConcatProperties, Zenon
<1> HIDE DEF ab
<1>5. /\ abc \in Seq(Byte) /\ Len(abc) = Len(ab) + Len(c)
      /\ \A i \in 1..(Len(ab) + Len(c)) :
            abc[i] = IF i <= Len(ab) THEN ab[i] ELSE c[i - Len(ab)]
  <2>1. ab \in Seq(Byte) /\ c \in Seq(Byte)
    BY <1>1, <1>4
  <2> QED
    BY ONLY <2>1, ConcatProperties, Zenon DEF abc
<1> HIDE DEF abc
<1>6. /\ FrameBytes(f) \in Seq(Byte) /\ Len(FrameBytes(f)) = Len(abc) + Len(d)
      /\ \A i \in 1..(Len(abc) + Len(d)) :
            FrameBytes(f)[i] = IF i <= Len(abc) THEN abc[i] ELSE d[i - Len(abc)]
  <2>1. FrameBytes(f) = abc \o d
    BY <1>3 DEF ab, abc
  <2> QED
    <3>1. abc \in Seq(Byte) /\ d \in Seq(Byte)
      BY <1>1, <1>5
    <3>2. /\ abc \o d \in Seq(Byte) /\ Len(abc \o d) = Len(abc) + Len(d)
          /\ \A i \in 1..(Len(abc) + Len(d)) :
                (abc \o d)[i] = IF i <= Len(abc) THEN abc[i] ELSE d[i - Len(abc)]
      BY ONLY <3>1, ConcatProperties, Zenon
    <3> QED
      BY ONLY <2>1, <3>2, Zenon
<1> DEFINE w == FrameBytes(f)
<1> HIDE DEF w
<1>7. w[1] = f.head
  BY <1>1, <1>2, <1>4, <1>5, <1>6 DEF w
<1>8. \A i \in 1..4 : w[i + 1] = b[i]
  <2> SUFFICES ASSUME NEW i \in 1..4 PROVE w[i + 1] = b[i]
    OBVIOUS
  <2>1. w[i + 1] = abc[i + 1]
    BY <1>1, <1>2, <1>4, <1>5, <1>6 DEF w
  <2>2. abc[i + 1] = ab[i + 1]
    BY <1>1, <1>2, <1>4, <1>5
  <2>3. ab[i + 1] = b[(i + 1) - 1]
    BY <1>1, <1>2, <1>4
  <2> QED
    BY <2>1, <2>2, <2>3
<1>9. \A i \in 1..Len(c) : w[i + 5] = c[i]
  <2> SUFFICES ASSUME NEW i \in 1..Len(c) PROVE w[i + 5] = c[i]
    OBVIOUS
  <2>1. w[i + 5] = abc[i + 5]
    BY <1>1, <1>2, <1>4, <1>5, <1>6 DEF w
  <2>2. abc[i + 5] = c[(i + 5) - 5]
    BY <1>1, <1>2, <1>4, <1>5
  <2> QED
    BY <2>1, <2>2
<1>10. w[6 + Len(c)] = f.tail
  <2>1. Len(abc) = 5 + Len(c) /\ Len(d) = 1 /\ Len(c) \in Nat
    BY <1>1, <1>2, <1>4, <1>5
  <2>2. w[Len(abc) + 1] = d[(Len(abc) + 1) - Len(abc)]
    BY <1>6, <2>1 DEF w
  <2>3. Len(abc) + 1 = 6 + Len(c) /\ (Len(abc) + 1) - Len(abc) = 1
    BY <2>1
  <2> QED
    BY <1>1, <2>2, <2>3
<1>11. w \in Seq(Byte) /\ Len(w) = 6 + Len(c)
  BY <1>1, <1>2, <1>4, <1>5, <1>6 DEF w
<1> QED
  BY <1>7, <1>8, <1>9, <1>10, <1>11 DEF b, c, w

\* The frames of a plan make up bytes.
LEMMA SentType ==
    ASSUME NEW p \in Seq(Frames)
    PROVE  \A i \in 0..Len(p) : Sent(p)[i] \in Seq(Byte)
<1> DEFINE T == {i \in 0..Len(p) : Sent(p)[i] \in Seq(Byte)}
<1>0. Len(p) \in Nat
  OBVIOUS
<1>1. 0 \in T
  <2>1. Sent(p)[0] \in Seq(Byte)
    BY SentStep, EmptySeq
  <2> QED
    BY <1>0, <2>1
<1>2. ASSUME NEW n \in 0..Len(p), n \in T, n < Len(p)
      PROVE  n + 1 \in T
  <2>1. n + 1 \in 1..Len(p) /\ n + 1 \in 0..Len(p) /\ (n + 1) - 1 = n
    BY <1>2
  <2>2. Sent(p)[n + 1] = Sent(p)[n] \o FrameBytes(p[n + 1])
    BY <2>1, SentStep
  <2>3. FrameBytes(p[n + 1]) \in Seq(Byte)
    BY <2>1, FrameType, ElementOfSeq
  <2>4. Sent(p)[n + 1] \in Seq(Byte)
    BY <1>2, <2>2, <2>3, ConcatProperties
  <2> QED
    BY <2>1, <2>4
<1> HIDE DEF T
<1>3. 0..Len(p) \subseteq T
  BY <1>0, <1>1, <1>2, UpToInduction
<1> QED
  BY <1>3 DEF T

\* The bytes of some frames, and those of the frame behind them.
LEMMA SentNext ==
    ASSUME NEW p \in Seq(Frames), NEW n \in 0..(Len(p) - 1)
    PROVE  /\ n + 1 \in 1..Len(p) /\ p[n + 1] \in Frames
           /\ Sent(p)[n + 1] = Sent(p)[n] \o FrameBytes(p[n + 1])
           /\ Len(Sent(p)[n + 1]) = Len(Sent(p)[n]) + Len(FrameBytes(p[n + 1]))
<1>1. Len(p) \in Nat
  OBVIOUS
<1>2. n + 1 \in 1..Len(p) /\ n \in 0..Len(p) /\ (n + 1) - 1 = n
  BY <1>1
<1>3. p[n + 1] \in Frames
  BY <1>2, ElementOfSeq
<1>4. Sent(p)[n + 1] = Sent(p)[n] \o FrameBytes(p[n + 1])
  BY <1>2, SentStep
<1>5. Sent(p)[n] \in Seq(Byte) /\ FrameBytes(p[n + 1]) \in Seq(Byte)
  BY <1>2, <1>3, SentType, FrameType
<1> QED
  BY <1>2, <1>3, <1>4, <1>5, ConcatProperties

\* The bytes of the first frames begin those of more frames.
LEMMA SentPrefix ==
    ASSUME NEW p \in Seq(Frames), NEW m \in 0..Len(p), NEW n \in 0..m
    PROVE  \E x \in Seq(Byte) : Sent(p)[m] = Sent(p)[n] \o x
<1>0. Len(p) \in Nat /\ n \in Nat /\ n <= m /\ m \in Nat /\ m <= Len(p)
  OBVIOUS
<1> DEFINE k == m - n
           T == {i \in 0..k : \E x \in Seq(Byte) : Sent(p)[n + i] = Sent(p)[n] \o x}
<1>1. k \in Nat /\ n + k = m /\ n + 0 = n /\ 0 \in 0..k
  BY <1>0
<1>2. 0 \in T
  <2>1. Sent(p)[n] = Sent(p)[n] \o <<>> /\ <<>> \in Seq(Byte)
    BY <1>0, SentType, ConcatEmptySeq, EmptySeq
  <2> HIDE DEF k
  <2> QED
    BY <1>1, <2>1
<1>3. ASSUME NEW i \in 0..k, i \in T, i < k
      PROVE  i + 1 \in T
  <2>0. n \in 0..Len(p)
    BY <1>0
  <2>1. PICK x \in Seq(Byte) : Sent(p)[n + i] = Sent(p)[n] \o x
    BY <1>3
  <2>2. n + i \in 0..(Len(p) - 1) /\ (n + i) + 1 = n + (i + 1) /\ i + 1 \in 0..k
    BY <1>0, <1>3
  <2> DEFINE w == FrameBytes(p[n + (i + 1)])
  <2>3. Sent(p)[n + (i + 1)] = (Sent(p)[n] \o x) \o w /\ w \in Seq(Byte)
    BY <2>1, <2>2, SentNext, FrameType
  <2> HIDE DEF w
  <2>4. Sent(p)[n] \in Seq(Byte) /\ x \in Seq(Byte) /\ w \in Seq(Byte)
    BY <2>0, <2>3, SentType
  <2>5. Sent(p)[n + (i + 1)] = Sent(p)[n] \o (x \o w)
    <3>1. (Sent(p)[n] \o x) \o w = Sent(p)[n] \o (x \o w)
      BY ONLY <2>4, ByteConcat
    <3> QED
      BY ONLY <2>3, <3>1, Zenon
  <2>6. x \o w \in Seq(Byte)
    BY <2>3, ConcatProperties
  <2> HIDE DEF k
  <2> QED
    BY <2>2, <2>5, <2>6
<1>4. k \in T
  <2>1. \A i \in 0..k : i \in T /\ i < k => i + 1 \in T
    BY <1>3
  <2> HIDE DEF T, k
  <2>2. 0..k \subseteq T
    BY <1>1, <1>2, <2>1, UpToInduction
  <2> QED
    BY <1>1, <2>2
<1>5. \E x \in Seq(Byte) : Sent(p)[n + k] = Sent(p)[n] \o x
  BY <1>4
<1> QED
  BY <1>1, <1>5, Zenon

\* More frames have more bytes.
LEMMA SentGrows ==
    ASSUME NEW p \in Seq(Frames), NEW m \in 0..Len(p), NEW n \in 0..m
    PROVE  /\ Len(Sent(p)[n]) \in Nat /\ Len(Sent(p)[m]) \in Nat
           /\ Len(Sent(p)[n]) <= Len(Sent(p)[m])
<1>1. PICK x \in Seq(Byte) : Sent(p)[m] = Sent(p)[n] \o x
  BY SentPrefix
<1>2. Sent(p)[n] \in Seq(Byte) /\ Sent(p)[m] \in Seq(Byte)
  BY SentType
<1>3. Len(Sent(p)[m]) = Len(Sent(p)[n]) + Len(x)
  BY <1>1, <1>2, ConcatProperties
<1> QED
  BY <1>2, <1>3

\* And so does a whole plan.
LEMMA PlanType ==
    ASSUME NEW p \in Seq(Frames)
    PROVE  PlanBytes(p) \in Seq(Byte)
<1>1. Len(p) \in 0..Len(p)
  OBVIOUS
<1> QED
  BY <1>1, SentType DEF PlanBytes

\* What is left of a plan's bytes behind some frames begins with the next.
LEMMA NextFrame ==
    ASSUME NEW p \in Seq(Frames), NEW n \in 0..Len(p), NEW y \in Seq(Byte),
           PlanBytes(p) = Sent(p)[n] \o y, Len(y) > 0
    PROVE  /\ n < Len(p) /\ p[n + 1] \in Frames
           /\ \E x \in Seq(Byte) : /\ y = FrameBytes(p[n + 1]) \o x
                                   /\ PlanBytes(p) = Sent(p)[n + 1] \o x
<1>0. Len(p) \in Nat /\ n \in Nat /\ n <= Len(p) /\ Sent(p)[n] \in Seq(Byte)
  BY SentType
<1>1. n < Len(p)
  <2> SUFFICES ASSUME n = Len(p) PROVE FALSE
    BY <1>0
  <2>1. Len(PlanBytes(p)) = Len(Sent(p)[n]) + Len(y)
    BY <1>0, ConcatProperties
  <2> QED
    BY <1>0, <2>1 DEF PlanBytes
<1>2. n \in 0..(Len(p) - 1) /\ n + 1 \in 0..Len(p) /\ Len(p) \in 0..Len(p)
  BY <1>0, <1>1
<1>3. p[n + 1] \in Frames /\ Sent(p)[n + 1] = Sent(p)[n] \o FrameBytes(p[n + 1])
  BY <1>2, SentNext
<1>4. PICK x \in Seq(Byte) : PlanBytes(p) = Sent(p)[n + 1] \o x
  BY <1>2, SentPrefix DEF PlanBytes
<1> DEFINE w == FrameBytes(p[n + 1])
<1>5. w \in Seq(Byte)
  BY <1>3, FrameType
<1>6. PlanBytes(p) = (Sent(p)[n] \o w) \o x
  BY <1>3, <1>4
<1> HIDE DEF w
<1> DEFINE v == Sent(p)[n]
<1>7. v \in Seq(Byte) /\ PlanBytes(p) = v \o y
  BY <1>0
<1> HIDE DEF v
<1>8. y = w \o x
  <2>1. v \o y = v \o (w \o x) /\ w \o x \in Seq(Byte)
    BY <1>5, <1>6, <1>7, ByteConcat DEF v
  <2> QED
    BY <1>7, <2>1, ByteCancel
<1> QED
  BY <1>1, <1>3, <1>4, <1>8 DEF w

\* Two ways to cut the same bytes.
LEMMA Cut ==
    ASSUME NEW a \in Seq(Byte), NEW b \in Seq(Byte), NEW w \in Seq(Byte),
           NEW x \in Seq(Byte), a \o b = w \o x
    PROVE  /\ \A i \in 1..Len(a) : i <= Len(w) => a[i] = w[i]
           /\ Len(w) <= Len(a) => SubSeq(a, Len(w) + 1, Len(a)) \o b = x
<1>1. Len(a) \in Nat /\ Len(b) \in Nat /\ Len(w) \in Nat /\ Len(x) \in Nat
  OBVIOUS
<1>2. /\ Len(a) + Len(b) = Len(w) + Len(x)
      /\ \A i \in 1..(Len(a) + Len(b)) :
            (IF i <= Len(a) THEN a[i] ELSE b[i - Len(a)])
            = (IF i <= Len(w) THEN w[i] ELSE x[i - Len(w)])
  <2>1. /\ Len(a \o b) = Len(a) + Len(b)
        /\ \A i \in 1..(Len(a) + Len(b)) :
              (a \o b)[i] = IF i <= Len(a) THEN a[i] ELSE b[i - Len(a)]
    BY ConcatProperties, Zenon
  <2>2. /\ Len(w \o x) = Len(w) + Len(x)
        /\ \A i \in 1..(Len(w) + Len(x)) :
              (w \o x)[i] = IF i <= Len(w) THEN w[i] ELSE x[i - Len(w)]
    BY ConcatProperties, Zenon
  <2> DEFINE ab == a \o b
  <2>3. w \o x = ab
    OBVIOUS
  <2> HIDE DEF ab
  <2> QED
    BY <2>1, <2>2, <2>3, Zenon DEF ab
<1>3. \A i \in 1..Len(a) : i <= Len(w) => a[i] = w[i]
  BY <1>1, <1>2
<1>4. ASSUME Len(w) <= Len(a)
      PROVE  SubSeq(a, Len(w) + 1, Len(a)) \o b = x
  <2> DEFINE c == SubSeq(a, Len(w) + 1, Len(a))
  <2>1. /\ c \in Seq(Byte) /\ Len(c) = Len(a) - Len(w)
        /\ \A i \in 1..Len(c) : c[i] = a[Len(w) + i]
    BY <1>1, <1>4
  <2> HIDE DEF c
  <2>2. /\ c \o b \in Seq(Byte) /\ Len(c \o b) = Len(c) + Len(b)
        /\ \A i \in 1..(Len(c) + Len(b)) :
              (c \o b)[i] = IF i <= Len(c) THEN c[i] ELSE b[i - Len(c)]
    BY <2>1, ConcatProperties
  <2>3. Len(c \o b) = Len(x)
    BY <1>1, <1>2, <2>1, <2>2
  <2>4. ASSUME NEW i \in 1..Len(x) PROVE (c \o b)[i] = x[i]
    <3>1. /\ Len(w) + i \in 1..(Len(a) + Len(b)) /\ ~ (Len(w) + i <= Len(w))
          /\ (Len(w) + i) - Len(w) = i /\ i \in 1..(Len(c) + Len(b))
      BY <1>1, <1>2, <2>2, <2>3
    <3>2. x[i] = IF Len(w) + i <= Len(a) THEN a[Len(w) + i] ELSE b[(Len(w) + i) - Len(a)]
      BY <1>2, <3>1
    <3>3. (c \o b)[i] = IF i <= Len(c) THEN c[i] ELSE b[i - Len(c)]
      BY <2>2, <3>1
    <3>4. /\ Len(w) + i <= Len(a) <=> i <= Len(c)
          /\ (Len(w) + i) - Len(a) = i - Len(c)
          /\ i <= Len(c) => i \in 1..Len(c)
      BY <1>1, <2>1
    <3> QED
      BY <2>1, <3>2, <3>3, <3>4
  <2>5. c \o b = x
    BY <2>2, <2>3, <2>4, SeqEqual
  <2> QED
    BY <2>5 DEF c
<1> QED
  BY <1>3, <1>4

\* The header of a frame in a buffer.
LEMMA HeaderRead ==
    ASSUME NEW f \in Frames, NEW a \in Seq(Byte), NEW b \in Seq(Byte),
           NEW x \in Seq(Byte), a \o b = FrameBytes(f) \o x, Len(a) >= 6
    PROVE  a[1] = f.head /\ Number(SubSeq(a, 2, 5)) = f.size
<1> DEFINE w == FrameBytes(f)
<1>1. /\ w \in Seq(Byte) /\ Len(w) = 6 + Len(f.body) /\ w[1] = f.head
      /\ \A i \in 1..4 : w[i + 1] = Digits(f.size)[i]
  BY FrameType
<1>2. f.size \in 0..(UintRange - 1) /\ Len(f.body) \in Nat
  BY DEF Frames
<1>3. \A i \in 1..Len(a) : i <= Len(w) => a[i] = w[i]
  <2> HIDE DEF w
  <2> QED
    BY <1>1, Cut DEF w
<1> HIDE DEF w
<1>4. a[1] = w[1] /\ a[2] = w[2] /\ a[3] = w[3] /\ a[4] = w[4] /\ a[5] = w[5]
  <2>1. Len(a) \in Nat /\ Len(w) >= 6
    BY <1>1, <1>2
  <2>2. \A i \in 1..5 : i \in 1..Len(a) /\ i <= Len(w)
    BY <2>1
  <2>3. \A i \in 1..5 : a[i] = w[i]
    BY <1>3, <2>2
  <2> QED
    BY <2>3
<1>5. /\ w[2] = Digits(f.size)[1] /\ w[3] = Digits(f.size)[2]
      /\ w[4] = Digits(f.size)[3] /\ w[5] = Digits(f.size)[4]
  BY <1>1
<1> DEFINE h == SubSeq(a, 2, 5)
<1>6. h[1] = a[2] /\ h[2] = a[3] /\ h[3] = a[4] /\ h[4] = a[5]
  OBVIOUS
<1> HIDE DEF h
<1>7. Number(h) = Number(Digits(f.size))
  BY <1>4, <1>5, <1>6 DEF Number
<1> QED
  BY <1>1, <1>2, <1>4, <1>7, NumberDigits DEF h

\* What is in a buffer behind the header.
Behind(a) == SubSeq(a, 6, Len(a))

\* The body and the tail of f follow there, then x with its end in b.
BodyAt(f, a, b, x) ==
    /\ Len(Behind(a)) = Len(a) - 5
    /\ SubSeq(Behind(a), 1, Len(f.body)) = f.body
    /\ Behind(a)[Len(f.body) + 1] = f.tail
    /\ SubSeq(Behind(a), Len(f.body) + 2, Len(Behind(a))) \o b = x

\* The body and the tail of a frame in a buffer, and what is behind it.
LEMMA BodyRead ==
    ASSUME NEW f \in Frames, NEW a \in Seq(Byte), NEW b \in Seq(Byte),
           NEW x \in Seq(Byte), a \o b = FrameBytes(f) \o x,
           Len(a) >= 6 + Len(f.body)
    PROVE  BodyAt(f, a, b, x)
<1> DEFINE w == FrameBytes(f)
           k == Len(f.body)
           r == Behind(a)
<1>0. f.body \in Seq(Byte) /\ k \in Nat /\ Len(a) \in Nat
  BY DEF Frames
<1>1. /\ w \in Seq(Byte) /\ Len(w) = 6 + k /\ w[6 + k] = f.tail
      /\ \A i \in 1..k : w[i + 5] = f.body[i]
  BY FrameType
<1>2. /\ \A i \in 1..Len(a) : i <= Len(w) => a[i] = w[i]
      /\ Len(w) <= Len(a) => SubSeq(a, Len(w) + 1, Len(a)) \o b = x
  <2> HIDE DEF w
  <2> QED
    BY <1>1, Cut DEF w
<1> HIDE DEF w, k
<1>3. /\ r \in Seq(Byte) /\ Len(r) = Len(a) - 5
      /\ \A i \in 1..Len(r) : r[i] = a[i + 5]
  BY <1>0 DEF Behind
<1>4. Len(a) >= 6 + k
  BY DEF k
<1> HIDE DEF r
<1>5. r[k + 1] = f.tail
  BY <1>0, <1>1, <1>2, <1>3, <1>4
<1>6. SubSeq(r, 1, k) = f.body
  <2> DEFINE c == SubSeq(r, 1, k)
  <2>1. c \in Seq(Byte) /\ Len(c) = k /\ \A i \in 1..k : c[i] = r[i]
    BY <1>0, <1>3, <1>4
  <2> HIDE DEF c
  <2>2. ASSUME NEW i \in 1..k PROVE c[i] = f.body[i]
    <3>1. i \in 1..Len(r) /\ i + 5 \in 1..Len(a) /\ i + 5 <= Len(w)
      BY <1>0, <1>1, <1>3, <1>4
    <3>2. c[i] = a[i + 5] /\ a[i + 5] = w[i + 5]
      BY <1>2, <1>3, <2>1, <3>1
    <3> QED
      BY <1>1, <3>2
  <2>3. c = f.body
    BY <1>0, <2>1, <2>2, SeqEqual DEF k
  <2> QED
    BY <2>3 DEF c
<1>7. SubSeq(r, k + 2, Len(r)) = SubSeq(a, Len(w) + 1, Len(a))
  <2> DEFINE c == SubSeq(r, k + 2, Len(r))
             d == SubSeq(a, Len(w) + 1, Len(a))
  <2>1. /\ c \in Seq(Byte) /\ Len(c) = Len(a) - (6 + k)
        /\ \A i \in 1..Len(c) : c[i] = r[k + 1 + i]
    BY <1>0, <1>3, <1>4
  <2>2. /\ d \in Seq(Byte) /\ Len(d) = Len(a) - (6 + k)
        /\ \A i \in 1..Len(d) : d[i] = a[k + 6 + i]
    BY <1>0, <1>1, <1>4
  <2> HIDE DEF c, d
  <2>3. ASSUME NEW i \in 1..Len(c) PROVE c[i] = d[i]
    <3>1. c[i] = r[k + 1 + i] /\ d[i] = a[k + 6 + i]
      BY <2>1, <2>2
    <3>2. k + 1 + i \in 1..Len(r) /\ (k + 1 + i) + 5 = k + 6 + i
      BY <1>0, <1>3, <1>4, <2>1
    <3> QED
      BY <1>3, <3>1, <3>2
  <2>4. c = d
    BY <2>1, <2>2, <2>3, SeqEqual
  <2> QED
    BY <2>4 DEF c, d
<1>8. SubSeq(r, k + 2, Len(r)) \o b = x
  BY <1>0, <1>1, <1>2, <1>4, <1>7
<1> QED
  BY <1>3, <1>5, <1>6, <1>8 DEF r, k, BodyAt

-----------------------------------------------------------------------------
(* The tables, the buffers and the types.                                  *)

\* A length field holds an unsigned int.
LEMMA NumberRange ==
    ASSUME NEW b \in Seq(Byte), Len(b) = 4
    PROVE  Number(b) \in 0..(UintRange - 1)
<1> USE FormatAssumption
<1>1. b[1] \in Byte /\ b[2] \in Byte /\ b[3] \in Byte /\ b[4] \in Byte
  <2>1. \A i \in 1..4 : b[i] \in Byte
    BY ONLY b \in Seq(Byte), Len(b) = 4, ElementOfSeq
  <2> QED
    BY ONLY <2>1, SMT
<1>2. ASSUME NEW r \in Nat \ {0}, NEW x \in 0..(r - 1), NEW y \in Byte
      PROVE  x * Base + y \in 0..(r * Base - 1) /\ r * Base \in Nat \ {0}
  <2>1. x * Base \in Nat /\ r * Base \in Nat /\ (r - 1 - x) * Base \in Nat
    OBVIOUS
  <2>2. (r - 1 - x) * Base = r * Base - Base - x * Base
    OBVIOUS
  <2>3. r * Base \in Nat \ {0}
    OBVIOUS
  <2> QED
    BY <2>1, <2>2, <2>3 DEF Byte
<1>3. b[1] * Base + b[2] \in 0..(Base * Base - 1) /\ Base * Base \in Nat \ {0}
  BY <1>1, <1>2 DEF Byte
<1>4. /\ (b[1] * Base + b[2]) * Base + b[3] \in 0..(Base * Base * Base - 1)
      /\ Base * Base * Base \in Nat \ {0}
  BY <1>1, <1>2, <1>3
<1> QED
  BY <1>1, <1>2, <1>4 DEF Number, UintRange

\* What decode() takes from a buffer are sequences of bytes, and the length
\* at hand is an unsigned int.
LEMMA DecodeTypes ==
    ASSUME StreamsOK, NEW s \in Sessions, Looping(s)
    PROVE  /\ Length(s) \in 0..(UintRange - 1)
           /\ Rest(s) \in Seq(Byte) /\ Body(s) \in Seq(Byte)
           /\ SubSeq(Rest(s), Length(s) + 2, Len(Rest(s))) \in Seq(Byte)
<1> USE FormatAssumption
<1>0. input[s] \in Seq(Byte) /\ packLen_[s] \in 0..(UintRange - 1)
  BY DEF StreamsOK
<1>1. UintRange \in Nat /\ UintRange > 6
  BY DEF UintRange
<1>2. Length(s) \in 0..(UintRange - 1)
  <2>1. CASE packLen_[s] # 0
    BY <1>0, <2>1 DEF Length
  <2>2. CASE packLen_[s] = 0
    <3>1. Need(0) = 6
      BY <1>1 DEF Need, HeaderLen, TailLen
    <3>2. Len(input[s]) >= 6
      BY <2>2, <3>1 DEF Looping
    <3>3. SubSeq(input[s], 2, 5) \in Seq(Byte) /\ Len(SubSeq(input[s], 2, 5)) = 4
      BY <1>0, <3>2, SubSeqProperties
    <3> QED
      BY <2>2, <3>3, NumberRange DEF Length
  <2> QED
    BY <2>1, <2>2
<1>3. Rest(s) \in Seq(Byte)
  BY <1>0, SubSeqProperties DEF Rest, HeaderLen
<1>4. Body(s) \in Seq(Byte)
  BY <1>1, <1>2, <1>3, SubSeqProperties DEF Body
<1>5. SubSeq(Rest(s), Length(s) + 2, Len(Rest(s))) \in Seq(Byte)
  BY <1>1, <1>2, <1>3, SubSeqProperties
<1> QED
  BY <1>2, <1>3, <1>4, <1>5

\* The server before its first connection satisfies the invariant.
LEMMA InitIInv == Init => IInv
<1> SUFFICES ASSUME Init PROVE IInv
    OBVIOUS
<1> USE DEF Init
<1>1. TypeOK
  BY FormatAssumption, SessionsAssumption, EmptySeq
     DEF TypeOK, TablesOK, StreamsOK, HistoryOK, BodiesOK, Statuses, Reasons,
         Sessions, UintRange, Byte
<1>2. SessionsAccounted /\ StatusInv
  BY SessionsAssumption DEF SessionsAccounted, StatusInv, Sessions
<1>3. DecodingInv /\ ReasonInv /\ LateMessageCause /\ FreshInv
  BY DEF DecodingInv, ReasonInv, LateMessageCause, FreshInv
<1>4. StreamInv
  BY EmptySeq DEF StreamInv, InStep
<1> QED
  BY <1>1, <1>2, <1>3, <1>4 DEF IInv

\* ScriptCloses finds no session, so it only notes the request.
LEMMA ScriptClosesNothing ==
    ASSUME NEW s \in Sessions, ScriptCloses(s)
    PROVE  /\ UNCHANGED <<tables, streams, plan, told, delivered, late, closedBy>>
           /\ asked' = asked \cup {s}
BY DEF ScriptCloses, GetSession, quiet, tables, streams

\* What decode() does to the tables: nothing, or it closes its session.
LEMMA DecodeEffect ==
    ASSUME NEW s \in Sessions, Decode(s)
    PROVE  /\ decoding = s /\ (decoding' = 0 \/ decoding' = s)
           /\ UNCHANGED <<sessionID_, deleted, wire, plan, asked>>
           /\ \/ UNCHANGED quiet
              \/ \E reason \in {"head", "length", "tail"} : Close(s, reason)
<1>1. CASE DecodeWaits(s)
  BY <1>1, Zenon DEF DecodeWaits, EndDecode, tables, quiet
<1>2. CASE BadHeader(s)
  BY <1>2, Zenon DEF BadHeader, Looping, EndDecode
<1>3. CASE BadLength(s)
  BY <1>3, Zenon DEF BadLength, Looping, EndDecode
<1>4. CASE BodyIncomplete(s)
  BY <1>4, Zenon DEF BodyIncomplete, Looping, EndDecode, tables, quiet
<1>5. CASE TakePacket(s)
  BY <1>5, Zenon DEF TakePacket, BodyComplete, Looping, tables, quiet
<1>6. CASE BadTail(s)
  BY <1>6, Zenon DEF BadTail, BodyComplete, Looping, EndDecode
<1> QED
  BY <1>1, <1>2, <1>3, <1>4, <1>5, <1>6 DEF Decode

\* Every step keeps the types of the tables and of the history.
LEMMA TablesStep == IInv /\ [Next]_vars => TablesOK' /\ HistoryOK'
<1> SUFFICES ASSUME TablesOK, HistoryOK, [Next]_vars
             PROVE  TablesOK' /\ HistoryOK'
    BY DEF IInv, TypeOK
<1> USE SessionsAssumption DEF TablesOK, HistoryOK, Sessions, Statuses, Reasons
<1>1. CASE Accept
  BY <1>1 DEF Accept
<1>2. CASE Update
  BY <1>2 DEF Update, streams
<1>3. ASSUME NEW s \in Sessions, NEW reason \in Reasons, Close(s, reason),
             UNCHANGED <<sessionID_, deleted, asked>>,
             decoding' = decoding \/ decoding' = 0
      PROVE  TablesOK' /\ HistoryOK'
  <2>1. status_' \in [Sessions -> Statuses] /\ closedBy' \in [Sessions -> Reasons]
    BY <1>3 DEF Close
  <2>2. \/ UNCHANGED <<told, toFree, sessionMap_>>
        \/ /\ told' = [told EXCEPT ![s] = "disconnected"]
           /\ toFree' = [toFree EXCEPT ![s] = @ + 1]
           /\ sessionMap_' = sessionMap_ \ {s}
    BY <1>3, Zenon DEF Close
  <2>3. decoding' \in 0..MaxSessions
    BY <1>3
  <2>4. CASE UNCHANGED <<told, toFree, sessionMap_>>
    BY <1>3, <2>1, <2>3, <2>4
  <2>5. CASE /\ told' = [told EXCEPT ![s] = "disconnected"]
             /\ toFree' = [toFree EXCEPT ![s] = @ + 1]
             /\ sessionMap_' = sessionMap_ \ {s}
    BY <1>3, <2>1, <2>3, <2>5
  <2> QED
    BY <2>2, <2>4, <2>5
<1>4. ASSUME NEW s \in Sessions, Receive(s)
      PROVE  TablesOK' /\ HistoryOK'
  BY <1>4 DEF Receive, tables
<1>5. ASSUME NEW s \in Sessions, HangUp(s)
      PROVE  TablesOK' /\ HistoryOK'
  BY <1>3, <1>5, Zenon DEF HangUp
<1>6. ASSUME NEW s \in Sessions, Decode(s)
      PROVE  TablesOK' /\ HistoryOK'
  <2>0. /\ UNCHANGED <<sessionID_, deleted, asked>>
        /\ decoding' = decoding \/ decoding' = 0
    BY <1>6, DecodeEffect, Zenon
  <2>1. CASE UNCHANGED quiet
    BY <2>0, <2>1 DEF quiet
  <2>2. CASE \E reason \in {"head", "length", "tail"} : Close(s, reason)
    BY <1>3, <2>0, <2>2
  <2> QED
    BY <1>6, <2>1, <2>2, DecodeEffect
<1>7. ASSUME NEW s \in Sessions, ScriptCloses(s)
      PROVE  TablesOK' /\ HistoryOK'
  BY <1>7, ScriptClosesNothing DEF tables, streams
<1>8. CASE UNCHANGED vars
  BY <1>8 DEF vars
<1> QED
  BY <1>1, <1>2, <1>4, <1>5, <1>6, <1>7, <1>8 DEF Next

\* Every step keeps buffers of bytes and lengths of unsigned ints.
LEMMA StreamsStep == IInv /\ [Next]_vars => StreamsOK'
<1> SUFFICES ASSUME StreamsOK, TablesOK, [Next]_vars PROVE StreamsOK'
    BY DEF IInv, TypeOK
<1> USE DEF tables, streams
<1>1. CASE Accept
  <2>1. PICK p \in Plans :
            wire' = [wire EXCEPT ![sessionID_ + 1] = PlanBytes(p)]
    BY <1>1 DEF Accept
  <2>2. PlanBytes(p) \in Seq(Byte)
    BY PlansAssumption, PlanType
  <2> QED
    BY <1>1, <2>1, <2>2 DEF Accept, StreamsOK
<1>2. CASE Update
  BY <1>2 DEF Update, StreamsOK
<1>3. ASSUME NEW s \in Sessions, Receive(s)
      PROVE  StreamsOK'
  <2>1. PICK n \in 1..Len(wire[s]) :
            /\ input' = [input EXCEPT ![s] = @ \o SubSeq(wire[s], 1, n)]
            /\ wire' = [wire EXCEPT ![s] = SubSeq(@, n + 1, Len(@))]
    BY <1>3 DEF Receive
  <2>2. wire[s] \in Seq(Byte) /\ input[s] \in Seq(Byte)
    BY DEF StreamsOK
  <2>3. SubSeq(wire[s], 1, n) \in Seq(Byte)
    BY <2>2, SubSeqProperties, ElementOfSeq
  <2>4. SubSeq(wire[s], n + 1, Len(wire[s])) \in Seq(Byte)
    BY <2>2, SubSeqProperties, ElementOfSeq
  <2>5. input[s] \o SubSeq(wire[s], 1, n) \in Seq(Byte)
    BY <2>2, <2>3, ConcatProperties
  <2> QED
    BY <1>3, <2>1, <2>4, <2>5 DEF Receive, StreamsOK
<1>4. ASSUME NEW s \in Sessions, HangUp(s)
      PROVE  StreamsOK'
  BY <1>4, EmptySeq DEF HangUp, StreamsOK
<1>5. ASSUME NEW s \in Sessions, Decode(s)
      PROVE  StreamsOK'
  <2>1. CASE DecodeWaits(s)
    BY <2>1 DEF DecodeWaits, StreamsOK
  <2>2. CASE BadHeader(s)
    BY <2>2 DEF BadHeader, StreamsOK
  <2>3. CASE BadLength(s)
    BY <2>3, DecodeTypes DEF BadLength, StreamsOK
  <2>4. CASE BodyIncomplete(s)
    BY <2>4, DecodeTypes DEF BodyIncomplete, StreamsOK
  <2>5. CASE TakePacket(s)
    <3>1. 0 \in 0..(UintRange - 1)
      BY FormatAssumption DEF UintRange
    <3> QED
      BY <2>5, <3>1, DecodeTypes DEF TakePacket, BodyComplete, StreamsOK
  <2>6. CASE BadTail(s)
    BY <2>6, DecodeTypes, EmptySeq DEF BadTail, BodyComplete, StreamsOK
  <2> QED
    BY <1>5, <2>1, <2>2, <2>3, <2>4, <2>5, <2>6 DEF Decode
<1>6. ASSUME NEW s \in Sessions, ScriptCloses(s)
      PROVE  StreamsOK'
  BY <1>6, ScriptClosesNothing DEF StreamsOK
<1>7. CASE UNCHANGED vars
  BY <1>7 DEF vars, StreamsOK
<1> QED
  BY <1>1, <1>2, <1>3, <1>4, <1>5, <1>6, <1>7 DEF Next

\* Every step gives the script sequences of bytes.
LEMMA BodiesStep == IInv /\ [Next]_vars => BodiesOK'
<1> SUFFICES ASSUME BodiesOK, StreamsOK, [Next]_vars PROVE BodiesOK'
    BY DEF IInv, TypeOK
<1>1. ASSUME NEW s \in Sessions, TakePacket(s)
      PROVE  BodiesOK'
  <2>1. Body(s) \in Seq(Byte)
    BY <1>1, DecodeTypes DEF TakePacket, BodyComplete
  <2>2. /\ Append(delivered[s], Body(s)) \in Seq(Seq(Byte))
        /\ Append(late[s], Body(s)) \in Seq(Seq(Byte))
    BY <2>1, AppendProperties DEF BodiesOK
  <2>3. delivered' \in {delivered, [delivered EXCEPT ![s] = Append(@, Body(s))]}
    BY <1>1, Zenon DEF TakePacket, Deliver
  <2>4. late' \in {late, [late EXCEPT ![s] = Append(@, Body(s))]}
    BY <1>1, Zenon DEF TakePacket, Deliver
  <2>5. UNCHANGED plan
    BY <1>1, Zenon DEF TakePacket
  <2> QED
    BY <2>2, <2>3, <2>4, <2>5 DEF BodiesOK
<1>2. ASSUME NEW s \in Sessions, Decode(s), ~TakePacket(s)
      PROVE  BodiesOK'
  BY <1>2 DEF Decode, DecodeWaits, BadHeader, BadLength, BodyIncomplete,
              BadTail, BodiesOK
<1>3. ASSUME NEW s \in Sessions, Receive(s) \/ HangUp(s) \/ ScriptCloses(s)
      PROVE  BodiesOK'
  BY <1>3 DEF Receive, HangUp, ScriptCloses, BodiesOK
<1>4. CASE Accept
  <2>1. PICK p \in Plans : plan' = [plan EXCEPT ![sessionID_ + 1] = p]
    BY <1>4 DEF Accept
  <2>2. p \in Seq(Frames)
    BY PlansAssumption
  <2>3. UNCHANGED <<delivered, late>>
    BY <1>4 DEF Accept
  <2> QED
    BY <2>1, <2>2, <2>3 DEF BodiesOK
<1>5. CASE Update \/ UNCHANGED vars
  BY <1>5 DEF Update, vars, BodiesOK
<1> QED
  BY <1>1, <1>2, <1>3, <1>4, <1>5 DEF Next

\* The session of a running decode() exists.
LEMMA DecodingExists ==
    ASSUME IInv, NEW s \in Sessions, decoding = s \/ CanCallBack(s)
    PROVE  /\ s <= sessionID_ /\ deleted[s] = 0 /\ sessionID_ \in Nat
           /\ status_[s] \in {"OK", "CLOSED"}
BY SessionsAssumption
   DEF IInv, TypeOK, TablesOK, Sessions, CanCallBack, DecodingInv, StatusInv

\* Closing a session that exists keeps the tables in order.
LEMMA CloseAccounted ==
    ASSUME IInv, NEW s \in Sessions, NEW reason \in Reasons \ {"none"},
           status_[s] \in {"OK", "CLOSED"}, Close(s, reason),
           UNCHANGED <<sessionID_, deleted>>
    PROVE  SessionsAccounted' /\ StatusInv'
<1> USE DEF IInv, TypeOK, TablesOK, HistoryOK
<1>1. CASE status_[s] = "OK"
  <2>1. s \in sessionMap_ /\ closedBy[s] = "none"
    BY <1>1 DEF SessionsAccounted, StatusInv
  <2>2. /\ status_' = [status_ EXCEPT ![s] = "CLOSED"]
        /\ told' = [told EXCEPT ![s] = "disconnected"]
        /\ toFree' = [toFree EXCEPT ![s] = @ + 1]
        /\ sessionMap_' = sessionMap_ \ {s}
        /\ closedBy' = [closedBy EXCEPT ![s] = reason]
    BY <1>1, <2>1 DEF Close
  <2>3. SessionsAccounted'
    BY <1>1, <2>2 DEF SessionsAccounted
  <2>4. StatusInv'
    BY <1>1, <2>2 DEF StatusInv
  <2> QED
    BY <2>3, <2>4
<1>2. CASE status_[s] = "CLOSED"
  <2>1. closedBy[s] # "none"
    BY <1>2 DEF StatusInv
  <2>2. UNCHANGED <<status_, told, toFree, sessionMap_, closedBy>>
    BY <1>2, <2>1 DEF Close
  <2> QED
    BY <2>2 DEF SessionsAccounted, StatusInv
<1> QED
  BY <1>1, <1>2

\* Every step keeps each session in one place only, and its status right.
LEMMA AccountStep == IInv /\ [Next]_vars => SessionsAccounted' /\ StatusInv'
<1> SUFFICES ASSUME IInv, [Next]_vars PROVE SessionsAccounted' /\ StatusInv'
    OBVIOUS
<1>0. ASSUME UNCHANGED quiet, UNCHANGED <<sessionID_, deleted>>
      PROVE  SessionsAccounted' /\ StatusInv'
  BY <1>0 DEF quiet, IInv, SessionsAccounted, StatusInv
<1>1. CASE Accept
  <2> DEFINE s == sessionID_ + 1
  <2>0. s \in Sessions
    BY <1>1, SessionsAssumption
       DEF Accept, Sessions, IInv, TypeOK, TablesOK
  <2>1. /\ sessionID_' = s
        /\ sessionMap_' = sessionMap_ \cup {s}
        /\ status_' = [status_ EXCEPT ![s] = "OK"]
        /\ told' = [told EXCEPT ![s] = "connected"]
        /\ UNCHANGED <<toFree, deleted, closedBy>>
    BY <1>1 DEF Accept
  <2>2. status_[s] = "none" /\ closedBy[s] = "none"
    BY <2>0, <2>1, SessionsAssumption
       DEF IInv, TypeOK, TablesOK, StatusInv, Sessions
  <2>3. SessionsAccounted'
    BY <2>0, <2>1, <2>2 DEF IInv, TypeOK, TablesOK, HistoryOK, SessionsAccounted
  <2>4. StatusInv'
    BY <2>0, <2>1, <2>2, SessionsAssumption
       DEF IInv, TypeOK, TablesOK, HistoryOK, StatusInv, Sessions
  <2> QED
    BY <2>3, <2>4
<1>2. CASE Update
  <2>1. ASSUME NEW s \in Sessions
        PROVE  toFree'[s] + deleted'[s] = toFree[s] + deleted[s]
    BY <1>2 DEF Update, IInv, TypeOK, TablesOK
  <2> QED
    BY <1>2, <2>1 DEF Update, IInv, SessionsAccounted, StatusInv
<1>3. ASSUME NEW s \in Sessions, Receive(s)
      PROVE  SessionsAccounted' /\ StatusInv'
  BY <1>0, <1>3 DEF Receive, tables, quiet
<1>4. ASSUME NEW s \in Sessions, HangUp(s)
      PROVE  SessionsAccounted' /\ StatusInv'
  BY <1>4, DecodingExists, CloseAccounted, Zenon DEF HangUp, Reasons
<1>5. ASSUME NEW s \in Sessions, Decode(s)
      PROVE  SessionsAccounted' /\ StatusInv'
  <2>0. UNCHANGED <<sessionID_, deleted>> /\ status_[s] \in {"OK", "CLOSED"}
    BY <1>5, DecodeEffect, DecodingExists, Zenon
  <2>1. CASE UNCHANGED quiet
    BY <1>0, <2>0, <2>1
  <2>2. ASSUME NEW reason \in {"head", "length", "tail"}, Close(s, reason)
        PROVE  SessionsAccounted' /\ StatusInv'
    <3>1. reason \in Reasons \ {"none"}
      BY DEF Reasons
    <3> QED
      BY <2>0, <2>2, <3>1, CloseAccounted, Zenon
  <2> QED
    BY <1>5, <2>1, <2>2, DecodeEffect
<1>6. ASSUME NEW s \in Sessions, ScriptCloses(s)
      PROVE  SessionsAccounted' /\ StatusInv'
  BY <1>0, <1>6, ScriptClosesNothing DEF tables, quiet
<1>7. CASE UNCHANGED vars
  BY <1>0, <1>7 DEF vars, quiet
<1> QED
  BY <1>1, <1>2, <1>3, <1>4, <1>5, <1>6, <1>7 DEF Next

\* Every step keeps the session of a running decode() alive.
LEMMA DecodingStep == IInv /\ [Next]_vars => DecodingInv'
<1> SUFFICES ASSUME IInv, [Next]_vars PROVE DecodingInv'
    OBVIOUS
<1> USE DEF DecodingInv
<1>1. CASE Accept \/ Update
  BY <1>1 DEF Accept, Update, streams
<1>2. ASSUME NEW s \in Sessions, Receive(s)
      PROVE  DecodingInv'
  BY <1>2, DecodingExists DEF Receive, tables
<1>3. ASSUME NEW s \in Sessions, HangUp(s)
      PROVE  DecodingInv'
  BY <1>3 DEF HangUp, CanCallBack
<1>4. ASSUME NEW s \in Sessions, Decode(s)
      PROVE  DecodingInv'
  <2>1. decoding' = 0 \/ (decoding' = s /\ s <= sessionID_ /\ deleted[s] = 0)
    BY <1>4, DecodeEffect, DecodingExists, Zenon
  <2>2. UNCHANGED <<sessionID_, deleted>>
    BY <1>4, DecodeEffect
  <2> QED
    BY <2>1, <2>2
<1>5. ASSUME NEW s \in Sessions, ScriptCloses(s)
      PROVE  DecodingInv'
  BY <1>5 DEF ScriptCloses, streams
<1>6. CASE UNCHANGED vars
  BY <1>6 DEF vars, IInv
<1> QED
  BY <1>1, <1>2, <1>3, <1>4, <1>5, <1>6 DEF Next

\* A session closed for a wrong header, or by a hang-up, delivers nothing.
LEMMA HeadBlocks ==
    ASSUME IInv, NEW s \in Sessions, closedBy[s] = "head"
    PROVE  ~TakePacket(s) /\ ~BadTail(s) /\ ~BadLength(s) /\ ~BodyIncomplete(s)
<1>1. ~HeaderChecked(s) /\ ~(packLen_[s] = 0 /\ input[s][1] = Sign)
  BY DEF IInv, ReasonInv, HeaderChecked
<1> QED
  BY <1>1, Zenon DEF TakePacket, BadTail, BadLength, BodyIncomplete, BodyComplete

\* The loop of decode() reads a header only when it is there.
LEMMA HeaderPresent ==
    ASSUME IInv, NEW s \in Sessions, Looping(s), packLen_[s] = 0
    PROVE  input[s] # <<>>
<1>1. UintRange \in Nat /\ UintRange > 6
  BY FormatAssumption DEF UintRange
<1>2. Need(0) = 6
  BY <1>1 DEF Need, HeaderLen, TailLen
<1>3. input[s] \in Seq(Byte)
  BY DEF IInv, TypeOK, StreamsOK
<1> QED
  BY <1>2, <1>3, EmptySeq DEF Looping

\* Every step keeps what blocks a session that was closed for its header
\* or by a hang-up.
LEMMA ReasonStep == IInv /\ [Next]_vars => ReasonInv'
<1> SUFFICES ASSUME IInv, [Next]_vars, NEW t \in Sessions
             PROVE  /\ closedBy'[t] = "head" =>
                          /\ packLen_'[t] = 0
                          /\ input'[t] # <<>> /\ input'[t][1] # Sign
                    /\ closedBy'[t] = "hangup" => wire'[t] = <<>> /\ decoding' # t
                    /\ closedBy'[t] # "script"
    BY DEF ReasonInv
<1>0. /\ closedBy[t] = "head" =>
            packLen_[t] = 0 /\ input[t] # <<>> /\ input[t][1] # Sign
      /\ closedBy[t] = "hangup" => wire[t] = <<>> /\ decoding # t
      /\ closedBy[t] # "script"
  BY DEF IInv, ReasonInv
<1>1. CASE Accept
  <2>1. sessionID_ + 1 \in Sessions /\ status_[sessionID_ + 1] = "none"
    BY <1>1, SessionsAssumption
       DEF Accept, Sessions, IInv, TypeOK, TablesOK, StatusInv
  <2>2. closedBy[sessionID_ + 1] = "none"
    BY <2>1 DEF IInv, StatusInv
  <2>3. UNCHANGED <<packLen_, input, decoding, closedBy>>
    BY <1>1 DEF Accept
  <2>4. t # sessionID_ + 1 => wire'[t] = wire[t]
    BY <1>1 DEF Accept, IInv, TypeOK, StreamsOK
  <2> QED
    BY <1>0, <2>2, <2>3, <2>4
<1>2. CASE Update
  BY <1>0, <1>2 DEF Update, streams
<1>3. ASSUME NEW s \in Sessions, Receive(s)
      PROVE  /\ closedBy'[t] = "head" =>
                   /\ packLen_'[t] = 0
                   /\ input'[t] # <<>> /\ input'[t][1] # Sign
             /\ closedBy'[t] = "hangup" => wire'[t] = <<>> /\ decoding' # t
             /\ closedBy'[t] # "script"
  <2>1. PICK n \in 1..Len(wire[s]) :
            /\ input' = [input EXCEPT ![s] = @ \o SubSeq(wire[s], 1, n)]
            /\ wire' = [wire EXCEPT ![s] = SubSeq(@, n + 1, Len(@))]
    BY <1>3 DEF Receive
  <2>2. wire[s] \in Seq(Byte) /\ input[s] \in Seq(Byte)
    BY DEF IInv, TypeOK, StreamsOK
  <2>3. closedBy[s] # "hangup"
    <3>1. wire[s] # <<>>
      BY <2>2, EmptySeq
    <3> QED
      BY <3>1 DEF IInv, ReasonInv
  <2>4. SubSeq(wire[s], 1, n) \in Seq(Byte)
    BY <2>2, SubSeqProperties, ElementOfSeq
  <2>5. input[s] # <<>> => input'[s] # <<>> /\ input'[s][1] = input[s][1]
    <3>1. input'[s] = input[s] \o SubSeq(wire[s], 1, n)
      BY <2>1 DEF IInv, TypeOK, StreamsOK
    <3>2. input[s] # <<>> => Len(input[s]) \in Nat \ {0}
      BY <2>2, EmptySeq
    <3> QED
      BY <2>2, <2>4, <3>1, <3>2, ConcatProperties, EmptySeq
  <2>6. UNCHANGED <<packLen_, closedBy>> /\ decoding' = s
    BY <1>3 DEF Receive
  <2>7. t # s => input'[t] = input[t] /\ wire'[t] = wire[t]
    BY <2>1 DEF IInv, TypeOK, StreamsOK
  <2> QED
    BY <1>0, <2>3, <2>5, <2>6, <2>7
<1>4. ASSUME NEW s \in Sessions, HangUp(s)
      PROVE  /\ closedBy'[t] = "head" =>
                   /\ packLen_'[t] = 0
                   /\ input'[t] # <<>> /\ input'[t][1] # Sign
             /\ closedBy'[t] = "hangup" => wire'[t] = <<>> /\ decoding' # t
             /\ closedBy'[t] # "script"
  <2>1. closedBy' = [closedBy EXCEPT ![s] = IF @ = "none" THEN "hangup" ELSE @]
    BY <1>4, Zenon DEF HangUp, Close
  <2>2. /\ wire' = [wire EXCEPT ![s] = <<>>]
        /\ UNCHANGED <<input, packLen_, decoding>>
    BY <1>4, Zenon DEF HangUp
  <2>3. decoding # t
    BY <1>4 DEF HangUp, CanCallBack, Sessions
  <2> QED
    BY <1>0, <2>1, <2>2, <2>3 DEF IInv, TypeOK, StreamsOK, HistoryOK
<1>5. ASSUME NEW s \in Sessions, Decode(s)
      PROVE  /\ closedBy'[t] = "head" =>
                   /\ packLen_'[t] = 0
                   /\ input'[t] # <<>> /\ input'[t][1] # Sign
             /\ closedBy'[t] = "hangup" => wire'[t] = <<>> /\ decoding' # t
             /\ closedBy'[t] # "script"
  <2>0. decoding = s /\ (decoding' = 0 \/ decoding' = s) /\ wire' = wire
    BY <1>5, DecodeEffect, Zenon
  <2>1. closedBy[t] = "hangup" => decoding' # t
    BY <1>0, <2>0 DEF Sessions
  <2>2. CASE BadHeader(s)
    <3>1. /\ UNCHANGED <<packLen_, input>>
          /\ packLen_[s] = 0 /\ input[s][1] # Sign /\ Looping(s)
          /\ closedBy' = [closedBy EXCEPT ![s] = IF @ = "none" THEN "head" ELSE @]
      BY <2>2, Zenon DEF BadHeader, Close
    <3>2. input[s] # <<>>
      BY <3>1, HeaderPresent
    <3> QED
      BY <1>0, <2>0, <2>1, <3>1, <3>2 DEF IInv, TypeOK, HistoryOK
  <2>3. CASE BadLength(s) \/ BadTail(s)
    <3>1. closedBy[s] # "head"
      BY <2>3, HeadBlocks, Zenon
    <3>2. PICK reason \in {"length", "tail"} :
              closedBy' = [closedBy EXCEPT ![s] = IF @ = "none" THEN reason ELSE @]
      BY <2>3, Zenon DEF BadLength, BadTail, Close
    <3>3. t # s => packLen_'[t] = packLen_[t] /\ input'[t] = input[t]
      BY <2>3 DEF BadLength, BadTail, IInv, TypeOK, StreamsOK
    <3> QED
      BY <1>0, <2>0, <2>1, <3>1, <3>2, <3>3 DEF IInv, TypeOK, HistoryOK
  <2>4. CASE BodyIncomplete(s) \/ TakePacket(s)
    <3>1. closedBy[s] # "head" /\ UNCHANGED closedBy
      BY <2>4, HeadBlocks, Zenon DEF BodyIncomplete, TakePacket
    <3>2. t # s => packLen_'[t] = packLen_[t] /\ input'[t] = input[t]
      BY <2>4 DEF BodyIncomplete, TakePacket, IInv, TypeOK, StreamsOK
    <3> QED
      BY <1>0, <2>0, <2>1, <3>1, <3>2
  <2>5. CASE DecodeWaits(s)
    BY <1>0, <2>0, <2>1, <2>5 DEF DecodeWaits
  <2> QED
    BY <1>5, <2>2, <2>3, <2>4, <2>5 DEF Decode
<1>6. ASSUME NEW s \in Sessions, ScriptCloses(s)
      PROVE  UNCHANGED <<streams, closedBy>>
  BY <1>6, ScriptClosesNothing
<1>7. CASE UNCHANGED vars
  BY <1>0, <1>7 DEF vars
<1> QED
  BY <1>0, <1>1, <1>2, <1>3, <1>4, <1>5, <1>6, <1>7 DEF Next, streams

\* No step delivers a packet late but on a session closed for its length
\* or its tail.
LEMMA LateStep == IInv /\ [Next]_vars => LateMessageCause'
<1> SUFFICES ASSUME IInv, [Next]_vars, NEW t \in Sessions, late'[t] # <<>>
             PROVE  closedBy'[t] \in {"length", "tail"}
    BY DEF LateMessageCause
<1>0. late[t] # <<>> => closedBy[t] \in {"length", "tail"}
  BY DEF IInv, LateMessageCause
<1>1. ASSUME NEW s \in Sessions, NEW reason, Close(s, reason), late' = late
      PROVE  closedBy'[t] \in {"length", "tail"}
  BY <1>0, <1>1 DEF Close, IInv, TypeOK, HistoryOK
<1>2. ASSUME late' = late, closedBy' = closedBy
      PROVE  closedBy'[t] \in {"length", "tail"}
  BY <1>0, <1>2
<1>3. ASSUME NEW s \in Sessions, TakePacket(s)
      PROVE  closedBy'[t] \in {"length", "tail"}
  <2>1. UNCHANGED closedBy /\ decoding = s
    BY <1>3, Zenon DEF TakePacket, BodyComplete, Looping
  <2>2. CASE late' = late
    BY <1>2, <2>1, <2>2
  <2>3. CASE told[s] # "connected" /\ t = s
    <3>1. status_[s] = "CLOSED"
      BY <2>1, <2>3, DecodingExists DEF IInv, SessionsAccounted
    <3>2. closedBy[s] \in Reasons \ {"none"}
      BY <3>1 DEF IInv, TypeOK, HistoryOK, StatusInv
    <3>3. closedBy[s] # "head"
      BY <1>3, HeadBlocks
    <3>4. closedBy[s] # "hangup" /\ closedBy[s] # "script"
      BY <2>1 DEF IInv, ReasonInv
    <3> QED
      BY <2>1, <2>3, <3>2, <3>3, <3>4 DEF Reasons
  <2>4. CASE t # s
    <3>1. late'[t] = late[t]
      <4>1. late' = late \/ late' = [late EXCEPT ![s] = Append(@, Body(s))]
        BY <1>3, Zenon DEF TakePacket, Deliver
      <4> QED
        BY <2>4, <4>1 DEF IInv, TypeOK, BodiesOK
    <3> QED
      BY <1>0, <2>1, <3>1
  <2>5. late' = late \/ told[s] # "connected"
    BY <1>3, Zenon DEF TakePacket, Deliver
  <2> QED
    BY <2>2, <2>3, <2>4, <2>5
<1>4. CASE Accept \/ Update
  BY <1>2, <1>4 DEF Accept, Update
<1>5. ASSUME NEW s \in Sessions, Receive(s) \/ HangUp(s) \/ ScriptCloses(s)
      PROVE  closedBy'[t] \in {"length", "tail"}
  <2>1. CASE Receive(s)
    BY <1>2, <2>1 DEF Receive
  <2>2. CASE HangUp(s)
    BY <1>1, <2>2, Zenon DEF HangUp
  <2>3. CASE ScriptCloses(s)
    BY <1>2, <2>3, ScriptClosesNothing
  <2> QED
    BY <1>5, <2>1, <2>2, <2>3
<1>6. ASSUME NEW s \in Sessions, Decode(s), ~TakePacket(s)
      PROVE  closedBy'[t] \in {"length", "tail"}
  <2>1. CASE DecodeWaits(s) \/ BodyIncomplete(s)
    BY <1>2, <2>1, Zenon DEF DecodeWaits, BodyIncomplete
  <2>2. CASE BadHeader(s) \/ BadLength(s) \/ BadTail(s)
    BY <1>1, <2>2, Zenon DEF BadHeader, BadLength, BadTail
  <2> QED
    BY <1>6, <2>1, <2>2 DEF Decode
<1>7. CASE UNCHANGED vars
  BY <1>2, <1>7 DEF vars
<1> QED
  BY <1>3, <1>4, <1>5, <1>6, <1>7 DEF Next

-----------------------------------------------------------------------------
(* What is delivered.                                                      *)

\* Every step leaves the numbers alone that were not given out.
LEMMA FreshStep == IInv /\ [Next]_vars => FreshInv'
<1> SUFFICES ASSUME IInv, [Next]_vars, NEW t \in Sessions, t > sessionID_'
             PROVE  /\ told'[t] = "nothing" /\ packLen_'[t] = 0
                    /\ input'[t] = <<>> /\ delivered'[t] = <<>>
    BY DEF FreshInv
<1>0. /\ sessionID_ \in Nat /\ t \in Nat /\ told \in [Sessions -> {"nothing", "connected", "disconnected"}]
      /\ DOMAIN packLen_ = Sessions /\ DOMAIN input = Sessions
      /\ DOMAIN delivered = Sessions
  BY DEF IInv, TypeOK, TablesOK, StreamsOK, HistoryOK, BodiesOK, Sessions
<1>1. t > sessionID_ => /\ told[t] = "nothing" /\ packLen_[t] = 0
                        /\ input[t] = <<>> /\ delivered[t] = <<>>
  BY DEF IInv, FreshInv
<1>2. CASE Accept
  <2>1. sessionID_' = sessionID_ + 1 /\ UNCHANGED <<packLen_, input, delivered>>
    BY <1>2 DEF Accept
  <2>2. told' = [told EXCEPT ![sessionID_ + 1] = "connected"]
    BY <1>2 DEF Accept
  <2> QED
    BY <1>0, <1>1, <2>1, <2>2
<1>3. CASE Update \/ UNCHANGED vars
  BY <1>1, <1>3 DEF Update, streams, vars
<1>4. ASSUME NEW s \in Sessions, Receive(s) \/ HangUp(s) \/ Decode(s)
      PROVE  /\ told'[t] = "nothing" /\ packLen_'[t] = 0
             /\ input'[t] = <<>> /\ delivered'[t] = <<>>
  <2>1. s <= sessionID_ /\ sessionID_' = sessionID_
    <3>1. CASE Receive(s) \/ HangUp(s)
      BY <3>1, DecodingExists DEF Receive, HangUp, tables
    <3>2. CASE Decode(s)
      BY <3>2, DecodingExists, DecodeEffect
    <3> QED
      BY <1>4, <3>1, <3>2
  <2>2. t > sessionID_ /\ t # s
    BY <1>0, <2>1
  <2>3. told'[t] = told[t]
    <3>1. ASSUME NEW reason, Close(s, reason) PROVE told'[t] = told[t]
      BY <1>0, <2>2, <3>1 DEF Close
    <3>2. CASE Receive(s)
      BY <3>2 DEF Receive
    <3>3. CASE HangUp(s)
      BY <3>1, <3>3, Zenon DEF HangUp
    <3>4. CASE Decode(s)
      BY <3>1, <3>4, DecodeEffect, Zenon DEF quiet
    <3> QED
      BY <1>4, <3>2, <3>3, <3>4
  <2>4. packLen_'[t] = packLen_[t] /\ input'[t] = input[t]
    <3>1. CASE Receive(s) \/ HangUp(s)
      BY <1>0, <2>2, <3>1 DEF Receive, HangUp
    <3>2. CASE Decode(s)
      BY <1>0, <2>2, <3>2
         DEF Decode, DecodeWaits, BadHeader, BadLength, BodyIncomplete,
             TakePacket, BadTail
    <3> QED
      BY <1>4, <3>1, <3>2
  <2>5. delivered'[t] = delivered[t]
    <3>1. CASE TakePacket(s)
      BY <1>0, <2>2, <3>1 DEF TakePacket, Deliver
    <3>2. CASE ~TakePacket(s)
      BY <1>4, <3>2 DEF Receive, HangUp, Decode, DecodeWaits, BadHeader,
                        BadLength, BodyIncomplete, BadTail
    <3> QED
      BY <3>1, <3>2
  <2> QED
    BY <1>1, <2>2, <2>3, <2>4, <2>5
<1>5. ASSUME NEW s \in Sessions, ScriptCloses(s)
      PROVE  UNCHANGED <<tables, streams, told, delivered>>
  BY <1>5, ScriptClosesNothing
<1> QED
  BY <1>1, <1>2, <1>3, <1>4, <1>5 DEF Next, tables, streams

\* The part of StreamInv that speaks of one session.
StreamFor(s) ==
    WellFramed(plan[s]) =>
        InStep(s) /\ (told[s] = "connected" => OpenInv(s))

\* A step that does not touch the stream of a session.
Untouched(s) ==
    /\ plan'[s] = plan[s] /\ delivered'[s] = delivered[s]
    /\ closedBy'[s] = closedBy[s] /\ told'[s] = told[s]
    /\ input'[s] = input[s] /\ wire'[s] = wire[s] /\ packLen_'[s] = packLen_[s]
    /\ decoding' # s => decoding # s

LEMMA UntouchedStream ==
    ASSUME NEW s \in Sessions, StreamFor(s), Untouched(s)
    PROVE  StreamFor(s)'
<1>1. InStep(s)' <=> InStep(s)
  BY DEF Untouched, InStep
<1>2. OpenInv(s) => OpenInv(s)'
  BY DEF Untouched, OpenInv
<1> QED
  BY <1>1, <1>2 DEF StreamFor, Untouched

\* A closed session only has to keep what was delivered.
ClosedWith(s, reason) ==
    /\ Close(s, reason) /\ plan' = plan /\ delivered' = delivered

LEMMA ClosedStream ==
    ASSUME IInv, NEW s \in Sessions, NEW t \in Sessions, NEW reason \in Reasons \ {"none"},
           ClosedWith(s, reason), StreamFor(t), Untouched(t) \/ t = s,
           status_[s] \in {"OK", "CLOSED"},
           WellFramed(plan[s]) /\ told[s] = "connected"
           /\ reason \in {"head", "length", "tail"} =>
               /\ Len(delivered[s]) < Len(plan[s])
               /\ ~Good(plan[s][Len(delivered[s]) + 1])
    PROVE  StreamFor(t)'
<1>1. CASE t # s
  BY <1>1, UntouchedStream
<1>2. CASE t = s
  <2> SUFFICES ASSUME WellFramed(plan[s]) PROVE StreamFor(s)'
    BY <1>2 DEF StreamFor, ClosedWith
  <2>0. InStep(s)
    BY <1>2 DEF StreamFor
  <2>1. told'[s] # "connected"
    <3>1. told[s] = "connected" => s \in sessionMap_ /\ status_[s] # "CLOSED"
      BY DEF IInv, SessionsAccounted
    <3>2. told' = told \/ told' = [told EXCEPT ![s] = "disconnected"]
      BY Zenon DEF ClosedWith, Close
    <3>3. told[s] = "connected" => told' = [told EXCEPT ![s] = "disconnected"]
      BY <3>1, Zenon DEF ClosedWith, Close
    <3> QED
      BY <3>2, <3>3 DEF IInv, TypeOK, HistoryOK
  <2>2. closedBy'[s] = closedBy[s] \/ (told[s] = "connected" /\ closedBy'[s] = reason)
    <3>1. closedBy'[s] = IF closedBy[s] = "none" THEN reason ELSE closedBy[s]
      BY DEF ClosedWith, Close, IInv, TypeOK, HistoryOK
    <3>2. closedBy[s] = "none" => told[s] = "connected"
      BY DEF IInv, StatusInv, SessionsAccounted
    <3> QED
      BY <3>1, <3>2
  <2>3. UNCHANGED <<plan, delivered>>
    BY DEF ClosedWith
  <2>4. InStep(s)'
    <3>1. closedBy'[s] \in {"head", "length", "tail"} =>
              /\ Len(delivered[s]) < Len(plan[s])
              /\ ~Good(plan[s][Len(delivered[s]) + 1])
      BY <2>0, <2>2 DEF InStep
    <3> QED
      BY <2>0, <2>3, <3>1 DEF InStep
  <2> QED
    BY <2>1, <2>4 DEF StreamFor
<1> QED
  BY <1>1, <1>2

\* Sums of lengths that decode() accepts do not wrap.
LEMMA NeedIs ==
    ASSUME NEW k \in 0..MaxLength
    PROVE  Need(k) = k + 6
<1>1. UintRange \in Nat /\ k + 6 \in 0..(UintRange - 1)
  BY FormatAssumption DEF UintRange
<1> QED
  BY <1>1 DEF Need, HeaderLen, TailLen

\* What decode() has before it on an open session: the header, at least, of
\* the packet behind those delivered.
LEMMA OpenDecode ==
    ASSUME IInv, NEW s \in Sessions, WellFramed(plan[s]), told[s] = "connected",
           Looping(s)
    PROVE  LET p == plan[s]
               n == Len(delivered[s])
               f == p[n + 1]
           IN /\ p \in Seq(Frames) /\ n \in 0..(Len(p) - 1) /\ f \in Frames
              /\ Length(s) = f.size /\ Len(input[s]) >= 6
              /\ packLen_[s] = 0 => input[s][1] = f.head
              /\ HeaderChecked(s) => /\ f.head = Sign /\ f.size \in 2..MaxLength
                                     /\ Len(f.body) = f.size
              /\ \E x \in Seq(Byte) :
                    /\ input[s] \o wire[s] = FrameBytes(f) \o x
                    /\ PlanBytes(p) = Sent(p)[n + 1] \o x
<1> DEFINE p == plan[s]
           n == Len(delivered[s])
           f == p[n + 1]
<1>1. /\ p \in Seq(Frames) /\ input[s] \in Seq(Byte) /\ wire[s] \in Seq(Byte)
      /\ delivered[s] \in Seq(Seq(Byte))
  BY DEF IInv, TypeOK, StreamsOK, BodiesOK
<1>2. n \in Nat /\ Len(p) \in Nat /\ n <= Len(p) /\ n \in 0..Len(p)
  BY <1>1 DEF IInv, StreamInv, InStep
<1>3. OpenInv(s)
  BY DEF IInv, StreamInv
<1>4. Len(input[s]) >= 6
  <2>1. packLen_[s] \in 0..MaxLength
    BY <1>3, FormatAssumption DEF OpenInv
  <2>2. Len(input[s]) >= packLen_[s] + 6
    BY <2>1, NeedIs DEF Looping
  <2> QED
    BY <1>1, <2>1, <2>2, FormatAssumption
<1> DEFINE y == input[s] \o wire[s]
<1>5. y \in Seq(Byte) /\ Len(y) > 0
  <2> DEFINE i == Len(input[s])  k == Len(wire[s])
  <2>1. y \in Seq(Byte) /\ Len(y) = i + k
    BY <1>1, ConcatProperties, Zenon
  <2>2. i \in Nat /\ k \in Nat /\ i >= 6
    BY <1>1, <1>4
  <2> HIDE DEF i, k, y
  <2> QED
    BY <2>1, <2>2
<1>6. PlanBytes(p) = Sent(p)[n] \o y
  BY <1>3 DEF OpenInv
<1>7. n < Len(p) /\ f \in Frames
  <2> HIDE DEF p, n, y
  <2> QED
    BY <1>1, <1>2, <1>5, <1>6, NextFrame
<1>8. PICK x \in Seq(Byte) : y = FrameBytes(f) \o x /\ PlanBytes(p) = Sent(p)[n + 1] \o x
  <2> HIDE DEF p, n, y
  <2> QED
    BY <1>1, <1>2, <1>5, <1>6, NextFrame
<1>9. input[s][1] = f.head /\ Number(SubSeq(input[s], 2, 5)) = f.size
  <2> HIDE DEF p, n, f
  <2> QED
    BY <1>1, <1>4, <1>7, <1>8, HeaderRead
<1>10. Length(s) = f.size
  <2>1. packLen_[s] # 0 => packLen_[s] = f.size
    BY <1>3 DEF OpenInv
  <2> QED
    BY <1>9, <2>1 DEF Length
<1>11. ASSUME HeaderChecked(s)
       PROVE  f.head = Sign /\ f.size \in 2..MaxLength /\ Len(f.body) = f.size
  <2>1. f.head = Sign /\ f.size \in 2..MaxLength
    <3>1. packLen_[s] # 0 =>
              f.head = Sign /\ f.size = packLen_[s] /\ packLen_[s] \in 2..MaxLength
      BY <1>3 DEF OpenInv
    <3>2. packLen_[s] = 0 => f.head = Sign /\ f.size \in 2..MaxLength
      BY <1>9, <1>10, <1>11 DEF HeaderChecked
    <3> QED
      BY <3>1, <3>2
  <2>2. n + 1 \in 1..Len(p)
    BY <1>2, <1>7
  <2> QED
    BY <2>1, <2>2 DEF WellFramed
<1>12. n \in 0..(Len(p) - 1)
  BY <1>2, <1>7
<1> HIDE DEF p, n, f
<1>13. \E z \in Seq(Byte) : input[s] \o wire[s] = FrameBytes(f) \o z
                            /\ PlanBytes(p) = Sent(p)[n + 1] \o z
  BY <1>8
<1> QED
  BY <1>1, <1>4, <1>7, <1>9, <1>10, <1>11, <1>12, <1>13 DEF p, n, f

\* And when that packet has arrived whole: its body, its tail, and behind it
\* what is still to come.
LEMMA OpenTake ==
    ASSUME IInv, NEW s \in Sessions, WellFramed(plan[s]), told[s] = "connected",
           BodyComplete(s)
    PROVE  LET p == plan[s]
               n == Len(delivered[s])
               f == p[n + 1]
           IN /\ Body(s) = f.body /\ EndByte(s) = f.tail
              /\ PlanBytes(p) = Sent(p)[n + 1] \o
                    (SubSeq(Rest(s), Length(s) + 2, Len(Rest(s))) \o wire[s])
<1> DEFINE p == plan[s]
           n == Len(delivered[s])
           f == p[n + 1]
           a == input[s]
           r == Behind(a)
<1>0. Looping(s) /\ HeaderChecked(s) /\ Len(a) >= Need(Length(s))
  BY DEF BodyComplete
<1>1. a \in Seq(Byte) /\ wire[s] \in Seq(Byte)
  BY DEF IInv, TypeOK, StreamsOK
<1>2. /\ f \in Frames /\ Length(s) = f.size /\ f.size \in 2..MaxLength
      /\ Len(f.body) = f.size
  BY <1>0, OpenDecode
<1>3. PICK x \in Seq(Byte) : a \o wire[s] = FrameBytes(f) \o x
                             /\ PlanBytes(p) = Sent(p)[n + 1] \o x
  BY <1>0, OpenDecode
<1>4. Len(a) >= 6 + Len(f.body) /\ Len(a) \in Nat
  <2>1. f.size \in 0..MaxLength /\ f.size \in Nat
    BY <1>2, FormatAssumption
  <2>2. Need(f.size) = f.size + 6
    BY <2>1, NeedIs
  <2> QED
    BY <1>0, <1>1, <1>2, <2>1, <2>2
<1>5. /\ Len(r) = Len(a) - 5
      /\ SubSeq(r, 1, f.size) = f.body /\ r[f.size + 1] = f.tail
      /\ SubSeq(r, f.size + 2, Len(r)) \o wire[s] = x
  <2> HIDE DEF f, a
  <2> DEFINE z == wire[s]
  <2>1. /\ a \in Seq(Byte) /\ z \in Seq(Byte) /\ f \in Frames /\ x \in Seq(Byte)
        /\ a \o z = FrameBytes(f) \o x /\ Len(a) >= 6 + Len(f.body)
    BY <1>1, <1>2, <1>3, <1>4
  <2> HIDE DEF z
  <2>2. BodyAt(f, a, z, x)
    BY ONLY <2>1, BodyRead
  <2> QED
    BY <1>2, <2>2 DEF z, BodyAt
<1>6. Rest(s) = r
  BY DEF Rest, HeaderLen, Behind
<1> HIDE DEF r, a, f, p, n
<1>7. f.size < Len(r)
  BY <1>2, <1>4, <1>5, FormatAssumption
<1>8. Body(s) = f.body /\ EndByte(s) = f.tail
  BY <1>2, <1>5, <1>6, <1>7 DEF Body, EndByte
<1> QED
  BY <1>2, <1>3, <1>5, <1>6, <1>8 DEF f, p, n

\* A taken packet, on an open session.
LEMMA TakeStream ==
    ASSUME IInv, NEW s \in Sessions, TakePacket(s)
    PROVE  StreamFor(s)'
<1> DEFINE p == plan[s]
           n == Len(delivered[s])
           f == p[n + 1]
<1>0. /\ UNCHANGED <<plan, told, closedBy, wire, decoding>> /\ decoding = s
      /\ BodyComplete(s) /\ EndByte(s) = Sign
      /\ packLen_' = [packLen_ EXCEPT ![s] = 0]
      /\ input' = [input EXCEPT ![s] = SubSeq(Rest(s), Length(s) + 2, Len(Rest(s)))]
      /\ Deliver(s, Body(s))
  BY Zenon DEF TakePacket, BodyComplete, Looping
<1> SUFFICES ASSUME WellFramed(p)
             PROVE  InStep(s)' /\ (told[s] = "connected" => OpenInv(s)')
  BY <1>0 DEF StreamFor
<1>1. InStep(s)
  BY DEF IInv, StreamInv
<1>2. CASE told[s] # "connected"
  <2>1. delivered' = delivered
    BY <1>0, <1>2 DEF Deliver
  <2> QED
    BY <1>0, <1>1, <1>2, <2>1 DEF InStep
<1>3. CASE told[s] = "connected"
  <2>1. /\ n \in 0..(Len(p) - 1) /\ f.head = Sign /\ f.size \in 2..MaxLength
        /\ Len(f.body) = f.size
    BY <1>0, <1>3, OpenDecode DEF BodyComplete
  <2>2. /\ Body(s) = f.body /\ EndByte(s) = f.tail
        /\ PlanBytes(p) = Sent(p)[n + 1] \o
              (SubSeq(Rest(s), Length(s) + 2, Len(Rest(s))) \o wire[s])
    BY <1>0, <1>3, OpenTake
  <2>3. delivered'[s] = Append(delivered[s], f.body)
    <3>1. Len(Body(s)) >= 2
      <4> HIDE DEF f
      <4>1. f.size >= 2 /\ f.size = Len(f.body) /\ Body(s) = f.body
        BY <2>1, <2>2, FormatAssumption
      <4> QED
        BY <4>1
    <3>2. delivered' = [delivered EXCEPT ![s] = Append(@, Body(s))]
      BY <1>0, <1>3, <3>1, Zenon DEF Deliver
    <3> QED
      BY <2>2, <3>2 DEF IInv, TypeOK, BodiesOK
  <2>4. /\ Len(delivered'[s]) = n + 1
        /\ delivered'[s][n + 1] = f.body
        /\ \A i \in 1..n : delivered'[s][i] = delivered[s][i]
    BY <2>3 DEF IInv, TypeOK, BodiesOK
  <2>5. Good(f)
    BY <1>0, <2>1, <2>2 DEF Good
  <2>6. \A i \in 1..n : Good(p[i]) /\ delivered[s][i] = p[i].body
    BY <1>1 DEF InStep
  <2>7. closedBy[s] = "none"
    BY <1>3 DEF IInv, SessionsAccounted, StatusInv
  <2>8. n \in Nat /\ Len(p) \in Nat
    <3>1. p \in Seq(Frames)
      BY DEF IInv, TypeOK, BodiesOK
    <3> QED
      BY <2>1, <3>1
  <2>9. input'[s] = SubSeq(Rest(s), Length(s) + 2, Len(Rest(s))) /\ packLen_'[s] = 0
    BY <1>0 DEF IInv, TypeOK, StreamsOK
  <2>10. p' = p /\ wire'[s] = wire[s] /\ closedBy'[s] = "none" /\ decoding' = s
    BY <1>0, <2>7
  <2>11. OpenInv(s)'
    BY <2>2, <2>4, <2>9, <2>10 DEF OpenInv
  <2>12. \A i \in 1..(n + 1) : Good(p[i]) /\ delivered'[s][i] = p[i].body
    <3>1. \A i \in 1..(n + 1) : i = n + 1 \/ i \in 1..n
      BY <2>8
    <3> QED
      BY <2>4, <2>5, <2>6, <3>1
  <2>13. n + 1 <= Len(p)
    BY <2>1, <2>8
  <2>14. InStep(s)'
    BY <2>4, <2>10, <2>12, <2>13 DEF InStep
  <2> QED
    BY <2>11, <2>14
<1> QED
  BY <1>2, <1>3

\* A new connection: nothing delivered, everything on the wire.
LEMMA AcceptStream ==
    ASSUME IInv, Accept, NEW t \in Sessions
    PROVE  StreamFor(t)'
<1> DEFINE s == sessionID_ + 1
<1>1. PICK p \in Plans : /\ plan' = [plan EXCEPT ![s] = p]
                         /\ wire' = [wire EXCEPT ![s] = PlanBytes(p)]
  BY DEF Accept
<1>2. /\ told' = [told EXCEPT ![s] = "connected"] /\ sessionID_ < MaxSessions
      /\ UNCHANGED <<input, packLen_, decoding, delivered, closedBy>>
  BY DEF Accept
<1>3. s \in Sessions /\ s > sessionID_
  BY <1>2, SessionsAssumption DEF Sessions, IInv, TypeOK, TablesOK
<1>4. CASE t # s
  <2>1. Untouched(t)
    BY <1>1, <1>2, <1>4
       DEF Untouched, IInv, TypeOK, StreamsOK, HistoryOK, BodiesOK
  <2> QED
    BY <2>1, UntouchedStream DEF IInv, StreamInv, StreamFor
<1>5. CASE t = s
  <2>1. /\ packLen_[t] = 0 /\ input[t] = <<>> /\ delivered[t] = <<>>
        /\ closedBy[t] = "none"
    BY <1>3, <1>5 DEF IInv, FreshInv, StatusInv
  <2>2. plan'[t] = p /\ wire'[t] = PlanBytes(p)
    BY <1>1, <1>3, <1>5 DEF IInv, TypeOK, StreamsOK, BodiesOK
  <2>3. p \in Seq(Frames) /\ PlanBytes(p) \in Seq(Byte)
    BY PlansAssumption, PlanType
  <2>4. Sent(p)[0] \o (<<>> \o PlanBytes(p)) = PlanBytes(p)
    BY <2>3, SentStep, ConcatEmptySeq
  <2>5. InStep(t)'
    BY <1>2, <2>1, <2>2, <2>3, EmptySeq DEF InStep
  <2>6. Need(0) = 6
    BY NeedIs, FormatAssumption
  <2>7. OpenInv(t)'
    BY <1>2, <2>1, <2>2, <2>4, <2>6, EmptySeq DEF OpenInv
  <2> QED
    BY <2>5, <2>7 DEF StreamFor
<1> QED
  BY <1>4, <1>5

\* Bytes that arrive only move from the wire to the buffer.
LEMMA ReceiveStream ==
    ASSUME IInv, NEW s \in Sessions, Receive(s)
    PROVE  StreamFor(s)'
<1>1. PICK n \in 1..Len(wire[s]) :
          /\ input' = [input EXCEPT ![s] = @ \o SubSeq(wire[s], 1, n)]
          /\ wire' = [wire EXCEPT ![s] = SubSeq(@, n + 1, Len(@))]
  BY DEF Receive
<1>2. /\ decoding' = s
      /\ UNCHANGED <<plan, delivered, closedBy, told, packLen_>>
  BY DEF Receive
<1> DEFINE a == input[s]  w == wire[s]
           b == SubSeq(w, 1, n)  c == SubSeq(w, n + 1, Len(w))
<1>3. a \in Seq(Byte) /\ w \in Seq(Byte) /\ n \in 1..Len(w)
  BY DEF IInv, TypeOK, StreamsOK
<1>4. input'[s] = a \o b /\ wire'[s] = c
  BY <1>1 DEF IInv, TypeOK, StreamsOK
<1>5. b \o c = w /\ b \in Seq(Byte) /\ c \in Seq(Byte)
  <2> HIDE DEF w
  <2>1. b \in Seq(Byte) /\ c \in Seq(Byte)
    BY <1>3
  <2>2. /\ 1 \in 1..(Len(w) + 1) /\ n \in (1 - 1)..Len(w)
        /\ Len(w) \in n..Len(w)
    BY <1>3
  <2>3. b \o c = SubSeq(w, 1, Len(w))
    BY <1>3, <2>2, ConcatAdjacentSubSeq, Zenon
  <2> QED
    BY <1>3, <2>1, <2>3, SubSeqFull
<1> HIDE DEF a, b, c, w
<1>6. (a \o b) \o c = a \o w
  <2>1. a \in Seq(Byte) /\ b \in Seq(Byte) /\ c \in Seq(Byte)
    BY <1>3, <1>5
  <2>2. (a \o b) \o c = a \o (b \o c)
    BY ONLY <2>1, ByteConcat, SMTT(30)
  <2> QED
    BY <1>5, <2>2
<1>7. input'[s] \o wire'[s] = input[s] \o wire[s]
  BY <1>4, <1>6 DEF a, w
<1>8. InStep(s)' <=> InStep(s)
  BY <1>2 DEF InStep
<1>9. OpenInv(s) => OpenInv(s)'
  BY <1>2, <1>7 DEF OpenInv
<1> QED
  BY <1>2, <1>8, <1>9 DEF IInv, StreamInv, StreamFor

\* decode() returns because the packet is not there yet.
LEMMA WaitStream ==
    ASSUME IInv, NEW s \in Sessions, DecodeWaits(s) \/ BodyIncomplete(s)
    PROVE  StreamFor(s)'
<1>1. /\ UNCHANGED <<plan, delivered, closedBy, told, input, wire>>
      /\ decoding = s /\ decoding' = 0
  BY DEF DecodeWaits, BodyIncomplete, EndDecode, Looping, tables
<1>2. InStep(s)' <=> InStep(s)
  BY <1>1 DEF InStep
<1> SUFFICES ASSUME WellFramed(plan[s]), told[s] = "connected", OpenInv(s)
             PROVE  OpenInv(s)'
  BY <1>1, <1>2 DEF IInv, StreamInv, StreamFor
<1>3. CASE DecodeWaits(s)
  <2>1. packLen_' = packLen_ /\ ~Looping(s)
    BY <1>3 DEF DecodeWaits
  <2>2. packLen_[s] \in 0..MaxLength
    BY FormatAssumption DEF OpenInv
  <2>3. Len(input[s]) < Need(packLen_[s])
    <3>1. input[s] \in Seq(Byte)
      BY DEF IInv, TypeOK, StreamsOK
    <3>2. Need(packLen_[s]) = packLen_[s] + 6
      BY <2>2, NeedIs
    <3> DEFINE i == Len(input[s])  k == Need(packLen_[s])
    <3>3. i \in Nat /\ k \in Nat /\ ~ (i >= k)
      BY <1>1, <2>1, <2>2, <3>1, <3>2, FormatAssumption DEF Looping
    <3> HIDE DEF i, k
    <3>4. i < k
      BY <3>3
    <3> QED
      BY <3>4 DEF i, k
  <2> QED
    BY <1>1, <2>1, <2>3 DEF OpenInv
<1>4. CASE BodyIncomplete(s)
  <2>1. /\ Looping(s) /\ HeaderChecked(s) /\ Len(input[s]) < Need(Length(s))
        /\ packLen_'[s] = Length(s)
    BY <1>4 DEF BodyIncomplete, IInv, TypeOK, StreamsOK
  <2> DEFINE p == plan[s]
             n == Len(delivered[s])
             f == p[n + 1]
  <2>2. /\ p \in Seq(Frames) /\ n \in 0..(Len(p) - 1) /\ Length(s) = f.size
        /\ f.head = Sign /\ f.size \in 2..MaxLength
    BY <2>1, OpenDecode
  <2>3. n < Len(p)
    BY <2>2
  <2> QED
    BY <1>1, <2>1, <2>2, <2>3 DEF OpenInv
<1> QED
  BY <1>3, <1>4

\* decode() closes an open session only when the next packet is bad.
LEMMA BadStream ==
    ASSUME IInv, NEW s \in Sessions, WellFramed(plan[s]), told[s] = "connected",
           BadHeader(s) \/ BadLength(s) \/ BadTail(s)
    PROVE  /\ Len(delivered[s]) < Len(plan[s])
           /\ ~Good(plan[s][Len(delivered[s]) + 1])
<1> DEFINE p == plan[s]
           n == Len(delivered[s])
           f == p[n + 1]
<1>1. Looping(s)
  BY DEF BadHeader, BadLength, BadTail, BodyComplete
<1>2. /\ p \in Seq(Frames) /\ n \in 0..(Len(p) - 1)
      /\ Length(s) = f.size /\ packLen_[s] = 0 => input[s][1] = f.head
  BY <1>1, OpenDecode
<1>3. n < Len(p)
  BY <1>2
<1>4. CASE BadHeader(s)
  BY <1>1, <1>3, <1>4, OpenDecode DEF BadHeader, Good
<1>5. CASE BadLength(s)
  <2>1. f.size \notin 2..MaxLength
    BY <1>1, <1>5, OpenDecode DEF BadLength
  <2> QED
    BY <1>3, <2>1 DEF Good
<1>6. CASE BadTail(s)
  <2>1. f.tail # Sign
    BY <1>6, OpenTake DEF BadTail
  <2> QED
    BY <1>3, <2>1 DEF Good
<1> QED
  BY <1>4, <1>5, <1>6

\* Every step keeps what is delivered in step with what was sent.
LEMMA StreamStep == IInv /\ [Next]_vars => StreamInv'
<1> SUFFICES ASSUME IInv, [Next]_vars, NEW t \in Sessions PROVE StreamFor(t)'
    BY DEF StreamInv, StreamFor
<1>0. StreamFor(t)
  BY DEF IInv, StreamInv, StreamFor
<1>1. CASE Accept
  BY <1>1, AcceptStream
<1>2. CASE Update
  <2>1. Untouched(t)
    BY <1>2 DEF Update, Untouched, streams
  <2> QED
    BY <1>0, <2>1, UntouchedStream
<1>3. ASSUME NEW s \in Sessions, Receive(s)
      PROVE  StreamFor(t)'
  <2>1. CASE t = s
    BY <1>3, <2>1, ReceiveStream
  <2>2. CASE t # s
    <3>1. Untouched(t)
      BY <1>3, <2>2
         DEF Receive, CanCallBack, Untouched, Sessions, IInv, TypeOK, StreamsOK
    <3> QED
      BY <1>0, <3>1, UntouchedStream
  <2> QED
    BY <2>1, <2>2
<1>4. ASSUME NEW s \in Sessions, NEW reason \in Reasons \ {"none"},
             Close(s, reason), UNCHANGED <<plan, delivered>>,
             status_[s] \in {"OK", "CLOSED"},
             t # s => /\ input'[t] = input[t] /\ wire'[t] = wire[t]
                      /\ packLen_'[t] = packLen_[t] /\ decoding # t,
             WellFramed(plan[s]) /\ told[s] = "connected"
             /\ reason \in {"head", "length", "tail"} =>
                 /\ Len(delivered[s]) < Len(plan[s])
                 /\ ~Good(plan[s][Len(delivered[s]) + 1])
      PROVE  StreamFor(t)'
  <2>1. ClosedWith(s, reason)
    BY <1>4 DEF ClosedWith
  <2>2. t # s => Untouched(t)
    <3>1. t # s => closedBy'[t] = closedBy[t] /\ told'[t] = told[t]
      BY <1>4 DEF Close, IInv, TypeOK, HistoryOK
    <3> QED
      BY <1>4, <3>1 DEF Untouched
  <2> QED
    BY <1>0, <1>4, <2>1, <2>2, ClosedStream
<1>5. ASSUME NEW s \in Sessions, HangUp(s)
      PROVE  StreamFor(t)'
  <2>1. /\ Close(s, "hangup") /\ UNCHANGED <<plan, delivered, input, packLen_>>
        /\ decoding = 0 /\ wire' = [wire EXCEPT ![s] = <<>>]
    BY <1>5, Zenon DEF HangUp, CanCallBack
  <2>2. status_[s] \in {"OK", "CLOSED"}
    BY <1>5, DecodingExists DEF HangUp
  <2>3. t # s => wire'[t] = wire[t] /\ decoding # t
    BY <2>1 DEF IInv, TypeOK, StreamsOK, Sessions
  <2>4. "hangup" \in Reasons \ {"none"} /\ "hangup" \notin {"head", "length", "tail"}
    BY DEF Reasons
  <2> QED
    BY <1>4, <2>1, <2>2, <2>3, <2>4
<1>6. ASSUME NEW s \in Sessions, Decode(s)
      PROVE  StreamFor(t)'
  <2>0. /\ decoding = s /\ wire' = wire /\ plan' = plan
        /\ status_[s] \in {"OK", "CLOSED"}
    BY <1>6, DecodeEffect, DecodingExists, Zenon
  <2>1. t # s => input'[t] = input[t] /\ packLen_'[t] = packLen_[t]
    BY <1>6 DEF Decode, DecodeWaits, BadHeader, BadLength, BodyIncomplete,
                TakePacket, BadTail, IInv, TypeOK, StreamsOK
  <2>2. CASE DecodeWaits(s) \/ BodyIncomplete(s)
    <3>1. UNCHANGED <<delivered, closedBy, told>>
      BY <2>2 DEF DecodeWaits, BodyIncomplete
    <3>2. t # s => Untouched(t)
      BY <2>0, <2>1, <3>1 DEF Untouched
    <3> QED
      BY <1>0, <2>2, <3>2, UntouchedStream, WaitStream
  <2>3. CASE TakePacket(s)
    <3>1. UNCHANGED <<closedBy, told>>
      BY <2>3 DEF TakePacket
    <3>2. t # s => delivered'[t] = delivered[t]
      BY <2>3 DEF TakePacket, Deliver, IInv, TypeOK, BodiesOK
    <3>3. t # s => Untouched(t)
      BY <2>0, <2>1, <3>1, <3>2 DEF Untouched
    <3> QED
      BY <1>0, <2>3, <3>3, UntouchedStream, TakeStream
  <2>4. CASE BadHeader(s) \/ BadLength(s) \/ BadTail(s)
    <3>1. PICK reason \in {"head", "length", "tail"} : Close(s, reason)
      BY <2>4, Zenon DEF BadHeader, BadLength, BadTail
    <3>2. UNCHANGED delivered /\ reason \in Reasons \ {"none"}
      BY <2>4 DEF BadHeader, BadLength, BadTail, Reasons
    <3>3. t # s => wire'[t] = wire[t] /\ decoding # t
      BY <2>0
    <3>4. WellFramed(plan[s]) /\ told[s] = "connected" =>
             /\ Len(delivered[s]) < Len(plan[s])
             /\ ~Good(plan[s][Len(delivered[s]) + 1])
      BY <2>4, BadStream
    <3> QED
      BY <1>4, <2>0, <2>1, <3>1, <3>2, <3>3, <3>4
  <2> QED
    BY <1>6, <2>2, <2>3, <2>4 DEF Decode
<1>7. ASSUME NEW s \in Sessions, ScriptCloses(s)
      PROVE  StreamFor(t)'
  <2>1. Untouched(t)
    BY <1>7, ScriptClosesNothing DEF Untouched, tables, streams
  <2> QED
    BY <1>0, <2>1, UntouchedStream
<1>8. CASE UNCHANGED vars
  <2>1. Untouched(t)
    BY <1>8 DEF Untouched, vars
  <2> QED
    BY <1>0, <2>1, UntouchedStream
<1> QED
  BY <1>1, <1>2, <1>3, <1>5, <1>6, <1>7, <1>8 DEF Next

\* While decode() is not running, an open session was given every packet
\* that has arrived whole: the next one needs more bytes than there are.
LEMMA StreamImplies == IInv => StreamDecoded
<1> SUFFICES ASSUME IInv, NEW s \in Sessions, WellFramed(plan[s])
             PROVE  InStep(s) /\ (told[s] = "connected" /\ decoding # s => UpToDate(s))
    BY DEF StreamDecoded
<1> DEFINE p == plan[s]
           n == Len(delivered[s])
<1>1. InStep(s)
  BY DEF IInv, StreamInv
<1>2. ASSUME told[s] = "connected", decoding # s,
             NEW m \in 0..Len(p),
             Len(Sent(p)[m]) + Len(wire[s]) <= Len(PlanBytes(p)), ~ (m <= n)
      PROVE  FALSE
  <2>1. OpenInv(s)
    BY <1>2 DEF IInv, StreamInv
  <2>2. /\ p \in Seq(Frames) /\ input[s] \in Seq(Byte) /\ wire[s] \in Seq(Byte)
        /\ n \in Nat /\ Len(p) \in Nat
    BY DEF IInv, TypeOK, StreamsOK, BodiesOK
  <2>3. n \in 0..(Len(p) - 1) /\ n \in 0..Len(p) /\ n + 1 \in 0..m /\ n + 1 \in 1..Len(p)
    BY <1>2, <2>2
  <2> DEFINE f == p[n + 1]
             a == Len(input[s])  b == Len(wire[s])  c == Len(Sent(p)[n])
             d == Len(Sent(p)[n + 1])  e == Len(Sent(p)[m])  k == Len(f.body)
  <2>4. /\ f \in Frames /\ d = c + Len(FrameBytes(f))
    BY <2>2, <2>3, SentNext
  <2>5. Len(FrameBytes(f)) = 6 + k /\ k \in Nat
    <3> HIDE DEF f
    <3>1. f.body \in Seq(Byte)
      BY <2>4 DEF Frames
    <3>2. Len(FrameBytes(f)) = 6 + k
      BY <2>4, FrameType
    <3> QED
      BY <3>1, <3>2
  <2>6. d <= e /\ d \in Nat /\ e \in Nat
    BY <2>2, <2>3, SentGrows
  <2>7. Len(PlanBytes(p)) = c + (a + b) /\ c \in Nat /\ a \in Nat /\ b \in Nat
    <3> DEFINE v == Sent(p)[n]  y == input[s]  z == wire[s]
    <3>1. v \in Seq(Byte) /\ y \in Seq(Byte) /\ z \in Seq(Byte)
      BY <2>2, <2>3, SentType
    <3>2. PlanBytes(p) = v \o (y \o z)
      BY <2>1 DEF OpenInv
    <3> HIDE DEF v, y, z
    <3>3. y \o z \in Seq(Byte) /\ Len(y \o z) = Len(y) + Len(z)
      BY <3>1, ConcatProperties
    <3>4. Len(v \o (y \o z)) = Len(v) + Len(y \o z)
      BY <3>1, <3>3, ConcatProperties
    <3>5. Len(v) \in Nat /\ Len(y) \in Nat /\ Len(z) \in Nat
      BY <3>1
    <3> QED
      BY <3>2, <3>3, <3>4, <3>5 DEF v, y, z
  <2>8. a < 6 + k
    <3>1. CASE packLen_[s] = 0
      <4>1. a < Need(0) /\ Need(0) = 6
        BY <1>2, <2>1, <3>1, NeedIs, FormatAssumption DEF OpenInv
      <4> HIDE DEF a, k
      <4> QED
        BY <2>5, <2>7, <4>1
    <3>2. CASE packLen_[s] # 0
      <4>1. /\ packLen_[s] \in 2..MaxLength /\ f.head = Sign /\ f.size = packLen_[s]
            /\ a < Need(packLen_[s])
        BY <1>2, <2>1, <3>2 DEF OpenInv
      <4>2. k = packLen_[s]
        BY <2>3, <4>1 DEF WellFramed
      <4>3. Need(packLen_[s]) = packLen_[s] + 6
        BY <4>1, NeedIs, FormatAssumption
      <4> HIDE DEF a, k, f
      <4> QED
        BY <2>5, <2>7, <4>1, <4>2, <4>3
    <3> QED
      BY <3>1, <3>2
  <2>9. e + b <= c + (a + b)
    BY <1>2, <2>7
  <2> HIDE DEF a, b, c, d, e, k, f
  <2> QED
    BY <2>4, <2>5, <2>6, <2>7, <2>8, <2>9
<1> QED
  BY <1>1, <1>2 DEF UpToDate

\* The inductive invariant holds in every state the server reaches.
THEOREM Invariance == Spec => []IInv
<1>1. IInv /\ [Next]_vars => IInv'
  BY TablesStep, StreamsStep, BodiesStep, AccountStep, DecodingStep,
     ReasonStep, LateStep, FreshStep, StreamStep DEF IInv, TypeOK
<1> QED
  BY InitIInv, <1>1, PTL DEF Spec

\* Every variable keeps its type: the length decode() keeps between two
\* reads fits its unsigned int and what the script gets are byte sequences.
THEOREM TypeCorrect == Spec => []TypeOK
<1>1. IInv => TypeOK
  BY DEF IInv
<1> QED
  BY Invariance, <1>1, PTL

\* Net never deletes a session twice, nor keeps a deleted one in its map.
THEOREM Accounted == Spec => []SessionsAccounted
<1>1. IInv => SessionsAccounted
  BY DEF IInv
<1> QED
  BY Invariance, <1>1, PTL

\* decode() never runs on a session update() has deleted.
THEOREM DecodeLive == Spec => []DecodesLiveSession
<1>1. IInv => DecodesLiveSession
  BY DEF IInv, DecodingInv, DecodesLiveSession
<1> QED
  BY Invariance, <1>1, PTL

\* A packet reaches the script after the disconnect only on a session that
\* was closed for a wrong length or a wrong tail.
THEOREM LateCause == Spec => []LateMessageCause
<1>1. IInv => LateMessageCause
  BY DEF IInv
<1> QED
  BY Invariance, <1>1, PTL

\* The script of a server gets the packets a client sent, in order and up to
\* the first bad one, which alone makes decode() close the session; and
\* between two calls of decode() none that has arrived is held back.
THEOREM Decoded == Spec => []StreamDecoded
<1> QED
  BY Invariance, StreamImplies, PTL
=============================================================================
