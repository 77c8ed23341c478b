------------------------- MODULE PacketCodec_proofs -------------------------
(***************************************************************************)
(* What a number of a packet is read as: never more than it was, and the   *)
(* same exactly when no byte below sixteen follows one that is not zero.   *)
(***************************************************************************)
EXTENDS PacketCodec, NatLemmas

Bytes == 0..(ByteRange - 1)
Words == [1..4 -> Bytes]

\* The number that four bytes stand for.
Value(w) == ((w[1] * ByteRange + w[2]) * ByteRange + w[3]) * ByteRange + w[4]

\* Every byte behind one that is not zero has two digits.
WellRead(w) ==
    /\ w[1] # 0 => w[2] >= Digit
    /\ w[1] # 0 \/ w[2] # 0 => w[3] >= Digit
    /\ w[1] # 0 \/ w[2] # 0 \/ w[3] # 0 => w[4] >= Digit

-----------------------------------------------------------------------------
(* One byte.                                                               *)

LEMMA RangeBounds == Digit \in Nat /\ ByteRange \in Nat /\ 0 < Digit /\ Digit < ByteRange
  <1> USE DigitAssumption
  <1>1. Digit \in Nat /\ Digit >= 2
    OBVIOUS
  <1>2. Digit * Digit \in Nat /\ Digit * Digit >= 2 * Digit
    BY <1>1
  <1> QED  BY <1>1, <1>2 DEF ByteRange

\* Reading a byte behind digits that may have been read as too little.
LEMMA ByteRead ==
    ASSUME NEW value \in Nat, NEW read \in Nat, read <= value, NEW byte \in Bytes
    PROVE  /\ AppendByte(read, byte) \in Nat
           /\ AppendByte(read, byte) <= value * ByteRange + byte
           /\ AppendByte(read, byte) = value * ByteRange + byte
              <=> read = value /\ (value # 0 => byte >= Digit)
  <1>1. /\ Digit \in Nat /\ ByteRange \in Nat /\ 0 < Digit /\ Digit < ByteRange
        /\ byte \in Nat
    BY RangeBounds DEF Bytes
  <1>2. read * ByteRange \in Nat /\ value * ByteRange \in Nat /\ read * Digit \in Nat
    BY <1>1
  <1>3. read * ByteRange <= value * ByteRange
    BY <1>1
  <1>4. read # value => read * ByteRange < value * ByteRange
    BY <1>1
  <1>5. read # 0 => read * Digit < read * ByteRange
    BY <1>1
  <1>6. read = 0 => read * Digit = 0 /\ read * ByteRange = 0
    BY <1>1
  <1>7. CASE byte < Digit
    <2>1. AppendByte(read, byte) = read * Digit + byte
      BY <1>7 DEF AppendByte
    <2> QED  BY <1>1, <1>2, <1>3, <1>4, <1>5, <1>6, <1>7, <2>1
  <1>8. CASE byte >= Digit
    <2>1. AppendByte(read, byte) = read * ByteRange + byte
      BY <1>1, <1>8 DEF AppendByte
    <2> QED  BY <1>1, <1>2, <1>3, <1>4, <1>8, <2>1
  <1> QED  BY <1>1, <1>7, <1>8

-----------------------------------------------------------------------------
(* Four bytes.                                                             *)

LEMMA Shifted ==
    ASSUME NEW value \in Nat, NEW byte \in Bytes
    PROVE  /\ value * ByteRange + byte \in Nat
           /\ value * ByteRange + byte = 0 <=> value = 0 /\ byte = 0
  <1>1. ByteRange \in Nat /\ ByteRange > 0 /\ byte \in Nat
    BY RangeBounds DEF Bytes
  <1>2. value * ByteRange \in Nat
    BY <1>1
  <1>3. value # 0 => value * ByteRange > 0
    BY <1>1
  <1>4. value = 0 => value * ByteRange = 0
    BY <1>1
  <1> QED  BY <1>1, <1>2, <1>3, <1>4

\* A number is never read as more than it was, and is read as it was exactly
\* when every byte behind one that is not zero has two digits (Packet.lua,
\* G_UnPacketI), whatever the base.
THEOREM ReadRight ==
    ASSUME NEW w \in Words
    PROVE  /\ G_UnPacketI(w) <= Value(w)
           /\ G_UnPacketI(w) = Value(w) <=> WellRead(w)
  <1>1. w[1] \in Bytes /\ w[2] \in Bytes /\ w[3] \in Bytes /\ w[4] \in Bytes
    BY DEF Words
  <1>2. PICK v2 : v2 = w[1] * ByteRange + w[2]
    OBVIOUS
  <1>3. PICK v3 : v3 = v2 * ByteRange + w[3]
    OBVIOUS
  <1>4. PICK r2 : r2 = AppendByte(w[1], w[2])
    OBVIOUS
  <1>5. PICK r3 : r3 = AppendByte(r2, w[3])
    OBVIOUS
  <1>6. w[1] \in Nat
    BY <1>1, RangeBounds DEF Bytes
  <1>7. v2 \in Nat /\ (v2 = 0 <=> w[1] = 0 /\ w[2] = 0)
    BY <1>1, <1>2, <1>6, Shifted
  <1>8. v3 \in Nat /\ (v3 = 0 <=> v2 = 0 /\ w[3] = 0)
    BY <1>1, <1>3, <1>7, Shifted
  <1>9. r2 \in Nat /\ r2 <= v2 /\ (r2 = v2 <=> (w[1] # 0 => w[2] >= Digit))
    <2>1. w[1] <= w[1]
      BY <1>6
    <2> QED  BY <1>1, <1>2, <1>4, <1>6, <2>1, ByteRead
  <1>10. r3 \in Nat /\ r3 <= v3 /\ (r3 = v3 <=> r2 = v2 /\ (v2 # 0 => w[3] >= Digit))
    BY <1>1, <1>3, <1>5, <1>7, <1>9, ByteRead
  <1>11. /\ AppendByte(r3, w[4]) <= v3 * ByteRange + w[4]
         /\ AppendByte(r3, w[4]) = v3 * ByteRange + w[4]
            <=> r3 = v3 /\ (v3 # 0 => w[4] >= Digit)
    BY <1>1, <1>8, <1>10, ByteRead
  <1>12. AppendByte(0, w[1]) = w[1]
    <2>1. Digit \in Nat /\ ByteRange \in Nat
      BY RangeBounds
    <2> QED  BY <1>6, <2>1 DEF AppendByte
  <1>13. G_UnPacketI(w) = AppendByte(r3, w[4]) /\ Value(w) = v3 * ByteRange + w[4]
    BY <1>2, <1>3, <1>4, <1>5, <1>12 DEF G_UnPacketI, Value
  <1> QED  BY <1>7, <1>8, <1>9, <1>10, <1>11, <1>13 DEF WellRead

-----------------------------------------------------------------------------
(* The numbers of four bytes.                                              *)

FourBytes == 0..(ByteRange * ByteRange * ByteRange * ByteRange - 1)

\* Two digits, and three, are below the power of the base that follows them.
LEMMA DigitsBelow ==
    ASSUME NEW b \in Nat \ {0}, NEW d2 \in 0..(b - 1), NEW d1 \in 0..(b - 1), NEW d0 \in 0..(b - 1)
    PROVE  /\ b * b \in Nat \ {0} /\ b * b * b \in Nat \ {0}
           /\ d1 * b + d0 \in 0..(b * b - 1)
           /\ d2 * (b * b) + (d1 * b + d0) \in 0..(b * b * b - 1)
  <1>1. PICK s : s = b * b
    OBVIOUS
  <1>2. PICK t : t = s * b
    OBVIOUS
  <1>3. s \in Nat \ {0} /\ t \in Nat \ {0}
    <2>1. s \in Nat \ {0}
      BY <1>1
    <2> QED  BY <1>2, <2>1
  <1>4. PICK e : e = d1 * b + d0
    OBVIOUS
  <1>5. e \in 0..(s - 1)
    <2>1. d1 * b \in Nat /\ d1 * b <= (b - 1) * b /\ (b - 1) * b = s - b
      BY <1>1
    <2> QED  BY <1>3, <1>4, <2>1
  <1>6. d2 * s + e \in 0..(t - 1)
    <2>1. d2 * s \in Nat /\ d2 * s <= (b - 1) * s /\ (b - 1) * s = t - s
      BY <1>2, <1>3
    <2> QED  BY <1>3, <1>5, <2>1
  <1>7. b * b * b = t
    BY <1>1, <1>2
  <1> QED  BY <1>1, <1>3, <1>4, <1>5, <1>6, <1>7

\* Buf::writeInt loses nothing.
LEMMA Written ==
    ASSUME NEW v \in FourBytes
    PROVE  WriteInt(v) \in Words /\ Value(WriteInt(v)) = v
  <1>0. PICK base \in Nat \ {0} : base = ByteRange
    BY RangeBounds
  <1> DEFINE x1 == v \div base   d0 == v % base
             x2 == x1 \div base  d1 == x1 % base
             x3 == x2 \div base  d2 == x2 % base
  <1>1. v \in Nat /\ v < base * base * base * base
    <2>1. base * base * base * base \in Nat
      BY <1>0
    <2> QED  BY <1>0, <2>1 DEF FourBytes
  <1>2. x1 \in Nat /\ d0 \in 0..(base - 1) /\ v = x1 * base + d0
    BY <1>1
  <1> HIDE DEF x1, d0
  <1>3. x2 \in Nat /\ d1 \in 0..(base - 1) /\ x1 = x2 * base + d1
    BY <1>2
  <1> HIDE DEF x2, d1
  <1>4. x3 \in Nat /\ d2 \in 0..(base - 1) /\ x2 = x3 * base + d2
    BY <1>3
  <1> HIDE DEF x3, d2
  <1>5. PICK s : s = base * base
    OBVIOUS
  <1>6. PICK t : t = base * base * base
    OBVIOUS
  <1>7. /\ s \in Nat \ {0} /\ t \in Nat \ {0} /\ t = s * base
        /\ d1 * base + d0 \in 0..(s - 1)
        /\ d2 * s + (d1 * base + d0) \in 0..(t - 1)
    <2>1. /\ base * base \in Nat \ {0} /\ base * base * base \in Nat \ {0}
          /\ d1 * base + d0 \in 0..(base * base - 1)
          /\ d2 * (base * base) + (d1 * base + d0) \in 0..(base * base * base - 1)
      BY <1>2, <1>3, <1>4, DigitsBelow
    <2> QED  BY <1>5, <1>6, <2>1
  <1>8. v \div s = x2
    <2>1. x1 * base = x2 * s + d1 * base
      BY <1>2, <1>3, <1>5
    <2>2. PICK e \in 0..(s - 1) : e = d1 * base + d0
      BY <1>7
    <2>3. v = x2 * s + e
      BY <1>2, <1>3, <1>7, <2>1, <2>2
    <2>4. x2 \in Int
      BY <1>3
    <2> QED  BY <1>7, <2>3, <2>4, Quotient
  <1>9. v \div t = x3
    <2>1. x1 * base = x2 * s + d1 * base
      BY <1>2, <1>3, <1>5
    <2>2. x2 * s = x3 * t + d2 * s
      BY <1>3, <1>4, <1>7
    <2>3. PICK e \in 0..(t - 1) : e = d2 * s + (d1 * base + d0)
      BY <1>7
    <2>4. v = x3 * t + e
      <3>1. x3 * t \in Nat /\ d2 * s \in Nat /\ d1 * base \in Nat
        BY <1>3, <1>4, <1>7
      <3> QED  BY <1>2, <2>1, <2>2, <2>3, <3>1
    <2>5. x3 \in Int
      BY <1>4
    <2> QED  BY <1>7, <2>4, <2>5, Quotient
  <1>10. x3 % base = x3
    <2>1. ~(x3 >= base)
      <3>1. ASSUME x3 >= base PROVE x3 * t >= base * t
        BY <1>4, <1>7, <3>1
      <3>2. base * base * base * base = base * t
        BY <1>6
      <3>3. v >= x3 * t
        <4>1. x1 * base >= x2 * s /\ x2 * s >= x3 * t
          <5>1. x2 * base <= x1 /\ x3 * base <= x2
            BY <1>2, <1>3, <1>4
          <5>2. (x2 * base) * base <= x1 * base /\ (x3 * base) * s <= x2 * s
            BY <1>2, <1>3, <1>4, <1>7, <5>1
          <5>3. (x2 * base) * base = x2 * s /\ (x3 * base) * s = x3 * t
            BY <1>3, <1>4, <1>5, <1>7
          <5> QED  BY <5>2, <5>3
        <4>2. x1 * base \in Nat /\ x2 * s \in Nat /\ x3 * t \in Nat
          BY <1>2, <1>3, <1>4, <1>7
        <4> QED  BY <1>1, <1>2, <4>1, <4>2
      <3>4. x3 * t \in Nat /\ base * t \in Nat
        BY <1>4, <1>7
      <3> QED  BY <1>1, <3>1, <3>2, <3>3, <3>4
    <2>2. x3 \in 0..(base - 1) /\ x3 = 0 * base + x3
      BY <1>4, <2>1
    <2> QED  BY <2>2, Quotient
  <1> DEFINE w == WriteInt(v)
  <1>11. /\ w[4] = v % base /\ w[3] = (v \div base) % base
         /\ w[2] = (v \div s) % base /\ w[1] = (v \div t) % base
         /\ w = [i \in 1..4 |-> w[i]]
    BY <1>0, <1>5, <1>6 DEF WriteInt
  <1> HIDE DEF w
  <1>12. w[4] = d0 /\ w[3] = d1 /\ w[2] = d2 /\ w[1] = x3
    BY <1>8, <1>9, <1>10, <1>11 DEF d0, d1, d2, x1, x2
  <1>13. w \in Words
    <2>1. x3 \in 0..(base - 1)
      <3>1. x3 % base \in 0..(base - 1)
        BY <1>4
      <3> QED  BY <1>10, <3>1
    <2>2. \A i \in 1..4 : w[i] \in Bytes
      BY <1>0, <1>2, <1>3, <1>4, <1>12, <2>1 DEF Bytes
    <2> QED  BY <1>11, <2>2 DEF Words
  <1>14. Value(w) = v
    <2>1. Value(w) = ((x3 * base + d2) * base + d1) * base + d0
      BY <1>0, <1>12 DEF Value
    <2> QED  BY <1>2, <1>3, <1>4, <2>1
  <1> QED  BY <1>13, <1>14 DEF w

\* What one server writes into a packet another reads as the same number
\* exactly when its bytes are well read; otherwise it reads a smaller one.
THEOREM ReceivedRight ==
    ASSUME NEW v \in FourBytes
    PROVE  /\ Received(v) <= v
           /\ Received(v) = v <=> WellRead(WriteInt(v))
  BY Written, ReadRight DEF Received

\* The sessions of a gate up to the last of one byte are read right, and the
\* next has the number of another one, whatever the base.
THEOREM FirstCollision ==
    /\ \A v \in 0..(ByteRange - 1) : Received(v) = v
    /\ Received(ByteRange) = Digit /\ Digit \in 0..(ByteRange - 1)
  <1>0. PICK base \in Nat \ {0} : base = ByteRange
    BY RangeBounds
  <1>1. Digit \in Nat /\ 1 < Digit /\ Digit < base
    BY <1>0, RangeBounds, DigitAssumption
  <1>2. PICK s : s = base * base
    OBVIOUS
  <1>3. PICK t : t = s * base
    OBVIOUS
  <1>4. s \in Nat \ {0} /\ t \in Nat \ {0} /\ base < s /\ s < t
    <2>1. base * base >= 2 * base
      BY <1>1
    <2>2. s \in Nat /\ base < s
      BY <1>1, <1>2, <2>1
    <2>3. s * base >= s * 2
      BY <1>1, <2>2
    <2> QED  BY <1>1, <1>3, <2>2, <2>3
  <1>5. ASSUME NEW n \in Nat \ {0}, NEW v \in 0..(n - 1)
        PROVE  v \div n = 0 /\ v % n = v
    <2>1. v = 0 * n + v
      OBVIOUS
    <2> QED  BY <2>1, Quotient
  <1>6. ASSUME NEW v \in Nat
        PROVE  WriteInt(v) = [i \in 1..4 |-> CASE i = 4 -> v % base
                                               [] i = 3 -> (v \div base) % base
                                               [] i = 2 -> (v \div s) % base
                                               [] i = 1 -> (v \div t) % base]
    BY <1>0, <1>2, <1>3 DEF WriteInt
  <1>7. 0 % base = 0 /\ 1 % base = 1
    BY <1>1, <1>5
  <1>8. AppendByte(0, 0) = 0 /\ AppendByte(0, 1) = 1 /\ AppendByte(1, 0) = Digit
    BY <1>0, <1>1 DEF AppendByte
  <1>9. ASSUME NEW v \in 0..(base - 1) PROVE Received(v) = v
    <2>1. v % base = v /\ v \div base = 0 /\ v \div s = 0 /\ v \div t = 0
      <3>1. v \in 0..(s - 1) /\ v \in 0..(t - 1)
        BY <1>4
      <3> QED  BY <1>4, <1>5, <3>1
    <2> DEFINE w == WriteInt(v)
    <2>2. w[1] = 0 /\ w[2] = 0 /\ w[3] = 0 /\ w[4] = v
      BY <1>6, <1>7, <2>1
    <2> HIDE DEF w
    <2>3. AppendByte(0, v) = v
      BY <1>0, <1>1 DEF AppendByte
    <2>4. Received(v) = AppendByte(AppendByte(AppendByte(AppendByte(0, w[1]), w[2]), w[3]), w[4])
      BY DEF Received, G_UnPacketI, w
    <2> QED  BY <1>8, <2>2, <2>3, <2>4
  <1>10. Received(base) = Digit
    <2>1. base % base = 0 /\ base \div base = 1 /\ base \div s = 0 /\ base \div t = 0
      <3>1. base \in 0..(s - 1) /\ base \in 0..(t - 1)
        BY <1>4
      <3>2. base = 1 * base + 0 /\ 0 \in 0..(base - 1)
        OBVIOUS
      <3>3. base \div base = 1 /\ base % base = 0
        BY <3>2, Quotient
      <3> QED  BY <1>4, <1>5, <3>1, <3>3
    <2> DEFINE w == WriteInt(base)
    <2>2. w[1] = 0 /\ w[2] = 0 /\ w[3] = 1 /\ w[4] = 0
      BY <1>6, <1>7, <2>1
    <2> HIDE DEF w
    <2>3. Received(base) =
             AppendByte(AppendByte(AppendByte(AppendByte(0, w[1]), w[2]), w[3]), w[4])
      BY DEF Received, G_UnPacketI, w
    <2> QED  BY <1>8, <2>2, <2>3
  <1> QED  BY <1>0, <1>1, <1>9, <1>10

\* The numbers that the servers depend on: the commands to the database
\* (G2D_COMMAND, D2G_COMMAND_RESULT) and the 256th client of a gate are read
\* as something else.
THEOREM ReceivedWrong ==
    ASSUME Digit = 16
    PROVE  /\ Received(200000) = 15680 /\ Received(200001) = 15681
           /\ Received(256) = 16 /\ Received(257) = 17
  <1>1. ByteRange = 256
    BY SMT DEF ByteRange
  <1>2. \A v \in {200000, 200001, 256, 257} :
            LET w == WriteInt(v)
            IN /\ w[4] = v % 256 /\ w[3] = (v \div 256) % 256
               /\ w[2] = (v \div 65536) % 256 /\ w[1] = (v \div 16777216) % 256
    BY SMT, <1>1 DEF WriteInt
  <1>3. Received(200000) = 15680
    BY SMT, <1>1, <1>2 DEF Received, G_UnPacketI, AppendByte
  <1>4. Received(200001) = 15681
    BY SMT, <1>1, <1>2 DEF Received, G_UnPacketI, AppendByte
  <1>5. Received(256) = 16
    BY SMT, <1>1, <1>2 DEF Received, G_UnPacketI, AppendByte
  <1>6. Received(257) = 17
    BY SMT, <1>1, <1>2 DEF Received, G_UnPacketI, AppendByte
  <1> QED  BY SMT, <1>3, <1>4, <1>5, <1>6
=============================================================================
