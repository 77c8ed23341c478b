---------------------------- MODULE PacketCodec ----------------------------
(***************************************************************************)
(* The integers of a packet (Packet.lua).  The core writes a number byte   *)
(* by byte (Buf::writeInt); the script reads it back from the hexadecimal  *)
(* text of the bytes.  "%x" prints a byte below sixteen as one digit, so   *)
(* that the digits before it are shifted too little.                       *)
(***************************************************************************)
EXTENDS Naturals

CONSTANT Digit      \* the values of a hexadecimal digit (16)

ASSUME DigitAssumption == Digit \in Nat \ {0, 1}

ByteRange == Digit * Digit

\* Buf::writeInt: the four bytes of a number, in the order in which
\* G_UnPacketI takes them, from the last in memory to the first.
WriteInt(v) ==
    [i \in 1..4 |-> CASE i = 4 -> v % ByteRange
                      [] i = 3 -> (v \div ByteRange) % ByteRange
                      [] i = 2 -> (v \div (ByteRange * ByteRange)) % ByteRange
                      [] i = 1 -> (v \div (ByteRange * ByteRange * ByteRange)) % ByteRange]

\* hex .. string.format("%x", byte), as a number.
AppendByte(value, byte) ==
    value * (IF byte < Digit THEN Digit ELSE ByteRange) + byte

\* The text of the four bytes, read by C_ToNumber.
G_UnPacketI(w) ==
    AppendByte(AppendByte(AppendByte(AppendByte(0, w[1]), w[2]), w[3]), w[4])

\* What the script of another server reads for a number.
Received(v) == G_UnPacketI(WriteInt(v))
=============================================================================
