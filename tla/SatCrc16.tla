------------------------------ MODULE SatCrc16 ------------------------------
(***************************************************************************)
(* sat_crc16 of satellite/protocol/sat_protocol.h: CRC-16/CCITT, bit by    *)
(* bit, in 16-bit arithmetic.                                              *)
(***************************************************************************)
EXTENDS Integers, Sequences, Bitwise

\* Op of the value of x, which is evaluated first.
Apply(Op(_), x) == CHOOSE r \in {Op(v) : v \in {x}} : TRUE

\* One round of the inner loop.
CrcBit(crc) ==
  IF crc >= 32768 THEN ((crc * 2) % 65536) ^^ 4129 ELSE crc * 2

\* The inner loop for the byte x.
CrcRounds(x) ==
  LET rounds[j \in 0 .. 8] == IF j = 0 THEN x * 256 ELSE Apply(CrcBit, rounds[j - 1])
  IN  rounds[8]

\* The inner loop acts on the upper byte alone, so it has 256 outcomes.
CrcTable == [x \in 0 .. 255 |-> CrcRounds(x)]

\* Exclusive or of two bytes, looked up by half bytes.
XorHalf == [a \in 0 .. 15 |-> [b \in 0 .. 15 |-> a ^^ b]]
XorByte(a, b) == 16 * XorHalf[a \div 16][b \div 16] + XorHalf[a % 16][b % 16]

\* One round of the outer loop, for the byte b.
CrcStep(crc, b) ==
  LET t == CrcTable[XorByte(crc \div 256, b)]
  IN  256 * XorByte(crc % 256, t \div 256) + (t % 256)

sat_crc16(data) ==
  LET crc[i \in 0 .. Len(data)] ==
        IF i = 0 THEN 65535 ELSE Apply(LAMBDA c : CrcStep(c, data[i]), crc[i - 1])
  IN  crc[Len(data)]

\* As build_frame stores it, low byte first.
CrcBytes(data) == LET crc == sat_crc16(data) IN <<crc % 256, crc \div 256>>

\* The published check value of this CRC, over the digits 1 to 9.
ASSUME CheckValue == sat_crc16(<<49, 50, 51, 52, 53, 54, 55, 56, 57>>) = 10673
=============================================================================
