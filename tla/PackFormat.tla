----------------------------- MODULE PackFormat -----------------------------
(***************************************************************************)
(* The MessagePack formats of numbers and of the headers of strings,       *)
(* arrays and objects, with the byte order functions of util/util.h.       *)
(* Integers are kept as their bytes, the most significant first, so that   *)
(* they have their width.  x is the packed bytes, i the position of the    *)
(* pointer it of an unpack function.                                       *)
(***************************************************************************)
EXTENDS Integers, Sequences

CONSTANT LittleEndian  \* __is_le.c

ASSUME EndianAssumption == LittleEndian \in BOOLEAN

swap_bo16(b) == <<b[2], b[1]>>
swap_bo32(b) == <<b[4], b[3], b[2], b[1]>>
swap_bo64(b) == <<b[8], b[7], b[6], b[5], b[4], b[3], b[2], b[1]>>
\* hton16, hton32, hton64 and their inverses, by the width of b
hton(b) ==
  IF ~LittleEndian THEN b
  ELSE IF Len(b) = 2 THEN swap_bo16(b) ELSE IF Len(b) = 4 THEN swap_bo32(b) ELSE swap_bo64(b)
ntoh(b) == hton(b)

\* the n low bytes of b, and whether they are all of it but copies of the sign
Low(b, n) == SubSeq(b, 9 - n, 8)
FitsIn(b, n) == \A i \in 1 .. 8 - n : b[i] = IF b[9 - n] < 128 THEN 0 ELSE 255
SignExtended(b) == [i \in 1 .. 8 |-> IF i > 8 - Len(b) THEN b[i - 8 + Len(b)]
                                     ELSE IF b[1] < 128 THEN 0 ELSE 255]
\* -32 .. 127
IsFixInt(b) == FitsIn(b, 1) /\ (b[8] <= 127 \/ b[8] >= 224)

\* Fault: two bytes for every value of the unsigned range.
M_PackInt(b) ==
  CASE IsFixInt(b) -> Low(b, 1) [] ~IsFixInt(b) /\ FitsIn(b, 1) -> <<208>> \o Low(b, 1)
    [] ~FitsIn(b, 1) /\ (\A i \in 1 .. 6 : b[i] = 0) -> <<209>> \o Low(b, 2) [] OTHER -> <<211>> \o b

PackInt(b) ==
  IF IsFixInt(b) THEN Low(b, 1)
  ELSE IF FitsIn(b, 1) THEN <<208>> \o Low(b, 1)
  ELSE IF FitsIn(b, 2) THEN <<209>> \o Low(b, 2)
  ELSE IF FitsIn(b, 4) THEN <<210>> \o Low(b, 4)
  ELSE <<211>> \o b

PackedNumber(integral, val) == IF integral THEN PackInt(val) ELSE <<203>> \o hton(val)

\* n as the last two or four bytes of a header
Bytes2(n) == <<n \div 256, n % 256>>
Bytes4(n) == <<(n \div 16777216) % 256, (n \div 65536) % 256, (n \div 256) % 256, n % 256>>
NumberOf(b) ==
  IF Len(b) = 1 THEN b[1]
  ELSE IF Len(b) = 2 THEN b[1] * 256 + b[2]
  ELSE ((b[1] * 256 + b[2]) * 256 + b[3]) * 256 + b[4]

StringHeader(len) ==
  IF len <= 31 THEN <<160 + len>> ELSE IF len <= 255 THEN <<217, len>>
  ELSE IF len <= 65535 THEN <<218>> \o Bytes2(len) ELSE <<219>> \o Bytes4(len)
ArrayHeader(len) ==
  IF len <= 15 THEN <<144 + len>>
  ELSE IF len <= 65535 THEN <<220>> \o Bytes2(len) ELSE <<221>> \o Bytes4(len)
ObjectHeader(len) ==
  IF len <= 15 THEN <<128 + len>>
  ELSE IF len <= 65535 THEN <<222>> \o Bytes2(len) ELSE <<223>> \o Bytes4(len)

-----------------------------------------------------------------------------
\* the type whose unpack an array or object calls for a first byte
TypeOf(b) ==
  IF b = 192 THEN "null" ELSE IF b = 194 THEN "false" ELSE IF b = 195 THEN "true"
  ELSE IF b <= 127 \/ b >= 224 \/ b \in {202, 203} \/ b \in 208 .. 211 THEN "number"
  ELSE IF b \in 160 .. 191 \/ b \in 217 .. 219 THEN "string"
  ELSE IF b \in 144 .. 159 \/ b \in {220, 221} THEN "array"
  ELSE IF b \in 128 .. 143 \/ b \in {222, 223} THEN "object"
  ELSE "none"

\* the conversion of a float to a double, a stand-in like that of strtod
FloatToDouble(b) == b \o <<0, 0, 0, 0>>

\* the number at i, and the position behind it: in the first byte, or in the n bytes
\* behind it
IntAt(x, i, n) == [pos |-> i + n + 1, integral |-> TRUE, val |-> SignExtended(SubSeq(x, i + 1, i + n))]
RealAt(i, n, image) == [pos |-> i + n + 1, integral |-> FALSE, val |-> image]
NumberAt(x, i) ==
  IF x[i] <= 127 \/ x[i] >= 224 THEN [pos |-> i + 1, integral |-> TRUE, val |-> SignExtended(<<x[i]>>)]
  ELSE IF x[i] = 208 THEN IntAt(x, i, 1) ELSE IF x[i] = 209 THEN IntAt(x, i, 2)
  ELSE IF x[i] = 210 THEN IntAt(x, i, 4) ELSE IF x[i] = 211 THEN IntAt(x, i, 8)
  ELSE IF x[i] = 202 THEN RealAt(i, 4, FloatToDouble(ntoh(SubSeq(x, i + 1, i + 4))))
  ELSE RealAt(i, 8, ntoh(SubSeq(x, i + 1, i + 8)))

\* the length in a header, and where what it counts begins: in the first byte, or in the
\* one, two or four bytes behind it
Length(x, i, fixed, fixedBits, base) ==
  IF x[i] \in fixed THEN [len |-> x[i] % fixedBits, pos |-> i + 1]
  ELSE LET n == <<1, 2, 4>>[x[i] - base + 1] IN [len |-> NumberOf(SubSeq(x, i + 1, i + n)), pos |-> i + n + 1]

StringLength(x, i) == Length(x, i, 160 .. 191, 32, 217)
ArrayLength(x, i) == Length(x, i, 144 .. 159, 16, 219)
ObjectLength(x, i) == Length(x, i, 128 .. 143, 16, 221)
=============================================================================
