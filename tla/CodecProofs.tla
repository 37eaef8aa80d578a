----------------------------- MODULE CodecProofs -----------------------------
(***************************************************************************)
(* Proofs about the conversions that have an inverse in the code: UTF-8    *)
(* and UTF-16, for every code point, and the MessagePack formats of        *)
(* numbers and headers, for every 64 bit number, every length of 32 bits   *)
(* and whatever bytes are around them.                                     *)
(***************************************************************************)
EXTENDS Utf, PackFormat, SequenceTheorems, TLAPS

-----------------------------------------------------------------------------
(* Unicode.                                                                 *)

\* all of Unicode
IsCodePoint(c) == c <= 1114111

\* utf32_to_utf8 writes as many bytes as utf8_to_utf32 takes the first one to say, and the
\* bytes mean the code point again, also as UTF-16 units.
THEOREM CodePointsComeBack ==
  ASSUME NEW c \in Nat, IsCodePoint(c)
  PROVE  /\ Used(utf32_to_utf8(c)[1]) = Len(utf32_to_utf8(c))
         /\ utf8_to_utf32(utf32_to_utf8(c)) = c
         /\ utf8_to_utf16(utf32_to_utf8(c)) = utf32_to_utf16(c)
<1> DEFINE b == utf32_to_utf8(c)
<1>1. c \in Nat /\ c <= 1114111
  BY SMT DEF IsCodePoint
<1>2. Used(b[1]) = Len(b) /\ utf8_to_utf32(b) = c
  <2>1. CASE c < 128
    <3>1. b = <<c>>
      BY <1>1, <2>1, SMT DEF utf32_to_utf8
    <3> HIDE DEF b
    <3>2. b[1] = c /\ Len(b) = 1
      BY <3>1, SMT
    <3>3. Used(c) = 1 /\ c % 128 = c
      BY <1>1, <2>1, SMT DEF Used
    <3> QED
      BY <3>2, <3>3, SMT DEF utf8_to_utf32
  <2>2. CASE c >= 128 /\ c < 2048
    <3> DEFINE y == 192 + c \div 64
               z == 128 + (c % 64)
    <3>1. b = <<y, z>>
      BY <1>1, <2>2, SMT DEF utf32_to_utf8, Continuation
    <3> HIDE DEF b
    <3>2. y \in 194 .. 223 /\ y % 32 = c \div 64 /\ z % 64 = c % 64 /\ c = (c \div 64) * 64 + (c % 64)
      BY <1>1, <2>2, SMT
    <3> HIDE DEF y, z
    <3>3. b[1] = y /\ b[2] = z /\ Len(b) = 2
      BY <3>1, SMT
    <3>4. Used(y) = 2
      BY <3>2, SMT DEF Used
    <3> QED
      BY <1>1, <3>2, <3>3, <3>4, SMT DEF utf8_to_utf32
  <2>3. CASE c >= 2048 /\ c < 65536
    <3> DEFINE y == 224 + c \div 4096
               z == 128 + ((c \div 64) % 64)
               w == 128 + (c % 64)
    <3>1. b = <<y, z, w>>
      BY <1>1, <2>3, SMT DEF utf32_to_utf8, Continuation
    <3> HIDE DEF b
    <3>2. /\ y \in 224 .. 239 /\ y % 16 = c \div 4096 /\ z % 64 = (c \div 64) % 64 /\ w % 64 = c % 64
          /\ c = ((c \div 4096) * 64 + ((c \div 64) % 64)) * 64 + (c % 64)
      BY <1>1, <2>3, SMT
    <3> HIDE DEF y, z, w
    <3>3. b[1] = y /\ b[2] = z /\ b[3] = w /\ Len(b) = 3
      BY <3>1, SMT
    <3>4. Used(y) = 3
      BY <3>2, SMT DEF Used
    <3> QED
      BY <1>1, <3>2, <3>3, <3>4, SMT DEF utf8_to_utf32
  <2>4. CASE c >= 65536
    <3> DEFINE y == 240 + c \div 262144
               z == 128 + ((c \div 4096) % 64)
               w == 128 + ((c \div 64) % 64)
               v == 128 + (c % 64)
    <3>1. b = <<y, z, w, v>>
      BY <1>1, <2>4, SMT DEF utf32_to_utf8, Continuation
    <3> HIDE DEF b
    <3>2. /\ y \in 240 .. 247 /\ y % 8 = c \div 262144 /\ z % 64 = (c \div 4096) % 64
          /\ w % 64 = (c \div 64) % 64 /\ v % 64 = c % 64
          /\ c = (((c \div 262144) * 64 + ((c \div 4096) % 64)) * 64 + ((c \div 64) % 64)) * 64 + (c % 64)
      BY <1>1, <2>4, SMT
    <3> HIDE DEF y, z, w, v
    <3>3. b[1] = y /\ b[2] = z /\ b[3] = w /\ b[4] = v /\ Len(b) = 4
      BY <3>1, SMT
    <3>4. Used(y) = 4
      BY <3>2, SMT DEF Used
    <3>5. utf8_to_utf32(b) = (((b[1] % 8) * 64 + (b[2] % 64)) * 64 + (b[3] % 64)) * 64 + (b[4] % 64)
      BY <3>3, <3>4, SMT DEF utf8_to_utf32
    <3>6. utf8_to_utf32(b) = c
      BY ONLY <1>1, <3>2, <3>3, <3>5, SMT
    <3> QED
      BY <3>3, <3>4, <3>6, SMT
  <2> QED
    BY <1>1, <2>1, <2>2, <2>3, <2>4, SMT
<1> QED
  BY <1>2, SMT DEF utf8_to_utf16

\* The units of a code point are one that is no surrogate, or a lead and a trail surrogate
\* that are joined to the code point again.  A lone surrogate is its own unit.
THEOREM UnitsComeBack ==
  ASSUME NEW c \in Nat, IsCodePoint(c)
  PROVE  LET u == utf32_to_utf16(c)
         IN  \/ /\ c <= 65535 /\ u = <<c>>
                /\ c \notin 55296 .. 57343 => ~is_lead_surrogate(c) /\ ~is_trail_surrogate(c)
             \/ /\ c > 65535 /\ Len(u) = 2 /\ is_lead_surrogate(u[1]) /\ is_trail_surrogate(u[2])
                /\ surrogate_pair_to_utf32(u[1], u[2]) = c
<1> DEFINE u == utf32_to_utf16(c)
<1>1. c \in Nat /\ c <= 1114111
  BY SMT DEF IsCodePoint
<1>2. CASE c <= 65535
  <2>1. u = <<c>>
    BY <1>2, SMT DEF utf32_to_utf16
  <2>2. c \notin 55296 .. 57343 => c \div 1024 # 54 /\ c \div 1024 # 55
    BY <1>1, SMT
  <2> QED
    BY <1>2, <2>1, <2>2, SMT DEF is_lead_surrogate, is_trail_surrogate
<1>3. CASE c > 65535
  <2> DEFINE lead == 55296 + (c - 65536) \div 1024
             trail == 56320 + (c % 1024)
  <2>1. u = <<lead, trail>>
    BY <1>1, <1>3, SMT DEF utf32_to_utf16
  <2>2. /\ lead \in Nat /\ trail \in Nat
        /\ lead \div 1024 = 54 /\ trail \div 1024 = 55
        /\ lead % 1024 = (c - 65536) \div 1024 /\ trail % 1024 = c % 1024
        /\ c = ((c - 65536) \div 1024) * 1024 + (c % 1024) + 65536
    BY <1>1, <1>3, SMT
  <2> HIDE DEF lead, trail, u
  <2>3. u[1] = lead /\ u[2] = trail /\ Len(u) = 2
    BY <2>1, SMT
  <2>4. surrogate_pair_to_utf32(lead, trail) = c
    BY <1>1, <2>2, SMT DEF surrogate_pair_to_utf32
  <2> QED
    BY <1>3, <2>2, <2>3, <2>4, SMT DEF is_lead_surrogate, is_trail_surrogate, u
<1> QED
  BY <1>1, <1>2, <1>3, SMT

-----------------------------------------------------------------------------
(* MessagePack.                                                             *)

Byte == 0 .. 255

\* the bytes p are those of x from position i on
IsAt(p, x, i) == i + Len(p) - 1 <= Len(x) /\ \A k \in 1 .. Len(p) : x[i + k - 1] = p[k]
\* a first byte and others there, and how they are read
HeadedAt(head, d, x, i) == IsAt(<<head>> \o d, x, i)
ReadAs(head, d, x, i) ==
  Len(<<head>> \o d) = Len(d) + 1 /\ x[i] = head /\ SubSeq(x, i + 1, i + Len(d)) = d

\* What stands at i as a first byte and others is read as that byte and those others.
LEMMA HeadAndBody ==
  ASSUME NEW head \in Byte, NEW d \in Seq(Byte),
         NEW x \in Seq(Byte), NEW i \in Nat \ {0}, HeadedAt(head, d, x, i)
  PROVE  ReadAs(head, d, x, i)
<1> DEFINE p == <<head>> \o d
<1>1. <<head>> \in Seq(Byte) /\ Len(<<head>>) = 1
  OBVIOUS
<1>2. /\ p \in Seq(Byte) /\ Len(p) = Len(d) + 1
      /\ p[1] = head /\ \A k \in 1 .. Len(d) : p[k + 1] = d[k]
  BY <1>1
<1>a. IsAt(p, x, i)
  BY DEF HeadedAt
<1> HIDE DEF p
<1>3. i + Len(d) <= Len(x) /\ x[i] = head
  BY <1>a, <1>2 DEF IsAt
<1>4. ASSUME NEW k \in 1 .. Len(d) PROVE x[i + k] = d[k]
  <2>1. k + 1 \in 1 .. Len(p) /\ i + (k + 1) - 1 = i + k
    BY <1>2
  <2>2. x[i + (k + 1) - 1] = p[k + 1]
    BY <1>a, <2>1 DEF IsAt
  <2> QED
    BY <1>2, <2>1, <2>2
<1> DEFINE q == SubSeq(x, i + 1, i + Len(d))
<1>5. \A k \in i + 1 .. i + Len(d) : x[k] \in Byte
  BY <1>3
<1>6. /\ q \in Seq(Byte) /\ Len(q) = Len(d)
      /\ \A k \in 1 .. Len(d) : q[k] = x[i + k]
  <2>1. /\ q \in Seq(Byte)
        /\ Len(q) = IF i + 1 <= i + Len(d) THEN i + Len(d) - (i + 1) + 1 ELSE 0
        /\ \A k \in 1 .. i + Len(d) - (i + 1) + 1 : q[k] = x[i + 1 + k - 1]
    BY <1>5, SubSeqProperties
  <2> HIDE DEF p, q
  <2>2. Len(d) \in Nat /\ i + Len(d) - (i + 1) + 1 = Len(d)
    OBVIOUS
  <2> QED
    BY <2>1, <2>2
<1> HIDE DEF p, q
<1>7. q = d
  BY <1>4, <1>6, SeqEqual
<1> QED
  BY <1>2, <1>3, <1>7 DEF p, q, ReadAs

\* The low bytes of a number.
LEMMA LowBytes ==
  ASSUME NEW val \in [1 .. 8 -> Byte], NEW n \in 1 .. 8
  PROVE  /\ Low(val, n) \in Seq(Byte) /\ Len(Low(val, n)) = n
         /\ \A k \in 1 .. n : Low(val, n)[k] = val[8 - n + k]
<1> DEFINE q == SubSeq(val, 9 - n, 8)
<1>1. \A k \in 9 - n .. 8 : val[k] \in Byte
  OBVIOUS
<1>2. /\ q \in Seq(Byte)
      /\ Len(q) = IF 9 - n <= 8 THEN 8 - (9 - n) + 1 ELSE 0
      /\ \A k \in 1 .. 8 - (9 - n) + 1 : q[k] = val[9 - n + k - 1]
  BY <1>1, SubSeqProperties
<1> HIDE DEF q
<1>3. 8 - (9 - n) + 1 = n
  OBVIOUS
<1>4. ASSUME NEW k \in 1 .. n PROVE q[k] = val[8 - n + k]
  <2>1. 9 - n + k - 1 = 8 - n + k
    OBVIOUS
  <2> QED
    BY <1>2, <1>3, <2>1
<1> QED
  BY <1>2, <1>3, <1>4 DEF q, Low

\* When the rest is copies of the sign, the low bytes give the number back.
LEMMA SignComesBack ==
  ASSUME NEW val \in [1 .. 8 -> Byte], NEW n \in 1 .. 8, FitsIn(val, n)
  PROVE  SignExtended(Low(val, n)) = val
<1> DEFINE d == Low(val, n)
<1>1. /\ Len(d) = n
      /\ \A k \in 1 .. n : d[k] = val[8 - n + k]
  BY LowBytes
<1> HIDE DEF d
<1>2. d[1] = val[9 - n]
  <2>1. 1 \in 1 .. n /\ 8 - n + 1 = 9 - n
    OBVIOUS
  <2> QED
    BY <1>1, <2>1
<1>3. ASSUME NEW i \in 1 .. 8
      PROVE  (IF i > 8 - Len(d) THEN d[i - 8 + Len(d)] ELSE IF d[1] < 128 THEN 0 ELSE 255) = val[i]
  <2>1. CASE i > 8 - n
    <3>1. i - 8 + n \in 1 .. n /\ 8 - n + (i - 8 + n) = i
      BY <2>1
    <3> QED
      BY <1>1, <2>1, <3>1
  <2>2. CASE ~(i > 8 - n)
    <3>1. i \in 1 .. 8 - n
      BY <2>2
    <3> QED
      BY <1>1, <1>2, <2>2, <3>1 DEF FitsIn
  <2> QED
    BY <2>1, <2>2
<1>4. SignExtended(d) = [i \in 1 .. 8 |-> val[i]]
  BY <1>3 DEF SignExtended
<1> QED
  BY <1>4 DEF d

\* Turning the order of eight bytes twice gives them back.
LEMMA OrderComesBack ==
  ASSUME NEW val \in [1 .. 8 -> Byte]
  PROVE  hton(val) \in Seq(Byte) /\ Len(hton(val)) = 8 /\ ntoh(hton(val)) = val
<1>1. val \in Seq(Byte) /\ Len(val) = 8
  <2>1. 8 \in Nat /\ \E n \in Nat : val \in [1 .. n -> Byte]
    OBVIOUS
  <2>2. val \in Seq(Byte)
    BY <2>1, SeqDef
  <2> QED
    BY <2>2, LenProperties
<1>2. CASE ~LittleEndian
  BY <1>1, <1>2 DEF hton, ntoh
<1>3. CASE LittleEndian
  <2> DEFINE s == swap_bo64(val)
  <2>1. /\ s \in Seq(Byte) /\ Len(s) = 8
        /\ s[1] = val[8] /\ s[2] = val[7] /\ s[3] = val[6] /\ s[4] = val[5]
        /\ s[5] = val[4] /\ s[6] = val[3] /\ s[7] = val[2] /\ s[8] = val[1]
    BY DEF swap_bo64
  <2>2. hton(val) = s
    BY <1>1, <1>3 DEF hton
  <2> HIDE DEF s
  <2>3. hton(s) = swap_bo64(s)
    BY <1>3, <2>1 DEF hton
  <2>4. swap_bo64(s) = <<val[1], val[2], val[3], val[4], val[5], val[6], val[7], val[8]>>
    BY <2>1 DEF swap_bo64
  <2>5. <<val[1], val[2], val[3], val[4], val[5], val[6], val[7], val[8]>> = val
    BY <1>1
  <2> QED
    BY <2>1, <2>2, <2>3, <2>4, <2>5 DEF ntoh
<1> QED
  BY <1>2, <1>3

\* what number::unpack makes of an integer behind a first byte
IntRead(head, val, n, x, i) ==
  /\ x[i] = head /\ Len(<<head>> \o Low(val, n)) = n + 1
  /\ IntAt(x, i, n) = [pos |-> i + (n + 1), integral |-> TRUE, val |-> val]

\* The low bytes of an integer that fits in them give it back, whatever surrounds them.
LEMMA IntComesBack ==
  ASSUME NEW val \in [1 .. 8 -> Byte], NEW head \in Byte, NEW n \in 1 .. 8, FitsIn(val, n),
         NEW x \in Seq(Byte), NEW i \in Nat \ {0}, HeadedAt(head, Low(val, n), x, i)
  PROVE  IntRead(head, val, n, x, i)
<1> DEFINE d == Low(val, n)
<1>1. d \in Seq(Byte) /\ Len(d) = n /\ SignExtended(d) = val
  BY LowBytes, SignComesBack
<1> HIDE DEF d
<1>2. HeadedAt(head, d, x, i)
  BY DEF d
<1>3. ReadAs(head, d, x, i)
  BY <1>1, <1>2, HeadAndBody
<1>4. i + n + 1 = i + (n + 1)
  OBVIOUS
<1> QED
  BY <1>1, <1>3, <1>4 DEF IntAt, ReadAs, IntRead, d

\* Whatever number::pack writes, number::unpack reads as the same number, integer or not,
\* with the pointer behind its last byte, whatever bytes surround it; and the first byte
\* makes array::unpack and object::unpack call number::unpack.
THEOREM NumbersComeBack ==
  ASSUME NEW integral \in BOOLEAN, NEW val \in [1 .. 8 -> Byte], NEW x \in Seq(Byte),
         NEW i \in Nat \ {0}, IsAt(PackedNumber(integral, val), x, i)
  PROVE  /\ TypeOf(x[i]) = "number"
         /\ NumberAt(x, i)
              = [pos |-> i + Len(PackedNumber(integral, val)), integral |-> integral, val |-> val]
<1> DEFINE p == PackedNumber(integral, val)
           Right(b) == /\ TypeOf(x[i]) = "number"
                       /\ NumberAt(x, i) = [pos |-> i + Len(p), integral |-> b, val |-> val]
<1>a. IsAt(p, x, i)
  OBVIOUS
<1>1. ASSUME integral PROVE Right(TRUE)
  <2>1. p = PackInt(val)
    BY <1>1 DEF PackedNumber
  <2> HIDE DEF p
  <2>2. CASE IsFixInt(val)
    <3>1. FitsIn(val, 1) /\ val[8] \in Byte /\ (val[8] <= 127 \/ val[8] >= 224)
      BY <2>2 DEF IsFixInt
    <3>2. p = Low(val, 1)
      BY <2>1, <2>2 DEF PackInt
    <3>3. /\ Low(val, 1) \in Seq(Byte) /\ Len(Low(val, 1)) = 1
          /\ \A k \in 1 .. 1 : Low(val, 1)[k] = val[8 - 1 + k]
      BY LowBytes
    <3>4. Low(val, 1)[1] = val[8] /\ SignExtended(Low(val, 1)) = val
      BY <3>1, <3>3, SignComesBack
    <3>5. x[i] = val[8]
      <4>1. \A k \in 1 .. Len(p) : x[i + k - 1] = p[k]
        BY <1>a DEF IsAt
      <4>2. 1 \in 1 .. Len(p) /\ i + 1 - 1 = i
        BY <3>2, <3>3
      <4> QED
        BY <3>2, <3>4, <4>1, <4>2
    <3>6. Low(val, 1) = <<val[8]>>
      BY <3>3, <3>4
    <3>7. TypeOf(x[i]) = "number"
      BY <3>1, <3>5 DEF TypeOf, Byte
    <3>8. NumberAt(x, i) = [pos |-> i + 1, integral |-> TRUE, val |-> val]
      BY <3>1, <3>4, <3>5, <3>6 DEF NumberAt
    <3> QED
      BY <3>2, <3>3, <3>7, <3>8
  <2>3. CASE ~IsFixInt(val) /\ FitsIn(val, 1)
    <3> DEFINE h == 208
               n == 1
    <3>1. p = <<h>> \o Low(val, n)
      BY <2>1, <2>3 DEF PackInt
    <3>2. FitsIn(val, n) /\ n \in 1 .. 8 /\ h \in Byte
      BY <2>3 DEF Byte
    <3> HIDE DEF h, n
    <3>3. HeadedAt(h, Low(val, n), x, i)
      BY <1>a, <3>1 DEF HeadedAt
    <3>4. IntRead(h, val, n, x, i)
      BY <3>2, <3>3, IntComesBack
    <3>5. NumberAt(x, i) = IntAt(x, i, n) /\ TypeOf(x[i]) = "number"
      BY <3>4 DEF IntRead, NumberAt, TypeOf, h, n
    <3> QED
      BY <3>1, <3>4, <3>5 DEF IntRead
  <2>4. CASE ~IsFixInt(val) /\ ~FitsIn(val, 1) /\ FitsIn(val, 2)
    <3> DEFINE h == 209
               n == 2
    <3>1. p = <<h>> \o Low(val, n)
      BY <2>1, <2>4 DEF PackInt
    <3>2. FitsIn(val, n) /\ n \in 1 .. 8 /\ h \in Byte
      BY <2>4 DEF Byte
    <3> HIDE DEF h, n
    <3>3. HeadedAt(h, Low(val, n), x, i)
      BY <1>a, <3>1 DEF HeadedAt
    <3>4. IntRead(h, val, n, x, i)
      BY <3>2, <3>3, IntComesBack
    <3>5. NumberAt(x, i) = IntAt(x, i, n) /\ TypeOf(x[i]) = "number"
      BY <3>4 DEF IntRead, NumberAt, TypeOf, h, n
    <3> QED
      BY <3>1, <3>4, <3>5 DEF IntRead
  <2>5. CASE ~IsFixInt(val) /\ ~FitsIn(val, 1) /\ ~FitsIn(val, 2) /\ FitsIn(val, 4)
    <3> DEFINE h == 210
               n == 4
    <3>1. p = <<h>> \o Low(val, n)
      BY <2>1, <2>5 DEF PackInt
    <3>2. FitsIn(val, n) /\ n \in 1 .. 8 /\ h \in Byte
      BY <2>5 DEF Byte
    <3> HIDE DEF h, n
    <3>3. HeadedAt(h, Low(val, n), x, i)
      BY <1>a, <3>1 DEF HeadedAt
    <3>4. IntRead(h, val, n, x, i)
      BY <3>2, <3>3, IntComesBack
    <3>5. NumberAt(x, i) = IntAt(x, i, n) /\ TypeOf(x[i]) = "number"
      BY <3>4 DEF IntRead, NumberAt, TypeOf, h, n
    <3> QED
      BY <3>1, <3>4, <3>5 DEF IntRead
  <2>6. CASE ~IsFixInt(val) /\ ~FitsIn(val, 1) /\ ~FitsIn(val, 2) /\ ~FitsIn(val, 4)
    <3> DEFINE h == 211
               n == 8
    <3>0. Low(val, 8) = val
      <4> DEFINE f == Low(val, 8)
      <4>1. 8 \in 1 .. 8 /\ \A k \in 1 .. 8 : 8 - 8 + k = k
        OBVIOUS
      <4>2. f \in Seq(Byte) /\ Len(f) = 8 /\ \A k \in 1 .. 8 : f[k] = val[8 - 8 + k]
        BY <4>1, LowBytes
      <4> HIDE DEF f
      <4>3. f \in [1 .. 8 -> Byte] /\ \A k \in 1 .. 8 : f[k] = val[k]
        BY <4>1, <4>2, LenProperties
      <4>4. f = val
        BY <4>3
      <4> QED
        BY <4>4 DEF f
    <3>1. p = <<h>> \o Low(val, n)
      BY <2>1, <2>6, <3>0 DEF PackInt
    <3>2. FitsIn(val, n) /\ n \in 1 .. 8 /\ h \in Byte
      BY <2>6 DEF Byte, FitsIn
    <3> HIDE DEF h, n
    <3>3. HeadedAt(h, Low(val, n), x, i)
      BY <1>a, <3>1 DEF HeadedAt
    <3>4. IntRead(h, val, n, x, i)
      BY <3>2, <3>3, IntComesBack
    <3>5. NumberAt(x, i) = IntAt(x, i, n) /\ TypeOf(x[i]) = "number"
      BY <3>4 DEF IntRead, NumberAt, TypeOf, h, n
    <3> QED
      BY <3>1, <3>4, <3>5 DEF IntRead
  <2> QED
    BY <2>2, <2>3, <2>4, <2>5, <2>6
<1>2. ASSUME ~integral PROVE Right(FALSE)
  <2> DEFINE d == hton(val)
             h == 203
  <2>1. d \in Seq(Byte) /\ Len(d) = 8 /\ ntoh(d) = val
    BY OrderComesBack
  <2>2. p = <<h>> \o d
    BY <1>2 DEF PackedNumber
  <2>3. h \in Byte
    BY DEF Byte
  <2> HIDE DEF d, p, h
  <2>4. Len(p) = Len(d) + 1 /\ x[i] = h /\ SubSeq(x, i + 1, i + Len(d)) = d
    <3>1. HeadedAt(h, d, x, i)
      BY <1>a, <2>2 DEF HeadedAt
    <3>2. ReadAs(h, d, x, i)
      BY <2>1, <2>3, <3>1, HeadAndBody
    <3> QED
      BY <2>2, <3>2 DEF ReadAs
  <2>5. TypeOf(x[i]) = "number"
    BY <2>4 DEF TypeOf, h
  <2>6. NumberAt(x, i) = RealAt(i, 8, ntoh(SubSeq(x, i + 1, i + 8)))
    <3>1. /\ ~(x[i] <= 127 \/ x[i] >= 224) /\ x[i] # 208 /\ x[i] # 209
          /\ x[i] # 210 /\ x[i] # 211 /\ x[i] # 202
      BY <2>4 DEF h
    <3> QED
      BY <3>1, Zenon DEF NumberAt
  <2>7. ntoh(SubSeq(x, i + 1, i + 8)) = val
    BY <2>1, <2>4
  <2>8. i + 8 + 1 = i + Len(p)
    BY <2>1, <2>4
  <2> QED
    BY <2>5, <2>6, <2>7, <2>8 DEF RealAt
<1>3. integral = TRUE \/ integral = FALSE
  OBVIOUS
<1> HIDE DEF Right
<1>4. Right(integral)
  BY <1>1, <1>2, <1>3
<1> QED
  BY <1>4 DEF Right

\* The lengths of strings, arrays and objects: what their headers can hold.
IsLength(len) == len <= 4294967295

\* A length that was written as two bytes is read back from them.
LEMMA TwoBytes ==
  ASSUME NEW len \in Nat, len <= 65535
  PROVE  Bytes2(len) \in Seq(Byte) /\ Len(Bytes2(len)) = 2 /\ NumberOf(Bytes2(len)) = len
<1> DEFINE b == Bytes2(len)
           y == len \div 256
           z == len % 256
<1>1. y \in Byte /\ z \in Byte /\ y * 256 + z = len
  BY SMT DEF Byte
<1>2. b = <<y, z>>
  BY SMT DEF Bytes2
<1> HIDE DEF b, y, z
<1>3. b \in Seq(Byte) /\ Len(b) = 2 /\ b[1] = y /\ b[2] = z
  BY <1>1, <1>2, SMT
<1>4. NumberOf(b) = b[1] * 256 + b[2]
  BY <1>3, SMT DEF NumberOf
<1> QED
  BY <1>1, <1>3, <1>4, SMT DEF b

\* A length that was written as four bytes is read back from them.
LEMMA FourBytes ==
  ASSUME NEW len \in Nat, IsLength(len)
  PROVE  Bytes4(len) \in Seq(Byte) /\ Len(Bytes4(len)) = 4 /\ NumberOf(Bytes4(len)) = len
<1> DEFINE b == Bytes4(len)
           y == (len \div 16777216) % 256
           z == (len \div 65536) % 256
           w == (len \div 256) % 256
           v == len % 256
<1>1. y \in Byte /\ z \in Byte /\ w \in Byte /\ v \in Byte
  BY SMT DEF Byte
<1>2. ((y * 256 + z) * 256 + w) * 256 + v = len
  <2>1. y = len \div 16777216
    BY SMT DEF IsLength
  <2>2. len = (len \div 256) * 256 + v
    BY SMT
  <2>3. len \div 256 = (len \div 65536) * 256 + w
    BY SMT
  <2>4. len \div 65536 = (len \div 16777216) * 256 + z
    BY SMT
  <2> QED
    BY <2>1, <2>2, <2>3, <2>4, SMT
<1>3. b = <<y, z, w, v>>
  BY SMT DEF Bytes4
<1> HIDE DEF b, y, z, w, v
<1>4. b \in Seq(Byte) /\ Len(b) = 4 /\ b[1] = y /\ b[2] = z /\ b[3] = w /\ b[4] = v
  BY <1>1, <1>3, SMT
<1>5. NumberOf(b) = ((b[1] * 256 + b[2]) * 256 + b[3]) * 256 + b[4]
  BY <1>4, SMT DEF NumberOf
<1> QED
  BY <1>2, <1>4, <1>5, SMT DEF b

\* what is read of a length behind a first byte
LengthRead(head, d, x, i, fixed, bits, base) ==
  /\ x[i] = head /\ Len(<<head>> \o d) = Len(d) + 1
  /\ Length(x, i, fixed, bits, base) = [len |-> NumberOf(d), pos |-> i + (Len(d) + 1)]

\* The bytes behind a first byte that announces as many of them are read as the length.
LEMMA LengthBehind ==
  ASSUME NEW head \in Byte, NEW d \in Seq(Byte), NEW x \in Seq(Byte), NEW i \in Nat \ {0},
         HeadedAt(head, d, x, i), NEW fixed, NEW bits, NEW base, head \notin fixed,
         <<1, 2, 4>>[head - base + 1] = Len(d)
  PROVE  LengthRead(head, d, x, i, fixed, bits, base)
<1>1. ReadAs(head, d, x, i)
  BY HeadAndBody
<1>2. Length(x, i, fixed, bits, base)
        = LET n == <<1, 2, 4>>[head - base + 1] IN [len |-> NumberOf(SubSeq(x, i + 1, i + n)), pos |-> i + n + 1]
  BY <1>1 DEF Length, ReadAs
<1>3. Length(x, i, fixed, bits, base) = [len |-> NumberOf(SubSeq(x, i + 1, i + Len(d))), pos |-> i + Len(d) + 1]
  BY <1>2
<1>4. i + Len(d) + 1 = i + (Len(d) + 1)
  OBVIOUS
<1> QED
  BY <1>1, <1>3, <1>4 DEF ReadAs, LengthRead

\* A length in the first byte.
LEMMA LengthInFirst ==
  ASSUME NEW head \in Byte, NEW x \in Seq(Byte), NEW i \in Nat \ {0}, IsAt(<<head>>, x, i)
  PROVE  x[i] = head /\ Len(<<head>>) = 1
<1> DEFINE p == <<head>>
<1>1. Len(p) = 1 /\ p[1] = head
  OBVIOUS
<1>2. IsAt(p, x, i)
  OBVIOUS
<1> HIDE DEF p
<1>3. \A k \in 1 .. 1 : x[i + k - 1] = p[k]
  BY <1>1, <1>2 DEF IsAt
<1>4. 1 \in 1 .. 1 /\ i + 1 - 1 = i
  OBVIOUS
<1>5. x[i] = head
  BY <1>1, <1>3, <1>4
<1> QED
  BY <1>1, <1>5 DEF p

\* The header that string::pack writes makes array::unpack and object::unpack call string::unpack,
\* which reads the same length from it and goes on behind it.
THEOREM StringLengthsComeBack ==
  ASSUME NEW len \in Nat, IsLength(len), NEW x \in Seq(Byte), NEW i \in Nat \ {0},
         IsAt(StringHeader(len), x, i)
  PROVE  /\ TypeOf(x[i]) = "string"
         /\ StringLength(x, i) = [len |-> len, pos |-> i + Len(StringHeader(len))]
<1> DEFINE p == StringHeader(len)
           f == 160 .. 191
           bits == 32
           base == 217
<1>1. IsAt(p, x, i)
  OBVIOUS
<1>2. StringLength(x, i) = Length(x, i, f, bits, base)
  BY DEF StringLength
<1>3. CASE len <= 31
  <2> DEFINE h == 160 + len
  <2>1. p = <<h>>
    BY <1>3, SMT DEF StringHeader
  <2>2. h \in Byte /\ h \in f /\ h % bits = len
    <3>1. h \in Byte /\ h \in f
      BY <1>3, SMT DEF Byte
    <3>2. h % bits = len
      BY <1>3, SMT
    <3> QED
      BY <3>1, <3>2
  <2>3. ASSUME x[i] = h PROVE TypeOf(x[i]) = "string"
    BY <1>3, <2>3, SMT DEF TypeOf
  <2> HIDE DEF h, p, f, bits, base
  <2>4. x[i] = h /\ Len(<<h>>) = 1
    BY <1>1, <2>1, <2>2, LengthInFirst
  <2>5. Length(x, i, f, bits, base) = [len |-> len, pos |-> i + 1]
    BY <2>2, <2>4 DEF Length
  <2>6. TypeOf(x[i]) = "string" /\ Len(p) = 1
    BY <2>1, <2>3, <2>4
  <2> QED
    BY <1>2, <2>5, <2>6 DEF p
<1>4. CASE len > 31 /\ len <= 255
  <2> DEFINE h == 217
             d == <<len>>
  <2>1. p = <<h>> \o d
    BY <1>4, SMT DEF StringHeader
  <2>2. d \in Seq(Byte) /\ Len(d) = 1 /\ NumberOf(d) = len
    <3>1. len \in Byte /\ d[1] = len
      BY <1>4, SMT DEF Byte
    <3> QED
      BY <3>1, SMT DEF NumberOf
  <2>3. h \in Byte /\ h \notin f /\ <<1, 2, 4>>[h - base + 1] = 1
    BY SMT DEF Byte
  <2>4. TypeOf(h) = "string"
    BY SMT DEF TypeOf
  <2> HIDE DEF h, d, p, f, bits, base
  <2>5. HeadedAt(h, d, x, i)
    BY <1>1, <2>1 DEF HeadedAt
  <2>6. <<1, 2, 4>>[h - base + 1] = Len(d)
    BY <2>2, <2>3
  <2>7. LengthRead(h, d, x, i, f, bits, base)
    BY <2>2, <2>3, <2>5, <2>6, LengthBehind
  <2>8. Len(p) = Len(d) + 1
    BY <2>1, <2>7 DEF LengthRead
  <2> QED
    BY <1>2, <2>2, <2>4, <2>7, <2>8 DEF LengthRead, p
<1>5. CASE len > 255 /\ len <= 65535
  <2> DEFINE h == 218
             d == Bytes2(len)
  <2>1. p = <<h>> \o d
    BY <1>5, SMT DEF StringHeader
  <2>2. d \in Seq(Byte) /\ Len(d) = 2 /\ NumberOf(d) = len
    BY <1>5, TwoBytes, SMT
  <2>3. h \in Byte /\ h \notin f /\ <<1, 2, 4>>[h - base + 1] = 2
    BY SMT DEF Byte
  <2>4. TypeOf(h) = "string"
    BY SMT DEF TypeOf
  <2> HIDE DEF h, d, p, f, bits, base
  <2>5. HeadedAt(h, d, x, i)
    BY <1>1, <2>1 DEF HeadedAt
  <2>6. <<1, 2, 4>>[h - base + 1] = Len(d)
    BY <2>2, <2>3
  <2>7. LengthRead(h, d, x, i, f, bits, base)
    BY <2>2, <2>3, <2>5, <2>6, LengthBehind
  <2>8. Len(p) = Len(d) + 1
    BY <2>1, <2>7 DEF LengthRead
  <2> QED
    BY <1>2, <2>2, <2>4, <2>7, <2>8 DEF LengthRead, p
<1>6. CASE len > 65535
  <2> DEFINE h == 219
             d == Bytes4(len)
  <2>1. p = <<h>> \o d
    BY <1>6, SMT DEF StringHeader
  <2>2. d \in Seq(Byte) /\ Len(d) = 4 /\ NumberOf(d) = len
    BY FourBytes
  <2>3. h \in Byte /\ h \notin f /\ <<1, 2, 4>>[h - base + 1] = 4
    BY SMT DEF Byte
  <2>4. TypeOf(h) = "string"
    BY SMT DEF TypeOf
  <2> HIDE DEF h, d, p, f, bits, base
  <2>5. HeadedAt(h, d, x, i)
    BY <1>1, <2>1 DEF HeadedAt
  <2>6. <<1, 2, 4>>[h - base + 1] = Len(d)
    BY <2>2, <2>3
  <2>7. LengthRead(h, d, x, i, f, bits, base)
    BY <2>2, <2>3, <2>5, <2>6, LengthBehind
  <2>8. Len(p) = Len(d) + 1
    BY <2>1, <2>7 DEF LengthRead
  <2> QED
    BY <1>2, <2>2, <2>4, <2>7, <2>8 DEF LengthRead, p
<1> QED
  BY <1>3, <1>4, <1>5, <1>6, SMT

\* The header that array::pack writes makes array::unpack and object::unpack call array::unpack,
\* which reads the same length from it and goes on behind it.
THEOREM ArrayLengthsComeBack ==
  ASSUME NEW len \in Nat, IsLength(len), NEW x \in Seq(Byte), NEW i \in Nat \ {0},
         IsAt(ArrayHeader(len), x, i)
  PROVE  /\ TypeOf(x[i]) = "array"
         /\ ArrayLength(x, i) = [len |-> len, pos |-> i + Len(ArrayHeader(len))]
<1> DEFINE p == ArrayHeader(len)
           f == 144 .. 159
           bits == 16
           base == 219
<1>1. IsAt(p, x, i)
  OBVIOUS
<1>2. ArrayLength(x, i) = Length(x, i, f, bits, base)
  BY DEF ArrayLength
<1>3. CASE len <= 15
  <2> DEFINE h == 144 + len
  <2>1. p = <<h>>
    BY <1>3, SMT DEF ArrayHeader
  <2>2. h \in Byte /\ h \in f /\ h % bits = len
    <3>1. h \in Byte /\ h \in f
      BY <1>3, SMT DEF Byte
    <3>2. h % bits = len
      BY <1>3, SMT
    <3> QED
      BY <3>1, <3>2
  <2>3. ASSUME x[i] = h PROVE TypeOf(x[i]) = "array"
    BY <1>3, <2>3, SMT DEF TypeOf
  <2> HIDE DEF h, p, f, bits, base
  <2>4. x[i] = h /\ Len(<<h>>) = 1
    BY <1>1, <2>1, <2>2, LengthInFirst
  <2>5. Length(x, i, f, bits, base) = [len |-> len, pos |-> i + 1]
    BY <2>2, <2>4 DEF Length
  <2>6. TypeOf(x[i]) = "array" /\ Len(p) = 1
    BY <2>1, <2>3, <2>4
  <2> QED
    BY <1>2, <2>5, <2>6 DEF p
<1>4. CASE len > 15 /\ len <= 65535
  <2> DEFINE h == 220
             d == Bytes2(len)
  <2>1. p = <<h>> \o d
    BY <1>4, SMT DEF ArrayHeader
  <2>2. d \in Seq(Byte) /\ Len(d) = 2 /\ NumberOf(d) = len
    BY <1>4, TwoBytes, SMT
  <2>3. h \in Byte /\ h \notin f /\ <<1, 2, 4>>[h - base + 1] = 2
    BY SMT DEF Byte
  <2>4. TypeOf(h) = "array"
    BY SMT DEF TypeOf
  <2> HIDE DEF h, d, p, f, bits, base
  <2>5. HeadedAt(h, d, x, i)
    BY <1>1, <2>1 DEF HeadedAt
  <2>6. <<1, 2, 4>>[h - base + 1] = Len(d)
    BY <2>2, <2>3
  <2>7. LengthRead(h, d, x, i, f, bits, base)
    BY <2>2, <2>3, <2>5, <2>6, LengthBehind
  <2>8. Len(p) = Len(d) + 1
    BY <2>1, <2>7 DEF LengthRead
  <2> QED
    BY <1>2, <2>2, <2>4, <2>7, <2>8 DEF LengthRead, p
<1>5. CASE len > 65535
  <2> DEFINE h == 221
             d == Bytes4(len)
  <2>1. p = <<h>> \o d
    BY <1>5, SMT DEF ArrayHeader
  <2>2. d \in Seq(Byte) /\ Len(d) = 4 /\ NumberOf(d) = len
    BY FourBytes
  <2>3. h \in Byte /\ h \notin f /\ <<1, 2, 4>>[h - base + 1] = 4
    BY SMT DEF Byte
  <2>4. TypeOf(h) = "array"
    BY SMT DEF TypeOf
  <2> HIDE DEF h, d, p, f, bits, base
  <2>5. HeadedAt(h, d, x, i)
    BY <1>1, <2>1 DEF HeadedAt
  <2>6. <<1, 2, 4>>[h - base + 1] = Len(d)
    BY <2>2, <2>3
  <2>7. LengthRead(h, d, x, i, f, bits, base)
    BY <2>2, <2>3, <2>5, <2>6, LengthBehind
  <2>8. Len(p) = Len(d) + 1
    BY <2>1, <2>7 DEF LengthRead
  <2> QED
    BY <1>2, <2>2, <2>4, <2>7, <2>8 DEF LengthRead, p
<1> QED
  BY <1>3, <1>4, <1>5, SMT

\* The header that object::pack writes makes array::unpack and object::unpack call object::unpack,
\* which reads the same length from it and goes on behind it.
THEOREM ObjectLengthsComeBack ==
  ASSUME NEW len \in Nat, IsLength(len), NEW x \in Seq(Byte), NEW i \in Nat \ {0},
         IsAt(ObjectHeader(len), x, i)
  PROVE  /\ TypeOf(x[i]) = "object"
         /\ ObjectLength(x, i) = [len |-> len, pos |-> i + Len(ObjectHeader(len))]
<1> DEFINE p == ObjectHeader(len)
           f == 128 .. 143
           bits == 16
           base == 221
<1>1. IsAt(p, x, i)
  OBVIOUS
<1>2. ObjectLength(x, i) = Length(x, i, f, bits, base)
  BY DEF ObjectLength
<1>3. CASE len <= 15
  <2> DEFINE h == 128 + len
  <2>1. p = <<h>>
    BY <1>3, SMT DEF ObjectHeader
  <2>2. h \in Byte /\ h \in f /\ h % bits = len
    <3>1. h \in Byte /\ h \in f
      BY <1>3, SMT DEF Byte
    <3>2. h % bits = len
      BY <1>3, SMT
    <3> QED
      BY <3>1, <3>2
  <2>3. ASSUME x[i] = h PROVE TypeOf(x[i]) = "object"
    BY <1>3, <2>3, SMT DEF TypeOf
  <2> HIDE DEF h, p, f, bits, base
  <2>4. x[i] = h /\ Len(<<h>>) = 1
    BY <1>1, <2>1, <2>2, LengthInFirst
  <2>5. Length(x, i, f, bits, base) = [len |-> len, pos |-> i + 1]
    BY <2>2, <2>4 DEF Length
  <2>6. TypeOf(x[i]) = "object" /\ Len(p) = 1
    BY <2>1, <2>3, <2>4
  <2> QED
    BY <1>2, <2>5, <2>6 DEF p
<1>4. CASE len > 15 /\ len <= 65535
  <2> DEFINE h == 222
             d == Bytes2(len)
  <2>1. p = <<h>> \o d
    BY <1>4, SMT DEF ObjectHeader
  <2>2. d \in Seq(Byte) /\ Len(d) = 2 /\ NumberOf(d) = len
    BY <1>4, TwoBytes, SMT
  <2>3. h \in Byte /\ h \notin f /\ <<1, 2, 4>>[h - base + 1] = 2
    BY SMT DEF Byte
  <2>4. TypeOf(h) = "object"
    BY SMT DEF TypeOf
  <2> HIDE DEF h, d, p, f, bits, base
  <2>5. HeadedAt(h, d, x, i)
    BY <1>1, <2>1 DEF HeadedAt
  <2>6. <<1, 2, 4>>[h - base + 1] = Len(d)
    BY <2>2, <2>3
  <2>7. LengthRead(h, d, x, i, f, bits, base)
    BY <2>2, <2>3, <2>5, <2>6, LengthBehind
  <2>8. Len(p) = Len(d) + 1
    BY <2>1, <2>7 DEF LengthRead
  <2> QED
    BY <1>2, <2>2, <2>4, <2>7, <2>8 DEF LengthRead, p
<1>5. CASE len > 65535
  <2> DEFINE h == 223
             d == Bytes4(len)
  <2>1. p = <<h>> \o d
    BY <1>5, SMT DEF ObjectHeader
  <2>2. d \in Seq(Byte) /\ Len(d) = 4 /\ NumberOf(d) = len
    BY FourBytes
  <2>3. h \in Byte /\ h \notin f /\ <<1, 2, 4>>[h - base + 1] = 4
    BY SMT DEF Byte
  <2>4. TypeOf(h) = "object"
    BY SMT DEF TypeOf
  <2> HIDE DEF h, d, p, f, bits, base
  <2>5. HeadedAt(h, d, x, i)
    BY <1>1, <2>1 DEF HeadedAt
  <2>6. <<1, 2, 4>>[h - base + 1] = Len(d)
    BY <2>2, <2>3
  <2>7. LengthRead(h, d, x, i, f, bits, base)
    BY <2>2, <2>3, <2>5, <2>6, LengthBehind
  <2>8. Len(p) = Len(d) + 1
    BY <2>1, <2>7 DEF LengthRead
  <2> QED
    BY <1>2, <2>2, <2>4, <2>7, <2>8 DEF LengthRead, p
<1> QED
  BY <1>3, <1>4, <1>5, SMT
==============================================================================
