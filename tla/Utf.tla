-------------------------------- MODULE Utf --------------------------------
(***************************************************************************)
(* unicode/utf.h: code points, UTF-16 units and UTF-8 bytes as numbers.    *)
(* Shifts and masks are divisions and remainders; below 200000 hex, which  *)
(* is all that UTF-8 of four bytes can say, every | of the code sets bits  *)
(* that are clear, so it is a sum.                                         *)
(***************************************************************************)
EXTENDS Integers, Sequences

is_lead_surrogate(u) == u \div 1024 = 54   \* (u & FC00) = D800
is_trail_surrogate(u) == u \div 1024 = 55  \* (u & FC00) = DC00

surrogate_pair_to_utf32(lead, trail) == (lead % 1024) * 1024 + (trail % 1024) + 65536

utf32_to_utf16(c) ==
  IF c <= 65535 THEN <<c>>
  ELSE <<55296 + (c - 65536) \div 1024, 56320 + (c % 1024)>>

\* the continuation byte with the six low bits of c
Continuation(c) == 128 + (c % 64)

\* no bytes at all from 200000 on
utf32_to_utf8(c) ==
  IF c < 128 THEN <<c>>
  ELSE IF c < 2048 THEN <<192 + c \div 64, Continuation(c)>>
  ELSE IF c < 65536 THEN <<224 + c \div 4096, Continuation(c \div 64), Continuation(c)>>
  ELSE IF c < 2097152
       THEN <<240 + c \div 262144, Continuation(c \div 4096), Continuation(c \div 64), Continuation(c)>>
  ELSE <<>>

utf16_to_utf8(u) == utf32_to_utf8(u)

\* the number of bytes that the first one announces
Used(first) ==
  IF first <= 127 THEN 1 ELSE IF first <= 223 THEN 2 ELSE IF first <= 239 THEN 3
  ELSE IF first <= 247 THEN 4 ELSE 0

\* The code point at the start of the bytes b; its second result is Used(b[1]).
utf8_to_utf32(b) ==
  IF Used(b[1]) = 1 THEN b[1] % 128
  ELSE IF Used(b[1]) = 2 THEN (b[1] % 32) * 64 + (b[2] % 64)
  ELSE IF Used(b[1]) = 3 THEN ((b[1] % 16) * 64 + (b[2] % 64)) * 64 + (b[3] % 64)
  ELSE IF Used(b[1]) = 4 THEN (((b[1] % 8) * 64 + (b[2] % 64)) * 64 + (b[3] % 64)) * 64 + (b[4] % 64)
  ELSE 0

utf8_to_utf16(b) == utf32_to_utf16(utf8_to_utf32(b))
=============================================================================
