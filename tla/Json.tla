------------------------------- MODULE Json -------------------------------
(***************************************************************************)
(* json/*.h: the JSON values, how they are printed, and the two parsers,   *)
(* one of a NUL terminated text and one of an istream.  Characters are     *)
(* their codes.  A value is a record with its type in t:                   *)
(*   null, true, false;  string with its bytes in s;                       *)
(*   number with _integral, _val as the eight bytes of the union, the most *)
(*     significant first, and _str_rep in rep;                             *)
(*   array with its items;  object with its <<key, value>> pairs in the    *)
(*     order of the keys, as std::map keeps them;                          *)
(*   nullptr, the null value_ptr that operator[] puts under a missing key. *)
(***************************************************************************)
EXTENDS Chars, SequencesExt, Utf

\* the letter after a backslash, for each character that has one
Letter == << <<Ch.quote, Ch.quote>>, <<Ch.backslash, Ch.backslash>>, <<Ch.slash, Ch.slash>>,
             <<Ch.bs, Ch.b>>, <<Ch.ff, Ch.f>>, <<Ch.lf, Ch.n>>, <<Ch.cr, Ch.r>>, <<Ch.tab, Ch.t>> >>

Word == [null |-> <<110, 117, 108, 108>>, true |-> <<116, 114, 117, 101>>,
         false |-> <<102, 97, 108, 115, 101>>]

-----------------------------------------------------------------------------
(* Numbers.                                                                 *)

Invert(b) == [i \in 1 .. Len(b) |-> 255 - b[i]]

\* b * mul + add, in as many bytes as b, and what does not fit in them
MulAdd(b, mul, add) ==
  FoldRight(LAMBDA x, acc : [carry |-> (x * mul + acc.carry) \div 256,
                             bytes |-> <<(x * mul + acc.carry) % 256>> \o acc.bytes],
            b, [carry |-> add, bytes |-> <<>>])
Negate(b) == MulAdd(Invert(b), 1, 1).bytes

Zero == [i \in 1 .. 8 |-> 0]
Int64Min == [Zero EXCEPT ![1] = 128]
Int64Max == Invert(Int64Min)

\* strtoll: the value of the digits, or the nearest that an int64_t has
strtoll(rep) ==
  LET negative == rep[1] = Ch.minus
      digits == IF negative THEN Tail(rep) ELSE rep
      sum == FoldLeft(LAMBDA acc, d : IF acc.big THEN acc
                        ELSE LET r == MulAdd(acc.bytes, 10, d - 48)
                             IN  [big |-> r.carry > 0 \/ r.bytes[1] >= 128, bytes |-> r.bytes],
                      [big |-> FALSE, bytes |-> Zero], digits)
  IN  IF sum.big THEN IF negative THEN Int64Min ELSE Int64Max
      ELSE IF negative THEN Negate(sum.bytes) ELSE sum.bytes

\* operator< of std::string
Before(a, b) ==
  \E n \in 0 .. Len(a) :
    /\ n <= Len(b) /\ SubSeq(a, 1, n) = SubSeq(b, 1, n)
    /\ \/ n = Len(a) /\ n < Len(b)
       \/ n < Len(a) /\ n < Len(b) /\ a[n + 1] < b[n + 1]

(* Images of doubles, of IEEE 754: of positive ones the bytes are in the order of the values. *)
Absolute(image) == [image EXCEPT ![1] = @ % 128]
WithSign(negative, image) == IF negative THEN [image EXCEPT ![1] = @ + 128] ELSE image
Infinity == [Zero EXCEPT ![1] = 127, ![2] = 240]
IsFinite(image) == Before(Absolute(image), Infinity)
TenTo46 == <<73, 124, 6, 165, 236, 84, 51, 199>>   \* the first double that is not less
TenTo47 == <<73, 177, 132, 39, 179, 180, 160, 92>>

\* strtod: the image is that of an infinity, of more than 47 digits or of 47 digits when
\* rep is, the bound of the infinity but for the last digit; else a stand-in
strtod(rep) ==
  LET negative == rep[1] = Ch.minus
      First(cs) == SelectInSeq(Append(rep, Ch.e), LAMBDA c : c \in cs)
      e == First({Ch.e})
      dot == First({Ch.e, Ch.dot})
      lead == First({Ch.e} \cup 49 .. 57)
      scale == FoldLeft(LAMBDA n, d : IF isdigit(d) /\ n < 10000 THEN n * 10 + d - 48 ELSE n,
                        0, SubSeq(rep, e + 1, Len(rep)))
      exponent == IF e < Len(rep) /\ rep[e + 1] = Ch.minus THEN -scale ELSE scale
      digits == dot - lead + exponent + IF lead > dot THEN 1 ELSE 0
      small == [i \in 1 .. 8 |-> IF i <= Len(rep) THEN rep[i] ELSE i]
  IN  WithSign(negative,
        IF lead = e \/ digits < 47 THEN small
        ELSE IF digits = 47 THEN [TenTo46 EXCEPT ![2] = @ + 1]
        ELSE IF digits <= 309 THEN [TenTo47 EXCEPT ![1] = @ + 1]
        ELSE Infinity)

\* std::to_string(int64_t)
DivMod10(b) ==
  FoldLeft(LAMBDA acc, x : [rem |-> (acc.rem * 256 + x) % 10,
                            quot |-> Append(acc.quot, (acc.rem * 256 + x) \div 10)],
           [rem |-> 0, quot |-> <<>>], b)
RECURSIVE Digits10(_)
Digits10(b) == LET d == DivMod10(b)
               IN  (IF d.quot = Zero THEN <<>> ELSE Digits10(d.quot)) \o <<48 + d.rem>>
to_string(b) == IF b[1] < 128 THEN Digits10(b) ELSE <<Ch.minus>> \o Digits10(Negate(b))

\* sprintf("%.15f") into the 64 bytes of buf: 48 digits, or 47 behind a minus, are too many
Overflows(image) ==
  IsFinite(image) /\ ~Before(Absolute(image), IF image[1] < 128 THEN TenTo47 ELSE TenTo46)

\* double_to_string: the words that sprintf has for what is no number; else its digits
\* without the zeros at the end, but for the one after the dot.  The digits stand for the
\* image; only that there is a dot matters here.
NotFinite == [nan |-> <<110, 97, 110>>, inf |-> <<105, 110, 102>>]
double_to_string(image) ==
  LET printed == <<49, Ch.dot>> \o [i \in 1 .. 15 |-> IF i <= image[1] % 10 THEN 49 ELSE 48]
      last == SelectLastInSeq(printed, LAMBDA c : c # 48)
      cut == SubSeq(printed, 1, IF printed[last] = Ch.dot THEN last + 1 ELSE last)
  IN  (IF image[1] < 128 THEN <<>> ELSE <<Ch.minus>>)
        \o (IF IsFinite(image) THEN cut ELSE IF Absolute(image) = Infinity THEN NotFinite.inf ELSE NotFinite.nan)

\* number(): the value of the union's constructor, and no text
DefaultNumber == [t |-> "number", integral |-> TRUE, val |-> Zero, rep |-> <<>>]
\* number(T val), for an integral and for a floating point T; not defined when the image
\* overflows the buffer
IntNumber(b) == [t |-> "number", integral |-> TRUE, val |-> b, rep |-> to_string(b)]
RealNumber(image) == [t |-> "number", integral |-> FALSE, val |-> image, rep |-> double_to_string(image)]
\* what both parse functions make of the characters they have accepted
ParsedNumber(rep, integral) ==
  [t |-> "number", integral |-> integral, val |-> IF integral THEN strtoll(rep) ELSE strtod(rep),
   rep |-> rep]

-----------------------------------------------------------------------------
(* Values.                                                                  *)

Literal(t) == [t |-> t]
String(s) == [t |-> "string", s |-> s]
Array(items) == [t |-> "array", items |-> items]
Object(pairs) == [t |-> "object", pairs |-> pairs]

\* std::map::insert: a key that is there keeps its value
Insert(pairs, k, v) ==
  IF \E i \in DOMAIN pairs : pairs[i][1] = k THEN pairs
  ELSE SelectSeq(pairs, LAMBDA p : Before(p[1], k)) \o << <<k, v>> >>
         \o SelectSeq(pairs, LAMBDA p : Before(k, p[1]))

-----------------------------------------------------------------------------
(* Printing: operator<< of each type, which str and json_str call.         *)

Hex(n) == IF n < 10 THEN 48 + n ELSE 55 + n
HexEscape(u) ==
  <<Ch.backslash, Ch.u, Hex(u \div 4096), Hex((u \div 256) % 16), Hex((u \div 16) % 16), Hex(u % 16)>>

\* Fault: a backslash is printed as it is.
M_StringText(s) ==
  <<Ch.quote>> \o FlattenSeq([i \in 1 .. Len(s) |->
                 IF s[i] = Ch.quote THEN <<Ch.backslash, Ch.quote>> ELSE <<s[i]>>]) \o <<Ch.quote>>

StringText(s) ==
  LET Escaped(c) ==
        IF \E i \in DOMAIN Letter : Letter[i][1] = c
        THEN <<Ch.backslash, Letter[CHOOSE i \in DOMAIN Letter : Letter[i][1] = c][2]>>
        ELSE IF c <= 31 THEN HexEscape(c) ELSE <<c>>
  IN  <<Ch.quote>> \o FlattenSeq([i \in 1 .. Len(s) |-> Escaped(s[i])]) \o <<Ch.quote>>

\* parts with a comma between them
Listed(parts) ==
  FlattenSeq([i \in 1 .. Len(parts) |-> IF i = 1 THEN parts[i] ELSE <<Ch.comma>> \o parts[i]])

RECURSIVE Text(_)
ArrayText(v) ==
  <<Ch.lbracket>> \o Listed([i \in DOMAIN v.items |-> Text(v.items[i])]) \o <<Ch.rbracket>>
ObjectText(v) ==
  <<Ch.lbrace>> \o Listed([i \in DOMAIN v.pairs |->
                          StringText(v.pairs[i][1]) \o <<Ch.colon>> \o Text(v.pairs[i][2])]) \o <<Ch.rbrace>>
Text(v) ==
  CASE v.t = "array" -> ArrayText(v) [] v.t = "object" -> ObjectText(v)
    [] v.t = "string" -> StringText(v.s) [] v.t = "number" -> v.rep
    [] OTHER -> Word[v.t]

\* The results of a parse: the value and the position after it; bad_format_error,
\* with what the value that was to be filled then holds; or no defined result.
Parsed(pos, v) == [st |-> "ok", pos |-> pos, val |-> v]
Throws(v) == [st |-> "bad", val |-> v]
Undefined == [st |-> "undefined"]
\* what a value dispatches on, in all four parse functions of array and object
Kind(c) ==
  CASE c = Ch.lbrace -> "object" [] c = Ch.lbracket -> "array" [] c = Ch.quote -> "string"
    [] c = Word.true[1] -> "true" [] c = Word.false[1] -> "false" [] c = Word.null[1] -> "null"
    [] c = Ch.minus \/ isdigit(c) -> "number" [] OTHER -> "none"
Nothing == Literal("nullptr")
=============================================================================
