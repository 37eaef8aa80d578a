----------------------------- MODULE JsonText -----------------------------
(***************************************************************************)
(* The parse functions of json for a text.  x is the text and i the        *)
(* position of the pointer it.  The text ends with a NUL; past it nothing  *)
(* is defined.                                                             *)
(***************************************************************************)
EXTENDS Json

At(x, i) == IF i <= Len(x) THEN x[i] ELSE NUL

RECURSIVE SkipSp(_, _)
SkipSp(x, i) == IF isspace(At(x, i)) THEN SkipSp(x, i + 1) ELSE i

\* the position after the digits from i on
RECURSIVE SkipDigits(_, _)
SkipDigits(x, i) == IF isdigit(At(x, i)) THEN SkipDigits(x, i + 1) ELSE i

LiteralParse(x, i, t) ==
  LET end == i + Len(Word[t])
  IN  IF end - 1 <= Len(x) /\ SubSeq(x, i, end - 1) = Word[t] THEN Parsed(end, Literal(t))
      ELSE Throws(Literal(t))
TrueParse(x, i) == LiteralParse(x, i, "true")
FalseParse(x, i) == LiteralParse(x, i, "false")
NullParse(x, i) == LiteralParse(x, i, "null")

\* the parts of a number from i on: whether they are well-formed, and where they end
IntegerPart(x, i) ==
  LET first == IF At(x, i) = Ch.minus THEN i + 1 ELSE i
  IN  [ok |-> isdigit(At(x, first)), end |-> SkipDigits(x, first)]
FractionPart(x, i) ==
  IF At(x, i) = Ch.dot THEN [ok |-> isdigit(At(x, i + 1)), end |-> SkipDigits(x, i + 1)]
  ELSE [ok |-> TRUE, end |-> i]
ExponentPart(x, i) ==
  LET first == IF At(x, i + 1) \in {Ch.minus, Ch.plus} THEN i + 2 ELSE i + 1
  IN  IF At(x, i) \in {Ch.e, Ch.E} THEN [ok |-> isdigit(At(x, first)), end |-> SkipDigits(x, first)]
      ELSE [ok |-> TRUE, end |-> i]

\* the number at from, whose parts end at int, frac and exp
NumberOfParts(x, from, int, frac, exp) ==
  LET Char(k) == IF k = frac /\ exp > k THEN Ch.e ELSE x[k]
  IN  Parsed(exp, ParsedNumber([k \in 1 .. exp - from |-> Char(from + k - 1)], exp = int))

NumberParse(x, i) ==
  LET from == SkipSp(x, i)
      int == IntegerPart(x, from)
      frac == FractionPart(x, int.end)
      exp == ExponentPart(x, frac.end)
  IN  IF int.ok /\ frac.ok /\ exp.ok THEN NumberOfParts(x, from, int.end, frac.end, exp.end)
      ELSE Throws(Nothing)

\* the UTF-16 unit of the four hexadecimal digits at i, if they are such
Hex4(x, i) ==
  IF \A k \in 0 .. 3 : isxdigit(At(x, i + k))
  THEN FoldLeft(LAMBDA n, c : n * 16 + HexValue(c), 0, SubSeq(x, i, i + 3))
  ELSE EOF

\* Fault: a lead surrogate is not looked at together with what follows it.
M_UnicodeEscape(x, i) ==
  LET u == Hex4(x, i) IN IF u = EOF THEN [pos |-> 0] ELSE [pos |-> i + 4, out |-> utf16_to_utf8(u)]

\* case 'u': the UTF-8 of one unit, or of a pair when a second escape follows a lead
\* surrogate; position 0 when it is not four digits
UnicodeEscape(x, i) ==
  LET u == Hex4(x, i)
      second == is_lead_surrogate(u) /\ At(x, i + 4) = Ch.backslash /\ At(x, i + 5) = Ch.u
      v == Hex4(x, i + 6)
  IN  CASE u = EOF -> [pos |-> 0]
        [] u # EOF /\ ~second -> [pos |-> i + 4, out |-> utf16_to_utf8(u)]
        [] OTHER -> IF v = EOF THEN [pos |-> 0]
                    ELSE [pos |-> i + 10,
                          out |-> IF is_trail_surrogate(v) THEN utf32_to_utf8(surrogate_pair_to_utf32(u, v))
                                                           ELSE utf16_to_utf8(u) \o utf16_to_utf8(v)]

\* the switch after a backslash
Escape(x, i) ==
  IF At(x, i) = Ch.u THEN UnicodeEscape(x, i + 1)
  ELSE LET is == {k \in DOMAIN Letter : Letter[k][2] = At(x, i)}
       IN  IF is = {} THEN [pos |-> 0] ELSE [pos |-> i + 1, out |-> <<Letter[CHOOSE k \in is : TRUE][1]>>]

\* the characters up to the closing quote; a NUL is pushed back like any other, and
\* the loop reads on behind it
RECURSIVE Characters(_, _, _)
AfterEscape(x, e, s) == IF e.pos = 0 THEN Throws(String(s)) ELSE Characters(x, e.pos, s \o e.out)
Characters(x, i, s) ==
  CASE At(x, i) = Ch.backslash -> AfterEscape(x, Escape(x, i + 1), s)
    [] At(x, i) = Ch.quote -> Parsed(i + 1, String(s))
    [] At(x, i) = NUL -> Undefined
    [] OTHER -> Characters(x, i + 1, Append(s, x[i]))

StringParse(x, i) ==
  LET j == SkipSp(x, i)
  IN  IF At(x, j) = Ch.quote THEN Characters(x, j + 1, <<>>) ELSE Throws(String(<<>>))

RECURSIVE ArrayParse(_, _, _)
RECURSIVE ObjectParse(_, _, _)
ValueParse(x, i) ==
  CASE Kind(At(x, i)) = "object" -> ObjectParse(x, i, <<>>)
    [] Kind(At(x, i)) = "array" -> ArrayParse(x, i, <<>>)
    [] Kind(At(x, i)) = "string" -> StringParse(x, i)
    [] Kind(At(x, i)) = "number" -> NumberParse(x, i)
    [] Kind(At(x, i)) = "true" -> TrueParse(x, i)
    [] Kind(At(x, i)) = "false" -> FalseParse(x, i)
    [] Kind(At(x, i)) = "null" -> NullParse(x, i)
    [] OTHER -> Throws(Nothing)

\* items of an array that already has some, the next of which is v: nothing is taken
\* back when one is bad
RECURSIVE Items(_, _, _)
AfterItem(x, v, items) ==
  LET more == Append(items, v.val)
      j == SkipSp(x, v.pos)
  IN  CASE v.st = "undefined" -> v
        [] v.st = "bad" -> Throws(Array(items))
        [] v.st = "ok" /\ At(x, j) = Ch.comma -> Items(x, SkipSp(x, j + 1), more)
        [] v.st = "ok" /\ At(x, j) = Ch.rbracket -> Parsed(j + 1, Array(more))
        [] OTHER -> Throws(Array(more))
Items(x, i, items) == AfterItem(x, ValueParse(x, i), items)

\* array::parse, into an array that is not cleared
ArrayParse(x, i, items) ==
  LET j == SkipSp(x, i)
      k == SkipSp(x, j + 1)
  IN  CASE At(x, j) # Ch.lbracket -> Throws(Array(items))
        [] At(x, j) = Ch.lbracket /\ At(x, k) = Ch.rbracket -> Parsed(k + 1, Array(items))
        [] OTHER -> Items(x, k, items)

\* the pairs of an object that already has some, the next of which is key with v
RECURSIVE Pairs(_, _, _)
AfterPair(x, key, v, pairs) ==
  LET more == Insert(pairs, key, v.val)
      j == SkipSp(x, v.pos)
  IN  CASE v.st = "undefined" -> v
        [] v.st = "bad" -> Throws(Object(pairs))
        [] v.st = "ok" /\ At(x, j) = Ch.comma -> Pairs(x, SkipSp(x, j + 1), more)
        [] v.st = "ok" /\ At(x, j) = Ch.rbrace -> Parsed(j + 1, Object(more))
        [] OTHER -> Throws(Object(more))
AfterKey(x, key, pairs) ==
  LET colon == SkipSp(x, key.pos)
  IN  CASE key.st = "undefined" -> key
        [] key.st = "bad" -> Throws(Object(pairs))
        [] key.st = "ok" /\ At(x, colon) = Ch.colon ->
             AfterPair(x, key.val.s, ValueParse(x, SkipSp(x, colon + 1)), pairs)
        [] OTHER -> Throws(Object(pairs))
Pairs(x, i, pairs) ==
  IF At(x, i) = Ch.quote THEN AfterKey(x, StringParse(x, i), pairs) ELSE Throws(Object(pairs))

\* object::parse, into an object that is not cleared
ObjectParse(x, i, pairs) ==
  LET j == SkipSp(x, i)
      k == SkipSp(x, j + 1)
  IN  CASE At(x, j) # Ch.lbrace -> Throws(Object(pairs))
        [] At(x, j) = Ch.lbrace /\ At(x, k) = Ch.rbrace -> Parsed(k + 1, Object(pairs))
        [] OTHER -> Pairs(x, k, pairs)
=============================================================================
