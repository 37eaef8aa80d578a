---------------------------- MODULE JsonStream ----------------------------
(***************************************************************************)
(* The parse functions of json for an istream.  Where a parser is done, the *)
(* position of its result is the state of the stream.                      *)
(***************************************************************************)
EXTENDS Json

\* gets characters until one is not a digit
RECURSIVE DigitsS(_, _)
DigitsS(x, s) == LET g == Get(x, s) IN IF isdigit(g.ch) THEN DigitsS(x, g) ELSE g

\* compares character by character, and stops behind the first that differs
RECURSIVE LettersS(_, _, _)
LettersS(x, s, word) ==
  LET g == Get(x, s)
  IN  IF g.ch # word[1] THEN [ok |-> FALSE, s |-> g]
      ELSE IF Len(word) = 1 THEN [ok |-> TRUE, s |-> g] ELSE LettersS(x, g, Tail(word))
LiteralParseS(x, s, t) ==
  LET r == LettersS(x, s, Word[t]) IN IF r.ok THEN Parsed(r.s, Literal(t)) ELSE Throws(Literal(t))
TrueParseS(x, s) == LiteralParseS(x, s, "true")
FalseParseS(x, s) == LiteralParseS(x, s, "false")
NullParseS(x, s) == LiteralParseS(x, s, "null")

\* The parts of a number, the first character of which was got last: whether they are
\* well-formed, and the stream when the character behind them was got.
IntegerPartS(x, s) ==
  LET first == IF s.ch = Ch.minus THEN Get(x, s) ELSE s
  IN  [ok |-> isdigit(first.ch), end |-> DigitsS(x, first)]
FractionPartS(x, s) ==
  LET first == Get(x, s)
  IN  IF s.ch = Ch.dot THEN [ok |-> isdigit(first.ch), end |-> DigitsS(x, first)]
      ELSE [ok |-> TRUE, end |-> s]
ExponentPartS(x, s) ==
  LET sign == Get(x, s)
      first == IF sign.ch \in {Ch.minus, Ch.plus} THEN Get(x, sign) ELSE sign
  IN  IF s.ch \in {Ch.e, Ch.E} THEN [ok |-> isdigit(first.ch), end |-> DigitsS(x, first)]
      ELSE [ok |-> TRUE, end |-> s]

\* where the character that was got last is, or would be
LastPos(x, s) == IF s.fail THEN Len(x) + 1 ELSE s.pos - 1

\* the number from position from on; the character behind it is put back
NumberOfPartsS(x, from, int, frac, exp) ==
  LET end == LastPos(x, exp)
      Char(k) == IF k = LastPos(x, frac) /\ end > k THEN Ch.e ELSE x[k]
  IN  Parsed(Unget(exp), ParsedNumber([k \in 1 .. end - from |-> Char(from + k - 1)], exp = int))

NumberParseS(x, s) ==
  LET from == SkipSpS(x, s)
      int == IntegerPartS(x, from)
      frac == FractionPartS(x, int.end)
      exp == ExponentPartS(x, frac.end)
  IN  IF int.ok /\ frac.ok /\ exp.ok
      THEN NumberOfPartsS(x, LastPos(x, from), int.end, frac.end, exp.end)
      ELSE Throws(Nothing)

\* Fault: the second unit is taken for a trail surrogate, whatever it is.
M_TwoUnitsS(u, v) == utf32_to_utf8(surrogate_pair_to_utf32(u, v))

\* two escapes, of which the first is a lead surrogate
TwoUnitsS(u, v) ==
  IF is_trail_surrogate(v) THEN utf32_to_utf8(surrogate_pair_to_utf32(u, v))
                           ELSE utf16_to_utf8(u) \o utf16_to_utf8(v)

\* case 'u', when the hexadecimal digits h were read
UnicodeEscapeS(x, h) ==
  LET next == Get(x, h.s)
      second == next.ch = Ch.backslash /\ Peek(x, next) = Ch.u
      h2 == HexS(x, Get(x, next), 4, <<>>)
  IN  CASE h.u = EOF -> [ok |-> FALSE]
        [] h.u # EOF /\ ~is_lead_surrogate(h.u) -> [ok |-> TRUE, s |-> h.s, out |-> utf16_to_utf8(h.u)]
        [] is_lead_surrogate(h.u) /\ ~second -> [ok |-> TRUE, s |-> Unget(next), out |-> utf16_to_utf8(h.u)]
        [] OTHER -> IF h2.u = EOF THEN [ok |-> FALSE]
                    ELSE [ok |-> TRUE, s |-> h2.s, out |-> TwoUnitsS(h.u, h2.u)]

EscapeS(x, s) ==
  LET g == Get(x, s)
      is == {k \in DOMAIN Letter : Letter[k][2] = g.ch}
  IN  IF g.ch = Ch.u THEN UnicodeEscapeS(x, HexS(x, g, 4, <<>>))
      ELSE IF is = {} THEN [ok |-> FALSE] ELSE [ok |-> TRUE, s |-> g, out |-> <<Letter[CHOOSE k \in is : TRUE][1]>>]

\* the characters up to the closing quote; the end of the stream is an error
RECURSIVE CharactersS(_, _, _)
AfterEscapeS(x, e, str) == IF e.ok THEN CharactersS(x, e.s, str \o e.out) ELSE Throws(String(str))
CharactersS(x, s, str) ==
  LET g == Get(x, s)
  IN  CASE g.ch = Ch.backslash -> AfterEscapeS(x, EscapeS(x, g), str)
        [] g.ch = Ch.quote -> Parsed(g, String(str))
        [] g.ch = EOF -> Throws(String(str))
        [] OTHER -> CharactersS(x, g, Append(str, g.ch))

StringParseS(x, s) ==
  LET g == SkipSpS(x, s)
  IN  IF g.ch = Ch.quote THEN CharactersS(x, g, <<>>) ELSE Throws(String(<<>>))

RECURSIVE ArrayParseS(_, _, _)
RECURSIVE ObjectParseS(_, _, _)
\* the value whose first character was got last, and is put back
ValueParseS(x, s) ==
  LET u == Unget(s)
  IN  CASE Kind(s.ch) = "object" -> ObjectParseS(x, u, <<>>)
        [] Kind(s.ch) = "array" -> ArrayParseS(x, u, <<>>)
        [] Kind(s.ch) = "string" -> StringParseS(x, u)
        [] Kind(s.ch) = "number" -> NumberParseS(x, u)
        [] Kind(s.ch) = "true" -> TrueParseS(x, u)
        [] Kind(s.ch) = "false" -> FalseParseS(x, u)
        [] Kind(s.ch) = "null" -> NullParseS(x, u)
        [] OTHER -> Throws(Nothing)

RECURSIVE ItemsS(_, _, _)
AfterItemS(x, v, items) ==
  LET g == SkipSpS(x, v.pos)
      more == Append(items, v.val)
  IN  IF v.st = "bad" THEN Throws(Array(items))
      ELSE IF g.ch = Ch.comma THEN ItemsS(x, SkipSpS(x, g), more)
      ELSE IF g.ch = Ch.rbracket THEN Parsed(g, Array(more)) ELSE Throws(Array(more))
ItemsS(x, s, items) == AfterItemS(x, ValueParseS(x, s), items)

ArrayParseS(x, s, items) ==
  LET open == SkipSpS(x, s)
      g == SkipSpS(x, open)
  IN  IF open.ch # Ch.lbracket THEN Throws(Array(items))
      ELSE IF g.ch = Ch.rbracket THEN Parsed(g, Array(items)) ELSE ItemsS(x, g, items)

RECURSIVE PairsS(_, _, _)
AfterPairS(x, key, v, pairs) ==
  LET g == SkipSpS(x, v.pos)
      more == Insert(pairs, key, v.val)
  IN  IF v.st = "bad" THEN Throws(Object(pairs))
      ELSE IF g.ch = Ch.comma THEN PairsS(x, SkipSpS(x, g), more)
      ELSE IF g.ch = Ch.rbrace THEN Parsed(g, Object(more)) ELSE Throws(Object(more))
AfterKeyS(x, key, pairs) ==
  LET colon == SkipSpS(x, key.pos)
  IN  IF key.st = "bad" \/ colon.ch # Ch.colon THEN Throws(Object(pairs))
      ELSE AfterPairS(x, key.val.s, ValueParseS(x, SkipSpS(x, colon)), pairs)
PairsS(x, s, pairs) ==
  IF s.ch = Ch.quote THEN AfterKeyS(x, StringParseS(x, Unget(s)), pairs) ELSE Throws(Object(pairs))

ObjectParseS(x, s, pairs) ==
  LET open == SkipSpS(x, s)
      g == SkipSpS(x, open)
  IN  IF open.ch # Ch.lbrace THEN Throws(Object(pairs))
      ELSE IF g.ch = Ch.rbrace THEN Parsed(g, Object(pairs)) ELSE PairsS(x, g, pairs)
=============================================================================
