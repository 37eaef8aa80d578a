------------------------------- MODULE Chars -------------------------------
(***************************************************************************)
(* What the parsers use of the C++ library: character classes, and an      *)
(* istream.  x holds the characters of the stream, as their codes, and s   *)
(* its state: the position of the next one, whether failbit is set, and    *)
(* the character that was got last, the variable ch of the parsers.        *)
(***************************************************************************)
EXTENDS Integers, Sequences

EOF == -1  \* traits_type::eof()
NUL == 0
Ch == [quote |-> 34, apostrophe |-> 39, backslash |-> 92, slash |-> 47, comma |-> 44, colon |-> 58,
       plus |-> 43, minus |-> 45, dot |-> 46, lbracket |-> 91, rbracket |-> 93, lbrace |-> 123,
       rbrace |-> 125, equals |-> 61, hash |-> 35, bang |-> 33, b |-> 98, e |-> 101, E |-> 69,
       f |-> 102, n |-> 110, r |-> 114, t |-> 116, u |-> 117,
       bs |-> 8, tab |-> 9, lf |-> 10, ff |-> 12, cr |-> 13]

isspace(c) == c = 32 \/ c \in 9 .. 13
isdigit(c) == c \in 48 .. 57
isxdigit(c) == isdigit(c) \/ c \in 65 .. 70 \/ c \in 97 .. 102
HexValue(c) == CASE isdigit(c) -> c - 48 [] c \in 65 .. 70 -> c - 55 [] OTHER -> c - 87

Stream(pos) == [pos |-> pos, fail |-> FALSE, ch |-> EOF]

\* istream::get: failbit at the end, and nothing more after it
Get(x, s) == IF s.fail \/ s.pos > Len(x) THEN [s EXCEPT !.fail = TRUE, !.ch = EOF]
             ELSE [s EXCEPT !.pos = @ + 1, !.ch = x[s.pos]]
\* istream::unget: nothing when failbit is set
Unget(s) == IF s.fail THEN s ELSE [s EXCEPT !.pos = @ - 1]
Peek(x, s) == IF s.pos > Len(x) THEN EOF ELSE x[s.pos]

RECURSIVE SkipSpS(_, _)
SkipSpS(x, s) == LET g == Get(x, s) IN IF isspace(g.ch) THEN SkipSpS(x, g) ELSE g

\* n hexadecimal digits: those got, and their value, or EOF when another character
\* comes first
RECURSIVE HexS(_, _, _, _)
HexS(x, s, n, digits) ==
  LET g == Get(x, s)
      value[k \in 0 .. Len(digits)] == IF k = 0 THEN 0 ELSE value[k - 1] * 16 + HexValue(digits[k])
  IN  IF n = 0 THEN [s |-> s, u |-> value[Len(digits)], digits |-> digits]
      ELSE IF isxdigit(g.ch) THEN HexS(x, g, n - 1, Append(digits, g.ch))
      ELSE [s |-> g, u |-> EOF, digits |-> digits]
=============================================================================
