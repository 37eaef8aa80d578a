----------------------------- MODULE Properties -----------------------------
(***************************************************************************)
(* util::properties: load fills a map with the keys and values of a        *)
(* stream.  Functions that read return the stream, with the character that *)
(* they return in ch, and the string that they have built.                 *)
(***************************************************************************)
EXTENDS Chars, SequencesExt, Utf

IsBlank(c) == c \in {32, Ch.tab, Ch.ff}

\* the loops that get characters while ch is blank
RECURSIVE PastBlanks(_, _)
PastBlanks(x, s) == IF IsBlank(s.ch) THEN PastBlanks(x, Get(x, s)) ELSE s

RECURSIVE skip_line(_, _)
skip_line(x, s) ==
  LET g == Get(x, s) IN IF g.ch \in {Ch.lf, Ch.cr, EOF} THEN g ELSE skip_line(x, g)

\* the characters that stand for another after a backslash
Escapes == << <<Ch.t, Ch.tab>>, <<Ch.n, Ch.lf>>, <<Ch.f, Ch.ff>>, <<Ch.r, Ch.cr>> >>
Unescaped(c) ==
  IF \E i \in DOMAIN Escapes : Escapes[i][1] = c
  THEN Escapes[CHOOSE i \in DOMAIN Escapes : Escapes[i][1] = c][2] ELSE c

\* the 'u' branch, when the hexadecimal digits h were read; digits that are not four stay
\* in the string
unicode_sequence(x, h, str) ==
  LET next == Get(x, h.s)
      h2 == HexS(x, Get(x, next), 4, <<>>)
  IN  IF h.u = EOF THEN [s |-> h.s, str |-> Append(str, Ch.u) \o h.digits]
      ELSE IF ~is_lead_surrogate(h.u) THEN [s |-> next, str |-> str \o utf16_to_utf8(h.u)]
      ELSE IF ~(next.ch = Ch.backslash /\ Peek(x, next) = Ch.u)
           THEN [s |-> next, str |-> str \o utf16_to_utf8(h.u)]
      ELSE IF h2.u = EOF
           THEN [s |-> h2.s, str |-> Append(str \o utf16_to_utf8(h.u), Ch.u) \o h2.digits]
      ELSE [s |-> Get(x, h2.s),
            str |-> str \o IF is_trail_surrogate(h2.u)
                           THEN utf32_to_utf8(surrogate_pair_to_utf32(h.u, h2.u))
                           ELSE utf16_to_utf8(h.u) \o utf16_to_utf8(h2.u)]

\* The character after the backslash and what it makes of the string that was read.
\* After a CR one more character is got, and dropped, before the blanks of the next line
\* are skipped.
handle_backslash(x, r) ==
  LET g == Get(x, r.s)
      afterCR == IF Get(x, g).ch = Ch.lf THEN Get(x, Get(x, g)) ELSE Get(x, g)
  IN  IF g.ch = Ch.lf THEN [r EXCEPT !.s = PastBlanks(x, Get(x, g))]
      ELSE IF g.ch = Ch.cr THEN [r EXCEPT !.s = PastBlanks(x, Get(x, afterCR))]
      ELSE IF g.ch = Ch.u THEN unicode_sequence(x, HexS(x, g, 4, <<>>), r.str)
      ELSE IF g.ch = EOF THEN [r EXCEPT !.s = g]
      ELSE [s |-> Get(x, g), str |-> Append(r.str, Unescaped(g.ch))]

\* one turn of the loops of read_key and read_value
ReadOn(x, r) == IF r.s.ch = Ch.backslash THEN handle_backslash(x, r)
                ELSE [s |-> Get(x, r.s), str |-> Append(r.str, r.s.ch)]

RECURSIVE read_key(_, _)
read_key(x, r) ==
  IF r.s.ch \in {EOF, Ch.equals, Ch.colon} \/ isspace(r.s.ch) THEN r ELSE read_key(x, ReadOn(x, r))

RECURSIVE read_value(_, _)
read_value(x, r) == IF r.s.ch \in {EOF, Ch.lf, Ch.cr} THEN r ELSE read_value(x, ReadOn(x, r))

\* Fault: the last value of a key wins.
M_InsertPair(map, k, v) == {p \in map : p[1] # k} \cup {<<k, v>>}

\* std::map::insert, on the map as a set of pairs: a key that is there keeps its value
InsertPair(map, k, v) == IF \E p \in map : p[1] = k THEN map ELSE map \cup {<<k, v>>}

\* the loop of load, and the rest of it when the key was read
RECURSIVE LoadFrom(_, _, _)
LoadValue(x, key, map) ==
  LET sep == PastBlanks(x, key.s)
      from == PastBlanks(x, IF sep.ch \in {Ch.equals, Ch.colon} THEN Get(x, sep) ELSE sep)
      value == read_value(x, [s |-> from, str |-> <<>>])
  IN  LoadFrom(x, value.s, IF key.str = <<>> THEN map ELSE InsertPair(map, key.str, value.str))
LoadFrom(x, s, map) ==
  IF s.ch = EOF THEN map
  ELSE IF isspace(s.ch) THEN LoadFrom(x, SkipSpS(x, s), map)
  ELSE IF s.ch \in {Ch.hash, Ch.bang} THEN LoadFrom(x, skip_line(x, s), map)
  ELSE LoadValue(x, read_key(x, [s |-> s, str |-> <<>>]), map)

load(x) == LoadFrom(x, Get(x, Stream(1)), {})
=============================================================================
