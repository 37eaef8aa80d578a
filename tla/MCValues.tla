------------------------------ MODULE MCValues ------------------------------
(***************************************************************************)
(* The parsers and the packing on bounded inputs: texts that grow by one   *)
(* fragment a step, documents that are filled, and code points.            *)
(***************************************************************************)
EXTENDS JsonDocument, Properties

CONSTANTS MaxFragments,     \* fragments of a JSON text behind its start
          MaxLineFragments, \* the same for lines of properties
          CodeStep          \* the code points between one and the next

VARIABLES part, \* what the behaviour is about
          text, \* the text of a parser
          left, \* fragments it may still get
          code  \* a code point

vars == <<doc, part, text, left, code>>

Escaped(c) == LET u == utf32_to_utf16(c) IN FlattenSeq([i \in DOMAIN u |-> HexEscape(u[i])])

Emoji == 128512
JsonStarts == {<<>>, <<Ch.lbracket>>, <<Ch.lbrace, Ch.quote, 107, Ch.quote>>, <<Ch.lbracket, Ch.quote>>}
JsonFragments ==
  {<<c>> : c \in {Ch.lbracket, Ch.rbracket, Ch.lbrace, Ch.rbrace, Ch.comma, Ch.colon, Ch.quote, 32,
                  Ch.minus, 49, Ch.dot, Ch.E, Ch.n, Ch.backslash}}
    \cup {Word.null, Word.true, SubSeq(Escaped(Emoji), 1, 6), SubSeq(Escaped(Emoji), 7, 12)}

LineStarts == {<<>>, <<107, Ch.backslash, Ch.cr, Ch.lf>>, <<107, Ch.equals>>, <<107, Ch.equals, 49, Ch.lf>>, <<107, Ch.backslash>>}
LineFragments ==
  {<<c>> : c \in {107, Ch.equals, Ch.colon, Ch.hash, 32, Ch.backslash, Ch.u, Ch.t, Ch.cr, Ch.lf, 49}}
    \cup {SubSeq(Escaped(Emoji), 1, 6), SubSeq(Escaped(Emoji), 7, 12), <<107, Ch.equals>>}

CodePoints == {n * CodeStep : n \in 0 .. 1114111 \div CodeStep}
                \cup {127, 128, 2047, 2048, 55296, 56319, 56320, 57343, 65535, 65536, 1114111}

\* edges of the integer formats, as bytes
Edge(sign, n, low) == [i \in 1 .. 8 |-> IF i > 8 - n THEN (IF i = 9 - n THEN low ELSE sign) ELSE sign]
MCInts == {Edge(s, n, low) : s \in {0, 255}, n \in {1, 2, 4, 8}, low \in {31, 32, 127, 128, 223, 224}}
MCValues ==
  {IntNumber(b) : b \in MCInts}
    \cup {RealNumber(<<n, 2, 3, 4, 5, 6, 7, 8>>) : n \in {10, 13, 191}}
    \cup {RealNumber(Infinity), RealNumber(<<255, 248, 0, 0, 0, 0, 0, 0>>), DefaultNumber}
    \cup {Literal("null"), Literal("true"), Literal("false")}
    \cup {String([i \in 1 .. n |-> 64]) : n \in {0, 31, 32}}
    \cup {String(<<Ch.backslash>> \o [i \in 1 .. 48 |-> i - 1])}
    \cup {Array([i \in 1 .. n |-> Literal("null")]) : n \in {0, 15, 16}}
    \cup {Object([i \in 1 .. n |-> <<<<64 + i>>, Array(<<Literal("true")>>)>>]) : n \in {0, 1, 16}}
MCKeys == {<<65>>, <<66>>, <<65, Ch.quote>>}
MCTexts ==
  {Text(Array(<<IntNumber(Zero), Object(<< <<<<65>>, Literal("null")>> >>)>>)),
   Text(Object(<< <<<<65>>, Array(<<>>)>>, <<<<66>>, RealNumber(<<13, 2, 3, 4, 5, 6, 7, 8>>)>> >>)),
   <<Ch.lbracket, 49, Ch.comma, 48, 49, Ch.E, 49, Ch.comma, Ch.rbracket>>,
   <<Ch.lbrace, Ch.quote, 66, Ch.quote, Ch.colon, Ch.minus, 48, Ch.comma, 49, Ch.rbrace>>,
   <<Ch.lbracket>> \o [i \in 1 .. 20 |-> 57] \o <<Ch.comma, Ch.minus>> \o [i \in 1 .. 20 |-> 57] \o <<Ch.rbracket>>,
   <<Ch.lbracket, 49, Ch.e, 57, 57, 57, Ch.comma, Ch.minus, 49, Ch.E, 57, 57, Ch.rbracket>>,          \* 1e999, -1E99
   <<Ch.lbracket, Ch.minus, 57, Ch.dot, 53, Ch.E, 52, 54, Ch.rbracket>>,                              \* -9.5E46
   <<Ch.lbracket, 48, Ch.dot, 48, 53, Ch.e, 52, 56, Ch.comma, 48, Ch.E, 57, 57, Ch.rbracket>>}        \* 0.05e48, 0E99

Init ==
  /\ DocInit
  /\ \/ part = "doc" /\ text = <<>> /\ left = 0 /\ code = 0
     \/ part = "json" /\ doc = Array(<<>>) /\ text \in JsonStarts /\ left = MaxFragments /\ code = 0
     \/ part = "load" /\ doc = Array(<<>>) /\ text \in LineStarts /\ left = MaxLineFragments /\ code = 0
     \/ part = "code" /\ doc = Array(<<>>) /\ text = <<>> /\ left = 0 /\ code \in CodePoints

Next ==
  \/ part = "doc" /\ DocNext /\ UNCHANGED <<part, text, left, code>>
  \/ /\ part \in {"json", "load"} /\ left > 0
     /\ \E f \in (IF part = "json" THEN JsonFragments ELSE LineFragments) : text' = text \o f
     /\ left' = left - 1
     /\ UNCHANGED <<doc, part, code>>

Spec == Init /\ [][Next]_vars

-----------------------------------------------------------------------------
\* the same outcome, value, also what a failed parse has left in it, and end
Agree(a, b) ==
  a.st = "undefined" \/ (a.st = b.st /\ a.val = b.val /\ (a.st = "ok" => a.pos = b.pos.pos))

\* The parser of a text and the parser of a stream, written separately with a pointer and
\* with get and unget, do the same on every text whose strings are closed.
ParsersAgree ==
  part = "json" =>
    /\ Agree(ArrayParse(text, 1, <<>>), ArrayParseS(text, Stream(1), <<>>))
    /\ Agree(ObjectParse(text, 1, <<>>), ObjectParseS(text, Stream(1), <<>>))
    /\ Agree(NumberParse(text, 1), NumberParseS(text, Stream(1)))
    /\ Agree(StringParse(text, 1), StringParseS(text, Stream(1)))

\* The escapes of the UTF-16 units of a code point become its UTF-8 bytes, in both JSON
\* parsers and in a properties file, and these become the same units again.
EscapesMeanCodePoints ==
  part = "code" =>
    LET quoted == <<Ch.quote>> \o Escaped(code) \o <<Ch.quote>>
        bytes == utf32_to_utf8(code)
    IN  /\ StringParse(quoted, 1) = Parsed(Len(quoted) + 1, String(bytes))
        /\ StringParseS(quoted, Stream(1)).val = String(bytes)
        /\ load(<<107, Ch.equals>> \o Escaped(code)) = {<<<<107>>, bytes>>}
        /\ utf8_to_utf16(bytes) = utf32_to_utf16(code) /\ Used(bytes[1]) = Len(bytes)

\* text[i] ends a line: nothing takes it for a part of a continuation
EndsLine(i) ==
  /\ text[i] \in {Ch.lf, Ch.cr} /\ (i = 1 \/ text[i - 1] # Ch.backslash)
  /\ ~\E joint \in {<<Ch.backslash, Ch.cr>>, <<Ch.backslash, Ch.cr, Ch.lf>>} :
        i > Len(joint) /\ SubSeq(text, i - Len(joint), i - 1) = joint

\* A line of a properties file means the same whatever comes before and after it; of two
\* lines with one key the first counts.  Where a backslash and CR, or CR LF, are followed
\* by the end of a line, that end is the character that is lost (ContinuationJoins), and
\* the lines are joined.
LinesStandAlone ==
  part = "load" =>
    \A i \in {j \in 1 .. Len(text) : EndsLine(j)} :
      LET before == load(SubSeq(text, 1, i))
          after == load(SubSeq(text, i + 1, Len(text)))
      IN  load(text) = before \cup {p \in after : \A q \in before : q[1] # p[1]}

\* "line terminator. 다음 줄 맨 앞 공백까지 넘겨버린다." (it is skipped, with the blanks at
\* the start of the next line): a value that is continued over a backslash and a line
\* terminator is the value without them.
ContinuationJoins ==
  (part = "load" /\ text # <<>> /\ ~IsBlank(text[1])) =>
    \A t \in {<<Ch.lf>>, <<Ch.cr>>, <<Ch.cr, Ch.lf>>}, blanks \in {<<>>, <<32>>} :
      load(<<107, Ch.equals, Ch.backslash>> \o t \o blanks \o text) = load(<<107, Ch.equals>> \o text)
=============================================================================
