---------------------------- MODULE JsonDocument ----------------------------
(***************************************************************************)
(* A json::array or json::object that a program fills: with add, with      *)
(* operator[], and with parse and unpack, which add to what it holds.      *)
(***************************************************************************)
EXTENDS JsonText, JsonStream, MessagePack

CONSTANTS Values,    \* values that are added
          Keys,      \* keys of an object
          Texts,     \* texts that are parsed, good and bad ones
          MaxItems   \* bound: items of the document when an operation begins

VARIABLE doc

Roots == {Array(<<>>), Object(<<>>)}
DocInit == doc \in Roots

Size(v) == IF v.t = "array" THEN Len(v.items) ELSE Len(v.pairs)

ArrayAdd(v) == doc.t = "array" /\ doc' = Array(Append(doc.items, v))

\* Fault: the new value replaces that of a key that is there.
M_ObjectAdd(k, v) ==
  /\ doc.t = "object"
  /\ doc' = Object(Insert(SelectSeq(doc.pairs, LAMBDA p : p[1] # k), k, v))

\* a key that is there keeps its value
ObjectAdd(k, v) == doc.t = "object" /\ doc' = Object(Insert(doc.pairs, k, v))

\* object::operator[]: a null pointer under a key that was not there
ObjectIndex(k) == doc.t = "object" /\ doc' = Object(Insert(doc.pairs, k, Nothing))

\* parse from a text and from a stream; what came before an error stays
TextInto(x) == IF doc.t = "array" THEN ArrayParse(x, 1, doc.items) ELSE ObjectParse(x, 1, doc.pairs)
StreamInto(x) ==
  IF doc.t = "array" THEN ArrayParseS(x, Stream(1), doc.items) ELSE ObjectParseS(x, Stream(1), doc.pairs)
Result(r) == r.st # "undefined" /\ doc' = r.val
ParseText(x) == Result(TextInto(x))
ParseStream(x) == Result(StreamInto(x))

\* unpack of a value that was packed somewhere
UnpackInto(x) == IF doc.t = "array" THEN UnpackArray(x, 1, doc.items) ELSE UnpackObject(x, 1, doc.pairs)
UnpackBytes(v) == Result(UnpackInto(Pack(v)))

\* value::at and operator[] of a position and of a key, which ask for the type first.
\* Past the end of an array operator[], and at of a const value, are not defined.
Exception(e) == [t |-> e]
AtPosition(v, pos) ==
  IF v.t # "array" THEN Exception("not_allowed") ELSE IF pos < Len(v.items) THEN v.items[pos + 1] ELSE Exception("out_of_range")
AtKey(v, k) ==
  LET is == IF v.t = "object" THEN {i \in DOMAIN v.pairs : v.pairs[i][1] = k} ELSE {}
  IN  IF v.t # "object" THEN Exception("not_allowed") ELSE IF is = {} THEN Exception("out_of_range") ELSE v.pairs[CHOOSE i \in is : TRUE][2]

DocNext ==
  /\ Size(doc) < MaxItems
  /\ \/ \E v \in Values : ArrayAdd(v) \/ UnpackBytes(v) \/ \E k \in Keys : ObjectAdd(k, v)
     \/ \E k \in Keys : ObjectIndex(k)
     \/ \E x \in Texts : ParseText(x) \/ ParseStream(x)

-----------------------------------------------------------------------------
HasNull(v) == v.t = "object" /\ \E i \in DOMAIN v.pairs : v.pairs[i][2] = Nothing

\* v without what a text, or a packed value, does not keep of its numbers
RECURSIVE Comparable(_, _)
Comparable(v, part) ==
  CASE v.t = "array" -> Array([i \in DOMAIN v.items |-> Comparable(v.items[i], part)])
    [] v.t = "object" -> Object([i \in DOMAIN v.pairs |-> <<v.pairs[i][1], Comparable(v.pairs[i][2], part)>>])
    [] v.t = "number" -> IF part = "val" \/ v.integral THEN [v EXCEPT !.rep = <<>>] ELSE [v EXCEPT !.val = <<>>]
    [] OTHER -> v

RECURSIVE NumbersIn(_)
NumbersIn(v) ==
  CASE v.t = "array" -> UNION {NumbersIn(v.items[i]) : i \in DOMAIN v.items}
    [] v.t = "object" -> UNION {NumbersIn(v.pairs[i][2]) : i \in DOMAIN v.pairs}
    [] v.t = "number" -> {v}
    [] OTHER -> {}

\* What operator<< does not print as a number: number(), of which it prints nothing, and
\* an infinity or NaN that was given or unpacked, of which it prints a word.
NotPrinted(n) ==
  n = DefaultNumber \/ (~n.integral /\ ~IsFinite(n.val) /\ n = RealNumber(n.val))

\* A parse read all of x, and what it made of x is the document but for the images of
\* doubles.
ReadBack(r, x) ==
  r.st = "ok" /\ r.pos = Len(x) + 1 /\ Comparable(r.val, "rep") = Comparable(doc, "rep")
ReadBackS(r) == r.st = "ok" /\ Comparable(r.val, "rep") = Comparable(doc, "rep")

\* Whatever was added, parsed, left over from a failed parse or unpacked, the text that
\* operator<< prints is read back by both parsers, to its end, as the same document:
\* integers with their value, doubles as the digits that were printed.  With a number that
\* is not printed as one in it, neither parser makes the document of the text.
PrintParse ==
  HasNull(doc) \/
  LET x == Text(doc)
      fromText == IF doc.t = "array" THEN ArrayParse(x, 1, <<>>) ELSE ObjectParse(x, 1, <<>>)
      fromStream == IF doc.t = "array" THEN ArrayParseS(x, Stream(1), <<>>) ELSE ObjectParseS(x, Stream(1), <<>>)
  IN  IF \E n \in NumbersIn(doc) : NotPrinted(n) THEN ~ReadBack(fromText, x) /\ ~ReadBackS(fromStream)
      ELSE ReadBack(fromText, x) /\ ReadBackS(fromStream)

\* A packed document is read back as the same values, whatever bytes follow it, and
\* unpack stops where pack did; only a double that is too long for the buffer of
\* double_to_string, as a parse accepts it, leaves unpack undefined.  Both pack functions
\* write the same bytes.  Headers keep their length on both sides of every limit.
PackUnpack ==
  HasNull(doc) \/
  LET x == Pack(doc)
      back == IF doc.t = "array" THEN UnpackArray(x \o <<193>>, 1, <<>>) ELSE UnpackObject(x \o <<193>>, 1, <<>>)
  IN  /\ IF \E n \in NumbersIn(doc) : ~n.integral /\ Overflows(n.val) THEN back = Undefined
         ELSE /\ back.st = "ok" /\ back.pos = Len(x) + 1
              /\ Comparable(back.val, "val") = Comparable(doc, "val")
      /\ PackSB(<<>>, doc) = x
      /\ \A n \in {0, 15, 16, 31, 32, 255, 256, 65535, 65536} :
           /\ StringLength(StringHeader(n), 1) = [len |-> n, pos |-> Len(StringHeader(n)) + 1]
           /\ ArrayLength(ArrayHeader(n), 1) = [len |-> n, pos |-> Len(ArrayHeader(n)) + 1]
           /\ ObjectLength(ObjectHeader(n), 1) = [len |-> n, pos |-> Len(ObjectHeader(n)) + 1]

Keeps(was, is) == was.t \in {"not_allowed", "out_of_range"} \/ is = was

\* What at has found under a key or at a position, it finds there ever after: add, another
\* operator[], parse, a parse that throws half way and unpack only put something where
\* nothing was, be it the null pointer of operator[].
FoundStaysFound ==
  [][/\ \A k \in Keys : Keeps(AtKey(doc, k), AtKey(doc', k))
     /\ \A pos \in 0 .. MaxItems : Keeps(AtPosition(doc, pos), AtPosition(doc', pos))]_doc
=============================================================================
