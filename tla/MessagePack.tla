---------------------------- MODULE MessagePack ----------------------------
(***************************************************************************)
(* pack and unpack of the JSON values, in the formats of PackFormat.       *)
(***************************************************************************)
EXTENDS Json, PackFormat

PackNumber(v) == PackedNumber(v.integral, v.val)
PackString(s) == StringHeader(Len(s)) \o s
PackTrue == <<195>>
PackFalse == <<194>>
PackNull == <<192>>

RECURSIVE Pack(_)
PackArray(v) == ArrayHeader(Len(v.items)) \o FlattenSeq([i \in DOMAIN v.items |-> Pack(v.items[i])])
PackObject(v) ==
  ObjectHeader(Len(v.pairs))
    \o FlattenSeq([i \in DOMAIN v.pairs |-> PackString(v.pairs[i][1]) \o Pack(v.pairs[i][2])])
Pack(v) ==
  CASE v.t = "null" -> PackNull [] v.t = "true" -> PackTrue [] v.t = "false" -> PackFalse
    [] v.t = "number" -> PackNumber(v) [] v.t = "string" -> PackString(v.s)
    [] v.t = "array" -> PackArray(v) [] v.t = "object" -> PackObject(v)

-----------------------------------------------------------------------------
(* pack into a streambuf, whose bytes are sb.                               *)

\* number::pack once more: the narrowest width that has the value, with the byte before it
Width(b) == CHOOSE n \in {1, 2, 4, 8} : FitsIn(b, n) /\ \A k \in {1, 2, 4, 8} : FitsIn(b, k) => n <= k
Lead == 1 :> 208 @@ 2 :> 209 @@ 4 :> 210 @@ 8 :> 211
PackNumberSB(sb, v) ==
  LET b == v.val
      written == IF ~v.integral THEN <<203>> \o hton(b)
                 ELSE IF b[8] \in 0 .. 127 \cup 224 .. 255 /\ Width(b) = 1 THEN <<b[8]>>
                 ELSE <<Lead[Width(b)]>> \o Low(b, Width(b))
  IN  FoldLeft(Append, sb, written)
PackStringSB(sb, s) == (sb \o StringHeader(Len(s))) \o s
RECURSIVE PackSB(_, _)
PackArraySB(sb, v) == FoldLeft(PackSB, sb \o ArrayHeader(Len(v.items)), v.items)
PackObjectSB(sb, v) ==
  FoldLeft(LAMBDA b, p : PackSB(PackStringSB(b, p[1]), p[2]), sb \o ObjectHeader(Len(v.pairs)), v.pairs)
PackSB(sb, v) ==
  CASE v.t = "array" -> PackArraySB(sb, v) [] v.t = "object" -> PackObjectSB(sb, v)
    [] v.t = "string" -> PackStringSB(sb, v.s) [] v.t = "number" -> PackNumberSB(sb, v)
    [] OTHER -> sb \o Pack(v)

-----------------------------------------------------------------------------
(* unpack; i is the position of the pointer it.                             *)

UnpackLiteral(x, i) == Parsed(i + 1, Literal(TypeOf(x[i])))

UnpackNumber(x, i) ==
  LET n == NumberAt(x, i)
  IN  IF TypeOf(x[i]) # "number" THEN Throws(Nothing)
      ELSE IF ~n.integral /\ Overflows(n.val) THEN Undefined
      ELSE Parsed(n.pos, IF n.integral THEN IntNumber(n.val) ELSE RealNumber(n.val))

\* string::unpack, which clears the string first
UnpackString(x, i) ==
  LET h == StringLength(x, i) IN Parsed(h.pos + h.len, String(SubSeq(x, h.pos, h.pos + h.len - 1)))

RECURSIVE UnpackArray(_, _, _)
RECURSIVE UnpackObject(_, _, _)
Unpack(x, i) ==
  CASE TypeOf(x[i]) \in {"null", "true", "false"} -> UnpackLiteral(x, i)
    [] TypeOf(x[i]) = "number" -> UnpackNumber(x, i)
    [] TypeOf(x[i]) = "string" -> UnpackString(x, i)
    [] TypeOf(x[i]) = "array" -> UnpackArray(x, i, <<>>)
    [] TypeOf(x[i]) = "object" -> UnpackObject(x, i, <<>>)
    [] OTHER -> Throws(Nothing)

\* n values more for an array that has some; the ones before a bad one stay
RECURSIVE UnpackItems(_, _, _, _)
ItemUnpacked(x, v, n, items) ==
  CASE v.st = "undefined" -> v
    [] v.st = "bad" -> Throws(Array(items))
    [] v.st = "ok" -> UnpackItems(x, v.pos, n - 1, Append(items, v.val))
UnpackItems(x, i, n, items) ==
  IF n = 0 THEN Parsed(i, Array(items)) ELSE ItemUnpacked(x, Unpack(x, i), n, items)
UnpackArray(x, i, items) ==
  IF TypeOf(x[i]) # "array" THEN Throws(Array(items))
  ELSE LET h == ArrayLength(x, i) IN UnpackItems(x, h.pos, h.len, items)

RECURSIVE UnpackPairs(_, _, _, _)
PairUnpacked(x, key, v, n, pairs) ==
  CASE v.st = "undefined" -> v
    [] v.st = "bad" -> Throws(Object(pairs))
    [] v.st = "ok" -> UnpackPairs(x, v.pos, n - 1, Insert(pairs, key, v.val))
UnpackPairs(x, i, n, pairs) ==
  LET key == UnpackString(x, i)
  IN  IF n = 0 THEN Parsed(i, Object(pairs))
      ELSE IF TypeOf(x[i]) # "string" THEN Throws(Object(pairs))
      ELSE PairUnpacked(x, key.val.s, Unpack(x, key.pos), n, pairs)
UnpackObject(x, i, pairs) ==
  IF TypeOf(x[i]) # "object" THEN Throws(Object(pairs))
  ELSE LET h == ObjectLength(x, i) IN UnpackPairs(x, h.pos, h.len, pairs)
=============================================================================
