---------------------------- MODULE BufferProofs ----------------------------
(***************************************************************************)
(* Proofs about what happens inside a buffer, Streambuf, for every base    *)
(* size, every size_t, and every size that an operation is called with,    *)
(* and about how buffers go from thread to thread, BufferExchange, for     *)
(* every set of threads and of buffers and every size of the pool.         *)
(*                                                                         *)
(* Inside: the pointers stay in order and the vector between the base size *)
(* and the largest size_t, so the doubling in reserve does not overflow;   *)
(* and the buffer is a ByteQueue, step by step.                            *)
(*                                                                         *)
(* Between: OneOwner and NoLostWakeup are inductive once the variables are *)
(* known to have their types.  What the proofs need besides is what Append *)
(* and Tail do to the buffers of a pool or a queue, and how the sets of    *)
(* sleeping and of notified threads change in size.                        *)
(***************************************************************************)
EXTENDS Streambuf, BufferExchange, FiniteSetTheorems, SequenceTheorems, WellFoundedInduction,
        NaturalsInduction, TLAPS

-----------------------------------------------------------------------------
(* The loop of reserve that doubles the size.                               *)

\* A set of natural numbers has a least element; proofs by induction take the least
\* number for which a claim would fail.
LEMMA LeastNumber ==
  ASSUME NEW T, T \subseteq Nat, T # {}
  PROVE  \E m \in T : \A k \in T : m <= k
<1>1. IsWellFoundedOn(OpToRel(<, Nat), Nat)
  BY NatLessThanWellFounded
<1>2. PICK m \in T : \A k \in T : ~(<<k, m>> \in OpToRel(<, Nat))
  BY <1>1, WFMin
<1>3. \A k \in T : ~(k < m)
  BY <1>2 DEF OpToRel
<1> QED
  BY <1>3

More(taken, n, m) == n > m - taken /\ m <= SizeMax \div 2

\* The loop ends: every size has a result.
LEMMA LoopEnds ==
  ASSUME NEW taken \in Int, NEW n \in Int
  PROVE  \E g : g = [m \in 1 .. SizeMax |-> IF More(taken, n, m) THEN g[2 * m] ELSE m]
<1> DEFINE From(d) == SizeMax - d .. SizeMax
           Solves(g, d) == g = [m \in From(d) |-> IF More(taken, n, m) THEN g[2 * m] ELSE m]
           Bad == {d \in 0 .. SizeMax - 1 : ~\E g : Solves(g, d)}
<1>1. Bad = {}
  <2> SUFFICES ASSUME Bad # {} PROVE FALSE
    OBVIOUS
  <2>1. Bad \subseteq Nat
    BY SizeAssumption
  <2> HIDE DEF Bad
  <2>2. PICK d \in Bad : \A e \in Bad : d <= e
    BY <2>1, LeastNumber
  <2>3. d \in 0 .. SizeMax - 1 /\ ~\E g : Solves(g, d)
    BY DEF Bad
  <2>4. d # 0
    <3>1. ASSUME d = 0 PROVE FALSE
      <4> DEFINE g == [m \in From(0) |-> m]
      <4>1. \A m \in From(0) : ~More(taken, n, m)
        BY SizeAssumption, <2>3, <3>1 DEF More
      <4>2. Solves(g, 0)
        BY <4>1
      <4> QED
        BY <2>3, <3>1, <4>2
    <3> QED
      BY <3>1
  <2>5. d - 1 \in 0 .. SizeMax - 1 /\ d - 1 \notin Bad
    BY <2>2, <2>3, <2>4, SizeAssumption
  <2>6. PICK h : Solves(h, d - 1)
    BY <2>5 DEF Bad
  <2> DEFINE low == SizeMax - d
             g == [m \in From(d) |-> IF m # low THEN h[m]
                                     ELSE IF More(taken, n, m) THEN h[2 * m] ELSE m]
  <2>7. low >= 1 /\ low \in Nat /\ From(d) = From(d - 1) \cup {low} /\ low \notin From(d - 1)
    BY <2>3, SizeAssumption
  <2>8. ASSUME NEW m \in From(d)
        PROVE  g[m] = IF More(taken, n, m) THEN g[2 * m] ELSE m
    <3>a. m \in Nat /\ m >= low /\ m >= 1
      BY <2>3, <2>7, SizeAssumption
    <3>b. ASSUME More(taken, n, m) PROVE 2 * m \in Nat /\ 2 * m <= SizeMax
      <4>1. m <= SizeMax \div 2
        BY <3>b DEF More
      <4> QED
        BY <3>a, <4>1, SizeAssumption
    <3>c. SizeMax - (d - 1) = low + 1
      BY <2>3, SizeAssumption
    <3>1. m \in Nat /\ m >= 1 /\ (More(taken, n, m) => 2 * m \in From(d - 1))
      BY <2>7, <3>a, <3>b, <3>c, SizeAssumption
    <3>2. \A k \in From(d - 1) : g[k] = h[k]
      BY <2>7
    <3>3. CASE m = low
      BY <3>1, <3>2, <3>3
    <3>4. CASE m # low
      <4>1. m \in From(d - 1)
        BY <2>7, <3>4
      <4>2. h[m] = IF More(taken, n, m) THEN h[2 * m] ELSE m
        BY <2>6, <4>1
      <4> QED
        BY <3>1, <3>2, <4>1, <4>2
    <3> QED
      BY <3>3, <3>4
  <2>9. Solves(g, d)
    <3> HIDE DEF low
    <3>1. g = [m \in From(d) |-> g[m]]
      OBVIOUS
    <3> QED
      BY <2>8, <3>1
  <2> QED
    BY <2>3, <2>9
<1>2. SizeMax - 1 \in 0 .. SizeMax - 1
  BY SizeAssumption
<1>3. PICK g : Solves(g, SizeMax - 1)
  BY <1>1, <1>2
<1>4. From(SizeMax - 1) = 1 .. SizeMax
  BY SizeAssumption
<1> QED
  BY <1>3, <1>4

\* The doubling stays within size_t and never makes the vector smaller.
LEMMA DoubledFacts ==
  ASSUME NEW taken \in Int, NEW n \in Int, NEW size \in 1 .. SizeMax
  PROVE  Doubled(size, taken, n) \in size .. SizeMax
<1> DEFINE G == CHOOSE g : g = [m \in 1 .. SizeMax |-> IF n > m - taken /\ m <= SizeMax \div 2
                                                     THEN g[2 * m] ELSE m]
           Bad == {d \in 0 .. SizeMax - 1 : G[SizeMax - d] \notin SizeMax - d .. SizeMax}
<1>1. G = [m \in 1 .. SizeMax |-> IF n > m - taken /\ m <= SizeMax \div 2 THEN G[2 * m] ELSE m]
  BY LoopEnds DEF More
<1>2. Doubled(size, taken, n) = G[size]
  BY DEF Doubled
<1> HIDE DEF G
<1>3. Bad = {}
  <2> SUFFICES ASSUME Bad # {} PROVE FALSE
    OBVIOUS
  <2>1. Bad \subseteq Nat
    BY SizeAssumption
  <2> HIDE DEF Bad
  <2>2. PICK d \in Bad : \A e \in Bad : d <= e
    BY <2>1, LeastNumber
  <2> DEFINE m == SizeMax - d
  <2>3. /\ d \in 0 .. SizeMax - 1 /\ m \in 1 .. SizeMax /\ m \in Nat
        /\ G[m] \notin m .. SizeMax
    BY SizeAssumption DEF Bad
  <2>4. G[m] = IF n > m - taken /\ m <= SizeMax \div 2 THEN G[2 * m] ELSE m
    BY <1>1, <2>3
  <2>5. m <= SizeMax \div 2 /\ G[m] = G[2 * m]
    BY <2>3, <2>4, SizeAssumption
  <2>6. 2 * m <= SizeMax
    BY <2>3, <2>5, SizeAssumption
  <2>7. SizeMax - 2 * m \in 0 .. SizeMax - 1 /\ SizeMax - 2 * m \notin Bad
    BY <2>2, <2>3, <2>6, SizeAssumption
  <2>8. G[2 * m] \in 2 * m .. SizeMax
    <3>1. SizeMax - (SizeMax - 2 * m) = 2 * m
      BY <2>3, SizeAssumption
    <3> QED
      BY <2>7, <3>1 DEF Bad
  <2> QED
    BY <2>3, <2>5, <2>8, SizeAssumption
<1>4. SizeMax - size \in 0 .. SizeMax - 1 /\ SizeMax - (SizeMax - size) = size
  BY SizeAssumption
<1> QED
  BY <1>2, <1>3, <1>4

-----------------------------------------------------------------------------
(* reserve                                                                  *)

Buf == [buf : Seq(Int), g : Nat, eg : Nat, p : Nat, mark : Nat \cup {NoMark}]

\* A buffer as its operations leave it.
Valid(s) ==
  /\ s \in Buf
  /\ s.g <= s.eg /\ s.eg <= s.p /\ s.p <= Len(s.buf)
  /\ s.mark # NoMark => s.mark <= s.g
  /\ BaseSize <= Len(s.buf) /\ Len(s.buf) <= SizeMax

\* What a function over the positions of a vector is as a sequence.
LEMMA VectorFacts ==
  ASSUME NEW n \in Nat, NEW f \in [1 .. n -> Int]
  PROVE  f \in Seq(Int) /\ Len(f) = n
OBVIOUS

\* memmove keeps the size, and brings the get area to the front.
LEMMA MovedFacts ==
  ASSUME NEW s, Valid(s)
  PROVE  /\ Moved(s) \in Seq(Int) /\ Len(Moved(s)) = Len(s.buf)
         /\ \A i \in 1 .. s.p - s.g : Moved(s)[i] = s.buf[s.g + i]
<1>1. /\ s.buf \in Seq(Int) /\ Len(s.buf) \in Nat /\ s.g \in Nat /\ s.p \in Nat
      /\ s.g <= s.p /\ s.p <= Len(s.buf)
      /\ \A i \in 1 .. Len(s.buf) : s.buf[i] \in Int
  BY DEF Valid, Buf
<1>2. Moved(s) \in [1 .. Len(s.buf) -> Int]
  <2>1. ASSUME NEW i \in 1 .. Len(s.buf), i <= s.p - s.g PROVE s.g + i \in 1 .. Len(s.buf)
    BY <1>1, <2>1
  <2> QED
    BY <1>1, <2>1 DEF Moved, Alloc, InSize
<1>a. \A i \in 1 .. s.p - s.g : i \in 1 .. Len(s.buf) /\ i <= s.p - s.g
  BY <1>1
<1>3. \A i \in 1 .. s.p - s.g : Moved(s)[i] = s.buf[s.g + i]
  BY <1>a DEF Moved, Alloc, InSize
<1> QED
  BY <1>1, <1>2, <1>3, VectorFacts

\* The halving stops above the base size.
LEMMA HalvedFacts ==
  ASSUME NEW taken \in Int, NEW n \in Nat, NEW size \in BaseSize .. SizeMax
  PROVE  Halved(size, taken, n) \in BaseSize .. SizeMax
<1>1. size > 2 * BaseSize => size \div 2 \in BaseSize .. SizeMax
  BY SizeAssumption
<1> QED
  BY <1>1 DEF Halved

\* The size that reserve asks for is within size_t and not below the base size.
LEMMA NewSizeFacts ==
  ASSUME NEW s, Valid(s), NEW n \in Nat
  PROVE  NewSize(s, n) \in BaseSize .. SizeMax /\ NewSize(s, n) \in Nat
<1> DEFINE size == Len(s.buf)
           bytes == s.p - s.g
<1>1. size \in BaseSize .. SizeMax /\ size \in 1 .. SizeMax /\ bytes \in Int /\ n \in Int
  BY SizeAssumption DEF Valid, Buf
<1>2. NewSize(s, n) = Doubled(size, bytes, n) \/ NewSize(s, n) = Halved(size, bytes, n)
  BY DEF NewSize, Alloc, InSize
<1> HIDE DEF size, bytes
<1>3. Doubled(size, bytes, n) \in size .. SizeMax
  BY <1>1, DoubledFacts
<1>4. Halved(size, bytes, n) \in BaseSize .. SizeMax
  BY <1>1, HalvedFacts
<1> QED
  BY <1>1, <1>2, <1>3, <1>4, SizeAssumption

\* When reserve returns, n bytes fit behind pptr, the bytes to be read are the same,
\* and either nothing was done or the mark is void.
LEMMA ReserveFacts ==
  ASSUME NEW s, Valid(s), NEW n \in Nat, CanReserve(s, n)
  PROVE  LET r == Reserve(s, n) IN
         /\ Valid(r) /\ n <= Len(r.buf) - r.p /\ r.p - r.g = s.p - s.g
         /\ \A i \in 1 .. s.p - s.g : r.buf[r.g + i] = s.buf[s.g + i]
         /\ r = s \/ r.mark = NoMark
<1> DEFINE r == Reserve(s, n)
           size == NewSize(s, n)
           vector == [i \in 1 .. size |-> IF i <= Alloc(s) THEN Moved(s)[i] ELSE 0]
<1>1. CASE Fits(s, n)
  <2>1. r = s
    BY <1>1 DEF Reserve
  <2> QED
    BY <1>1, <2>1 DEF Fits, OutSize, Alloc
<1>2. CASE ~Fits(s, n)
  <2>1. /\ size \in BaseSize .. SizeMax /\ size \in Nat /\ n <= size - (s.p - s.g)
        /\ s.p - s.g \in Nat /\ s.p - s.g <= Len(s.buf) /\ Len(s.buf) \in Nat
    <3>1. size \in BaseSize .. SizeMax /\ size \in Nat
      BY NewSizeFacts
    <3>2. n <= size - (s.p - s.g)
      BY <1>2 DEF CanReserve, InSize
    <3>3. s.p - s.g \in Nat /\ s.p - s.g <= Len(s.buf) /\ Len(s.buf) \in Nat
      BY DEF Valid, Buf
    <3> QED
      BY <3>1, <3>2, <3>3
  <2>2. /\ Moved(s) \in Seq(Int) /\ Len(Moved(s)) = Len(s.buf)
        /\ \A i \in 1 .. s.p - s.g : Moved(s)[i] = s.buf[s.g + i]
    BY MovedFacts
  <2>3. \A i \in 1 .. Len(s.buf) : Moved(s)[i] \in Int
    BY <2>2
  <2> HIDE DEF size
  <2>4. vector \in [1 .. size -> Int]
    BY <2>1, <2>3 DEF Alloc
  <2>5. vector \in Seq(Int) /\ Len(vector) = size
    BY <2>1, <2>4, VectorFacts
  <2>6. \A i \in 1 .. s.p - s.g : vector[i] = s.buf[s.g + i]
    BY <2>1, <2>2 DEF Alloc
  <2> HIDE DEF vector
  <2>7. r = [buf |-> vector, g |-> 0, eg |-> s.p - s.g, p |-> s.p - s.g, mark |-> NoMark]
    BY <1>2 DEF Reserve, InSize, size, vector
  <2> HIDE DEF r
  <2>8. Valid(r)
    BY <2>1, <2>5, <2>7 DEF Valid, Buf
  <2>9. n <= Len(r.buf) - r.p /\ r.p - r.g = s.p - s.g /\ r.mark = NoMark
    BY <2>1, <2>5, <2>7
  <2>10. \A i \in 1 .. s.p - s.g : r.buf[r.g + i] = s.buf[s.g + i]
    BY <2>1, <2>6, <2>7
  <2> QED
    BY <2>8, <2>9, <2>10 DEF r
<1> QED
  BY <1>1, <1>2

-----------------------------------------------------------------------------
(* The bytes of a buffer.                                                   *)

\* what the refinement mapping makes of a buffer
Content(s) == SubSeq(s.buf, s.g + 1, s.p)
Taken(s) == IF s.mark = NoMark THEN <<>> ELSE SubSeq(s.buf, s.mark + 1, s.g)

\* A part of the vector, byte by byte.
LEMMA PartFacts ==
  ASSUME NEW v \in Seq(Int), NEW from \in Nat, NEW to \in Nat, from <= to, to <= Len(v)
  PROVE  LET part == SubSeq(v, from + 1, to) IN
         /\ part \in Seq(Int) /\ Len(part) = to - from
         /\ \A i \in 1 .. to - from : part[i] = v[from + i]
<1>1. SubSeq(v, from + 1, to) = [i \in 1 .. to - from |-> v[from + i]]
  OBVIOUS
<1>2. [i \in 1 .. to - from |-> v[from + i]] \in [1 .. to - from -> Int]
  OBVIOUS
<1>3. to - from \in Nat
  OBVIOUS
<1> QED
  BY <1>1, <1>2, <1>3, VectorFacts

\* Two parts with the same bytes are equal.
LEMMA SameBytes ==
  ASSUME NEW a \in Seq(Int), NEW b \in Seq(Int), Len(a) = Len(b),
         \A i \in 1 .. Len(a) : a[i] = b[i]
  PROVE  a = b
BY SeqEqual

\* The bytes to be read and the bytes taken since the mark, of a buffer that is in order.
LEMMA ValidFacts ==
  ASSUME NEW s, Valid(s)
  PROVE  /\ s \in Buf /\ s.buf \in Seq(Int) /\ Len(s.buf) \in Nat
         /\ s.g \in Nat /\ s.eg \in Nat /\ s.p \in Nat
         /\ s.g <= s.eg /\ s.eg <= s.p /\ s.p <= Len(s.buf)
         /\ s.mark # NoMark => s.mark \in Nat /\ s.mark <= s.g
         /\ s.mark \in Nat \cup {NoMark}
         /\ s.p - s.g \in Nat
         /\ Content(s) \in Seq(Int) /\ Len(Content(s)) = s.p - s.g
         /\ \A i \in 1 .. s.p - s.g : Content(s)[i] = s.buf[s.g + i]
         /\ Taken(s) \in Seq(Int)
         /\ s.mark # NoMark =>
              /\ Len(Taken(s)) = s.g - s.mark
              /\ \A i \in 1 .. s.g - s.mark : Taken(s)[i] = s.buf[s.mark + i]
<1>1. /\ s \in Buf /\ s.buf \in Seq(Int) /\ Len(s.buf) \in Nat
      /\ s.g \in Nat /\ s.eg \in Nat /\ s.p \in Nat
      /\ s.g <= s.eg /\ s.eg <= s.p /\ s.p <= Len(s.buf)
      /\ s.mark # NoMark => s.mark \in Nat /\ s.mark <= s.g
      /\ s.mark \in Nat \cup {NoMark}
      /\ s.p - s.g \in Nat /\ s.g <= s.p /\ s.g <= Len(s.buf)
  BY DEF Valid, Buf
<1>2. /\ Content(s) \in Seq(Int) /\ Len(Content(s)) = s.p - s.g
      /\ \A i \in 1 .. s.p - s.g : Content(s)[i] = s.buf[s.g + i]
  <2> DEFINE v == s.buf
             from == s.g
             to == s.p
  <2>1. v \in Seq(Int) /\ from \in Nat /\ to \in Nat /\ from <= to /\ to <= Len(v)
    BY <1>1
  <2> HIDE DEF v, from, to
  <2>2. /\ SubSeq(v, from + 1, to) \in Seq(Int) /\ Len(SubSeq(v, from + 1, to)) = to - from
        /\ \A i \in 1 .. to - from : SubSeq(v, from + 1, to)[i] = v[from + i]
    BY <2>1, PartFacts
  <2> QED
    BY <2>2 DEF v, from, to, Content
<1>3. CASE s.mark = NoMark
  <2>1. Taken(s) \in Seq(Int)
    BY <1>3 DEF Taken
  <2> QED
    BY <1>1, <1>2, <1>3, <2>1
<1>4. CASE s.mark # NoMark
  <2>1. /\ SubSeq(s.buf, s.mark + 1, s.g) \in Seq(Int)
        /\ Len(SubSeq(s.buf, s.mark + 1, s.g)) = s.g - s.mark
        /\ \A i \in 1 .. s.g - s.mark : SubSeq(s.buf, s.mark + 1, s.g)[i] = s.buf[s.mark + i]
    <3> DEFINE v == s.buf
               from == s.mark
               to == s.g
    <3>1. v \in Seq(Int) /\ from \in Nat /\ to \in Nat /\ from <= to /\ to <= Len(v)
      BY <1>1, <1>4
    <3> HIDE DEF v, from, to
    <3>2. /\ SubSeq(v, from + 1, to) \in Seq(Int) /\ Len(SubSeq(v, from + 1, to)) = to - from
          /\ \A i \in 1 .. to - from : SubSeq(v, from + 1, to)[i] = v[from + i]
      BY <3>1, PartFacts
    <3> QED
      BY <3>2 DEF v, from, to
  <2> QED
    BY <1>1, <1>2, <1>4, <2>1 DEF Taken
<1> QED
  BY <1>3, <1>4

\* q is the buffer r with m more bytes behind pptr, and the get area up to e.
Longer(r, m, v, e, q) ==
  /\ m <= Len(r.buf) - r.p
  /\ Len(v) = Len(r.buf) /\ \A i \in 1 .. r.p : v[i] = r.buf[i]
  /\ r.g <= e /\ e <= r.p + m
  /\ q = [buf |-> v, g |-> r.g, eg |-> e, p |-> r.p + m, mark |-> r.mark]

\* Bytes put behind pptr after reserve: the bytes to be read are followed by more,
\* and the bytes taken since the mark are the same, or the mark is void.
LEMMA PutFacts ==
  ASSUME NEW s, Valid(s), NEW n \in Nat, CanReserve(s, n), NEW m \in Nat,
         NEW v \in Seq(Int), NEW e \in Nat, NEW q, Longer(Reserve(s, n), m, v, e, q)
  PROVE  /\ Valid(q)
         /\ Len(Content(s)) <= Len(Content(q))
         /\ SubSeq(Content(q), 1, Len(Content(s))) = Content(s)
         /\ \/ Taken(q) = Taken(s) /\ q.mark = s.mark
            \/ Taken(q) = <<>> /\ q.mark = NoMark
<1> DEFINE r == Reserve(s, n)
<1>1. /\ Valid(r) /\ n <= Len(r.buf) - r.p /\ r.p - r.g = s.p - s.g
      /\ \A i \in 1 .. s.p - s.g : r.buf[r.g + i] = s.buf[s.g + i]
      /\ r = s \/ r.mark = NoMark
  BY ReserveFacts
<1>2. /\ m <= Len(r.buf) - r.p
      /\ Len(v) = Len(r.buf) /\ \A i \in 1 .. r.p : v[i] = r.buf[i]
      /\ r.g <= e /\ e <= r.p + m
      /\ q = [buf |-> v, g |-> r.g, eg |-> e, p |-> r.p + m, mark |-> r.mark]
  BY DEF Longer
<1> HIDE DEF r
<1>3. /\ q.buf = v /\ q.g = r.g /\ q.eg = e /\ q.p = r.p + m /\ q.mark = r.mark
  BY <1>2
<1>4. Valid(q)
  <2>1. /\ r.g \in Nat /\ r.p \in Nat /\ Len(r.buf) \in Nat /\ r.mark \in Nat \cup {NoMark}
        /\ r.mark # NoMark => r.mark <= r.g
        /\ BaseSize <= Len(r.buf) /\ Len(r.buf) <= SizeMax
    BY <1>1 DEF Valid, Buf
  <2>2. q \in Buf
    BY <1>2, <2>1 DEF Buf
  <2>3. q.g <= q.eg /\ q.eg <= q.p /\ q.p <= Len(q.buf)
    BY <1>2, <1>3, <2>1
  <2> QED
    BY <1>2, <1>3, <2>1, <2>2, <2>3 DEF Valid
<1>5. /\ Content(s) \in Seq(Int) /\ Len(Content(s)) = s.p - s.g /\ s.p - s.g \in Nat
      /\ \A i \in 1 .. s.p - s.g : Content(s)[i] = s.buf[s.g + i]
  BY ValidFacts
<1>6. /\ Content(q) \in Seq(Int) /\ Len(Content(q)) = q.p - q.g /\ q.p - q.g \in Nat
      /\ \A i \in 1 .. q.p - q.g : Content(q)[i] = q.buf[q.g + i]
  BY <1>4, ValidFacts
<1>7. /\ r.g \in Nat /\ r.p \in Nat /\ r.g <= r.p /\ r.p <= Len(r.buf) /\ Len(r.buf) \in Nat
  BY <1>1, ValidFacts
<1>8. Len(Content(s)) <= Len(Content(q))
  <2>1. r.p - r.g <= q.p - q.g
    BY <1>3, <1>7
  <2> QED
    BY <1>1, <1>5, <1>6, <2>1
<1>9. SubSeq(Content(q), 1, Len(Content(s))) = Content(s)
  <2> DEFINE front == SubSeq(Content(q), 0 + 1, Len(Content(s)))
  <2>1. /\ front \in Seq(Int) /\ Len(front) = Len(Content(s)) - 0
        /\ \A i \in 1 .. Len(Content(s)) - 0 : front[i] = Content(q)[0 + i]
    <3>1. /\ Content(q) \in Seq(Int) /\ 0 \in Nat /\ Len(Content(s)) \in Nat
          /\ 0 <= Len(Content(s)) /\ Len(Content(s)) <= Len(Content(q))
      BY <1>5, <1>6, <1>8
    <3> QED
      BY <3>1, PartFacts, ZenonT(20)
  <2> HIDE DEF front
  <2>2. ASSUME NEW i \in 1 .. s.p - s.g PROVE Content(q)[i] = s.buf[s.g + i]
    <3>a. i \in 1 .. r.p - r.g
      BY <1>1
    <3>1. i \in 1 .. q.p - q.g /\ r.g + i \in 1 .. r.p
      BY <1>3, <1>7, <3>a
    <3>2. Content(q)[i] = v[r.g + i]
      BY <1>3, <1>6, <3>1
    <3>3. v[r.g + i] = r.buf[r.g + i]
      BY <1>2, <3>1
    <3> QED
      BY <1>1, <3>2, <3>3
  <2>3. ASSUME NEW i \in 1 .. Len(Content(s)) PROVE front[i] = Content(s)[i]
    <3>1. i \in 1 .. s.p - s.g /\ i \in 1 .. Len(Content(s)) - 0 /\ 0 + i = i
      BY <1>5
    <3>2. front[i] = Content(q)[i]
      BY <2>1, <3>1
    <3> QED
      BY <1>5, <2>2, <3>1, <3>2
  <2>4. Len(front) = Len(Content(s))
    BY <1>5, <2>1
  <2>5. front = Content(s)
    BY <1>5, <2>1, <2>3, <2>4, SameBytes
  <2> QED
    BY <2>5 DEF front
<1>10. CASE r.mark = NoMark
  BY <1>3, <1>4, <1>8, <1>9, <1>10 DEF Taken
<1>11. CASE r = s /\ r.mark # NoMark
  <2>1. /\ Taken(s) \in Seq(Int) /\ Len(Taken(s)) = s.g - s.mark /\ s.mark \in Nat /\ s.g \in Nat
        /\ \A i \in 1 .. s.g - s.mark : Taken(s)[i] = s.buf[s.mark + i]
    BY <1>11, ValidFacts
  <2>2. q.mark # NoMark /\ q.mark = s.mark /\ q.g = s.g
    BY <1>3, <1>11
  <2>3. /\ Taken(q) \in Seq(Int) /\ Len(Taken(q)) = q.g - q.mark
        /\ \A i \in 1 .. q.g - q.mark : Taken(q)[i] = q.buf[q.mark + i]
    BY <1>4, <2>2, ValidFacts
  <2>4. ASSUME NEW i \in 1 .. Len(Taken(q)) PROVE Taken(q)[i] = Taken(s)[i]
    <3>a. r.g = s.g /\ Len(Taken(q)) = s.g - s.mark
      BY <1>11, <2>2, <2>3
    <3>b. s.mark \in Nat /\ s.g \in Nat /\ r.p \in Nat /\ r.g <= r.p
      BY <1>7, <2>1
    <3>1. i \in 1 .. s.g - s.mark /\ s.mark + i \in 1 .. r.p
      BY <3>a, <3>b
    <3>2. Taken(q)[i] = v[s.mark + i]
      BY <1>3, <2>2, <2>3, <3>1
    <3>3. v[s.mark + i] = s.buf[s.mark + i]
      BY <1>2, <1>11, <3>1
    <3> QED
      BY <2>1, <3>1, <3>2, <3>3
  <2>5. Len(Taken(q)) = Len(Taken(s))
    BY <2>1, <2>2, <2>3
  <2>6. Taken(q) = Taken(s)
    BY <2>1, <2>3, <2>4, <2>5, SameBytes
  <2> QED
    BY <1>4, <1>8, <1>9, <2>2, <2>6
<1> QED
  BY <1>1, <1>10, <1>11

\* A part of a part is a part.
LEMMA PartOfPart ==
  ASSUME NEW v \in Seq(Int), NEW a \in Nat, NEW c \in Nat, a <= c, c <= Len(v),
         NEW k \in Nat, NEW l \in Nat, k <= l, l <= c - a
  PROVE  SubSeq(SubSeq(v, a + 1, c), k + 1, l) = SubSeq(v, (a + k) + 1, a + l)
<1> DEFINE part == SubSeq(v, a + 1, c)
           inner == SubSeq(part, k + 1, l)
           direct == SubSeq(v, (a + k) + 1, a + l)
<1>1. /\ part \in Seq(Int) /\ Len(part) = c - a
      /\ \A i \in 1 .. c - a : part[i] = v[a + i]
  BY PartFacts
<1> HIDE DEF part
<1>2. l <= Len(part)
  BY <1>1
<1>3. /\ inner \in Seq(Int) /\ Len(inner) = l - k
      /\ \A i \in 1 .. l - k : inner[i] = part[k + i]
  BY <1>1, <1>2, PartFacts
<1>4. a + k \in Nat /\ a + l \in Nat /\ a + k <= a + l /\ a + l <= Len(v)
      /\ (a + l) - (a + k) = l - k
  BY LenProperties
<1>5. /\ direct \in Seq(Int) /\ Len(direct) = (a + l) - (a + k)
      /\ \A i \in 1 .. (a + l) - (a + k) : direct[i] = v[(a + k) + i]
  BY <1>4, PartFacts
<1> HIDE DEF inner, direct
<1>6. Len(inner) = Len(direct)
  BY <1>3, <1>4, <1>5
<1>7. ASSUME NEW i \in 1 .. Len(inner) PROVE inner[i] = direct[i]
  <2>0. i \in 1 .. l - k
    BY <1>3
  <2>1. i \in 1 .. l - k /\ k + i \in 1 .. c - a /\ a + (k + i) = (a + k) + i
    BY <2>0
  <2>2. inner[i] = v[a + (k + i)]
    BY <1>1, <1>3, <2>1
  <2>3. direct[i] = v[(a + k) + i]
    BY <1>4, <1>5, <2>1
  <2> QED
    BY <2>1, <2>2, <2>3
<1>8. inner = direct
  BY <1>3, <1>5, <1>6, <1>7, SameBytes
<1> QED
  BY <1>8 DEF inner, part, direct

\* Two parts next to each other make one.
LEMMA JoinedParts ==
  ASSUME NEW v \in Seq(Int), NEW a \in Nat, NEW b \in Nat, NEW c \in Nat,
         a <= b, b <= c, c <= Len(v)
  PROVE  SubSeq(v, a + 1, b) \o SubSeq(v, b + 1, c) = SubSeq(v, a + 1, c)
<1> DEFINE left == SubSeq(v, a + 1, b)
           right == SubSeq(v, b + 1, c)
           both == left \o right
           whole == SubSeq(v, a + 1, c)
<1>1. a <= c /\ b <= Len(v) /\ Len(v) \in Nat
  BY LenProperties
<1>2. /\ left \in Seq(Int) /\ Len(left) = b - a
      /\ \A i \in 1 .. b - a : left[i] = v[a + i]
  BY <1>1, PartFacts
<1>3. /\ right \in Seq(Int) /\ Len(right) = c - b
      /\ \A i \in 1 .. c - b : right[i] = v[b + i]
  BY <1>1, PartFacts
<1>4. /\ whole \in Seq(Int) /\ Len(whole) = c - a
      /\ \A i \in 1 .. c - a : whole[i] = v[a + i]
  BY <1>1, PartFacts
<1> HIDE DEF left, right, whole
<1>5. /\ both \in Seq(Int) /\ Len(both) = Len(left) + Len(right)
      /\ \A i \in 1 .. Len(left) + Len(right) :
           both[i] = IF i <= Len(left) THEN left[i] ELSE right[i - Len(left)]
  BY <1>2, <1>3, ConcatProperties
<1> HIDE DEF both
<1>6. Len(left) + Len(right) = c - a
  BY <1>2, <1>3
<1>7. ASSUME NEW i \in 1 .. c - a PROVE whole[i] = both[i]
  <2>1. both[i] = IF i <= b - a THEN left[i] ELSE right[i - (b - a)]
    BY <1>2, <1>5, <1>6
  <2>2. CASE i <= b - a
    <3>1. i \in 1 .. b - a
      BY <2>2
    <3> QED
      BY <1>2, <1>4, <2>1, <2>2, <3>1
  <2>3. CASE ~(i <= b - a)
    <3>1. i - (b - a) \in 1 .. c - b /\ b + (i - (b - a)) = a + i
      BY <2>3
    <3>2. right[i - (b - a)] = v[a + i]
      BY <1>3, <3>1
    <3> QED
      BY <1>4, <2>1, <2>3, <3>2
  <2> QED
    BY <2>2, <2>3
<1>8. Len(whole) = Len(both) /\ Len(whole) = c - a
  BY <1>4, <1>5, <1>6
<1>9. whole = both
  BY <1>4, <1>5, <1>7, <1>8, SameBytes
<1> QED
  BY <1>9 DEF both, left, right, whole

\* Bytes taken from the front: the others stay, and with a mark the ones taken are
\* remembered behind those taken before.
LEMMA TakeFacts ==
  ASSUME NEW s, Valid(s), NEW m \in 0 .. s.p - s.g, NEW e \in Nat, s.g + m <= e, e <= s.p,
         NEW q, q = [buf |-> s.buf, g |-> s.g + m, eg |-> e, p |-> s.p, mark |-> s.mark]
  PROVE  /\ Valid(q) /\ q.mark = s.mark /\ m \in 0 .. Len(Content(s))
         /\ Content(q) = SubSeq(Content(s), m + 1, Len(Content(s)))
         /\ Taken(q) = IF s.mark # NoMark THEN Taken(s) \o SubSeq(Content(s), 1, m) ELSE Taken(s)
<1>1. /\ s.buf \in Seq(Int) /\ Len(s.buf) \in Nat /\ s.g \in Nat /\ s.p \in Nat
      /\ s.g <= s.p /\ s.p <= Len(s.buf) /\ s.p - s.g \in Nat
      /\ Len(Content(s)) = s.p - s.g
  BY ValidFacts
<1>2. q.buf = s.buf /\ q.g = s.g + m /\ q.eg = e /\ q.p = s.p /\ q.mark = s.mark
  OBVIOUS
<1>3. Valid(q)
  BY <1>1 DEF Valid, Buf
<1> DEFINE v == s.buf
           a == s.g
           c == s.p
           l == s.p - s.g
           b == s.g + m
<1>4. /\ m \in Nat /\ m \in 0 .. l /\ m <= l /\ l <= l /\ l \in Nat /\ l = c - a
      /\ a + l = c /\ a + m = b /\ a + 0 = a /\ 0 + 1 = 1 /\ 0 \in Nat /\ 0 <= m
      /\ v \in Seq(Int) /\ a \in Nat /\ b \in Nat /\ c \in Nat
      /\ a <= b /\ b <= c /\ a <= c /\ c <= Len(v) /\ b <= Len(v)
  <2>1. v \in Seq(Int) /\ Len(v) \in Nat /\ a \in Nat /\ c \in Nat /\ a <= c /\ c <= Len(v)
    BY <1>1
  <2>2. m \in Nat /\ m <= l /\ l = c - a /\ b = a + m
    BY <1>1
  <2> HIDE DEF v, a, b, c, l
  <2> QED
    BY <2>1, <2>2
<1>a. /\ Content(s) = SubSeq(v, a + 1, c) /\ Len(Content(s)) = l
      /\ Content(q) = SubSeq(v, b + 1, c)
  BY <1>1, <1>2 DEF Content
<1>b. s.mark # NoMark =>
        /\ s.mark \in Nat /\ s.mark <= a
        /\ Taken(s) = SubSeq(v, s.mark + 1, a) /\ Taken(q) = SubSeq(v, s.mark + 1, b)
  BY <1>2, ValidFacts DEF Taken
<1> HIDE DEF v, a, b, c, l
<1>5. Content(q) = SubSeq(Content(s), m + 1, Len(Content(s)))
  <2>1. SubSeq(SubSeq(v, a + 1, c), m + 1, l) = SubSeq(v, (a + m) + 1, a + l)
    BY <1>4, PartOfPart
  <2> QED
    BY <1>4, <1>a, <2>1
<1>6. CASE s.mark = NoMark
  BY <1>2, <1>3, <1>4, <1>5, <1>6, <1>a DEF Taken
<1>7. CASE s.mark # NoMark
  <2> DEFINE z == 0
  <2>a. z \in Nat /\ z <= m /\ a + z = a /\ z + 1 = 1 /\ m <= c - a
    BY <1>4
  <2> HIDE DEF z
  <2>b. \A i, j \in Nat : i <= j /\ j <= c - a =>
          SubSeq(SubSeq(v, a + 1, c), i + 1, j) = SubSeq(v, (a + i) + 1, a + j)
    BY <1>4, PartOfPart
  <2>1. SubSeq(SubSeq(v, a + 1, c), z + 1, m) = SubSeq(v, (a + z) + 1, a + m)
    <3>1. z \in Nat /\ m \in Nat /\ z <= m /\ m <= c - a
      BY <1>4, <2>a
    <3> QED
      BY <2>b, <3>1
  <2>2. SubSeq(Content(s), 1, m) = SubSeq(v, a + 1, b)
    BY <1>4, <1>a, <2>a, <2>1
  <2>3. SubSeq(v, s.mark + 1, a) \o SubSeq(v, a + 1, b) = SubSeq(v, s.mark + 1, b)
    <3> DEFINE k == s.mark
    <3>1. k \in Nat /\ k <= a
      BY <1>7, <1>b
    <3> HIDE DEF k
    <3>2. SubSeq(v, k + 1, a) \o SubSeq(v, a + 1, b) = SubSeq(v, k + 1, b)
      BY <1>4, <3>1, JoinedParts, SMTT(20)
    <3> QED
      BY <3>2 DEF k
  <2>4. Taken(q) = Taken(s) \o SubSeq(Content(s), 1, m)
    BY <1>7, <1>b, <2>2, <2>3
  <2> QED
    BY <1>2, <1>3, <1>4, <1>5, <1>7, <1>a, <2>4
<1> QED
  BY <1>6, <1>7

\* Back to the mark: the bytes taken since come before the others again.
LEMMA PutBackFacts ==
  ASSUME NEW s, Valid(s), s.mark # NoMark,
         NEW q, q = [buf |-> s.buf, g |-> s.mark, eg |-> s.eg, p |-> s.p, mark |-> s.mark]
  PROVE  /\ Valid(q) /\ q.mark = s.mark
         /\ Content(q) = Taken(s) \o Content(s) /\ Taken(q) = <<>>
<1>1. /\ s.buf \in Seq(Int) /\ Len(s.buf) \in Nat /\ s.g \in Nat /\ s.p \in Nat
      /\ s.g <= s.p /\ s.p <= Len(s.buf)
  BY ValidFacts
<1>2. s.mark \in Nat /\ s.mark <= s.g
  BY ValidFacts
<1>3. q.buf = s.buf /\ q.g = s.mark /\ q.p = s.p /\ q.mark = s.mark
  OBVIOUS
<1>4. Valid(q)
  BY <1>1, <1>2 DEF Valid, Buf
<1>5. SubSeq(s.buf, s.mark + 1, s.g) \o SubSeq(s.buf, s.g + 1, s.p) = SubSeq(s.buf, s.mark + 1, s.p)
  BY <1>1, <1>2, JoinedParts, ZenonT(20)
<1>6. Content(q) = Taken(s) \o Content(s)
  BY <1>3, <1>5 DEF Content, Taken
<1>7. /\ SubSeq(s.buf, s.mark + 1, s.mark) \in Seq(Int)
      /\ Len(SubSeq(s.buf, s.mark + 1, s.mark)) = s.mark - s.mark
  BY <1>1, <1>2, PartFacts
<1>8. SubSeq(s.buf, s.mark + 1, s.mark) = <<>>
  BY <1>2, <1>7, EmptySeq
<1> QED
  BY <1>3, <1>4, <1>6, <1>8 DEF Taken

-----------------------------------------------------------------------------
(* Every operation is a step of the queue.                                  *)

SbInv == Valid(sb) /\ written \in Nat /\ failed \in BOOLEAN

\* BQ!Put and BQ!Take, said of the buffer
QueuePut ==
  /\ Len(Content(sb)) <= Len(Content(sb')) /\ SubSeq(Content(sb'), 1, Len(Content(sb))) = Content(sb)
  /\ \/ Taken(sb') = Taken(sb) /\ sb'.mark = sb.mark
     \/ Taken(sb') = <<>> /\ sb'.mark = NoMark
  /\ failed' = failed

\* Bytes appended to the content are a Put of the queue.
LEMMA PutStep ==
  ASSUME QueuePut
  PROVE  BQ!Put
BY DEF QueuePut, BQ!Put, BQ!MarkKept, BQ!MarkLost, Bytes, Content, Taken

QueueTake(n) ==
  /\ n \in 0 .. Len(Content(sb)) /\ sb'.mark = sb.mark
  /\ Content(sb') = SubSeq(Content(sb), n + 1, Len(Content(sb)))
  /\ Taken(sb') = IF sb.mark # NoMark THEN Taken(sb) \o SubSeq(Content(sb), 1, n) ELSE Taken(sb)
  /\ failed' = failed

\* Bytes taken from the front of the content are a Take of the queue.
LEMMA TakeStep ==
  ASSUME NEW n, QueueTake(n)
  PROVE  BQ!Take
BY DEF QueueTake, BQ!Take, Bytes, Content, Taken

\* Bytes behind pptr, whatever their values.
LEMMA FillFacts ==
  ASSUME SbInv, NEW n \in Nat, CanReserve(sb, n), NEW m \in Nat, NEW e \in Nat, NEW v,
         LET s == Reserve(sb, n) IN
         /\ m <= Len(s.buf) - s.p /\ s.g <= e /\ e <= s.p + m
         /\ \/ v = [i \in 1 .. Len(s.buf) |-> IF i \in s.p + 1 .. s.p + m THEN written + i - s.p ELSE s.buf[i]]
            \/ v = [i \in 1 .. Len(s.buf) |-> IF i \in s.p + 1 .. s.p + m THEN NotOurs ELSE s.buf[i]]
         /\ sb' = [buf |-> v, g |-> s.g, eg |-> e, p |-> s.p + m, mark |-> s.mark],
         failed' = failed
  PROVE  Valid(sb)' /\ BQ!Put
<1> DEFINE s == Reserve(sb, n)
<1>1. /\ m <= Len(s.buf) - s.p /\ s.g <= e /\ e <= s.p + m
      /\ \/ v = [i \in 1 .. Len(s.buf) |-> IF i \in s.p + 1 .. s.p + m THEN written + i - s.p ELSE s.buf[i]]
         \/ v = [i \in 1 .. Len(s.buf) |-> IF i \in s.p + 1 .. s.p + m THEN NotOurs ELSE s.buf[i]]
      /\ sb' = [buf |-> v, g |-> s.g, eg |-> e, p |-> s.p + m, mark |-> s.mark]
  OBVIOUS
<1>2. Valid(s)
  BY ReserveFacts DEF SbInv
<1> HIDE DEF s
<1>3. /\ s.buf \in Seq(Int) /\ s.p \in Nat /\ Len(s.buf) \in Nat /\ s.p <= Len(s.buf)
      /\ \A i \in 1 .. Len(s.buf) : s.buf[i] \in Int
  BY <1>2, ValidFacts
<1>a. \A i \in Int : written + i - s.p \in Int /\ NotOurs \in Int
  BY <1>3 DEF SbInv, NotOurs
<1>b. \A i \in 1 .. s.p : i \in 1 .. Len(s.buf) /\ i \notin s.p + 1 .. s.p + m
  BY <1>3
<1>4. v \in [1 .. Len(s.buf) -> Int] /\ \A i \in 1 .. s.p : v[i] = s.buf[i]
  <2>1. CASE v = [i \in 1 .. Len(s.buf) |-> IF i \in s.p + 1 .. s.p + m THEN written + i - s.p ELSE s.buf[i]]
    <3>1. ASSUME NEW i \in 1 .. Len(s.buf) PROVE v[i] \in Int
      <4>1. v[i] = written + i - s.p \/ v[i] = s.buf[i]
        BY <2>1
      <4>2. written + i - s.p \in Int /\ s.buf[i] \in Int
        BY <1>3, <1>a
      <4> QED
        BY <4>1, <4>2
    <3> QED
      BY <1>b, <2>1, <3>1
  <2>2. CASE v = [i \in 1 .. Len(s.buf) |-> IF i \in s.p + 1 .. s.p + m THEN NotOurs ELSE s.buf[i]]
    <3>1. \A i \in 1 .. Len(s.buf) : v[i] \in Int
      BY <1>3, <1>a, <2>2
    <3> QED
      BY <1>b, <2>2, <3>1
  <2> QED
    BY <1>1, <2>1, <2>2
<1>5. v \in Seq(Int) /\ Len(v) = Len(s.buf)
  BY <1>3, <1>4, VectorFacts
<1>6. Valid(sb) /\ Valid(sb)' = Valid(sb')
  BY DEF SbInv, Valid
<1>7. /\ Valid(sb')
      /\ Len(Content(sb)) <= Len(Content(sb'))
      /\ SubSeq(Content(sb'), 1, Len(Content(sb))) = Content(sb)
      /\ \/ Taken(sb') = Taken(sb) /\ sb'.mark = sb.mark
         \/ Taken(sb') = <<>> /\ sb'.mark = NoMark
  <2>1. Longer(s, m, v, e, sb')
    BY <1>1, <1>4, <1>5 DEF Longer
  <2> QED
    BY <1>5, <1>6, <2>1, PutFacts DEF s
<1>8. QueuePut
  BY <1>7 DEF QueuePut
<1> QED
  BY <1>6, <1>7, <1>8, PutStep

\* write, write_xxx, write_string: bytes of the caller, or bytes that are not.
LEMMA WriteStep ==
  ASSUME SbInv, NEW n \in Nat, Write(n) \/ WriteCString(n)
  PROVE  SbInv' /\ BQ!Put
<1> DEFINE s == Reserve(sb, n)
           ours == [i \in 1 .. Len(s.buf) |-> IF i \in s.p + 1 .. s.p + n THEN written + i - s.p ELSE s.buf[i]]
           others == [i \in 1 .. Len(s.buf) |-> IF i \in s.p + 1 .. s.p + n THEN NotOurs ELSE s.buf[i]]
<1>1. CanReserve(sb, n) /\ written' = written + n /\ failed' = failed
  BY DEF Write, WriteCString
<1>2. Valid(s) /\ n <= Len(s.buf) - s.p
  BY <1>1, ReserveFacts DEF SbInv
<1>3. \/ sb' = [[s EXCEPT !.buf = ours] EXCEPT !.p = @ + n]
      \/ sb' = [s EXCEPT !.p = @ + n, !.buf = others]
  BY DEF Write, WriteCString, Filled, Alloc
<1>4. /\ s \in Buf /\ s.eg \in Nat /\ s.p \in Nat /\ s.g <= s.eg /\ s.eg <= s.p + n
  BY <1>2, ValidFacts
<1>5. \/ sb' = [buf |-> ours, g |-> s.g, eg |-> s.eg, p |-> s.p + n, mark |-> s.mark]
      \/ sb' = [buf |-> others, g |-> s.g, eg |-> s.eg, p |-> s.p + n, mark |-> s.mark]
  <2> HIDE DEF s, ours, others
  <2> QED
    BY <1>3, <1>4 DEF Buf
<1>6. Valid(sb)' /\ BQ!Put
  BY <1>1, <1>2, <1>4, <1>5, FillFacts
<1> QED
  BY <1>1, <1>6 DEF SbInv

\* commit, or append of another buffer.
LEMMA CommitStep ==
  ASSUME SbInv, NEW n \in Nat, NEW got \in Nat, PrepareCommit(n, got)
  PROVE  SbInv' /\ BQ!Put
<1> DEFINE s == Reserve(sb, n)
           m == AtMost(got, OutSize(s))
           v == [i \in 1 .. Len(s.buf) |-> IF i \in s.p + 1 .. s.p + m THEN written + i - s.p ELSE s.buf[i]]
<1>1. CanReserve(sb, n) /\ written' = written + m /\ failed' = failed
  BY DEF PrepareCommit
<1>2. Valid(s)
  BY <1>1, ReserveFacts DEF SbInv
<1>3. sb' = [[s EXCEPT !.buf = v] EXCEPT !.p = @ + m, !.eg = s.p + m]
  BY DEF PrepareCommit, Filled, Alloc
<1>4. /\ s \in Buf /\ s.eg \in Nat /\ s.g \in Nat /\ s.p \in Nat /\ Len(s.buf) \in Nat
      /\ s.g <= s.p /\ s.p <= Len(s.buf)
  BY <1>2, ValidFacts
<1>5. m \in Nat /\ m <= Len(s.buf) - s.p
  <2> HIDE DEF s
  <2> QED
    BY <1>4 DEF AtMost, OutSize, Alloc
<1>6. sb' = [buf |-> v, g |-> s.g, eg |-> s.p + m, p |-> s.p + m, mark |-> s.mark]
  <2> HIDE DEF s, v, m
  <2> QED
    BY <1>3, <1>4 DEF Buf
<1> HIDE DEF m
<1>7. s.p + m \in Nat /\ s.g <= s.p + m /\ s.p + m <= s.p + m
  <2> HIDE DEF s
  <2> QED
    BY <1>4, <1>5
<1>8. Valid(sb)' /\ BQ!Put
  BY <1>1, <1>5, <1>6, <1>7, FillFacts
<1> QED
  BY <1>1, <1>5, <1>8 DEF SbInv

\* consume, read, read_xxx.
LEMMA ConsumeStep ==
  ASSUME SbInv, NEW n \in Nat, Consume(n)
  PROVE  SbInv' /\ BQ!Take
<1> DEFINE m == AtMost(n, InSize(sb))
<1>1. /\ Valid(sb) /\ sb \in Buf /\ sb.g \in Nat /\ sb.p \in Nat /\ sb.g <= sb.p /\ sb.p - sb.g \in Nat
  BY ValidFacts DEF SbInv
<1>2. m \in 0 .. sb.p - sb.g
  BY <1>1 DEF AtMost, InSize
<1>3. sb' = [sb EXCEPT !.g = @ + m, !.eg = sb.p] /\ written' = written /\ failed' = failed
  BY DEF Consume, Consumed
<1> HIDE DEF m
<1>4. sb' = [buf |-> sb.buf, g |-> sb.g + m, eg |-> sb.p, p |-> sb.p, mark |-> sb.mark]
  BY <1>1, <1>3 DEF Buf
<1>5. sb.g + m <= sb.p /\ sb.p <= sb.p
  BY <1>1, <1>2
<1>6. /\ Valid(sb') /\ sb'.mark = sb.mark /\ m \in 0 .. Len(Content(sb))
      /\ Content(sb') = SubSeq(Content(sb), m + 1, Len(Content(sb)))
      /\ Taken(sb') = IF sb.mark # NoMark THEN Taken(sb) \o SubSeq(Content(sb), 1, m) ELSE Taken(sb)
  <2> DEFINE s == sb
             q == sb'
             e == sb.p
  <2>1. /\ Valid(s) /\ m \in 0 .. s.p - s.g /\ e \in Nat /\ s.g + m <= e /\ e <= s.p
        /\ q = [buf |-> s.buf, g |-> s.g + m, eg |-> e, p |-> s.p, mark |-> s.mark]
    BY <1>1, <1>2, <1>4, <1>5
  <2> HIDE DEF s, q, e
  <2>2. /\ Valid(q) /\ q.mark = s.mark /\ m \in 0 .. Len(Content(s))
        /\ Content(q) = SubSeq(Content(s), m + 1, Len(Content(s)))
        /\ Taken(q) = IF s.mark # NoMark THEN Taken(s) \o SubSeq(Content(s), 1, m) ELSE Taken(s)
    BY <2>1, TakeFacts
  <2> QED
    BY <2>2 DEF s, q
<1>7. QueueTake(m)
  BY <1>3, <1>6 DEF QueueTake
<1>8. Valid(sb)' = Valid(sb')
  BY DEF Valid
<1> QED
  BY <1>3, <1>6, <1>7, <1>8, TakeStep DEF SbInv

\* sbumpc takes one byte, of the get area or of what is behind it.
LEMMA BumpStep ==
  ASSUME SbInv, Bump
  PROVE  SbInv' /\ BQ!Take
<1> DEFINE e == IF sb.g < sb.eg THEN sb.eg ELSE sb.p
<1>1. /\ Valid(sb) /\ sb \in Buf /\ sb.g \in Nat /\ sb.eg \in Nat /\ sb.p \in Nat
      /\ sb.g <= sb.eg /\ sb.eg <= sb.p
  BY ValidFacts DEF SbInv
<1>2. /\ sb.g < sb.eg \/ sb.g < sb.p
      /\ sb' = [sb EXCEPT !.eg = e, !.g = @ + 1] /\ written' = written /\ failed' = failed
  BY DEF Bump
<1>3. e \in Nat /\ sb.g + 1 <= e /\ e <= sb.p /\ 1 \in 0 .. sb.p - sb.g
  BY <1>1, <1>2
<1> HIDE DEF e
<1>4. sb' = [buf |-> sb.buf, g |-> sb.g + 1, eg |-> e, p |-> sb.p, mark |-> sb.mark]
  BY <1>1, <1>2 DEF Buf
<1>5. /\ Valid(sb') /\ sb'.mark = sb.mark /\ 1 \in 0 .. Len(Content(sb))
      /\ Content(sb') = SubSeq(Content(sb), 1 + 1, Len(Content(sb)))
      /\ Taken(sb') = IF sb.mark # NoMark THEN Taken(sb) \o SubSeq(Content(sb), 1, 1) ELSE Taken(sb)
  BY <1>1, <1>3, <1>4, TakeFacts
<1>6. QueueTake(1)
  BY <1>2, <1>5 DEF QueueTake
<1>7. Valid(sb)' = Valid(sb')
  BY DEF Valid
<1> QED
  BY <1>2, <1>5, <1>6, <1>7, TakeStep DEF SbInv

\* A part of length 0 is empty.
LEMMA EmptyPart ==
  ASSUME NEW v \in Seq(Int), NEW at \in Nat, at <= Len(v)
  PROVE  SubSeq(v, at + 1, at) = <<>>
<1>1. SubSeq(v, at + 1, at) \in Seq(Int) /\ Len(SubSeq(v, at + 1, at)) = at - at
  BY PartFacts
<1> QED
  BY <1>1, EmptySeq

\* Setting the mark is a Mark of the queue.
LEMMA MarkStep ==
  ASSUME SbInv, SetMark
  PROVE  SbInv' /\ BQ!Mark
<1>1. /\ Valid(sb) /\ sb \in Buf /\ sb.g \in Nat /\ sb.eg \in Nat /\ sb.p \in Nat
      /\ sb.g <= sb.eg /\ sb.eg <= sb.p /\ sb.p <= Len(sb.buf) /\ sb.buf \in Seq(Int) /\ Len(sb.buf) \in Nat
  BY ValidFacts DEF SbInv
<1>2. sb' = [buf |-> sb.buf, g |-> sb.g, eg |-> sb.eg, p |-> sb.p, mark |-> sb.g]
      /\ written' = written /\ failed' = failed
  BY <1>1 DEF SetMark, Buf
<1>3. sb.g # NoMark /\ sb.g <= Len(sb.buf)
  BY <1>1 DEF NoMark
<1>4. SubSeq(sb.buf, sb.g + 1, sb.g) = <<>>
  BY <1>1, <1>3, EmptyPart
<1>5. Valid(sb')
  BY <1>1, <1>2 DEF Valid, Buf
<1>6. Valid(sb)' = Valid(sb')
  BY DEF Valid
<1>7. sb'.buf = sb.buf /\ sb'.g = sb.g /\ sb'.p = sb.p /\ sb'.mark = sb.g
  BY <1>2
<1>8. BQ!Mark
  BY <1>2, <1>3, <1>4, <1>7 DEF BQ!Mark, Bytes
<1> QED
  BY <1>2, <1>5, <1>6, <1>8 DEF SbInv

\* Going back to the mark puts back what was taken since.
LEMMA PutBackStep ==
  ASSUME SbInv, ResetToMark
  PROVE  SbInv' /\ BQ!PutBack
<1>1. Valid(sb) /\ sb \in Buf /\ sb.mark # NoMark
  BY ValidFacts DEF SbInv, ResetToMark
<1>2. /\ sb' = [buf |-> sb.buf, g |-> sb.mark, eg |-> sb.eg, p |-> sb.p, mark |-> sb.mark]
      /\ written' = written /\ failed' = failed
  BY <1>1 DEF ResetToMark, Buf
<1>3. /\ Valid(sb') /\ sb'.mark = sb.mark
      /\ Content(sb') = Taken(sb) \o Content(sb) /\ Taken(sb') = <<>>
  BY <1>1, <1>2, PutBackFacts
<1>4. Valid(sb)' = Valid(sb')
  BY DEF Valid
<1>5. BQ!PutBack
  BY <1>1, <1>2, <1>3 DEF BQ!PutBack, Bytes, Content, Taken
<1> QED
  BY <1>2, <1>3, <1>4, <1>5 DEF SbInv

\* reset, when the pool hands the buffer out again.
LEMMA ClearStep ==
  ASSUME SbInv, Reset
  PROVE  SbInv' /\ BQ!Clear
<1>1. /\ Valid(sb) /\ sb \in Buf /\ sb.buf \in Seq(Int) /\ Len(sb.buf) \in Nat
  BY ValidFacts DEF SbInv
<1>2. /\ sb' = [buf |-> sb.buf, g |-> 0, eg |-> 0, p |-> 0, mark |-> NoMark]
      /\ written' = written /\ failed' = failed
  BY <1>1 DEF Reset, Buf
<1>3. Valid(sb')
  BY <1>1, <1>2 DEF Valid, Buf
<1>4. Valid(sb)' = Valid(sb')
  BY DEF Valid
<1>5. sb'.buf = sb.buf /\ sb'.g = 0 /\ sb'.p = 0 /\ sb'.mark = NoMark
  BY <1>2
<1>6. SubSeq(sb.buf, 0 + 1, 0) = <<>>
  OBVIOUS
<1>7. BQ!Clear
  BY <1>2, <1>5, <1>6 DEF BQ!Clear, BQ!MarkLost, Bytes
<1> QED
  BY <1>2, <1>3, <1>4, <1>7 DEF SbInv

\* A write that throws has moved the bytes and left the pointers: their number is the same.
LEMMA ThrowStep ==
  ASSUME SbInv, NEW n \in Nat, WriteThrows(n)
  PROVE  SbInv' /\ BQ!Fail
<1>1. /\ Valid(sb) /\ sb \in Buf
      /\ Len(Content(sb)) = sb.p - sb.g
      /\ sb.mark # NoMark => Len(Taken(sb)) = sb.g - sb.mark
  BY ValidFacts DEF SbInv
<1>2. Moved(sb) \in Seq(Int) /\ Len(Moved(sb)) = Len(sb.buf)
  BY <1>1, MovedFacts
<1>3. /\ sb' = [buf |-> Moved(sb), g |-> sb.g, eg |-> sb.eg, p |-> sb.p, mark |-> sb.mark]
      /\ written' = written /\ failed' = TRUE
  BY <1>1 DEF WriteThrows, ReserveThrows, Buf
<1>4. Valid(sb')
  <2> DEFINE v == Moved(sb)
  <2> HIDE DEF v
  <2> QED
    BY <1>1, <1>2, <1>3 DEF Valid, Buf, v
<1>5. Valid(sb)' = Valid(sb')
  BY DEF Valid
<1>6. sb'.g = sb.g /\ sb'.p = sb.p /\ sb'.mark = sb.mark
  BY <1>3
<1>7. /\ Len(Content(sb')) = sb'.p - sb'.g
      /\ sb'.mark # NoMark => Len(Taken(sb')) = sb'.g - sb'.mark
  BY <1>4, ValidFacts
<1>8. Len(Content(sb')) = Len(Content(sb))
  BY <1>1, <1>6, <1>7
<1>9. Len(Taken(sb')) = Len(Taken(sb))
  <2>1. CASE sb.mark = NoMark
    BY <1>6, <2>1 DEF Taken
  <2>2. CASE sb.mark # NoMark
    BY <1>1, <1>6, <1>7, <2>2
  <2> QED
    BY <2>1, <2>2
<1>10. BQ!Fail
  BY <1>3, <1>6, <1>8, <1>9 DEF BQ!Fail, Bytes, Content, Taken
<1> QED
  BY <1>3, <1>4, <1>5, <1>10 DEF SbInv

-----------------------------------------------------------------------------
(* The theorems.                                                            *)

\* A new streambuf is an empty queue.
LEMMA InitStep ==
  ASSUME SbInit
  PROVE  SbInv /\ BQ!Init
<1>1. Unused(BaseSize) \in Seq(Int) /\ Len(Unused(BaseSize)) = BaseSize
  BY SizeAssumption DEF Unused
<1>2. /\ sb = [buf |-> Unused(BaseSize), g |-> 0, eg |-> 0, p |-> 0, mark |-> NoMark]
      /\ written = 0 /\ failed = FALSE
  BY DEF SbInit
<1>3. Valid(sb)
  BY <1>1, <1>2, SizeAssumption DEF Valid, Buf
<1>4. SubSeq(Unused(BaseSize), 0 + 1, 0) = <<>>
  OBVIOUS
<1>5. BQ!Init
  BY <1>2, <1>4 DEF BQ!Init, Bytes
<1> QED
  BY <1>2, <1>3, <1>5 DEF SbInv

\* Every step keeps the buffer in order and is a step of the queue, or none.
LEMMA NextStep ==
  ASSUME SbInv, [SbNext]_sbVars
  PROVE  /\ SbInv'
         /\ [BQ!Put \/ BQ!Take \/ BQ!Mark \/ BQ!PutBack \/ BQ!Clear \/ BQ!Fail]_(BQ!vars)
<1>1. ASSUME NEW n \in Requests,
             Write(n) \/ WriteValue(n) \/ WriteString(n) \/ WriteCString(n)
      PROVE  SbInv' /\ BQ!Put
  <2>1. n \in Nat
    BY SizeAssumption
  <2> QED
    BY <1>1, <2>1, WriteStep DEF WriteValue, WriteString
<1>2. ASSUME NEW n \in Requests, WriteThrows(n)
      PROVE  SbInv' /\ BQ!Fail
  <2>1. n \in Nat
    BY SizeAssumption
  <2> QED
    BY <1>2, <2>1, ThrowStep
<1>3. ASSUME NEW n \in Requests, AppendOther(n) \/ \E got \in Requests : PrepareCommit(n, got)
      PROVE  SbInv' /\ BQ!Put
  <2>1. PICK got \in Requests : PrepareCommit(n, got)
    BY <1>3 DEF AppendOther
  <2>2. n \in Nat /\ got \in Nat
    BY SizeAssumption
  <2> QED
    BY <2>1, <2>2, CommitStep
<1>4. ASSUME NEW n \in Requests, Consume(n) \/ Read(n) \/ ReadValue(n)
      PROVE  SbInv' /\ BQ!Take
  <2>1. n \in Nat /\ sb.p - sb.g \in Nat
    BY SizeAssumption, ValidFacts DEF SbInv
  <2>2. PICK k \in Nat : Consume(k)
    BY <1>4, <2>1 DEF Read, ReadValue, AtMost, InSize
  <2> QED
    BY <2>2, ConsumeStep
<1>5. ASSUME Overflow
      PROVE  SbInv' /\ BQ!Put
  BY <1>5, WriteStep DEF Overflow
<1>6. CASE UNCHANGED sbVars
  BY <1>6 DEF sbVars, SbInv, Valid, BQ!vars, Bytes
<1> QED
  BY <1>1, <1>2, <1>3, <1>4, <1>5, <1>6, BumpStep, MarkStep, PutBackStep, ClearStep DEF SbNext

\* The inductive invariant says that the pointers are in order.
LEMMA InvIsOrder ==
  ASSUME SbInv
  PROVE  PointersInOrder
<1>1. /\ sb.buf \in Seq(Int) /\ Len(sb.buf) \in Nat
      /\ sb.g \in Nat /\ sb.eg \in Nat /\ sb.p \in Nat
      /\ sb.g <= sb.eg /\ sb.eg <= sb.p /\ sb.p <= Len(sb.buf)
      /\ sb.mark # NoMark => sb.mark \in Nat /\ sb.mark <= sb.g
  BY ValidFacts DEF SbInv
<1>2. BaseSize <= Len(sb.buf) /\ Len(sb.buf) <= SizeMax
  BY DEF SbInv, Valid
<1> QED
  BY <1>1, <1>2, SizeAssumption DEF PointersInOrder, Alloc

\* streambuf.h: eback <= gptr <= egptr <= pptr <= epptr after every operation, with
\* the mark not beyond gptr and the vector between the base size and the limit, for every base
\* size, every limit of size_t and every sequence of requests.
THEOREM PointersStayInOrder == SbSpec => []PointersInOrder
<1>1. SbInit => SbInv
  BY InitStep
<1>2. SbInv /\ [SbNext]_sbVars => SbInv'
  BY NextStep
<1>3. SbInv => PointersInOrder
  BY InvIsOrder
<1> QED
  BY <1>1, <1>2, <1>3, PTL DEF SbSpec

\* streambuf.h: whatever reserve moves, doubles or halves, the buffer implements the
\* queue of bytes with a mark.
THEOREM StreambufIsByteQueue == SbSpec => IsByteQueue
<1>1. SbInit => SbInv /\ BQ!Init
  BY InitStep
<1>2. SbInv /\ [SbNext]_sbVars =>
        /\ SbInv'
        /\ [BQ!Put \/ BQ!Take \/ BQ!Mark \/ BQ!PutBack \/ BQ!Clear \/ BQ!Fail]_(BQ!vars)
  BY NextStep
<1> QED
  BY <1>1, <1>2, PTL DEF SbSpec, IsByteQueue, BQ!Spec

-----------------------------------------------------------------------------
(* Between threads.                                                         *)

\* Every variable has its type.
ExchangeTypeOK ==
  /\ pool \in Seq(Buffers) /\ queue \in Seq(Buffers)
  /\ held \in [Threads -> SUBSET Buffers] /\ used \subseteq Buffers
  /\ waiter \in [Threads -> {"running", "asleep", "notified"}]

ExchangeIInv == ExchangeTypeOK /\ OneOwner /\ NoLostWakeup

-----------------------------------------------------------------------------
(* Buffers in a sequence.                                                   *)

\* push_back: one more buffer, at the end.
LEMMA AppendFacts ==
  ASSUME NEW s \in Seq(Buffers), NEW b \in Buffers
  PROVE  /\ Append(s, b) \in Seq(Buffers) /\ Len(Append(s, b)) = Len(s) + 1
         /\ Range(Append(s, b)) = Range(s) \cup {b}
         /\ IsInjective(s) /\ b \notin Range(s) => IsInjective(Append(s, b))
<1> DEFINE a == Append(s, b)
<1>1. /\ a \in Seq(Buffers) /\ Len(a) = Len(s) + 1 /\ Len(s) \in Nat
      /\ \A i \in 1 .. Len(s) : a[i] = s[i]
      /\ a[Len(s) + 1] = b
      /\ DOMAIN a = 1 .. Len(a) /\ DOMAIN s = 1 .. Len(s)
  OBVIOUS
<1> HIDE DEF a
<1>2. Range(a) = Range(s) \cup {b}
  BY <1>1 DEF Range
<1>3. ASSUME IsInjective(s), b \notin Range(s) PROVE IsInjective(a)
  BY <1>1, <1>3 DEF IsInjective, Range
<1> QED
  BY <1>1, <1>2, <1>3 DEF a

\* front and pop_front: the first buffer leaves, and it was there once.
LEMMA TailFacts ==
  ASSUME NEW s \in Seq(Buffers), s # <<>>, IsInjective(s)
  PROVE  /\ Tail(s) \in Seq(Buffers) /\ Len(Tail(s)) = Len(s) - 1 /\ Len(s) \in Nat
         /\ Head(s) \in Buffers /\ Head(s) \in Range(s)
         /\ Range(Tail(s)) = Range(s) \ {Head(s)}
         /\ IsInjective(Tail(s))
<1> DEFINE r == Tail(s)
           h == Head(s)
<1>1. Len(s) \in Nat \ {0}
  BY EmptySeq
<1>2. /\ r \in Seq(Buffers) /\ Len(r) = Len(s) - 1 /\ h \in Buffers
      /\ \A i \in 1 .. Len(r) : r[i] = s[i + 1]
  BY HeadTailProperties
<1>3. h = s[1] /\ DOMAIN r = 1 .. Len(r) /\ DOMAIN s = 1 .. Len(s)
  BY <1>1, <1>2
<1> HIDE DEF r, h
<1>4. h \in Range(s)
  BY <1>1, <1>3 DEF Range
<1>5. ASSUME NEW b \in Range(r) PROVE b \in Range(s) \ {h}
  <2>1. PICK i \in 1 .. Len(r) : b = r[i]
    BY <1>3 DEF Range
  <2>2. i + 1 \in 1 .. Len(s) /\ 1 \in 1 .. Len(s) /\ i + 1 # 1 /\ b = s[i + 1]
    BY <1>1, <1>2, <2>1
  <2> QED
    BY <1>3, <2>2 DEF Range, IsInjective
<1>6. ASSUME NEW b \in Range(s) \ {h} PROVE b \in Range(r)
  <2>1. PICK i \in 1 .. Len(s) : b = s[i]
    BY <1>3 DEF Range
  <2>2. i # 1 /\ i - 1 \in 1 .. Len(r)
    BY <1>1, <1>2, <1>3, <2>1
  <2>3. r[i - 1] = b
    BY <1>2, <2>1, <2>2
  <2> QED
    BY <1>3, <2>2, <2>3 DEF Range
<1>7. IsInjective(r)
  <2>1. \A i, j \in 1 .. Len(s) : s[i] = s[j] => i = j
    BY <1>3 DEF IsInjective
  <2>2. ASSUME NEW i \in 1 .. Len(r), NEW j \in 1 .. Len(r), r[i] = r[j] PROVE i = j
    <3>1. i + 1 \in 1 .. Len(s) /\ j + 1 \in 1 .. Len(s) /\ s[i + 1] = s[j + 1]
      BY <1>1, <1>2, <2>2
    <3> QED
      BY <2>1, <3>1
  <2> QED
    BY <1>3, <2>2 DEF IsInjective
<1> QED
  BY <1>1, <1>2, <1>4, <1>5, <1>6, <1>7 DEF r, h

-----------------------------------------------------------------------------
(* Buffers in the hands of threads, and threads asleep.                     *)

Apart(h) == \A s, t \in Threads : s # t => h[s] \cap h[t] = {}

\* A thread gets a buffer that no thread has.
LEMMA HoldsFacts ==
  ASSUME ExchangeTypeOK, OneOwner, NEW t \in Threads, NEW b \in Buffers,
         b \notin HeldBuffers, Holds(t, b)
  PROVE  /\ held' \in [Threads -> SUBSET Buffers] /\ Apart(held')
         /\ HeldBuffers' = HeldBuffers \cup {b}
         /\ \A s \in Threads : held'[s] \subseteq held[s] \cup {b}
<1>1. /\ held' \in [Threads -> SUBSET Buffers]
      /\ \A s \in Threads : held'[s] = IF s = t THEN held[s] \cup {b} ELSE held[s]
  BY DEF Holds, ExchangeTypeOK
<1>2. HeldBuffers' = HeldBuffers \cup {b}
  BY <1>1 DEF HeldBuffers
<1>3. \A s \in Threads : b \notin held[s]
  BY DEF HeldBuffers
<1>4. Apart(held')
  BY <1>1, <1>3 DEF Apart, OneOwner
<1> QED
  BY <1>1, <1>2, <1>4

\* A thread gives a buffer away.
LEMMA ReleasesFacts ==
  ASSUME ExchangeTypeOK, OneOwner, NEW t \in Threads, NEW b \in held[t], Releases(t, b)
  PROVE  /\ held' \in [Threads -> SUBSET Buffers] /\ Apart(held')
         /\ HeldBuffers' = HeldBuffers \ {b} /\ b \in HeldBuffers /\ b \in Buffers
         /\ \A s \in Threads : held'[s] \subseteq held[s]
<1>1. /\ held' \in [Threads -> SUBSET Buffers]
      /\ \A s \in Threads : held'[s] = IF s = t THEN held[s] \ {b} ELSE held[s]
  BY DEF Releases, ExchangeTypeOK
<1>2. \A s \in Threads : b \in held[s] => s = t
  BY DEF OneOwner
<1>3. HeldBuffers' = HeldBuffers \ {b} /\ b \in HeldBuffers /\ b \in Buffers
  BY <1>1, <1>2 DEF HeldBuffers, ExchangeTypeOK
<1>4. Apart(held')
  BY <1>1 DEF Apart, OneOwner
<1> QED
  BY <1>1, <1>3, <1>4

\* What notify_one and wait move are members of finite sets.
LEMMA SleepersFinite ==
  /\ IsFiniteSet(Sleepers) /\ IsFiniteSet(Notified)
  /\ Cardinality(Sleepers) \in Nat /\ Cardinality(Notified) \in Nat
BY ExchangeAssumption, FS_Subset, FS_CardinalityType DEF Sleepers, Notified

\* A sleeper is notified, by push or for no reason.
LEMMA NotifyFacts ==
  ASSUME ExchangeTypeOK, NEW s \in Sleepers, waiter' = [waiter EXCEPT ![s] = "notified"]
  PROVE  /\ waiter' \in [Threads -> {"running", "asleep", "notified"}]
         /\ Sleepers' \subseteq Sleepers
         /\ Cardinality(Notified') = Cardinality(Notified) + 1
<1>1. waiter' \in [Threads -> {"running", "asleep", "notified"}] /\ Sleepers' \subseteq Sleepers
  BY DEF Sleepers, ExchangeTypeOK
<1>2. Notified' = Notified \cup {s} /\ s \notin Notified
  BY DEF Notified, Sleepers, ExchangeTypeOK
<1> QED
  BY <1>1, <1>2, SleepersFinite, FS_AddElement

\* A thread that was notified, or never slept, goes on with an element of the queue.
LEMMA TakerFacts ==
  ASSUME ExchangeTypeOK, NEW t \in Threads, waiter[t] \in {"running", "notified"},
         waiter' = [waiter EXCEPT ![t] = "running"]
  PROVE  /\ waiter' \in [Threads -> {"running", "asleep", "notified"}]
         /\ Sleepers' = Sleepers
         /\ Cardinality(Notified') >= Cardinality(Notified) - 1
<1>1. waiter' \in [Threads -> {"running", "asleep", "notified"}] /\ Sleepers' = Sleepers
  BY DEF Sleepers, ExchangeTypeOK
<1>2. Notified' = Notified \ {t}
  BY DEF Notified, ExchangeTypeOK
<1>3. CASE t \in Notified
  <2>1. Cardinality(Notified') = Cardinality(Notified) - 1
    BY <1>2, <1>3, SleepersFinite, FS_RemoveElement
  <2> QED
    BY <1>1, <2>1, SleepersFinite
<1>4. CASE t \notin Notified
  <2>1. Notified' = Notified
    BY <1>2, <1>4
  <2> QED
    BY <1>1, <2>1, SleepersFinite
<1> QED
  BY <1>3, <1>4

-----------------------------------------------------------------------------
(* Every step keeps ExchangeIInv.                                                   *)

\* The pool gives a thread a buffer that it had, or a new one.
LEMMA GetObjectKeeps ==
  ASSUME ExchangeIInv, NEW t \in Threads, static_get_object(t)
  PROVE  ExchangeIInv'
<1>1. CASE pool = <<>> /\ UNCHANGED <<pool, used>> /\ \E b \in Free : Holds(t, b)
  <2>1. PICK b \in Free : Holds(t, b)
    BY <1>1
  <2>2. b \in Buffers /\ b \notin HeldBuffers /\ b \notin Range(pool) \cup Range(queue)
    BY DEF Free
  <2>3. /\ held' \in [Threads -> SUBSET Buffers] /\ Apart(held')
        /\ HeldBuffers' = HeldBuffers \cup {b}
    BY <2>1, <2>2, HoldsFacts DEF ExchangeIInv
  <2> QED
    BY <1>1, <2>2, <2>3
    DEF static_get_object, ExchangeIInv, ExchangeTypeOK, OneOwner, NoLostWakeup, Sleepers, Notified, Apart
<1>2. CASE pool # <<>> /\ Holds(t, Head(pool)) /\ used' = Blanked(Head(pool))
           /\ pool' = Tail(pool)
  <2> DEFINE b == Head(pool)
  <2>1. /\ pool' \in Seq(Buffers) /\ b \in Buffers /\ b \in Range(pool)
        /\ Range(pool') = Range(pool) \ {b} /\ IsInjective(pool')
        /\ Len(pool') <= MaxSize
    BY <1>2, TailFacts, ExchangeAssumption DEF ExchangeIInv, ExchangeTypeOK, OneOwner
  <2>2. b \notin HeldBuffers /\ b \notin Range(queue)
    BY <2>1 DEF ExchangeIInv, OneOwner
  <2> HIDE DEF b
  <2>3. /\ held' \in [Threads -> SUBSET Buffers] /\ Apart(held')
        /\ HeldBuffers' = HeldBuffers \cup {b}
    BY <1>2, <2>1, <2>2, HoldsFacts DEF ExchangeIInv, b
  <2>4. UNCHANGED <<queue, waiter>> /\ used' \subseteq Buffers
    BY <1>2 DEF static_get_object, Blanked, ExchangeIInv, ExchangeTypeOK
  <2> QED
    BY <2>1, <2>2, <2>3, <2>4
    DEF ExchangeIInv, ExchangeTypeOK, OneOwner, NoLostWakeup, Sleepers, Notified, Apart
<1> QED
  BY <1>1, <1>2 DEF static_get_object

\* A thread gives a buffer back: into the pool, or to nobody.
LEMMA ReturnObjectKeeps ==
  ASSUME ExchangeIInv, NEW t \in Threads, NEW b \in Buffers, static_return_object(t, b)
  PROVE  ExchangeIInv'
<1>1. /\ b \in held[t] /\ Releases(t, b) /\ UNCHANGED <<queue, waiter>>
      /\ used' \subseteq Buffers
  BY DEF static_return_object, ExchangeIInv, ExchangeTypeOK
<1>2. /\ held' \in [Threads -> SUBSET Buffers] /\ Apart(held')
      /\ HeldBuffers' = HeldBuffers \ {b} /\ b \in HeldBuffers
  BY <1>1, ReleasesFacts DEF ExchangeIInv
<1>3. b \notin Range(pool) /\ b \notin Range(queue)
  BY <1>2 DEF ExchangeIInv, OneOwner
<1>4. /\ pool' \in Seq(Buffers) /\ IsInjective(pool') /\ Len(pool') <= MaxSize
      /\ Range(pool') \subseteq Range(pool) \cup {b}
  <2>1. CASE Len(pool) < MaxSize /\ pool' = Append(pool, b)
    BY <1>3, <2>1, AppendFacts, ExchangeAssumption DEF ExchangeIInv, ExchangeTypeOK, OneOwner
  <2>2. CASE pool' = pool
    BY <2>2 DEF ExchangeIInv, ExchangeTypeOK, OneOwner
  <2> QED
    BY <2>1, <2>2 DEF static_return_object
<1> QED
  BY <1>1, <1>2, <1>3, <1>4
  DEF ExchangeIInv, ExchangeTypeOK, OneOwner, NoLostWakeup, Sleepers, Notified, Apart

\* push: the buffer goes into the queue, and a sleeper, if there is one, is told.
LEMMA PushKeeps ==
  ASSUME ExchangeIInv, NEW t \in Threads, NEW b \in Buffers, push(t, b)
  PROVE  ExchangeIInv'
<1>1. /\ b \in held[t] /\ Releases(t, b) /\ queue' = Append(queue, b) /\ UNCHANGED <<pool, used>>
  BY DEF push
<1>2. /\ held' \in [Threads -> SUBSET Buffers] /\ Apart(held')
      /\ HeldBuffers' = HeldBuffers \ {b} /\ b \in HeldBuffers
  BY <1>1, ReleasesFacts DEF ExchangeIInv
<1>3. b \notin Range(pool) /\ b \notin Range(queue)
  BY <1>2 DEF ExchangeIInv, OneOwner
<1>4. /\ queue' \in Seq(Buffers) /\ IsInjective(queue') /\ Len(queue') = Len(queue) + 1
      /\ Range(queue') = Range(queue) \cup {b} /\ Len(queue) \in Nat
  BY <1>1, <1>3, AppendFacts, LenProperties DEF ExchangeIInv, ExchangeTypeOK, OneOwner
<1>5. waiter' \in [Threads -> {"running", "asleep", "notified"}] /\ NoLostWakeup'
  <2>1. CASE Sleepers = {}
    BY <2>1 DEF push, notify_one, Sleepers, NoLostWakeup, ExchangeIInv, ExchangeTypeOK
  <2>2. CASE Sleepers # {}
    <3>1. PICK s \in Sleepers : waiter' = [waiter EXCEPT ![s] = "notified"]
      BY <2>2 DEF push, notify_one
    <3>2. /\ waiter' \in [Threads -> {"running", "asleep", "notified"}]
          /\ Cardinality(Notified') = Cardinality(Notified) + 1
      BY <3>1, NotifyFacts DEF ExchangeIInv
    <3> QED
      BY <1>4, <2>2, <3>2, SleepersFinite DEF NoLostWakeup, ExchangeIInv
  <2> QED
    BY <2>1, <2>2
<1>6. ExchangeTypeOK' /\ OneOwner'
  BY <1>1, <1>2, <1>3, <1>4, <1>5 DEF ExchangeIInv, ExchangeTypeOK, OneOwner, Apart
<1> QED
  BY <1>5, <1>6 DEF ExchangeIInv

\* The front of the queue goes to a thread.
LEMMA TakeFrontFacts ==
  ASSUME ExchangeIInv, NEW t \in Threads, TakeFront(t),
         waiter' \in [Threads -> {"running", "asleep", "notified"}]
  PROVE  /\ ExchangeTypeOK' /\ OneOwner'
         /\ Len(queue') = Len(queue) - 1 /\ Len(queue) \in Nat
<1> DEFINE b == Head(queue)
<1>1. /\ queue' \in Seq(Buffers) /\ b \in Buffers /\ b \in Range(queue)
      /\ Range(queue') = Range(queue) \ {b} /\ IsInjective(queue')
      /\ Len(queue') = Len(queue) - 1 /\ Len(queue) \in Nat
  BY TailFacts DEF TakeFront, ExchangeIInv, ExchangeTypeOK, OneOwner
<1>2. b \notin HeldBuffers /\ b \notin Range(pool) /\ Holds(t, b) /\ UNCHANGED <<pool, used>>
  BY <1>1 DEF TakeFront, ExchangeIInv, OneOwner
<1> HIDE DEF b
<1>3. /\ held' \in [Threads -> SUBSET Buffers] /\ Apart(held')
      /\ HeldBuffers' = HeldBuffers \cup {b}
  BY <1>1, <1>2, HoldsFacts DEF ExchangeIInv
<1> QED
  BY <1>1, <1>2, <1>3 DEF ExchangeIInv, ExchangeTypeOK, OneOwner, Apart

\* pop: a notified thread, or one that comes by, takes the front or sleeps.
LEMMA PopKeeps ==
  ASSUME ExchangeIInv, NEW t \in Threads, pop(t)
  PROVE  ExchangeIInv'
<1>1. CASE TakeFront(t) /\ waiter' = [waiter EXCEPT ![t] = "running"]
  <2>1. /\ waiter' \in [Threads -> {"running", "asleep", "notified"}] /\ Sleepers' = Sleepers
        /\ Cardinality(Notified') >= Cardinality(Notified) - 1
    BY <1>1, TakerFacts DEF pop, ExchangeIInv
  <2>2. /\ ExchangeTypeOK' /\ OneOwner'
        /\ Len(queue') = Len(queue) - 1 /\ Len(queue) \in Nat
    BY <1>1, <2>1, TakeFrontFacts
  <2>3. Cardinality(Notified') \in Nat
    BY SleepersFinite, ExchangeAssumption, FS_Subset, FS_CardinalityType DEF Notified
  <2> QED
    BY <2>1, <2>2, <2>3, SleepersFinite DEF ExchangeIInv, NoLostWakeup
<1>2. CASE queue = <<>> /\ waiter' = [waiter EXCEPT ![t] = "asleep"]
           /\ UNCHANGED <<pool, queue, held, used>>
  <2>1. ExchangeTypeOK' /\ OneOwner'
    BY <1>2 DEF ExchangeIInv, ExchangeTypeOK, OneOwner, HeldBuffers
  <2>2. Len(queue') = 0 /\ Cardinality(Notified') \in Nat
    <3>1. IsFiniteSet(Notified')
      BY ExchangeAssumption, FS_Subset DEF Notified
    <3> QED
      BY <1>2, <3>1, FS_CardinalityType
  <2> QED
    BY <2>1, <2>2 DEF ExchangeIInv, NoLostWakeup
<1> QED
  BY <1>1, <1>2 DEF pop

\* pop_if_possible: a thread that never sleeps takes the front.
LEMMA PopIfPossibleKeeps ==
  ASSUME ExchangeIInv, NEW t \in Threads, pop_if_possible(t)
  PROVE  ExchangeIInv'
<1>1. TakeFront(t) /\ waiter' = waiter
  BY DEF pop_if_possible
<1>2. /\ ExchangeTypeOK' /\ OneOwner'
      /\ Len(queue') = Len(queue) - 1 /\ Len(queue) \in Nat
  BY <1>1, TakeFrontFacts DEF ExchangeIInv, ExchangeTypeOK
<1>3. Sleepers' = Sleepers /\ Notified' = Notified
  BY <1>1 DEF Sleepers, Notified
<1> QED
  BY <1>2, <1>3, SleepersFinite DEF ExchangeIInv, NoLostWakeup

\* clear: the queue is empty, and nobody needs to be told.
LEMMA ClearKeeps ==
  ASSUME ExchangeIInv, NEW t \in Threads, clear(t)
  PROVE  ExchangeIInv'
<1>1. queue' = <<>> /\ UNCHANGED <<pool, held, waiter>> /\ used' \subseteq Buffers
  BY DEF clear, ExchangeIInv, ExchangeTypeOK
<1>2. queue' \in Seq(Buffers) /\ Range(queue') = {} /\ IsInjective(queue') /\ Len(queue') = 0
  BY <1>1 DEF Range, IsInjective
<1>3. Sleepers' = Sleepers /\ Notified' = Notified /\ HeldBuffers' = HeldBuffers
  BY <1>1 DEF Sleepers, Notified, HeldBuffers
<1>4. ExchangeTypeOK' /\ OneOwner'
  BY <1>1, <1>2, <1>3 DEF ExchangeIInv, ExchangeTypeOK, OneOwner
<1> QED
  BY <1>2, <1>3, <1>4, SleepersFinite DEF ExchangeIInv, NoLostWakeup

\* A sleeper wakes for no reason, or a thread writes into its buffer.
LEMMA OtherKeeps ==
  ASSUME ExchangeIInv, NEW t \in Threads,
         SpuriousWakeup(t) \/ \E b \in Buffers : Fill(t, b)
  PROVE  ExchangeIInv'
<1>1. CASE SpuriousWakeup(t)
  <2>1. t \in Sleepers /\ waiter' = [waiter EXCEPT ![t] = "notified"]
    BY <1>1 DEF SpuriousWakeup, Sleepers
  <2>2. /\ waiter' \in [Threads -> {"running", "asleep", "notified"}]
        /\ Sleepers' \subseteq Sleepers
        /\ Cardinality(Notified') = Cardinality(Notified) + 1
    BY <2>1, NotifyFacts DEF ExchangeIInv
  <2>3. ExchangeTypeOK' /\ OneOwner' /\ Len(queue') = Len(queue) /\ Len(queue) \in Nat
    BY <1>1, <2>2, LenProperties
    DEF SpuriousWakeup, ExchangeIInv, ExchangeTypeOK, OneOwner, HeldBuffers
  <2> QED
    BY <2>1, <2>2, <2>3, SleepersFinite DEF ExchangeIInv, NoLostWakeup
<1>2. CASE \E b \in Buffers : Fill(t, b)
  <2>1. UNCHANGED <<pool, queue, held, waiter>> /\ used' \subseteq Buffers
    BY <1>2 DEF Fill, ExchangeIInv, ExchangeTypeOK
  <2>2. Sleepers' = Sleepers /\ Notified' = Notified /\ HeldBuffers' = HeldBuffers
    BY <2>1 DEF Sleepers, Notified, HeldBuffers
  <2> QED
    BY <2>1, <2>2 DEF ExchangeIInv, ExchangeTypeOK, OneOwner, NoLostWakeup
<1> QED
  BY <1>1, <1>2

\* ExchangeIInv holds of an empty pool and an empty queue, and every step keeps it.
LEMMA ExchangeInvariant == ExchangeSpec => []ExchangeIInv
<1>1. ExchangeInit => ExchangeIInv
  <2> SUFFICES ASSUME ExchangeInit PROVE ExchangeIInv
    OBVIOUS
  <2>1. ExchangeTypeOK
    BY DEF ExchangeInit, ExchangeTypeOK
  <2>2. HeldBuffers = {} /\ Range(pool) = {} /\ Range(queue) = {} /\ Sleepers = {}
    BY DEF ExchangeInit, HeldBuffers, Range, Sleepers
  <2>3. OneOwner
    BY <2>2, ExchangeAssumption DEF ExchangeInit, OneOwner, IsInjective
  <2> QED
    BY <2>1, <2>2, <2>3 DEF ExchangeIInv, NoLostWakeup
<1>2. ExchangeIInv /\ [ExchangeNext]_xVars => ExchangeIInv'
  <2> SUFFICES ASSUME ExchangeIInv, [ExchangeNext]_xVars PROVE ExchangeIInv'
    OBVIOUS
  <2>1. CASE UNCHANGED xVars
    BY <2>1
    DEF xVars, ExchangeIInv, ExchangeTypeOK, OneOwner, NoLostWakeup, Sleepers, Notified, HeldBuffers
  <2>2. CASE ExchangeNext
    BY <2>2, GetObjectKeeps, ReturnObjectKeeps, PushKeeps, PopKeeps, PopIfPossibleKeeps,
       ClearKeeps, OtherKeeps
    DEF ExchangeNext, pool_get_object, pool_return_object
  <2> QED
    BY <2>1, <2>2
<1> QED
  BY <1>1, <1>2, PTL DEF ExchangeSpec

-----------------------------------------------------------------------------
(* The theorems.                                                            *)

\* A buffer is with one thread, or once in the pool, or once in the queue, and the
\* pool does not outgrow MaxSize: no two channels ever write the same buffer.
THEOREM BuffersHaveOneOwner == ExchangeSpec => []OneOwner
<1>1. ExchangeIInv => OneOwner
  BY DEF ExchangeIInv
<1> QED
  BY <1>1, ExchangeInvariant, PTL

\* As long as a thread sleeps in pop, the queue has no more elements than there are
\* threads on their way to take one.
THEOREM WakeupsAreNotLost == ExchangeSpec => []NoLostWakeup
<1>1. ExchangeIInv => NoLostWakeup
  BY DEF ExchangeIInv
<1> QED
  BY <1>1, ExchangeInvariant, PTL

\* get_object hands out a pooled buffer without the bytes of its last user, and no
\* other operation hands out a pooled buffer.
THEOREM PooledBuffersAreBlank == ExchangeSpec => PooledIsBlank
<1>1. ASSUME ExchangeIInv, [ExchangeNext]_xVars
      PROVE  [\A t \in Threads : \A b \in Range(pool) : b \in held'[t] => b \notin used']_xVars
  <2> SUFFICES ASSUME ExchangeNext, NEW t \in Threads, NEW b \in Range(pool), b \in held'[t]
               PROVE  b \notin used'
    BY <1>1
  <2>1. b \notin HeldBuffers /\ b \notin held[t] /\ b \notin Range(queue) /\ held' # held
    BY <1>1 DEF ExchangeIInv, OneOwner, HeldBuffers
  <2>2. PICK s \in Threads : \/ static_get_object(s) \/ pop(s) \/ pop_if_possible(s)
                             \/ \E c \in Buffers : push(s, c) \/ static_return_object(s, c)
    BY <2>1 DEF ExchangeNext, pool_get_object, pool_return_object, clear, SpuriousWakeup, Fill
  <2>3. CASE static_get_object(s)
    <3>1. pool # <<>>
      BY DEF Range
    <3>2. Holds(s, Head(pool)) /\ used' = used \ {Head(pool)}
      BY <2>3, <3>1 DEF static_get_object, Blanked
    <3>3. b = Head(pool)
      BY <1>1, <2>1, <3>2 DEF Holds, ExchangeIInv, ExchangeTypeOK
    <3> QED
      BY <3>2, <3>3
  <2>4. CASE pop(s) \/ pop_if_possible(s)
    <3>1. TakeFront(s)
      BY <2>1, <2>4 DEF pop, pop_if_possible
    <3>2. Head(queue) \in Range(queue) /\ b # Head(queue)
      BY <1>1, <2>1, <3>1, TailFacts DEF TakeFront, ExchangeIInv, ExchangeTypeOK, OneOwner
    <3> QED
      BY <1>1, <2>1, <3>1, <3>2 DEF TakeFront, Holds, ExchangeIInv, ExchangeTypeOK
  <2>5. CASE \E c \in Buffers : push(s, c) \/ static_return_object(s, c)
    BY <1>1, <2>1, <2>5 DEF push, static_return_object, Releases, ExchangeIInv, ExchangeTypeOK
  <2> QED
    BY <2>2, <2>3, <2>4, <2>5
<1> QED
  BY <1>1, ExchangeInvariant, PTL DEF ExchangeSpec, PooledIsBlank
=============================================================================
