----------------------------- MODULE Streambuf -----------------------------
(***************************************************************************)
(* util::streambuf, the buffer of every channel: one vector with a get     *)
(* area behind a put area, whose contents are moved to the front and whose *)
(* size is doubled or halved as space is asked for.  Pointers are offsets  *)
(* into the vector.  size_t is the integers up to SizeMax, so that the     *)
(* limit of the doubling can be reached.                                   *)
(***************************************************************************)
EXTENDS Integers, Sequences

CONSTANTS BaseSize, \* _base_size, after the constructor has raised it to __min_size
          SizeMax,  \* std::numeric_limits<std::size_t>::max()
          Requests, \* the sizes that operations are called with
          MaxBytes  \* bound: bytes written

ASSUME SizeAssumption ==
  /\ BaseSize \in Nat \ {0} /\ SizeMax \in Nat /\ BaseSize <= SizeMax
  /\ Requests \subseteq Nat /\ MaxBytes \in Nat

NoMark == -1
NotOurs == -2  \* a byte that no caller has asked to write

VARIABLES
  sb,      \* the vector, and gptr, egptr, pptr and _mark as offsets into it;
           \* eback is 0 and epptr the end of the vector
  written, \* number of bytes written so far: the n-th has the value n
  failed   \* history: a write has thrown buffer_error

sbVars == <<sb, written, failed>>

Unused(n) == [i \in 1 .. n |-> 0]

SbInit ==
  /\ sb = [buf |-> Unused(BaseSize), g |-> 0, eg |-> 0, p |-> 0, mark |-> NoMark]
  /\ written = 0 /\ failed = FALSE

Alloc(s) == Len(s.buf)
InSize(s) == s.p - s.g
OutSize(s) == Alloc(s) - s.p
AtMost(n, max) == IF n <= max THEN n ELSE max

-----------------------------------------------------------------------------
(* reserve *)

\* Fault: the bytes are not moved.
M_Moved(s) == s.buf

\* the vector after memmove of the get area to its start
Moved(s) == [i \in 1 .. Alloc(s) |-> IF i <= InSize(s) THEN s.buf[s.g + i] ELSE s.buf[i]]

\* the size after doubling until n fit behind the used bytes, or up to the limit
Doubled(size, used, n) ==
  LET grow[m \in 1 .. SizeMax] ==
        IF n > m - used /\ m <= SizeMax \div 2 THEN grow[2 * m] ELSE m
  IN  grow[size]

\* Fault: halved whenever half of it would do.
M_Halved(size, used, n) == IF used + n <= size \div 2 THEN size \div 2 ELSE size

\* "too much capacity": more than twice the base size, and less than half needed
Halved(size, used, n) ==
  IF size > 2 * BaseSize /\ used + n < size \div 2 THEN size \div 2 ELSE size

\* The size of the vector that n bytes more ask for, once the get area was moved.
NewSize(s, n) ==
  IF n > Alloc(s) - InSize(s) THEN Doubled(Alloc(s), InSize(s), n)
                              ELSE Halved(Alloc(s), InSize(s), n)

Fits(s, n) == n <= OutSize(s)
CanReserve(s, n) == Fits(s, n) \/ n <= NewSize(s, n) - InSize(s)

\* reserve(n) when it returns: the mark is lost if anything was moved
Reserve(s, n) ==
  IF Fits(s, n) THEN s
  ELSE LET size == NewSize(s, n) IN
       [buf |-> [i \in 1 .. size |-> IF i <= Alloc(s) THEN Moved(s)[i] ELSE 0],
        g |-> 0, eg |-> InSize(s), p |-> InSize(s), mark |-> NoMark]

\* reserve(n) when it throws "too big buffer requested": the contents were moved
\* already, and the pointers still say where they were
ReserveThrows(s) == [s EXCEPT !.buf = Moved(s)]

-----------------------------------------------------------------------------
(* Operations.                                                              *)

\* bytes written behind pptr
Filled(s, n) ==
  [s EXCEPT !.buf = [i \in 1 .. Alloc(s) |-> IF i \in s.p + 1 .. s.p + n THEN written + i - s.p ELSE @[i]]]

\* write: egptr stays behind
Write(n) ==
  /\ written + n <= MaxBytes /\ CanReserve(sb, n)
  /\ sb' = [Filled(Reserve(sb, n), n) EXCEPT !.p = @ + n]
  /\ written' = written + n /\ UNCHANGED failed

\* write_int8 ... write_double, and write_string of a std::string
WriteValue(n) == Write(n)
WriteString(n) == Write(n)

\* write_string of a char pointer writes as many bytes as the string has, but from
\* the address of the pointer: not one of them need be the string's
WriteCString(n) ==
  /\ written + n <= MaxBytes /\ CanReserve(sb, n)
  /\ LET s == Reserve(sb, n) IN
       sb' = [s EXCEPT !.p = @ + n,
                       !.buf = [i \in 1 .. Alloc(s) |-> IF i \in s.p + 1 .. s.p + n THEN NotOurs ELSE @[i]]]
  /\ written' = written + n /\ UNCHANGED failed

\* any operation that has to reserve more than can be had
WriteThrows(n) ==
  /\ ~CanReserve(sb, n)
  /\ sb' = ReserveThrows(sb)
  /\ failed' = TRUE /\ UNCHANGED written

\* overflow, for a character that does not fit
Overflow == OutSize(sb) = 0 /\ Write(1)

\* prepare, a read into the buffer, and commit of as much as there is room for
PrepareCommit(n, got) ==
  /\ CanReserve(sb, n)
  /\ LET s == Reserve(sb, n)
         m == AtMost(got, OutSize(s))
     IN  /\ written + m <= MaxBytes
         /\ sb' = [Filled(s, m) EXCEPT !.p = @ + m, !.eg = s.p + m]
         /\ written' = written + m
  /\ UNCHANGED failed

\* append of another buffer with n bytes
AppendOther(n) == PrepareCommit(n, n)

\* consume, which makes egptr catch up with pptr
Consumed(s, n) == [s EXCEPT !.g = @ + AtMost(n, InSize(s)), !.eg = s.p]

Consume(n) == sb' = Consumed(sb, n) /\ UNCHANGED <<written, failed>>

\* read takes what there is
Read(n) == Consume(AtMost(n, InSize(sb)))

\* read_int8 ... read_double: all the bytes of the value or not_enough_error
ReadValue(n) == n <= InSize(sb) /\ Consume(n)

\* sbumpc: a character of the get area, or of what underflow finds behind it
Bump ==
  /\ sb.g < sb.eg \/ sb.g < sb.p
  /\ sb' = [sb EXCEPT !.eg = IF sb.g < sb.eg THEN @ ELSE sb.p, !.g = @ + 1]
  /\ UNCHANGED <<written, failed>>

SetMark == sb' = [sb EXCEPT !.mark = sb.g] /\ UNCHANGED <<written, failed>>

\* reset(): back to the mark, if there is one
ResetToMark ==
  /\ sb.mark # NoMark
  /\ sb' = [sb EXCEPT !.g = sb.mark]
  /\ UNCHANGED <<written, failed>>

\* reset(base_size), when the pool hands the buffer out again: the argument is not used
Reset ==
  /\ sb' = [sb EXCEPT !.g = 0, !.eg = 0, !.p = 0, !.mark = NoMark]
  /\ UNCHANGED <<written, failed>>

SbNext ==
  \/ \E n \in Requests :
       \/ Write(n) \/ WriteValue(n) \/ WriteString(n) \/ WriteCString(n)
       \/ WriteThrows(n) \/ AppendOther(n)
       \/ Consume(n) \/ Read(n) \/ ReadValue(n)
       \/ \E got \in Requests : PrepareCommit(n, got)
  \/ Overflow \/ Bump \/ SetMark \/ ResetToMark \/ Reset

SbSpec == SbInit /\ [][SbNext]_sbVars
-----------------------------------------------------------------------------
(* Properties.                                                              *)

\* The pointers are in the order that std::streambuf and the code rely on, whatever
\* was moved, grown or shrunk, the mark is not beyond gptr, and the vector, halved
\* again and again when little of it is used and doubled when it is full, stays between
\* the base size and the largest size_t.
PointersInOrder ==
  /\ 0 <= sb.g /\ sb.g <= sb.eg /\ sb.eg <= sb.p /\ sb.p <= Alloc(sb)
  /\ sb.mark = NoMark \/ (0 <= sb.mark /\ sb.mark <= sb.g)
  /\ BaseSize <= Alloc(sb) /\ Alloc(sb) <= SizeMax

Bytes(from, to) == SubSeq(sb.buf, from + 1, to)
BQ == INSTANCE ByteQueue WITH
        content <- Bytes(sb.g, sb.p),
        taken <- IF sb.mark = NoMark THEN <<>> ELSE Bytes(sb.mark, sb.g),
        marked <- sb.mark # NoMark

\* A buffer is a queue of bytes with a mark, however its contents are moved and its
\* vector resized.  A write that throws may spoil the bytes that are there, but what
\* comes after it is a queue of bytes again.
IsByteQueue == BQ!Spec
=============================================================================
