----------------------------- MODULE ByteQueue -----------------------------
(***************************************************************************)
(* What a stream buffer promises: bytes come out once, in the order in     *)
(* which they went in, and after mark() those taken out since can be put   *)
(* back with reset().  A write may make the mark void.  A write that fails *)
(* may spoil the bytes that are there, but not their number.               *)
(***************************************************************************)
EXTENDS Naturals, Sequences

VARIABLES content, \* the bytes to be read
          taken,   \* the bytes taken out since mark(), if marked
          marked,  \* there is a valid mark
          failed   \* a write has failed

vars == <<content, taken, marked, failed>>

Init == content = <<>> /\ taken = <<>> /\ ~marked /\ ~failed

\* the state that a mark, or its loss, leaves in taken and marked
MarkKept == UNCHANGED <<taken, marked>>
MarkLost == ~marked' /\ taken' = <<>>

Put ==
  /\ Len(content) <= Len(content') /\ SubSeq(content', 1, Len(content)) = content
  /\ MarkKept \/ MarkLost
  /\ UNCHANGED failed
Take ==
  /\ \E n \in 0 .. Len(content) :
       /\ content' = SubSeq(content, n + 1, Len(content))
       /\ taken' = IF marked THEN taken \o SubSeq(content, 1, n) ELSE taken
  /\ UNCHANGED <<marked, failed>>
Mark == marked' /\ taken' = <<>> /\ UNCHANGED <<content, failed>>
PutBack == marked /\ content' = taken \o content /\ taken' = <<>> /\ UNCHANGED <<marked, failed>>
Clear == content' = <<>> /\ MarkLost /\ UNCHANGED failed
Fail == failed' /\ Len(content') = Len(content) /\ Len(taken') = Len(taken) /\ UNCHANGED marked

Spec == Init /\ [][Put \/ Take \/ Mark \/ PutBack \/ Clear \/ Fail]_vars
=============================================================================
