----------------------------- MODULE MCBuffers -----------------------------
(***************************************************************************)
(* The two halves of the buffers, each by itself: what happens inside one  *)
(* buffer and how buffers go from thread to thread.                        *)
(***************************************************************************)
EXTENDS Streambuf, BufferExchange

VARIABLE part

vars == <<sbVars, xVars, part>>

Init == SbInit /\ ExchangeInit /\ part \in {"inside", "between"}

Next ==
  \/ part = "inside" /\ SbNext /\ UNCHANGED <<xVars, part>>
  \/ part = "between" /\ ExchangeNext /\ UNCHANGED <<sbVars, part>>

Spec == Init /\ [][Next]_vars
=============================================================================
