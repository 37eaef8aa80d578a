----------------------------- MODULE MatrixDot -----------------------------
(***************************************************************************)
(* matrix::dot with a worker_pool: the rows are divided into blocks, one   *)
(* task for each, and wait_complete is called before the result is         *)
(* returned.  It shares its pool with other clients, one of whom may stop  *)
(* it.                                                                     *)
(***************************************************************************)
EXTENDS WorkerPool, Matrix, FiniteSetsExt

CONSTANTS Caller,    \* the client that multiplies
          Operands,  \* pairs of matrices that can be multiplied
          MinWork,   \* 28000 in the code
          LawData    \* elements of the matrices that are added in MatrixLaws

ASSUME CallerAssumption == Caller \in Clients /\ MinWork \in Nat /\ LawData \subseteq Int
\* assert(_cols == input._rows)
ASSUME OperandsAssumption ==
  \A p \in Operands : p = <<p[1], p[2]>> /\ IsMatrix(p[1]) /\ IsMatrix(p[2]) /\ p[1].cols = p[2].rows

VARIABLES
  ab,    \* the matrices *this and input
  dpc,   \* where the call is: "call", "split", "wait" or "done"
  cut,   \* start, end and dest of the next block, and rows
  block, \* the block that a task computes, or <<>> for a task of somebody else
  m      \* the result

dotVars == <<ab, dpc, cut, block, m>>
allVars == <<vars, dotVars>>

a == ab[1]
input == ab[2]

DotInit ==
  /\ Init
  /\ ab \in Operands
  /\ dpc = "call" /\ cut = [start |-> 0, end |-> 0, dest |-> 0, rows |-> 0]
  /\ block = [t \in Tasks |-> <<>>]
  /\ m = NewMatrix(a.rows, input.cols)

\* rows of a block: an even share, doubled while it is too little work
BlockRows ==
  LET share == IF a.rows \div Cardinality(Workers) = 0 THEN 1 ELSE a.rows \div Cardinality(Workers)
      grow[rows \in 1 .. 2 * a.rows + 1] ==
        IF rows * a.cols * input.cols < MinWork /\ rows < a.rows THEN grow[2 * rows] ELSE rows
  IN  grow[share]

\* too little work for two blocks: the other dot
DotCall ==
  /\ dpc = "call" /\ pc[Caller] = "idle"
  /\ IF BlockRows >= a.rows
     THEN m' = dot(a, input) /\ dpc' = "done" /\ UNCHANGED cut
     ELSE /\ dpc' = "split" /\ cut' = [start |-> 0, end |-> BlockRows, dest |-> 0, rows |-> BlockRows]
          /\ UNCHANGED m
  /\ UNCHANGED <<vars, ab, block>>

\* Fault: dest advances by rows, not by elements.
M_NextCut ==
  [start |-> cut.end, end |-> Min({cut.end + cut.rows, a.rows}), dest |-> cut.dest + cut.rows,
   rows |-> cut.rows]

NextCut ==
  [start |-> cut.end, end |-> Min({cut.end + cut.rows, a.rows}),
   dest |-> cut.dest + cut.rows * input.cols, rows |-> cut.rows]

\* a turn of the loop; a stopped pool takes no task, and dot does not notice
DotSchedule ==
  /\ dpc = "split" /\ pc[Caller] = "idle" /\ cut.start < a.rows
  /\ \/ Schedule(Caller) /\ block' = [block EXCEPT ![next'] = <<cut>>]
     \/ ~running /\ UNCHANGED <<vars, block>>
  /\ cut' = NextCut
  /\ UNCHANGED <<ab, dpc, m>>

DotWait ==
  /\ dpc = "split" /\ cut.start >= a.rows
  /\ WaitComplete(Caller)
  /\ dpc' = "wait" /\ UNCHANGED <<ab, cut, block, m>>

DotReturn ==
  /\ dpc = "wait" /\ pc[Caller] = "idle"
  /\ dpc' = "done" /\ UNCHANGED <<vars, ab, cut, block, m>>

IsBlock(t) == t # 0 /\ block[t] # <<>>

\* the lambda of a block: rows start .. end - 1, written from dest on
RunBlock(w) ==
  /\ pc[w] = "run" /\ IsBlock(hand[w])
  /\ TaskReturns(w)
  /\ LET k == block[hand[w]][1]
         size == (k.end - k.start) * input.cols
     IN  m' = [m EXCEPT !.data = [i \in 1 .. Len(@) |->
                 IF i \in k.dest + 1 .. k.dest + size
                 THEN DotElement(a, input, k.start + ((i - 1 - k.dest) \div input.cols), (i - 1 - k.dest) % input.cols)
                 ELSE @[i]]]
  /\ UNCHANGED <<ab, dpc, cut, block>>

\* everything else that happens in the pool
PoolStep ==
  /\ \/ \E t \in Threads : Scheduling(t)
     \/ \E w \in Workers : ~(pc[w] = "run" /\ IsBlock(hand[w])) /\ (Working(w) \/ Schedule(w))
     \/ \E c \in Clients : Waiting(c) \/ Stopping(c)
     \/ \E c \in Clients \ {Caller} : Schedule(c) \/ WaitComplete(c) \/ \E wait \in BOOLEAN : Stop(c, wait)
  /\ UNCHANGED dotVars

DotNext == DotCall \/ DotSchedule \/ DotWait \/ DotReturn \/ (\E w \in Workers : RunBlock(w)) \/ PoolStep

DotSpec == DotInit /\ [][DotNext]_allVars

-----------------------------------------------------------------------------
\* dot returns the product, whatever else the pool is doing: the blocks cover the rows,
\* the short last one too, and all of them are done when wait_complete returns.  Only
\* a stop of the pool may leave rows of the result unset.
DotIsProduct == dpc = "done" => (m = dot(a, input) \/ stopped)

\* The operations of a matrix obey the laws of Matrix, with every other matrix of its size
\* that has elements of LawData, and with scalars of both signs.
MatrixLaws ==
  dpc = "call" /\ next = 0 =>
    \A d \in [1 .. Len(a.data) -> LawData], x \in {-2, 0, 5} : Laws(a, [a EXCEPT !.data = d], input, x)
=============================================================================
