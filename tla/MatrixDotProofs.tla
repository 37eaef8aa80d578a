--------------------------- MODULE MatrixDotProofs ---------------------------
(***************************************************************************)
(* Proofs about Matrix and MatrixDot, for every pair of integer matrices   *)
(* that can be multiplied, every number of workers, of clients and of      *)
(* tasks.                                                                  *)
(*                                                                         *)
(* dot is a client of the pool: DotSpec implements Spec, so what is proved *)
(* of the pool holds for dot as well.  That the product is whole when dot  *)
(* returns rests on what wait_complete promises, and on the blocks: they   *)
(* cover the rows, each lies in the result where its rows do, and each was *)
(* given to a task that wait_complete waits for.                           *)
(***************************************************************************)
EXTENDS MatrixDot, WorkerPoolProofs, WellFoundedInduction, NaturalsInduction

Cuts == [start : Nat, end : Nat, dest : Nat, rows : Nat]

\* Every variable of dot has its type, and the result its shape.
DotTypes ==
  /\ ab \in Operands /\ dpc \in {"call", "split", "wait", "done"}
  /\ cut \in Cuts
  /\ block \in [Tasks -> {<<>>} \cup {<<k>> : k \in Cuts}]
  /\ m = [rows |-> a.rows, cols |-> input.cols, data |-> m.data]
  /\ m.data = [i \in 1 .. a.rows * input.cols |-> m.data[i]]

\* The block k lies in the result where its rows do, and holds the elements ...
InPlace(k) == k.start <= k.end /\ k.end <= a.rows /\ k.dest = k.start * input.cols
Elements(k) == k.dest + 1 .. k.dest + (k.end - k.start) * input.cols

\* ... which are right when they are those of the product.
Right(i) == m.data[i] = DotElement(a, input, (i - 1) \div input.cols, (i - 1) % input.cols)

\* The next block begins where the last one ended; dest is of no use any more when the
\* last block was a short one.
CutInPlace ==
  /\ dpc = "call" => cut.start = 0
  /\ dpc = "split" =>
       /\ cut.start <= cut.end /\ cut.end <= a.rows
       /\ cut.start < a.rows => InPlace(cut) /\ (cut.end < a.rows => cut.end = cut.start + cut.rows)
  /\ dpc = "wait" => cut.start >= a.rows

\* A task that has a block was scheduled.
BlocksScheduled ==
  \A t \in Tasks : block[t] # <<>> =>
    InPlace(block[t][1]) /\ t <= next /\ (t \in InPool \/ t = hand[Caller])

\* No row is left out, but of a stopped pool.
RowsCovered ==
  ~stopped => \A r \in 0 .. cut.start - 1 :
                \E t \in Tasks : block[t] # <<>> /\ r \in block[t][1].start .. block[t][1].end - 1

\* A block that is done is right.
DoneRight ==
  \A t \in Tasks : block[t] # <<>> /\ t \in done => \A i \in Elements(block[t][1]) : Right(i)

\* wait_complete waits for every block.
WaitedFor ==
  dpc = "wait" /\ ~stopped => \A t \in Tasks : block[t] # <<>> => t \in before[Caller] \cup done

DotIInv ==
  /\ DotTypes /\ CutInPlace /\ BlocksScheduled /\ RowsCovered /\ DoneRight /\ WaitedFor
  /\ DotIsProduct

USE DEF Threads, Tasks

-----------------------------------------------------------------------------
(* Numbers.                                                                 *)

\* A set of natural numbers has a least element; proofs by induction take the least
\* number for which a claim would fail.
LEMMA LeastNumber ==
  ASSUME NEW T, T \subseteq Nat, T # {}
  PROVE  \E n \in T : \A k \in T : n <= k
<1>1. PICK n \in T : \A k \in T : ~(<<k, n>> \in OpToRel(<, Nat))
  BY NatLessThanWellFounded, WFMin
<1>2. \A k \in T : ~(k < n)
  BY <1>1 DEF OpToRel
<1> QED
  BY <1>2

\* The indices of a flat array of rows of c elements: row q begins at q * c.
LEMMA DivMod ==
  ASSUME NEW c \in Nat, NEW q \in Nat, NEW r \in 0 .. c - 1
  PROVE  (q * c + r) \div c = q /\ (q * c + r) % c = r
<1> DEFINE n == q * c + r
           d == n \div c
           e == n % c
           k == d - q
<1>1. c > 0 /\ n \in Nat /\ n = q * c + r
  OBVIOUS
<1>2. d \in Nat /\ e \in 0 .. c - 1 /\ n = d * c + e
  <2> HIDE DEF n
  <2> QED
    BY <1>1
<1>3. k \in Int /\ k * c = r - e /\ r - e < c /\ r - e > -c /\ d = k + q
  <2> HIDE DEF n, d, e
  <2> QED
    BY <1>1, <1>2
<1> HIDE DEF n, d, e, k
<1>4. k < 1
  <2> SUFFICES ASSUME k >= 1 PROVE k * c >= c
    BY <1>2, <1>3
  <2> QED
    BY <1>3
<1>5. k > -1
  <2> SUFFICES ASSUME k <= -1 PROVE k * c <= -c
    BY <1>2, <1>3
  <2> QED
    BY <1>3
<1>6. k = 0 /\ d = q /\ e = r
  BY <1>1, <1>2, <1>3, <1>4, <1>5
<1> QED
  BY <1>6 DEF n, d, e

\* ... and every index lies in a row and in a column.
LEMMA RowAndColumn ==
  ASSUME NEW s \in Nat, NEW c \in Nat, NEW i \in 1 .. s * c
  PROVE  /\ c > 0
         /\ (i - 1) \div c \in 0 .. s - 1 /\ (i - 1) % c \in 0 .. c - 1
         /\ i - 1 = ((i - 1) \div c) * c + ((i - 1) % c)
<1> DEFINE p == s * c
           d == (i - 1) \div c
           e == (i - 1) % c
<1>1. p \in Nat /\ i \in 1 .. p /\ c # 0
  OBVIOUS
<1>2. d \in Nat /\ e \in 0 .. c - 1 /\ i - 1 = d * c + e
  <2> HIDE DEF p
  <2> QED
    BY <1>1
<1>3. d < s
  <2> SUFFICES ASSUME d >= s PROVE d * c >= s * c
    BY <1>1, <1>2
  <2> HIDE DEF d
  <2> QED
    BY <1>2
<1> QED
  BY <1>1, <1>2, <1>3

-----------------------------------------------------------------------------
(* dot is a client of the pool.                                             *)

\* Every step of dot is a step of the pool, or leaves it alone.
LEMMA DotStepsThePool ==
  ASSUME [DotNext]_allVars
  PROVE  [Next]_vars
<1>1. CASE DotCall
  BY <1>1 DEF DotCall
<1>2. CASE DotSchedule
  <2>1. CASE Schedule(Caller)
    BY <2>1, CallerAssumption DEF Next
  <2> QED
    BY <1>2, <2>1 DEF DotSchedule
<1>3. CASE DotWait
  BY <1>3, CallerAssumption DEF DotWait, Next
<1>4. CASE DotReturn
  BY <1>4 DEF DotReturn
<1>5. ASSUME NEW w \in Workers, RunBlock(w) PROVE [Next]_vars
  BY <1>5 DEF RunBlock, Next, Working
<1>6. CASE PoolStep
  BY <1>6 DEF PoolStep, Next
<1>7. CASE UNCHANGED allVars
  BY <1>7 DEF allVars
<1> QED
  BY <1>1, <1>2, <1>3, <1>4, <1>5, <1>6, <1>7 DEF DotNext

\* The pool that dot uses is the pool of WorkerPool, whatever dot does with it.
THEOREM DotUsesThePool == DotSpec => Spec
<1>1. DotInit => Init
  BY DEF DotInit
<1>2. [DotNext]_allVars => [Next]_vars
  BY DotStepsThePool
<1> QED
  BY <1>1, <1>2, PTL DEF DotSpec, Spec

\* The invariant of the pool holds for dot.
LEMMA PoolInvariant == DotSpec => []IInv
BY DotUsesThePool, IInvInvariant

-----------------------------------------------------------------------------
(* What the other threads do to the tasks of dot.                           *)

\* Tasks stay in the pool, and the caller waits for no fewer.
PoolGoesOn ==
  /\ next' \in Nat /\ next <= next' /\ InPool \subseteq InPool' /\ (stopped => stopped')
  /\ done \subseteq done' /\ before[Caller] \subseteq before'[Caller]
  /\ hand'[Caller] = hand[Caller] \/ hand[Caller] \in InPool'

\* A step that moves no task.
LEMMA NoTaskMoves ==
  ASSUME IInv, UNCHANGED <<queue, hand, next, done, dropped>>, stopped => stopped',
         before'[Caller] = before[Caller]
  PROVE  PoolGoesOn
BY DEF IInv, TypeOK, PoolGoesOn, InPool, InQueue, InHand

\* schedule by another client, or by a task.
LEMMA ScheduleGoesOn ==
  ASSUME IInv, NEW t \in Threads \ {Caller}, Schedule(t)
  PROVE  PoolGoesOn
<1>1. /\ next' = next + 1 /\ next \in Nat
      /\ UNCHANGED <<queue, done, dropped, stopped, before>>
  BY DEF Schedule, IInv, TypeOK
<1>2. hand' = hand \/ (t \in Clients /\ hand' = [hand EXCEPT ![t] = next'])
  BY DEF Schedule
<1>3. hand'[Caller] = hand[Caller] /\ \A w \in Workers : hand'[w] = hand[w]
  BY <1>2, CallerAssumption, ThreadsAssumption DEF IInv, TypeOK
<1>4. InHand' = InHand
  BY <1>3 DEF InHand
<1> QED
  BY <1>1, <1>3, <1>4 DEF PoolGoesOn, InPool, InQueue

\* The push: the task of the caller gets into the pool.
LEMMA PushGoesOn ==
  ASSUME IInv, NEW t \in Threads, Push(t)
  PROVE  PoolGoesOn
<1> DEFINE x == IF t \in Clients THEN hand[t] ELSE child[t]
<1>1. /\ pc[t] = "push" /\ queue' = Append(queue, x)
      /\ UNCHANGED <<next, done, dropped, stopped>>
      /\ hand' = hand \/ (t \in Clients /\ hand' = [hand EXCEPT ![t] = 0])
  BY ThreadsAssumption DEF Push
<1>2. x \in Tasks
  BY <1>1, ThreadsAssumption DEF IInv, TypeOK, Hands
<1>3. InQueue' = InQueue \cup {x}
  BY <1>1, <1>2, QueueAppend DEF IInv, TypeOK
<1>4. before[Caller] \subseteq before'[Caller]
  BY CallerAssumption DEF Push, IInv, TypeOK
<1>5. /\ \A w \in Workers : hand'[w] = hand[w]
      /\ hand'[Caller] = hand[Caller] \/ (t = Caller /\ x = hand[Caller])
  BY <1>1, CallerAssumption, ThreadsAssumption DEF IInv, TypeOK
<1>6. InHand' = InHand
  BY <1>5 DEF InHand
<1> QED
  BY <1>1, <1>3, <1>4, <1>5, <1>6 DEF PoolGoesOn, InPool, IInv, TypeOK

\* A worker takes a task from the queue, gives it up or returns from it: the task
\* stays accounted for.
LEMMA TaskGoesOn ==
  ASSUME IInv, NEW w \in Workers, Pop(w) \/ Popped(w) \/ TaskReturns(w)
  PROVE  PoolGoesOn
<1>1. /\ next' = next /\ next \in Nat /\ before' = before /\ stopped' = stopped
      /\ hand \in [Threads -> Tasks \cup {0}] /\ queue \in Seq(Tasks)
      /\ \A i, j \in 1 .. Len(queue) : queue[i] = queue[j] => i = j
  BY DEF Pop, Popped, TaskReturns, IInv, TypeOK, TaskInOnePlace
<1>2. \E x : /\ hand' = hand \/ hand' = [hand EXCEPT ![w] = x]
             /\ hand[w] = 0 \/ hand' = hand \/ hand[w] \in done' \cup dropped'
             /\ done \subseteq done' /\ dropped \subseteq dropped'
             /\ \/ queue' = queue
                \/ queue # <<>> /\ queue' = Tail(queue) /\ hand' = [hand EXCEPT ![w] = x]
                   /\ x = Head(queue)
  <2>1. CASE Pop(w)
    <3>1. hand[w] = 0
      BY <2>1 DEF Pop, IInv, Hands, CarryPcs
    <3> QED
      BY <2>1, <3>1 DEF Pop, Remaining
  <2>2. CASE Popped(w)
    BY <2>2 DEF Popped
  <2>3. CASE TaskReturns(w)
    BY <2>3 DEF TaskReturns
  <2> QED
    BY <2>1, <2>2, <2>3
<1>3. hand'[Caller] = hand[Caller]
  BY <1>1, <1>2, CallerAssumption, ThreadsAssumption
<1>4. InQueue \subseteq InQueue' \cup InHand'
  <2>1. CASE queue' = queue
    BY <2>1 DEF InQueue
  <2>2. CASE queue # <<>> /\ queue' = Tail(queue) /\ hand' = [hand EXCEPT ![w] = Head(queue)]
    <3>1. InQueue' = InQueue \ {Head(queue)} /\ Head(queue) \in Tasks
      BY <1>1, <2>2, QueuePop
    <3>2. hand'[w] = Head(queue) /\ hand'[w] # 0
      BY <1>1, <2>2, <3>1
    <3> QED
      BY <3>1, <3>2 DEF InHand
  <2> QED
    BY <1>2, <2>1, <2>2
<1>5. InHand \subseteq InPool'
  <2> SUFFICES ASSUME NEW v \in Workers, hand[v] # 0 PROVE hand[v] \in InPool'
    BY DEF InHand
  <2>1. CASE hand'[v] = hand[v]
    BY <2>1 DEF InHand, InPool
  <2>2. CASE hand'[v] # hand[v]
    <3>1. v = w
      BY <1>1, <1>2, <2>2
    <3> QED
      BY <1>2, <2>2, <3>1 DEF InPool
  <2> QED
    BY <2>1, <2>2
<1> QED
  BY <1>1, <1>2, <1>3, <1>4, <1>5 DEF PoolGoesOn, InPool

\* A step of the pool that is none of dot's: no block is done by it, and the caller
\* does not begin to wait.
LEMMA PoolStepGoesOn ==
  ASSUME IInv, PoolStep
  PROVE  /\ PoolGoesOn
         /\ \A t \in done' \ done : ~IsBlock(t)
<1>1. ASSUME NEW t \in Threads, Scheduling(t) PROVE PoolGoesOn /\ done' = done
  <2>1. CASE Push(t)
    BY <2>1, PushGoesOn DEF Push
  <2>2. CASE Notify(t)
    BY <2>2, NoTaskMoves DEF Notify
  <2> QED
    BY <1>1, <2>1, <2>2 DEF Scheduling
<1>2. ASSUME NEW w \in Workers, ~(pc[w] = "run" /\ IsBlock(hand[w])), Working(w)
      PROVE  PoolGoesOn /\ \A t \in done' \ done : ~IsBlock(t)
  <2>1. CASE Loop(w) \/ Enter(w) \/ Leave(w) \/ Check(w) \/ Park(w) \/ Woken(w)
    <3>1. UNCHANGED <<queue, hand, before, next, done, dropped, stopped>>
      BY <2>1 DEF Loop, Enter, Leave, Check, Park, Woken
    <3> QED
      BY <3>1, NoTaskMoves
  <2>2. CASE Pop(w) \/ Popped(w)
    BY <2>2, TaskGoesOn DEF Pop, Popped
  <2>3. CASE TaskReturns(w)
    BY <1>2, <2>3, TaskGoesOn DEF TaskReturns
  <2> QED
    BY <1>2, <2>1, <2>2, <2>3 DEF Working
<1>3. ASSUME NEW w \in Workers, Schedule(w) PROVE PoolGoesOn /\ done' = done
  <2>1. w \in Threads \ {Caller}
    BY CallerAssumption, ThreadsAssumption
  <2> QED
    BY <1>3, <2>1, ScheduleGoesOn DEF Schedule
<1>4. ASSUME NEW c \in Clients, Waiting(c) \/ Stopping(c) PROVE PoolGoesOn /\ done' = done
  <2>1. UNCHANGED <<queue, hand, before, next, done, dropped, stopped>>
    BY <1>4 DEF Waiting, Stopping, TestQueue, TestWorking, StopRunning, StopNotify, StopJoin
  <2> QED
    BY <2>1, NoTaskMoves
<1>5. ASSUME NEW c \in Clients \ {Caller},
             Schedule(c) \/ WaitComplete(c) \/ \E wait \in BOOLEAN : Stop(c, wait)
      PROVE  PoolGoesOn /\ done' = done
  <2>1. CASE Schedule(c)
    BY <2>1, ScheduleGoesOn DEF Schedule
  <2>2. CASE WaitComplete(c)
    <3>1. before'[Caller] = before[Caller]
      BY <2>2, CallerAssumption DEF WaitComplete, IInv, TypeOK
    <3> QED
      BY <2>2, <3>1, NoTaskMoves DEF WaitComplete
  <2>3. CASE \E wait \in BOOLEAN : Stop(c, wait)
    BY <2>3, NoTaskMoves DEF Stop
  <2> QED
    BY <1>5, <2>1, <2>2, <2>3
<1> QED
  BY <1>1, <1>2, <1>3, <1>4, <1>5 DEF PoolStep

-----------------------------------------------------------------------------
(* The blocks.                                                              *)

\* What the operands are.
LEMMA OperandFacts ==
  ASSUME ab \in Operands
  PROVE  /\ IsMatrix(a) /\ IsMatrix(input) /\ a.cols = input.rows
         /\ a.rows \in Nat /\ a.cols \in Nat /\ input.cols \in Nat
BY OperandsAssumption DEF a, input, IsMatrix

\* the condition of the loop that doubles the rows of a block
TooLittle(n) == n * a.cols * input.cols < MinWork /\ n < a.rows

\* The loop ends: every number of rows has a result.
LEMMA GrowEnds ==
  ASSUME a.rows \in Nat
  PROVE  \E g : g = [n \in 1 .. 2 * a.rows + 1 |-> IF TooLittle(n) THEN g[2 * n] ELSE n]
<1> DEFINE last == 2 * a.rows + 1
           From(d) == last - d .. last
           Solves(g, d) == g = [n \in From(d) |-> IF TooLittle(n) THEN g[2 * n] ELSE n]
           Bad == {d \in 0 .. last - 1 : ~\E g : Solves(g, d)}
<1>0. last \in Nat /\ last >= 1 /\ \A n \in Nat : TooLittle(n) => 2 * n <= last
  BY DEF TooLittle
<1> HIDE DEF last
<1>1. Bad = {}
  <2> SUFFICES ASSUME Bad # {} PROVE FALSE
    OBVIOUS
  <2>1. Bad \subseteq Nat
    OBVIOUS
  <2> HIDE DEF Bad
  <2>2. PICK d \in Bad : \A e \in Bad : d <= e
    BY <2>1, LeastNumber
  <2>3. d \in 0 .. last - 1 /\ ~\E g : Solves(g, d)
    BY DEF Bad
  <2>4. d # 0
    <3> SUFFICES ASSUME d = 0 PROVE FALSE
      OBVIOUS
    <3> DEFINE g == [n \in From(0) |-> n]
    <3>1. \A n \in From(0) : n = last /\ n \in Nat /\ ~TooLittle(n)
      BY <1>0
    <3>2. Solves(g, 0)
      BY <3>1
    <3> QED
      BY <2>3, <3>2
  <2>5. d - 1 \in 0 .. last - 1 /\ d - 1 \notin Bad
    BY <1>0, <2>2, <2>3, <2>4
  <2>6. PICK h : Solves(h, d - 1)
    BY <2>5 DEF Bad
  <2> DEFINE low == last - d
             g == [n \in From(d) |-> IF n # low THEN h[n]
                                     ELSE IF TooLittle(n) THEN h[2 * n] ELSE n]
  <2>7. /\ low >= 1 /\ low \in Nat /\ From(d) = From(d - 1) \cup {low} /\ low \notin From(d - 1)
        /\ From(d - 1) = low + 1 .. last /\ From(d) = low .. last
    BY <1>0, <2>3
  <2>8. ASSUME NEW n \in From(d)
        PROVE  g[n] = IF TooLittle(n) THEN g[2 * n] ELSE n
    <3>1. n \in Nat /\ n >= 1 /\ (TooLittle(n) => 2 * n \in From(d - 1))
      <4>1. n \in Nat /\ n >= low /\ n >= 1
        BY <1>0, <2>3, <2>7
      <4>2. ASSUME TooLittle(n) PROVE 2 * n \in low + 1 .. last
        BY <1>0, <2>7, <4>1, <4>2
      <4> QED
        BY <2>7, <4>1, <4>2
    <3>2. \A k \in From(d - 1) : g[k] = h[k]
      BY <2>7
    <3>3. CASE n = low
      BY <3>1, <3>2, <3>3
    <3>4. CASE n # low
      <4>1. n \in From(d - 1)
        BY <2>7, <3>4
      <4>2. h[n] = IF TooLittle(n) THEN h[2 * n] ELSE n
        BY <2>6, <4>1
      <4> QED
        BY <3>1, <3>2, <4>1, <4>2
    <3> QED
      BY <3>3, <3>4
  <2>9. Solves(g, d)
    <3> HIDE DEF low
    <3>1. g = [n \in From(d) |-> g[n]]
      OBVIOUS
    <3> QED
      BY <2>8, <3>1
  <2> QED
    BY <2>3, <2>9
<1>2. PICK g : Solves(g, last - 1)
  BY <1>0, <1>1
<1>3. From(last - 1) = 1 .. last
  BY <1>0
<1> QED
  BY <1>2, <1>3 DEF last

\* A block has at least one row, so the loop that schedules them ends.
LEMMA BlockRowsFacts ==
  ASSUME ab \in Operands
  PROVE  BlockRows \in Nat \ {0}
<1> DEFINE last == 2 * a.rows + 1
           G == CHOOSE g : g = [n \in 1 .. last |-> IF n * a.cols * input.cols < MinWork /\ n < a.rows
                                                   THEN g[2 * n] ELSE n]
           share == IF a.rows \div Cardinality(Workers) = 0 THEN 1 ELSE a.rows \div Cardinality(Workers)
           Bad == {d \in 0 .. last - 1 : G[last - d] \notin last - d .. last}
<1>1. a.rows \in Nat
  BY OperandFacts
<1>2. G = [n \in 1 .. last |-> IF TooLittle(n) THEN G[2 * n] ELSE n]
  BY <1>1, GrowEnds DEF TooLittle
<1>3. BlockRows = G[share]
  BY DEF BlockRows
<1>4. last \in Nat /\ last >= 1 /\ \A n \in Nat : TooLittle(n) => 2 * n <= last
  BY <1>1 DEF TooLittle
<1> HIDE DEF G
<1>5. share \in 1 .. last
  <2> DEFINE c == Cardinality(Workers)
  <2>1. c \in Nat /\ c # 0
    BY WorkersAssumption, FS_CardinalityType, FS_EmptySet
  <2> HIDE DEF c
  <2>2. a.rows \div c \in Nat /\ a.rows \div c <= a.rows
    BY <1>1, <2>1
  <2> QED
    BY <1>1, <2>2 DEF c
<1> HIDE DEF last, share
<1>6. Bad = {}
  <2> SUFFICES ASSUME Bad # {} PROVE FALSE
    OBVIOUS
  <2>1. Bad \subseteq Nat
    OBVIOUS
  <2> HIDE DEF Bad
  <2>2. PICK d \in Bad : \A e \in Bad : d <= e
    BY <2>1, LeastNumber
  <2> DEFINE n == last - d
  <2>3. /\ d \in 0 .. last - 1 /\ n \in 1 .. last /\ n \in Nat
        /\ G[n] \notin n .. last
    BY <1>4 DEF Bad
  <2>4. TooLittle(n) /\ G[n] = G[2 * n] /\ 2 * n <= last
    BY <1>2, <1>4, <2>3
  <2>5. last - 2 * n \in 0 .. last - 1 /\ last - 2 * n \notin Bad
    BY <1>4, <2>2, <2>3, <2>4
  <2>6. G[2 * n] \in 2 * n .. last
    <3>1. last - (last - 2 * n) = 2 * n
      BY <1>4, <2>3
    <3> QED
      BY <2>5, <3>1 DEF Bad
  <2> QED
    BY <1>4, <2>3, <2>4, <2>6
<1>7. last - share \in 0 .. last - 1 /\ last - (last - share) = share
  BY <1>4, <1>5
<1>8. G[share] \in share .. last
  BY <1>6, <1>7
<1> QED
  BY <1>3, <1>5, <1>8

\* The smaller of two numbers.
LEMMA MinFacts ==
  ASSUME NEW i \in Nat, NEW j \in Nat
  PROVE  Min({i, j}) = IF i <= j THEN i ELSE j
BY DEF Min

\* An element of a block in its place is an element of the product, in the same row and
\* column.
LEMMA BlockElement ==
  ASSUME ab \in Operands, NEW k \in Cuts, InPlace(k), NEW i \in Elements(k)
  PROVE  /\ i \in 1 .. a.rows * input.cols
         /\ k.start + ((i - 1 - k.dest) \div input.cols) = (i - 1) \div input.cols
         /\ (i - 1 - k.dest) % input.cols = (i - 1) % input.cols
<1> DEFINE c == input.cols
           s == k.end - k.start
           j == i - k.dest
           q == (j - 1) \div c
           r == (j - 1) % c
<1>1. /\ c \in Nat /\ s \in Nat /\ a.rows \in Nat /\ k.start \in Nat /\ k.dest \in Nat
      /\ k.start + s <= a.rows /\ k.dest = k.start * c
  BY OperandFacts DEF Cuts, InPlace
<1>2. i \in Nat /\ j \in 1 .. s * c
  <2> DEFINE p == s * c
  <2>1. p \in Nat
    BY <1>1
  <2>2. i \in k.dest + 1 .. k.dest + p
    BY DEF Elements
  <2> HIDE DEF p
  <2> QED
    BY <1>1, <2>1, <2>2 DEF p
<1> HIDE DEF c, s, j
<1>3. c > 0 /\ q \in 0 .. s - 1 /\ r \in 0 .. c - 1 /\ j - 1 = q * c + r
  BY <1>1, <1>2, RowAndColumn
<1> HIDE DEF q, r
<1>4. i - 1 = (k.start + q) * c + r /\ i - 1 - k.dest = j - 1
  BY <1>1, <1>2, <1>3 DEF j
<1>5. k.start + q \in Nat /\ k.start + q < a.rows
  BY <1>1, <1>3
<1>6. (i - 1) \div c = k.start + q /\ (i - 1) % c = r
  <2> DEFINE n == k.start + q
  <2>1. n \in Nat /\ i - 1 = n * c + r
    BY <1>4, <1>5
  <2> HIDE DEF n
  <2>2. (n * c + r) \div c = n /\ (n * c + r) % c = r
    BY <1>1, <1>3, <2>1, DivMod
  <2> QED
    BY <2>1, <2>2 DEF n
<1>7. i \in 1 .. a.rows * c
  <2> DEFINE n == k.start + q + 1
  <2>1. n \in Nat /\ n <= a.rows /\ i - 1 = (n - 1) * c + r /\ n >= 1
    BY <1>1, <1>4, <1>5
  <2> HIDE DEF n
  <2>2. n * c <= a.rows * c /\ (n - 1) * c = n * c - c /\ (n - 1) * c >= 0
    BY <1>1, <2>1
  <2> QED
    BY <1>1, <1>2, <1>3, <2>1, <2>2
<1> QED
  BY <1>4, <1>6, <1>7 DEF c, q, r

-----------------------------------------------------------------------------
(* Every step of dot keeps DotIInv.                                         *)

\* While the operands are the same, so is what a block is.
LEMMA SameBlocks ==
  ASSUME ab' = ab
  PROVE  /\ a' = a /\ input' = input
         /\ \A k : (InPlace(k)' <=> InPlace(k)) /\ Elements(k)' = Elements(k)
         /\ \A i : m'.data[i] = m.data[i] => (Right(i)' <=> Right(i))
BY DEF a, input, InPlace, Elements, Right

\* The constructor and the call.
LEMMA DotInitially == DotInit => DotIInv
<1> SUFFICES ASSUME DotInit PROVE DotIInv
  OBVIOUS
<1>1. a.rows \in Nat /\ input.cols \in Nat
  BY OperandFacts DEF DotInit
<1>2. \A t \in Tasks : block[t] = <<>>
  BY DEF DotInit
<1>3. DotTypes
  BY DEF DotInit, DotTypes, Cuts, NewMatrix
<1>4. CutInPlace /\ RowsCovered
  BY DEF DotInit, CutInPlace, RowsCovered
<1>5. BlocksScheduled /\ DoneRight /\ WaitedFor
  BY <1>2 DEF BlocksScheduled, DoneRight, WaitedFor
<1>6. DotIsProduct
  BY DEF DotInit, DotIsProduct
<1> QED
  BY <1>3, <1>4, <1>5, <1>6 DEF DotIInv

\* What a step of the pool leaves as it was.
LEMMA BlocksStayScheduled ==
  ASSUME IInv, BlocksScheduled, PoolGoesOn, UNCHANGED <<ab, block>>
  PROVE  BlocksScheduled'
<1> SUFFICES ASSUME NEW t \in Tasks, block[t] # <<>>
             PROVE  InPlace(block[t][1])' /\ t <= next' /\ (t \in InPool' \/ t = hand'[Caller])
  BY DEF BlocksScheduled
<1>1. InPlace(block[t][1]) /\ t <= next /\ (t \in InPool \/ t = hand[Caller])
  BY DEF BlocksScheduled
<1>2. InPlace(block[t][1])'
  BY <1>1, SameBlocks DEF InPlace
<1>3. t <= next'
  BY <1>1 DEF PoolGoesOn, IInv, TypeOK
<1> QED
  BY <1>1, <1>2, <1>3 DEF PoolGoesOn

\* A step of the pool, and return.
LEMMA OthersKeep ==
  ASSUME IInv, DotIInv, PoolGoesOn, UNCHANGED <<ab, cut, block, m>>,
         dpc' = dpc \/ (dpc = "wait" /\ dpc' = "done" /\ DotIsProduct'),
         \A t \in done' \ done : ~IsBlock(t)
  PROVE  DotIInv'
<1>1. DotTypes' /\ CutInPlace'
  BY SameBlocks DEF DotIInv, DotTypes, CutInPlace, InPlace
<1>2. BlocksScheduled'
  BY BlocksStayScheduled DEF DotIInv
<1>3. RowsCovered'
  BY DEF PoolGoesOn, DotIInv, RowsCovered
<1>4. DoneRight'
  <2> SUFFICES ASSUME NEW t \in Tasks, block[t] # <<>>, t \in done',
                      NEW i \in Elements(block[t][1])'
               PROVE  Right(i)'
    BY DEF DoneRight
  <2>1. t \in done
    BY DEF IsBlock
  <2>2. i \in Elements(block[t][1])
    BY SameBlocks DEF Elements
  <2>3. Right(i)
    BY <2>1, <2>2 DEF DotIInv, DoneRight
  <2> QED
    BY <2>3, SameBlocks
<1>5. WaitedFor'
  <2> SUFFICES ASSUME dpc' = "wait", ~stopped', NEW t \in Tasks, block[t] # <<>>
               PROVE  t \in before'[Caller] \cup done'
    BY DEF WaitedFor
  <2>1. dpc = "wait" /\ ~stopped
    BY DEF PoolGoesOn
  <2>2. t \in before[Caller] \cup done
    BY <2>1 DEF DotIInv, WaitedFor
  <2>3. done \subseteq done'
    BY DEF PoolGoesOn
  <2> QED
    BY <2>2, <2>3 DEF PoolGoesOn
<1>6. DotIsProduct'
  BY SameBlocks DEF DotIInv, DotIsProduct, PoolGoesOn
<1> QED
  BY <1>1, <1>2, <1>3, <1>4, <1>5, <1>6 DEF DotIInv

\* The blocks that were given to tasks.
LEMMA BlockFacts ==
  ASSUME DotIInv, NEW t \in Tasks, block[t] # <<>>
  PROVE  /\ ab \in Operands /\ block[t][1] \in Cuts /\ block[t] = <<block[t][1]>>
         /\ InPlace(block[t][1])
BY DEF DotIInv, DotTypes, BlocksScheduled

\* The product, element by element.
LEMMA ProductFacts ==
  ASSUME DotTypes
  PROVE  m = dot(a, input) <=> \A i \in 1 .. a.rows * input.cols : Right(i)
<1> DEFINE E(i) == DotElement(a, input, (i - 1) \div input.cols, (i - 1) % input.cols)
           D == [i \in 1 .. a.rows * input.cols |-> E(i)]
<1>1. dot(a, input) = [rows |-> a.rows, cols |-> input.cols, data |-> D]
  BY DEF dot, Filled
<1>2. /\ m = [rows |-> a.rows, cols |-> input.cols, data |-> m.data]
      /\ m.data = [i \in 1 .. a.rows * input.cols |-> m.data[i]]
  BY DEF DotTypes
<1>3. m = dot(a, input) <=> m.data = D
  BY <1>1, <1>2
<1>4. m.data = D <=> \A i \in 1 .. a.rows * input.cols : m.data[i] = E(i)
  BY <1>2
<1> QED
  BY <1>3, <1>4 DEF Right

\* The call: the other dot, or the first block.
LEMMA DotCallKeeps ==
  ASSUME IInv, DotIInv, DotCall
  PROVE  DotIInv'
<1>1. /\ UNCHANGED <<running, waitStop, working, queue, cmutex, pc, hand, child, seen, before,
                     next, done, dropped, stopped, ab, block>>
      /\ dpc = "call" /\ cut.start = 0
  BY DEF DotCall, vars, DotIInv, CutInPlace
<1>2. ab \in Operands /\ a.rows \in Nat /\ input.cols \in Nat
  BY OperandFacts DEF DotIInv, DotTypes
<1>3. CASE BlockRows >= a.rows
  <2>1. m' = dot(a, input) /\ dpc' = "done" /\ cut' = cut
    BY <1>3 DEF DotCall
  <2>2. /\ m' = [rows |-> a.rows, cols |-> input.cols, data |-> m'.data]
        /\ m'.data = [i \in 1 .. a.rows * input.cols |->
                        DotElement(a, input, (i - 1) \div input.cols, (i - 1) % input.cols)]
    BY <2>1 DEF dot, Filled
  <2>3. DotTypes'
    BY <1>1, <2>1, <2>2, SameBlocks DEF DotIInv, DotTypes
  <2>4. CutInPlace' /\ RowsCovered' /\ WaitedFor'
    BY <1>1, <2>1 DEF CutInPlace, RowsCovered, WaitedFor, DotIInv
  <2>5. BlocksScheduled'
    BY <1>1, NoTaskMoves, BlocksStayScheduled DEF DotIInv
  <2>6. DoneRight'
    <3> SUFFICES ASSUME NEW t \in Tasks, block[t] # <<>>, NEW i \in Elements(block[t][1])
                 PROVE  Right(i)'
      BY <1>1, SameBlocks DEF DoneRight, Elements
    <3>1. i \in 1 .. a.rows * input.cols
      BY BlockFacts, BlockElement
    <3> QED
      BY <1>1, <2>2, <3>1, SameBlocks DEF Right
  <2>7. DotIsProduct'
    BY <1>1, <2>1, SameBlocks DEF DotIsProduct
  <2> QED
    BY <2>3, <2>4, <2>5, <2>6, <2>7 DEF DotIInv
<1>4. CASE ~(BlockRows >= a.rows)
  <2>1. /\ dpc' = "split" /\ m' = m
        /\ cut' = [start |-> 0, end |-> BlockRows, dest |-> 0, rows |-> BlockRows]
    BY <1>4 DEF DotCall
  <2>2. BlockRows \in Nat /\ BlockRows < a.rows
    BY <1>2, <1>4, BlockRowsFacts
  <2>3. DotTypes'
    BY <1>1, <2>1, <2>2, SameBlocks DEF DotIInv, DotTypes, Cuts
  <2>4. CutInPlace'
    BY <1>1, <1>2, <2>1, <2>2, SameBlocks DEF CutInPlace, InPlace
  <2>5. RowsCovered' /\ WaitedFor'
    BY <2>1 DEF RowsCovered, WaitedFor
  <2>6. BlocksScheduled'
    BY <1>1, NoTaskMoves, BlocksStayScheduled DEF DotIInv
  <2>7. DoneRight'
    BY <1>1, <2>1, SameBlocks DEF DotIInv, DoneRight, Elements
  <2>8. DotIsProduct'
    BY <2>1 DEF DotIsProduct
  <2> QED
    BY <2>3, <2>4, <2>5, <2>6, <2>7, <2>8 DEF DotIInv
<1> QED
  BY <1>3, <1>4

\* The next block.
LEMMA NextCutFacts ==
  ASSUME DotIInv, dpc = "split", cut.start < a.rows
  PROVE  /\ NextCut \in Cuts /\ NextCut.start = cut.end
         /\ NextCut.start <= NextCut.end /\ NextCut.end <= a.rows
         /\ NextCut.start < a.rows =>
              InPlace(NextCut) /\ (NextCut.end < a.rows => NextCut.end = NextCut.start + NextCut.rows)
<1> DEFINE c == input.cols
<1>1. a.rows \in Nat /\ c \in Nat /\ cut \in Cuts
  BY OperandFacts DEF DotIInv, DotTypes
<1>2. /\ cut.start \in Nat /\ cut.end \in Nat /\ cut.dest \in Nat /\ cut.rows \in Nat
      /\ InPlace(cut) /\ (cut.end < a.rows => cut.end = cut.start + cut.rows)
  BY <1>1 DEF Cuts, DotIInv, CutInPlace
<1>3. /\ NextCut.start = cut.end /\ NextCut.dest = cut.dest + cut.rows * c
      /\ NextCut.rows = cut.rows
      /\ NextCut.end = IF cut.end + cut.rows <= a.rows THEN cut.end + cut.rows ELSE a.rows
      /\ NextCut = [start |-> NextCut.start, end |-> NextCut.end, dest |-> NextCut.dest, rows |-> NextCut.rows]
  BY <1>1, <1>2, MinFacts DEF NextCut
<1>4. cut.start * c \in Nat /\ cut.rows * c \in Nat
  BY <1>1, <1>2
<1>5. NextCut \in Cuts
  BY <1>1, <1>2, <1>3, <1>4 DEF Cuts
<1>6. NextCut.start <= NextCut.end /\ NextCut.end <= a.rows
  BY <1>1, <1>2, <1>3 DEF InPlace
<1>7. ASSUME NextCut.start < a.rows
      PROVE  /\ NextCut.dest = NextCut.start * c
             /\ NextCut.end < a.rows => NextCut.end = NextCut.start + NextCut.rows
  <2>1. cut.end = cut.start + cut.rows /\ cut.dest = cut.start * c
    BY <1>2, <1>3, <1>7 DEF InPlace
  <2>2. (cut.start + cut.rows) * c = cut.start * c + cut.rows * c
    BY <1>1, <1>2
  <2> QED
    BY <1>1, <1>2, <1>3, <2>1, <2>2
<1> QED
  BY <1>3, <1>5, <1>6, <1>7 DEF InPlace

\* A turn of the loop: the next block for a new task, or for none when the pool was
\* stopped.
LEMMA DotScheduleKeeps ==
  ASSUME IInv, DotIInv, DotSchedule
  PROVE  DotIInv'
<1>1. /\ dpc = "split" /\ dpc' = "split" /\ pc[Caller] = "idle" /\ cut.start < a.rows
      /\ cut' = NextCut /\ UNCHANGED <<ab, m>>
  BY DEF DotSchedule
<1>2. a.rows \in Nat /\ cut \in Cuts /\ cut.start \in Nat /\ cut.end \in Nat /\ InPlace(cut)
  BY <1>1, OperandFacts DEF DotIInv, DotTypes, CutInPlace, Cuts
<1>3. CutInPlace' /\ WaitedFor' /\ DotIsProduct'
  BY <1>1, NextCutFacts, SameBlocks DEF CutInPlace, InPlace, WaitedFor, DotIsProduct
<1>4. CASE Schedule(Caller) /\ block' = [block EXCEPT ![next'] = <<cut>>]
  <2>1. /\ next' = next + 1 /\ next \in Nat /\ next' \in Tasks
        /\ hand' = [hand EXCEPT ![Caller] = next']
        /\ UNCHANGED <<queue, before, done, dropped, stopped>>
    BY <1>4, CallerAssumption, ThreadsAssumption, MaxTasksAssumption DEF Schedule, IInv, TypeOK
  <2>2. /\ block' \in [Tasks -> {<<>>} \cup {<<k>> : k \in Cuts}]
        /\ block'[next'] = <<cut>>
        /\ \A t \in Tasks \ {next'} : block'[t] = block[t]
    BY <1>2, <1>4, <2>1 DEF DotIInv, DotTypes
  <2>3. DotTypes'
    BY <1>1, <2>2, NextCutFacts, SameBlocks DEF DotIInv, DotTypes
  <2>4. InPool' = InPool /\ hand'[Caller] = next' /\ hand[Caller] = 0
    <3>1. hand'[Caller] = next' /\ \A w \in Workers : hand'[w] = hand[w]
      BY <2>1, CallerAssumption, ThreadsAssumption DEF IInv, TypeOK
    <3>2. hand[Caller] = 0
      BY <1>1, CallerAssumption DEF IInv, Hands
    <3> QED
      BY <2>1, <3>1, <3>2 DEF InPool, InQueue, InHand
  <2>5. BlocksScheduled'
    <3> SUFFICES ASSUME NEW t \in Tasks, block'[t] # <<>>
                 PROVE  InPlace(block[t][1])' /\ t <= next' /\ (t \in InPool' \/ t = hand'[Caller])
      BY DEF BlocksScheduled
    <3>1. CASE t = next'
      BY <1>1, <1>2, <2>1, <2>2, <2>4, <3>1, SameBlocks DEF InPlace
    <3>2. CASE t # next'
      <4>1. InPlace(block[t][1]) /\ t <= next /\ (t \in InPool \/ t = 0)
        BY <2>2, <2>4, <3>2 DEF DotIInv, BlocksScheduled
      <4> QED
        BY <1>1, <2>1, <2>2, <2>4, <3>2, <4>1, SameBlocks DEF InPlace
    <3> QED
      BY <3>1, <3>2
  <2>6. RowsCovered'
    <3> SUFFICES ASSUME ~stopped, NEW r \in 0 .. cut.end - 1
                 PROVE  \E t \in Tasks : block'[t] # <<>>
                                         /\ r \in block'[t][1].start .. block'[t][1].end - 1
      BY <1>1, <2>1, NextCutFacts DEF RowsCovered
    <3>1. CASE r < cut.start
      <4>1. PICK t \in Tasks : block[t] # <<>> /\ r \in block[t][1].start .. block[t][1].end - 1
        BY <1>2, <3>1 DEF DotIInv, RowsCovered
      <4>2. t # next'
        BY <2>1, <4>1 DEF DotIInv, BlocksScheduled
      <4> QED
        BY <2>2, <4>1, <4>2
    <3>2. CASE r >= cut.start
      BY <1>2, <2>1, <2>2, <3>2
    <3> QED
      BY <1>2, <3>1, <3>2
  <2>7. DoneRight'
    <3> SUFFICES ASSUME NEW t \in Tasks, block'[t] # <<>>, t \in done,
                        NEW i \in Elements(block'[t][1])
                 PROVE  Right(i)'
      BY <1>1, <2>1, SameBlocks DEF DoneRight, Elements
    <3>1. t # next'
      BY <2>1 DEF IInv, Fresh, InPool
    <3> QED
      BY <1>1, <2>2, <3>1, SameBlocks DEF DotIInv, DoneRight
  <2> QED
    BY <1>3, <2>3, <2>5, <2>6, <2>7 DEF DotIInv
<1>5. CASE ~running /\ UNCHANGED <<vars, block>>
  <2>1. /\ UNCHANGED <<queue, hand, before, next, done, dropped, stopped, block>>
        /\ stopped
    BY <1>5 DEF vars, IInv, StopProgress
  <2>2. DotTypes'
    BY <1>1, <2>1, NextCutFacts, SameBlocks DEF DotIInv, DotTypes
  <2>3. BlocksScheduled'
    BY <1>1, <2>1, NoTaskMoves, BlocksStayScheduled DEF DotIInv
  <2>4. RowsCovered'
    BY <2>1 DEF RowsCovered
  <2>5. DoneRight'
    BY <1>1, <2>1, SameBlocks DEF DotIInv, DoneRight, Elements
  <2> QED
    BY <1>3, <2>2, <2>3, <2>4, <2>5 DEF DotIInv
<1> QED
  BY <1>4, <1>5 DEF DotSchedule

\* The call of wait_complete: every block is in the pool, or done.
LEMMA DotWaitKeeps ==
  ASSUME IInv, DotIInv, DotWait
  PROVE  DotIInv'
<1>1. /\ dpc = "split" /\ dpc' = "wait" /\ cut.start >= a.rows /\ pc[Caller] = "idle"
      /\ before' = [before EXCEPT ![Caller] = InQueue \cup InHand]
      /\ UNCHANGED <<queue, hand, next, done, dropped, stopped, ab, cut, block, m>>
  BY DEF DotWait, WaitComplete
<1>2. DotTypes' /\ CutInPlace'
  BY <1>1, SameBlocks DEF DotIInv, DotTypes, CutInPlace
<1>3. BlocksScheduled'
  BY <1>1, SameBlocks DEF DotIInv, BlocksScheduled, InPlace, InPool, InQueue, InHand
<1>4. RowsCovered' /\ DoneRight' /\ DotIsProduct'
  BY <1>1, SameBlocks DEF DotIInv, RowsCovered, DoneRight, Elements, DotIsProduct
<1>5. WaitedFor'
  <2> SUFFICES ASSUME ~stopped, NEW t \in Tasks, block[t] # <<>>
               PROVE  t \in before'[Caller] \cup done
    BY <1>1 DEF WaitedFor
  <2>1. before'[Caller] = InQueue \cup InHand
    BY <1>1, CallerAssumption DEF IInv, TypeOK
  <2>2. hand[Caller] = 0 /\ dropped = {}
    BY <1>1, CallerAssumption DEF IInv, Hands, StopProgress
  <2>3. t \in InPool
    BY <2>2 DEF DotIInv, BlocksScheduled
  <2> QED
    BY <2>1, <2>2, <2>3 DEF InPool
<1> QED
  BY <1>2, <1>3, <1>4, <1>5 DEF DotIInv

\* wait_complete has returned: the blocks are done, and together they are the result.
LEMMA DotReturnKeeps ==
  ASSUME IInv, DotIInv, DotReturn
  PROVE  DotIInv'
<1>1. /\ dpc = "wait" /\ dpc' = "done" /\ pc[Caller] = "idle"
      /\ UNCHANGED <<queue, hand, before, next, done, dropped, stopped, ab, cut, block, m>>
  BY DEF DotReturn, vars
<1>2. ~stopped => m = dot(a, input)
  <2> SUFFICES ASSUME ~stopped, NEW i \in 1 .. a.rows * input.cols
               PROVE  Right(i)
    BY ProductFacts DEF DotIInv
  <2> DEFINE c == input.cols
             r == (i - 1) \div c
             e == (i - 1) % c
  <2>1. ab \in Operands /\ a.rows \in Nat /\ c \in Nat /\ cut \in Cuts /\ cut.start >= a.rows
    BY <1>1, OperandFacts DEF DotIInv, DotTypes, CutInPlace
  <2>2. c > 0 /\ r \in 0 .. a.rows - 1 /\ e \in 0 .. c - 1 /\ i - 1 = r * c + e
    BY <2>1, RowAndColumn
  <2> HIDE DEF r, e
  <2>3. r \in 0 .. cut.start - 1
    BY <2>1, <2>2 DEF Cuts
  <2>4. PICK t \in Tasks : block[t] # <<>> /\ r \in block[t][1].start .. block[t][1].end - 1
    BY <2>3 DEF DotIInv, RowsCovered
  <2>5. t \in done
    <3>1. t \in before[Caller] \cup done
      BY <1>1, <2>4 DEF DotIInv, WaitedFor
    <3>2. before[Caller] \subseteq done \cup dropped /\ dropped = {}
      BY <1>1, CallerAssumption DEF IInv, Accounted, WaitPcs, StopProgress
    <3> QED
      BY <3>1, <3>2
  <2>6. i \in Elements(block[t][1])
    <3> DEFINE s == block[t][1].start
               n == block[t][1].end
    <3>1. s \in Nat /\ n \in Nat /\ s <= r /\ r + 1 <= n /\ block[t][1].dest = s * c
      BY <2>4, BlockFacts DEF Cuts, InPlace
    <3> HIDE DEF s, n, c
    <3>2. s * c <= r * c /\ (r + 1) * c <= n * c /\ (r + 1) * c = r * c + c /\ (n - s) * c = n * c - s * c
      BY <2>1, <2>2, <3>1
    <3>3. s * c \in Nat /\ n * c \in Nat /\ r * c \in Nat
      BY <2>1, <2>2, <3>1
    <3>4. i \in s * c + 1 .. s * c + (n - s) * c
      BY <2>1, <2>2, <3>2, <3>3
    <3> QED
      BY <3>1, <3>4 DEF Elements, s, n, c
  <2> QED
    BY <2>4, <2>5, <2>6 DEF DotIInv, DoneRight
<1>3. DotIsProduct'
  BY <1>1, <1>2, SameBlocks DEF DotIsProduct
<1> QED
  BY <1>1, <1>3, NoTaskMoves, OthersKeep

\* The lambda of a block: what it writes is right, where it writes.
LEMMA RunBlockKeeps ==
  ASSUME IInv, DotIInv, NEW w \in Workers, RunBlock(w)
  PROVE  DotIInv'
<1> DEFINE t == hand[w]
           k == block[t][1]
           value(i) == DotElement(a, input, k.start + ((i - 1 - k.dest) \div input.cols),
                                  (i - 1 - k.dest) % input.cols)
<1>1. /\ TaskReturns(w) /\ done' = done \cup {t}
      /\ UNCHANGED <<queue, before, next, dropped, stopped, ab, dpc, cut, block>>
      /\ PoolGoesOn
  BY TaskGoesOn DEF RunBlock, TaskReturns
<1>2. t \in Tasks /\ block[t] # <<>>
  BY ThreadsAssumption DEF RunBlock, IsBlock, IInv, TypeOK
<1>3. m' = [m EXCEPT !.data = [i \in 1 .. Len(@) |->
              IF i \in k.dest + 1 .. k.dest + (k.end - k.start) * input.cols THEN value(i) ELSE @[i]]]
  BY DEF RunBlock
<1>4. /\ ab \in Operands /\ a.rows \in Nat /\ input.cols \in Nat /\ a.rows * input.cols \in Nat
      /\ k \in Cuts /\ InPlace(k)
  BY <1>2, BlockFacts, OperandFacts
<1>5. /\ m = [rows |-> a.rows, cols |-> input.cols, data |-> m.data]
      /\ m.data = [i \in 1 .. a.rows * input.cols |-> m.data[i]]
  BY DEF DotIInv, DotTypes
<1>6. Len(m.data) = a.rows * input.cols
  <2> DEFINE n == a.rows * input.cols
  <2>1. n \in Nat /\ m.data = [i \in 1 .. n |-> m.data[i]]
    BY <1>4, <1>5
  <2> HIDE DEF n
  <2>2. Len(m.data) = n
    BY <2>1
  <2> QED
    BY <2>2 DEF n
<1> HIDE DEF t, k, value
<1>7. /\ m' = [rows |-> a.rows, cols |-> input.cols, data |-> m'.data]
      /\ m'.data = [i \in 1 .. a.rows * input.cols |-> IF i \in Elements(k) THEN value(i) ELSE m.data[i]]
  <2> DEFINE d == [i \in 1 .. Len(m.data) |->
                     IF i \in k.dest + 1 .. k.dest + (k.end - k.start) * input.cols
                     THEN value(i) ELSE m.data[i]]
  <2>1. m' = [m EXCEPT !.data = d]
    BY <1>3
  <2>2. d = [i \in 1 .. a.rows * input.cols |-> IF i \in Elements(k) THEN value(i) ELSE m.data[i]]
    BY <1>6 DEF Elements
  <2> HIDE DEF d
  <2>3. m' = [rows |-> a.rows, cols |-> input.cols, data |-> d]
    BY <1>5, <2>1
  <2> QED
    BY <2>2, <2>3
<1>8. ASSUME NEW i \in 1 .. a.rows * input.cols
      PROVE  /\ i \in Elements(k) => Right(i)'
             /\ Right(i) => Right(i)'
  <2>1. i \in Elements(k) => value(i) = DotElement(a, input, (i - 1) \div input.cols, (i - 1) % input.cols)
    BY <1>4, BlockElement DEF value
  <2>2. m'.data[i] = IF i \in Elements(k) THEN value(i) ELSE m.data[i]
    BY <1>7
  <2> QED
    BY <1>1, <2>1, <2>2, SameBlocks DEF Right
<1>9. DotTypes'
  BY <1>1, <1>7, SameBlocks DEF DotIInv, DotTypes
<1>10. CutInPlace' /\ RowsCovered'
  BY <1>1, SameBlocks DEF DotIInv, CutInPlace, InPlace, RowsCovered
<1>11. BlocksScheduled'
  BY <1>1, BlocksStayScheduled DEF DotIInv
<1>12. DoneRight'
  <2> SUFFICES ASSUME NEW u \in Tasks, block[u] # <<>>, u \in done \cup {t}, NEW i \in Elements(block[u][1])
               PROVE  Right(i)'
    BY <1>1, SameBlocks DEF DoneRight, Elements
  <2>1. i \in 1 .. a.rows * input.cols
    BY BlockFacts, BlockElement
  <2>2. CASE u = t
    BY <1>8, <2>1, <2>2 DEF k
  <2>3. CASE u \in done
    BY <1>8, <2>1, <2>3 DEF DotIInv, DoneRight
  <2> QED
    BY <2>2, <2>3
<1>13. WaitedFor'
  BY <1>1 DEF DotIInv, WaitedFor
<1>14. DotIsProduct'
  <2> SUFFICES ASSUME dpc = "done", ~stopped PROVE (m = dot(a, input))'
    BY <1>1 DEF DotIsProduct
  <2>1. \A i \in 1 .. a.rows * input.cols : Right(i)
    BY ProductFacts DEF DotIInv, DotIsProduct
  <2>2. \A i \in 1 .. a.rows * input.cols : Right(i)'
    BY <1>8, <2>1
  <2>3. m'.data = [i \in 1 .. a.rows * input.cols |->
                     DotElement(a, input, (i - 1) \div input.cols, (i - 1) % input.cols)]
    BY <1>1, <1>7, <2>2, SameBlocks DEF Right
  <2> QED
    BY <1>1, <1>7, <2>3, SameBlocks DEF dot, Filled
<1> QED
  BY <1>9, <1>10, <1>11, <1>12, <1>13, <1>14 DEF DotIInv

\* DotIInv holds when dot is called, and every step keeps it.
LEMMA DotInvariant == DotSpec => []DotIInv
<1>1. IInv /\ DotIInv /\ [DotNext]_allVars => DotIInv'
  <2> SUFFICES ASSUME IInv, DotIInv, [DotNext]_allVars PROVE DotIInv'
    OBVIOUS
  <2>1. CASE DotCall
    BY <2>1, DotCallKeeps
  <2>2. CASE DotSchedule
    BY <2>2, DotScheduleKeeps
  <2>3. CASE DotWait
    BY <2>3, DotWaitKeeps
  <2>4. CASE DotReturn
    BY <2>4, DotReturnKeeps
  <2>5. ASSUME NEW w \in Workers, RunBlock(w) PROVE DotIInv'
    BY <2>5, RunBlockKeeps
  <2>6. ASSUME PoolGoesOn, UNCHANGED dotVars, \A t \in done' \ done : ~IsBlock(t)
        PROVE  DotIInv'
    <3>1. UNCHANGED <<ab, dpc, cut, block, m>>
      BY <2>6 DEF dotVars
    <3> QED
      BY <2>6, <3>1, OthersKeep
  <2>7. CASE PoolStep
    BY <2>6, <2>7, PoolStepGoesOn DEF PoolStep
  <2>8. CASE UNCHANGED allVars
    <3>1. PoolGoesOn /\ done' = done
      BY <2>8, NoTaskMoves DEF allVars, vars
    <3> QED
      BY <2>6, <2>8, <3>1 DEF allVars
  <2> QED
    BY <2>1, <2>2, <2>3, <2>4, <2>5, <2>7, <2>8 DEF DotNext
<1> QED
  BY <1>1, DotInitially, PoolInvariant, PTL DEF DotSpec

-----------------------------------------------------------------------------
(* The theorems about dot.                                                  *)

\* When dot returns, its result is the product, element by element, for matrices of any
\* size and however many rows the last block has: unless the pool was stopped, whatever
\* the workers, the other clients and their tasks do meanwhile.
THEOREM BlocksMakeTheProduct == DotSpec => []DotIsProduct
<1>1. DotIInv => DotIsProduct
  BY DEF DotIInv
<1> QED
  BY <1>1, DotInvariant, PTL

\* A pool that multiplies is as good as any other: its tasks are run once, wait_complete
\* returns after them, and stop leaves no worker behind.
THEOREM PoolStaysRight == DotSpec => [](PoolSafe /\ WaitCompleteMeansDone /\ StopJoinsWorkers)
BY DotUsesThePool, TasksRunOnce, WaitCompleteIsRight, StopLeavesNobody, PTL

-----------------------------------------------------------------------------
(* Matrices as flat arrays.                                                 *)

\* What a matrix is.
LEMMA MatrixFacts ==
  ASSUME NEW A, IsMatrix(A)
  PROVE  /\ A.rows \in Nat /\ A.cols \in Nat /\ A.rows * A.cols \in Nat
         /\ A.data \in Seq(Int) /\ Len(A.data) = A.rows * A.cols
         /\ \A i \in 1 .. A.rows * A.cols : A.data[i] \in Int
         /\ A = [rows |-> A.rows, cols |-> A.cols, data |-> A.data]
         /\ A.data = [i \in 1 .. A.rows * A.cols |-> A.data[i]]
<1>1. A \in [rows : Nat, cols : Nat, data : Seq(Int)] /\ Len(A.data) = A.rows * A.cols
  BY DEF IsMatrix
<1> DEFINE n == A.rows * A.cols
<1>2. n \in Nat
  BY <1>1
<1> HIDE DEF n
<1>3. A.data \in Seq(Int) /\ Len(A.data) = n
  BY <1>1 DEF n
<1>4. (\A i \in 1 .. n : A.data[i] \in Int) /\ A.data = [i \in 1 .. n |-> A.data[i]]
  BY <1>2, <1>3
<1> QED
  BY <1>1, <1>2, <1>4 DEF n

\* An array of n integers.
LEMMA ArrayFacts ==
  ASSUME NEW n \in Nat, NEW d \in [1 .. n -> Int]
  PROVE  d \in Seq(Int) /\ Len(d) = n
OBVIOUS

\* Where element c of row r is.
LEMMA IndexFacts ==
  ASSUME NEW s \in Nat, NEW c \in Nat, NEW r \in 0 .. s - 1, NEW e \in 0 .. c - 1
  PROVE  /\ r * c + e + 1 \in 1 .. s * c /\ r * c + e \in Nat
         /\ (r * c + e) \div c = r /\ (r * c + e) % c = e
<1>1. (r + 1) * c <= s * c /\ (r + 1) * c = r * c + c /\ r * c \in Nat /\ s * c \in Nat
  OBVIOUS
<1>2. r * c + e + 1 \in 1 .. s * c /\ r * c + e \in Nat
  BY <1>1
<1> QED
  BY <1>2, DivMod

\* transpose: rows and columns change places.
LEMMA TransposeFacts ==
  ASSUME NEW A, IsMatrix(A)
  PROVE  /\ IsMatrix(transpose(A))
         /\ transpose(A).rows = A.cols /\ transpose(A).cols = A.rows
         /\ \A r \in 0 .. A.rows - 1, c \in 0 .. A.cols - 1 :
              transpose(A).data[c * A.rows + r + 1] = A.data[r * A.cols + c + 1]
<1> DEFINE s == A.rows
           k == A.cols
           src == A.data
           D == [i \in 1 .. k * s |-> src[((i - 1) \div s) + ((i - 1) % s) * k + 1]]
<1>1. transpose(A) = [rows |-> k, cols |-> s, data |-> D]
  BY DEF transpose, Filled, Elem
<1>a. s \in Nat /\ k \in Nat /\ \A i \in 1 .. s * k : src[i] \in Int
  BY MatrixFacts
<1> HIDE DEF s, k, src
<1>2. s \in Nat /\ k \in Nat /\ s * k \in Nat /\ k * s \in Nat /\ \A i \in 1 .. s * k : src[i] \in Int
  BY <1>a
<1>3. ASSUME NEW i \in 1 .. k * s
      PROVE  src[((i - 1) \div s) + ((i - 1) % s) * k + 1] \in Int
  <2> DEFINE c == (i - 1) \div s
             r == (i - 1) % s
  <2>1. c \in 0 .. k - 1 /\ r \in 0 .. s - 1
    BY <1>2, RowAndColumn
  <2> HIDE DEF c, r
  <2>2. r * k + c + 1 \in 1 .. s * k /\ c + r * k + 1 = r * k + c + 1
    BY <1>2, <2>1, IndexFacts
  <2> QED
    BY <1>2, <2>2 DEF c, r
<1>4. D \in Seq(Int) /\ Len(D) = k * s
  <2>1. D \in [1 .. k * s -> Int]
    BY <1>3
  <2> HIDE DEF D
  <2> QED
    BY <1>2, <2>1, ArrayFacts
<1>5. ASSUME NEW r \in 0 .. s - 1, NEW c \in 0 .. k - 1
      PROVE  D[c * s + r + 1] = src[r * k + c + 1]
  <2> DEFINE i == c * s + r + 1
  <2>1. i \in 1 .. k * s /\ i - 1 = c * s + r /\ (c * s + r) \div s = c /\ (c * s + r) % s = r
    BY <1>2, IndexFacts
  <2> HIDE DEF i
  <2>2. D[i] = src[c + r * k + 1]
    BY <2>1
  <2>3. c + r * k + 1 = r * k + c + 1
    BY <1>2
  <2> QED
    BY <2>2, <2>3 DEF i
<1> HIDE DEF D
<1>6. IsMatrix(transpose(A))
  BY <1>1, <1>2, <1>4 DEF IsMatrix
<1> QED
  BY <1>1, <1>5, <1>6 DEF s, k, src

\* The transpose of the transpose.
LEMMA TransposeTwice ==
  ASSUME NEW A, IsMatrix(A)
  PROVE  transpose(transpose(A)) = A
<1> DEFINE T == transpose(A)
           s == A.rows
           k == A.cols
           n == s * k
           D == [i \in 1 .. n |-> T.data[((i - 1) \div k) + ((i - 1) % k) * s + 1]]
<1>a. s \in Nat /\ k \in Nat
  BY MatrixFacts
<1>b. /\ T.rows = k /\ T.cols = s
      /\ \A r \in 0 .. s - 1, c \in 0 .. k - 1 : T.data[c * s + r + 1] = A.data[r * k + c + 1]
  BY TransposeFacts
<1> HIDE DEF T
<1>1. T.rows = k /\ T.cols = s /\ s \in Nat /\ k \in Nat
      /\ \A r \in 0 .. s - 1, c \in 0 .. k - 1 : T.data[c * s + r + 1] = A.data[r * k + c + 1]
  BY <1>a, <1>b
<1>2. transpose(T) = [rows |-> s, cols |-> k, data |-> D]
  BY <1>1 DEF transpose, Filled, Elem
<1>3. ASSUME NEW i \in 1 .. n PROVE D[i] = A.data[i]
  <2> DEFINE r == (i - 1) \div k
             c == (i - 1) % k
  <2>2. D[i] = T.data[r + c * s + 1]
    OBVIOUS
  <2> HIDE DEF s, k, D
  <2>1. r \in 0 .. s - 1 /\ c \in 0 .. k - 1 /\ i - 1 = r * k + c /\ i \in Nat
    BY <1>1, RowAndColumn
  <2> HIDE DEF r, c
  <2>3. r + c * s + 1 = c * s + r + 1 /\ r * k + c + 1 = i
    BY <1>1, <2>1
  <2> QED
    BY <1>1, <2>1, <2>2, <2>3
<1> DEFINE d == A.data
<1>4. d = [i \in 1 .. n |-> d[i]] /\ A = [rows |-> s, cols |-> k, data |-> d]
  BY MatrixFacts
<1>5. D = d
  <2> HIDE DEF n
  <2> QED
    BY <1>3, <1>4
<1> HIDE DEF D, s, k, d
<1> QED
  BY <1>2, <1>4, <1>5 DEF T

-----------------------------------------------------------------------------
(* The loops that add up, and that look for the least.                      *)

\* A loop of n turns, the k-th of which computes step[k] of what the one before it
\* left, has a result in every turn.
LoopRuns(base, n, step) ==
  \E f \in [0 .. n -> Int] : f[0] = base /\ \A k \in 1 .. n : f[k] = step[k][f[k - 1]]

LEMMA LoopResults ==
  ASSUME NEW base \in Int, NEW n \in Nat, NEW step \in [1 .. n -> [Int -> Int]]
  PROVE  LoopRuns(base, n, step)
<1> DEFINE Runs(f, j) == /\ f \in [0 .. j -> Int] /\ f[0] = base
                         /\ \A k \in 1 .. j : f[k] = step[k][f[k - 1]]
           Bad == {j \in 0 .. n : ~\E f : Runs(f, j)}
<1>1. Bad = {}
  <2> SUFFICES ASSUME Bad # {} PROVE FALSE
    OBVIOUS
  <2>1. Bad \subseteq Nat
    OBVIOUS
  <2> HIDE DEF Bad
  <2>2. PICK j \in Bad : \A k \in Bad : j <= k
    BY <2>1, LeastNumber
  <2>3. j \in 0 .. n /\ ~\E f : Runs(f, j)
    BY DEF Bad
  <2>4. j # 0
    <3>1. Runs([k \in 0 .. 0 |-> base], 0)
      OBVIOUS
    <3> QED
      BY <2>3, <3>1
  <2>5. j - 1 \in 0 .. n /\ j - 1 \notin Bad
    BY <2>2, <2>3, <2>4
  <2>6. PICK h : Runs(h, j - 1)
    BY <2>5 DEF Bad
  <2> DEFINE g == [k \in 0 .. j |-> IF k = j THEN step[j][h[j - 1]] ELSE h[k]]
  <2>7. step[j][h[j - 1]] \in Int
    BY <2>3, <2>4, <2>6
  <2>8. g \in [0 .. j -> Int] /\ g[0] = base
    BY <2>3, <2>4, <2>6, <2>7
  <2>9. ASSUME NEW k \in 1 .. j PROVE g[k] = step[k][g[k - 1]]
    <3>1. g[k - 1] = h[k - 1]
      BY <2>3
    <3>2. CASE k = j
      <4>1. g[j] = step[j][h[j - 1]]
        BY <2>3
      <4> QED
        BY <3>1, <3>2, <4>1
    <3>3. CASE k # j
      BY <2>3, <2>6, <3>1, <3>3
    <3> QED
      BY <3>2, <3>3
  <2> QED
    BY <2>3, <2>8, <2>9
<1>2. \A j \in 0 .. n : \E f : Runs(f, j)
  <2> HIDE DEF Runs
  <2> QED
    BY <1>1
<1>3. PICK f : Runs(f, n)
  <2> HIDE DEF Runs
  <2> QED
    BY <1>2
<1> QED
  BY <1>3 DEF LoopRuns

\* The sum that a loop adds up in *dest.
LEMMA SumFacts ==
  ASSUME NEW n \in Nat, NEW term \in [0 .. n - 1 -> Int]
  PROVE  \E f \in [0 .. n -> Int] :
           /\ f[0] = 0 /\ (\A k \in 1 .. n : f[k] = f[k - 1] + term[k - 1])
           /\ Sum(term, n) = f[n]
<1> DEFINE step == [k \in 1 .. n |-> [j \in Int |-> j + term[k - 1]]]
           G == CHOOSE g : g = [k \in 0 .. n |-> IF k = 0 THEN 0 ELSE g[k - 1] + term[k - 1]]
<1>1. step \in [1 .. n -> [Int -> Int]]
  OBVIOUS
<1>2. \A k \in 1 .. n, j \in Int : step[k][j] = j + term[k - 1]
  OBVIOUS
<1> HIDE DEF step
<1>3. PICK f \in [0 .. n -> Int] : f[0] = 0 /\ \A k \in 1 .. n : f[k] = step[k][f[k - 1]]
  <2> DEFINE z == 0
  <2>1. z \in Int
    OBVIOUS
  <2> HIDE DEF z
  <2>2. LoopRuns(z, n, step)
    BY <1>1, <2>1, LoopResults, Zenon
  <2> QED
    BY <2>2 DEF LoopRuns, z
<1>4. f = [k \in 0 .. n |-> IF k = 0 THEN 0 ELSE f[k - 1] + term[k - 1]]
  <2>1. ASSUME NEW k \in 0 .. n PROVE f[k] = IF k = 0 THEN 0 ELSE f[k - 1] + term[k - 1]
    <3>1. CASE k = 0
      BY <1>3, <3>1
    <3>2. CASE k # 0
      <4>1. k \in 1 .. n /\ f[k - 1] \in Int
        BY <3>2
      <4> QED
        BY <1>2, <1>3, <3>2, <4>1
    <3> QED
      BY <3>1, <3>2
  <2> QED
    BY <2>1
<1>5. G = [k \in 0 .. n |-> IF k = 0 THEN 0 ELSE G[k - 1] + term[k - 1]]
  BY <1>4
<1>6. Sum(term, n) = G[n]
  BY DEF Sum
<1> HIDE DEF G
<1>7. G[0] = 0 /\ \A k \in 1 .. n : G[k] = G[k - 1] + term[k - 1]
  BY <1>5
<1>8. \A k \in 0 .. n : G[k] \in Int
  <2> DEFINE Bad == {k \in 0 .. n : G[k] \notin Int}
  <2> SUFFICES ASSUME Bad # {} PROVE FALSE
    OBVIOUS
  <2>1. Bad \subseteq Nat
    OBVIOUS
  <2> HIDE DEF Bad
  <2>2. PICK k \in Bad : \A j \in Bad : k <= j
    BY <2>1, LeastNumber
  <2>3. k \in 1 .. n /\ G[k] \notin Int /\ k - 1 \in 0 .. n
    BY <1>7 DEF Bad
  <2>4. G[k - 1] \in Int
    BY <2>2, <2>3 DEF Bad
  <2> QED
    BY <1>7, <2>3, <2>4
<1> QED
  BY <1>5, <1>6, <1>7, <1>8

\* When every term is multiplied by x, so is the sum.
LEMMA SumScaled ==
  ASSUME NEW n \in Nat, NEW s \in [0 .. n - 1 -> Int], NEW t \in [0 .. n - 1 -> Int], NEW x \in Int,
         \A k \in 0 .. n - 1 : t[k] = x * s[k]
  PROVE  Sum(t, n) = x * Sum(s, n) /\ Sum(s, n) \in Int
<1>1. PICK f \in [0 .. n -> Int] : /\ f[0] = 0 /\ (\A k \in 1 .. n : f[k] = f[k - 1] + s[k - 1])
                                   /\ Sum(s, n) = f[n]
  BY SumFacts
<1>2. PICK g \in [0 .. n -> Int] : /\ g[0] = 0 /\ (\A k \in 1 .. n : g[k] = g[k - 1] + t[k - 1])
                                   /\ Sum(t, n) = g[n]
  BY SumFacts
<1>3. \A k \in 0 .. n : g[k] = x * f[k]
  <2> DEFINE Bad == {k \in 0 .. n : g[k] # x * f[k]}
  <2> SUFFICES ASSUME Bad # {} PROVE FALSE
    OBVIOUS
  <2>1. Bad \subseteq Nat
    OBVIOUS
  <2> HIDE DEF Bad
  <2>2. PICK k \in Bad : \A j \in Bad : k <= j
    BY <2>1, LeastNumber
  <2>3. k \in 0 .. n /\ g[k] # x * f[k]
    BY DEF Bad
  <2>4. k # 0
    BY <1>1, <1>2, <2>3
  <2>5. k - 1 \in 0 .. n - 1 /\ k \in 1 .. n /\ k - 1 \notin Bad
    BY <2>2, <2>3, <2>4
  <2>6. g[k - 1] = x * f[k - 1]
    BY <2>5 DEF Bad
  <2> DEFINE p == f[k - 1]
             q == s[k - 1]
  <2>7. p \in Int /\ q \in Int /\ f[k] = p + q /\ g[k] = x * p + x * q
    BY <1>1, <1>2, <2>5, <2>6
  <2> HIDE DEF p, q
  <2>8. x * (p + q) = x * p + x * q
    BY <2>7
  <2> QED
    BY <2>3, <2>7, <2>8
<1> QED
  BY <1>1, <1>2, <1>3

\* When every term is a sum of two, so is the sum.
LEMMA SumAdded ==
  ASSUME NEW n \in Nat, NEW s \in [0 .. n - 1 -> Int], NEW u \in [0 .. n - 1 -> Int],
         NEW t \in [0 .. n - 1 -> Int], \A k \in 0 .. n - 1 : t[k] = s[k] + u[k]
  PROVE  Sum(t, n) = Sum(s, n) + Sum(u, n)
<1>1. PICK f \in [0 .. n -> Int] : /\ f[0] = 0 /\ (\A k \in 1 .. n : f[k] = f[k - 1] + s[k - 1])
                                   /\ Sum(s, n) = f[n]
  BY SumFacts
<1>2. PICK h \in [0 .. n -> Int] : /\ h[0] = 0 /\ (\A k \in 1 .. n : h[k] = h[k - 1] + u[k - 1])
                                   /\ Sum(u, n) = h[n]
  BY SumFacts
<1>3. PICK g \in [0 .. n -> Int] : /\ g[0] = 0 /\ (\A k \in 1 .. n : g[k] = g[k - 1] + t[k - 1])
                                   /\ Sum(t, n) = g[n]
  BY SumFacts
<1>4. \A k \in 0 .. n : g[k] = f[k] + h[k]
  <2> DEFINE Bad == {k \in 0 .. n : g[k] # f[k] + h[k]}
  <2> SUFFICES ASSUME Bad # {} PROVE FALSE
    OBVIOUS
  <2>1. Bad \subseteq Nat
    OBVIOUS
  <2> HIDE DEF Bad
  <2>2. PICK k \in Bad : \A j \in Bad : k <= j
    BY <2>1, LeastNumber
  <2>3. k \in 0 .. n /\ g[k] # f[k] + h[k]
    BY DEF Bad
  <2>4. k # 0
    BY <1>1, <1>2, <1>3, <2>3
  <2>5. k - 1 \in 0 .. n - 1 /\ k \in 1 .. n /\ k - 1 \notin Bad
    BY <2>2, <2>3, <2>4
  <2>6. g[k - 1] = f[k - 1] + h[k - 1]
    BY <2>5 DEF Bad
  <2> DEFINE p == f[k - 1]
             q == h[k - 1]
             v == s[k - 1]
             w == u[k - 1]
  <2>7. p \in Int /\ q \in Int /\ v \in Int /\ w \in Int
    BY <2>5
  <2>8. f[k] = p + v /\ h[k] = q + w /\ g[k] = (p + q) + (v + w)
    BY <1>1, <1>2, <1>3, <2>5, <2>6
  <2> HIDE DEF p, q, v, w
  <2> QED
    BY <2>3, <2>7, <2>8
<1> QED
  BY <1>1, <1>2, <1>3, <1>4

-----------------------------------------------------------------------------
(* The laws of Matrix.                                                      *)

\* the products that are added up for element c of row r
Term(A, B, r, c) == [inx \in 0 .. A.cols - 1 |-> A.data[r * A.cols + inx + 1] * B.data[c + inx * B.cols + 1]]

\* What DotElement adds up.
LEMMA TermFacts ==
  ASSUME NEW A, NEW B, IsMatrix(A), IsMatrix(B), A.cols = B.rows,
         NEW r \in 0 .. A.rows - 1, NEW c \in 0 .. B.cols - 1
  PROVE  /\ DotElement(A, B, r, c) = Sum(Term(A, B, r, c), A.cols)
         /\ \A inx \in 0 .. A.cols - 1 :
              A.data[r * A.cols + inx + 1] \in Int /\ B.data[c + inx * B.cols + 1] \in Int
         /\ Term(A, B, r, c) \in [0 .. A.cols - 1 -> Int]
<1>1. DotElement(A, B, r, c) = Sum(Term(A, B, r, c), A.cols)
  BY DEF DotElement, Elem, Term
<1>2. ASSUME NEW inx \in 0 .. A.cols - 1
      PROVE  A.data[r * A.cols + inx + 1] \in Int /\ B.data[c + inx * B.cols + 1] \in Int
  <2> DEFINE s == A.rows
             k == A.cols
             l == B.cols
  <2>1. /\ s \in Nat /\ k \in Nat /\ l \in Nat
        /\ \A i \in 1 .. s * k : A.data[i] \in Int
        /\ \A i \in 1 .. k * l : B.data[i] \in Int
    BY MatrixFacts
  <2> HIDE DEF s, k, l
  <2>2. r \in 0 .. s - 1 /\ inx \in 0 .. k - 1 /\ c \in 0 .. l - 1
    BY DEF s, k, l
  <2>3. r * k + inx + 1 \in 1 .. s * k
    BY <2>1, <2>2, IndexFacts
  <2>4. inx * l + c + 1 \in 1 .. k * l /\ c + inx * l + 1 = inx * l + c + 1
    BY <2>1, <2>2, IndexFacts
  <2> QED
    BY <2>1, <2>3, <2>4 DEF s, k, l
<1>3. Term(A, B, r, c) \in [0 .. A.cols - 1 -> Int]
  BY <1>2 DEF Term
<1> QED
  BY <1>1, <1>2, <1>3

\* The product of a row and a column is that of the column and the row.
LEMMA DotElementTransposed ==
  ASSUME NEW A, NEW B, IsMatrix(A), IsMatrix(B), A.cols = B.rows,
         NEW r \in 0 .. A.rows - 1, NEW c \in 0 .. B.cols - 1
  PROVE  DotElement(A, B, r, c) = DotElement(transpose(B), transpose(A), c, r)
<1> DEFINE S == transpose(B)
           T == transpose(A)
           k == A.cols
<1>1. /\ IsMatrix(S) /\ IsMatrix(T) /\ S.rows = B.cols /\ S.cols = k /\ T.rows = k /\ T.cols = A.rows
      /\ k \in Nat /\ A.rows \in Nat /\ B.cols \in Nat
  BY TransposeFacts, MatrixFacts
<1>2. ASSUME NEW inx \in 0 .. k - 1
      PROVE  /\ S.data[c * k + inx + 1] = B.data[inx * B.cols + c + 1]
             /\ T.data[inx * A.rows + r + 1] = A.data[r * k + inx + 1]
  BY TransposeFacts
<1> HIDE DEF S, T
<1>3. ASSUME NEW inx \in 0 .. k - 1
      PROVE  A.data[r * k + inx + 1] * B.data[c + inx * B.cols + 1]
               = S.data[c * k + inx + 1] * T.data[r + inx * A.rows + 1]
  <2> DEFINE x == A.data[r * k + inx + 1]
             y == B.data[c + inx * B.cols + 1]
  <2>1. x \in Int /\ y \in Int
    BY TermFacts
  <2>2. c + inx * B.cols + 1 = inx * B.cols + c + 1 /\ r + inx * A.rows + 1 = inx * A.rows + r + 1
    BY <1>1
  <2>3. S.data[c * k + inx + 1] = y /\ T.data[r + inx * A.rows + 1] = x
    BY <1>2, <2>2
  <2> HIDE DEF x, y
  <2>4. x * y = y * x
    BY <2>1
  <2> QED
    BY <2>3, <2>4 DEF x, y
<1>4. Term(A, B, r, c) = Term(S, T, c, r)
  BY <1>1, <1>3 DEF Term
<1>5. DotElement(S, T, c, r) = Sum(Term(S, T, c, r), k)
  BY <1>1, TermFacts
<1> QED
  BY <1>4, <1>5, TermFacts DEF S, T

\* The rows and columns of a product.
LEMMA DotFacts ==
  ASSUME NEW A, NEW B
  PROVE  dot(A, B) = [rows |-> A.rows, cols |-> B.cols,
                      data |-> [i \in 1 .. A.rows * B.cols |->
                                  DotElement(A, B, (i - 1) \div B.cols, (i - 1) % B.cols)]]
BY DEF dot, Filled

\* (AB)' = B'A'
LEMMA ProductTransposed ==
  ASSUME NEW A, NEW B, IsMatrix(A), IsMatrix(B), A.cols = B.rows
  PROVE  transpose(dot(A, B)) = dot(transpose(B), transpose(A))
<1> DEFINE P == dot(A, B)
           S == transpose(B)
           T == transpose(A)
           s == A.rows
           l == B.cols
           E(r, c) == DotElement(A, B, r, c)
           D == [i \in 1 .. l * s |-> P.data[((i - 1) \div s) + ((i - 1) % s) * l + 1]]
           F == [i \in 1 .. l * s |-> DotElement(S, T, (i - 1) \div s, (i - 1) % s)]
<1>1. s \in Nat /\ l \in Nat /\ S.rows = l /\ T.cols = s
  BY TransposeFacts, MatrixFacts
<1>2. P.rows = s /\ P.cols = l /\ P.data = [i \in 1 .. s * l |-> E((i - 1) \div l, (i - 1) % l)]
  BY DotFacts
<1>3. \A r \in 0 .. s - 1, c \in 0 .. l - 1 : E(r, c) = DotElement(S, T, c, r)
  BY DotElementTransposed
<1> HIDE DEF P, S, T, E
<1>4. transpose(P) = [rows |-> l, cols |-> s, data |-> D]
  BY <1>2 DEF transpose, Filled, Elem
<1>5. dot(S, T) = [rows |-> l, cols |-> s, data |-> F]
  BY <1>1, DotFacts
<1>6. ASSUME NEW i \in 1 .. l * s
      PROVE  P.data[((i - 1) \div s) + ((i - 1) % s) * l + 1] = DotElement(S, T, (i - 1) \div s, (i - 1) % s)
  <2> HIDE DEF s, l
  <2> DEFINE c == (i - 1) \div s
             r == (i - 1) % s
             j == r * l + c + 1
  <2>1. c \in 0 .. l - 1 /\ r \in 0 .. s - 1
    BY <1>1, RowAndColumn
  <2> HIDE DEF c, r
  <2>2. j \in 1 .. s * l /\ j - 1 = r * l + c /\ (r * l + c) \div l = r /\ (r * l + c) % l = c
        /\ c + r * l + 1 = j
    BY <1>1, <2>1, IndexFacts
  <2> HIDE DEF j
  <2>3. P.data[j] = E(r, c)
    BY <1>2, <2>2
  <2>4. P.data[c + r * l + 1] = DotElement(S, T, c, r)
    BY <1>3, <2>1, <2>2, <2>3
  <2> QED
    BY <2>4 DEF c, r
<1>7. D = F
  BY <1>6
<1> QED
  BY <1>4, <1>5, <1>7 DEF P, S, T

\* A matrix is made of the integers of an array.
LEMMA MadeOf ==
  ASSUME NEW s \in Nat, NEW k \in Nat, NEW d \in [1 .. s * k -> Int]
  PROVE  IsMatrix([rows |-> s, cols |-> k, data |-> d])
<1> DEFINE n == s * k
<1>1. n \in Nat
  OBVIOUS
<1> HIDE DEF n
<1>2. d \in Seq(Int) /\ Len(d) = n
  BY <1>1, ArrayFacts DEF n
<1> QED
  BY <1>2 DEF IsMatrix, n

\* The elements of a product are integers.
LEMMA DotIsMatrix ==
  ASSUME NEW A, NEW B, IsMatrix(A), IsMatrix(B), A.cols = B.rows
  PROVE  /\ IsMatrix(dot(A, B))
         /\ \A r \in 0 .. A.rows - 1, c \in 0 .. B.cols - 1 : DotElement(A, B, r, c) \in Int
<1> DEFINE s == A.rows
           l == B.cols
           D == [i \in 1 .. s * l |-> DotElement(A, B, (i - 1) \div l, (i - 1) % l)]
<1>1. s \in Nat /\ l \in Nat /\ A.cols \in Nat
  BY MatrixFacts
<1>2. ASSUME NEW r \in 0 .. s - 1, NEW c \in 0 .. l - 1 PROVE DotElement(A, B, r, c) \in Int
  <2> DEFINE t == Term(A, B, r, c)
             n == A.cols
  <2>1. DotElement(A, B, r, c) = Sum(t, n) /\ t \in [0 .. n - 1 -> Int] /\ n \in Nat
    BY <1>1, TermFacts
  <2> HIDE DEF t, n
  <2>2. PICK f \in [0 .. n -> Int] : Sum(t, n) = f[n]
    BY <2>1, SumFacts
  <2> QED
    BY <2>1, <2>2
<1>3. dot(A, B) = [rows |-> s, cols |-> l, data |-> D]
  BY DotFacts
<1> HIDE DEF s, l
<1>4. ASSUME NEW i \in 1 .. s * l PROVE (i - 1) \div l \in 0 .. s - 1 /\ (i - 1) % l \in 0 .. l - 1
  BY <1>1, RowAndColumn
<1>5. D \in [1 .. s * l -> Int]
  BY <1>2, <1>4
<1> HIDE DEF D
<1>6. IsMatrix([rows |-> s, cols |-> l, data |-> D])
  BY <1>1, <1>5, MadeOf
<1> QED
  BY <1>2, <1>3, <1>6 DEF s, l

\* x times a matrix.
Scaled(A, x) == [rows |-> A.rows, cols |-> A.cols, data |-> [i \in 1 .. A.rows * A.cols |-> x * A.data[i]]]

LEMMA ScaledFacts ==
  ASSUME NEW A, IsMatrix(A), NEW x \in Int
  PROVE  /\ IsMatrix(Scaled(A, x)) /\ Scaled(A, x).rows = A.rows /\ Scaled(A, x).cols = A.cols
         /\ \A i \in 1 .. A.rows * A.cols : Scaled(A, x).data[i] = x * A.data[i]
<1> DEFINE s == A.rows
           k == A.cols
           n == s * k
           d == A.data
           E == [i \in 1 .. n |-> x * d[i]]
<1>1. Scaled(A, x) = [rows |-> s, cols |-> k, data |-> E]
  BY DEF Scaled
<1>2. s \in Nat /\ k \in Nat /\ n \in Nat /\ \A i \in 1 .. n : d[i] \in Int
  BY MatrixFacts
<1> HIDE DEF s, k, n, d
<1>3. ASSUME NEW i \in 1 .. n PROVE x * d[i] \in Int
  BY <1>2
<1>4. E \in [1 .. n -> Int] /\ \A i \in 1 .. n : E[i] = x * d[i]
  BY <1>3
<1> HIDE DEF E
<1>5. IsMatrix([rows |-> s, cols |-> k, data |-> E])
  BY <1>2, <1>4, MadeOf DEF n
<1> QED
  BY <1>1, <1>4, <1>5 DEF s, k, n, d

\* A product is multiplied by x when the matrix on its left is.
LEMMA ProductScaled ==
  ASSUME NEW A, NEW B, IsMatrix(A), IsMatrix(B), A.cols = B.rows, NEW x \in Int
  PROVE  dot(Scaled(A, x), B) = Scaled(dot(A, B), x)
<1> DEFINE s == A.rows
           k == A.cols
           l == B.cols
           n == s * l
           S == Scaled(A, x)
           P == dot(A, B)
           D == [i \in 1 .. n |-> DotElement(A, B, (i - 1) \div l, (i - 1) % l)]
           E == [i \in 1 .. n |-> DotElement(S, B, (i - 1) \div l, (i - 1) % l)]
           F == [i \in 1 .. n |-> x * D[i]]
<1>1. s \in Nat /\ k \in Nat /\ l \in Nat
  BY MatrixFacts
<1>2. IsMatrix(S) /\ S.rows = s /\ S.cols = k /\ \A i \in 1 .. s * k : S.data[i] = x * A.data[i]
  BY ScaledFacts
<1> HIDE DEF S
<1>3. dot(S, B) = [rows |-> s, cols |-> l, data |-> E]
  BY <1>2, DotFacts
<1>4. Scaled(P, x) = [rows |-> s, cols |-> l, data |-> F]
  <2>1. P = [rows |-> s, cols |-> l, data |-> D]
    BY DotFacts
  <2> HIDE DEF P, D, s, l
  <2>2. P.rows = s /\ P.cols = l /\ P.data = D
    BY <2>1
  <2>3. Scaled(P, x) = [rows |-> P.rows, cols |-> P.cols, data |-> [i \in 1 .. P.rows * P.cols |-> x * P.data[i]]]
    BY DEF Scaled
  <2> QED
    BY <2>2, <2>3, Zenon
<1>5. ASSUME NEW r \in 0 .. s - 1, NEW c \in 0 .. l - 1
      PROVE  DotElement(S, B, r, c) = x * DotElement(A, B, r, c)
  <2> DEFINE t == Term(S, B, r, c)
             u == Term(A, B, r, c)
  <2>1. /\ DotElement(S, B, r, c) = Sum(t, k) /\ t \in [0 .. k - 1 -> Int]
        /\ DotElement(A, B, r, c) = Sum(u, k) /\ u \in [0 .. k - 1 -> Int]
    BY <1>2, TermFacts
  <2>2. ASSUME NEW inx \in 0 .. k - 1 PROVE t[inx] = x * u[inx]
    <3> DEFINE y == A.data[r * k + inx + 1]
               z == B.data[c + inx * l + 1]
               w == S.data[r * k + inx + 1]
    <3>1. u[inx] = y * z /\ t[inx] = w * z
      BY <1>2 DEF Term
    <3>2. y \in Int /\ z \in Int
      BY TermFacts
    <3>3. w = x * y
      <4>1. r * k + inx + 1 \in 1 .. s * k
        <5> HIDE DEF s, k
        <5> QED
          BY <1>1, IndexFacts
      <4> QED
        BY <1>2, <4>1
    <3> HIDE DEF y, z, w, t, u
    <3>4. (x * y) * z = x * (y * z)
      BY <3>2
    <3> QED
      BY <3>1, <3>3, <3>4
  <2> HIDE DEF t, u, k
  <2>3. Sum(t, k) = x * Sum(u, k)
    BY <1>1, <2>1, <2>2, SumScaled
  <2> QED
    BY <2>1, <2>3
<1>6. ASSUME NEW i \in 1 .. n
      PROVE  DotElement(S, B, (i - 1) \div l, (i - 1) % l) = x * DotElement(A, B, (i - 1) \div l, (i - 1) % l)
  <2>1. (i - 1) \div l \in 0 .. s - 1 /\ (i - 1) % l \in 0 .. l - 1
    <3> HIDE DEF s, l
    <3> QED
      BY <1>1, RowAndColumn
  <2> QED
    BY <1>5, <2>1
<1>7. E = F
  <2> HIDE DEF n, l
  <2> QED
    BY <1>6
<1> HIDE DEF E, F
<1> QED
  BY <1>3, <1>4, <1>7 DEF S

\* The sum of two matrices of one size.
Added(A, C) ==
  [rows |-> A.rows, cols |-> A.cols, data |-> [i \in 1 .. A.rows * A.cols |-> A.data[i] + C.data[i]]]
SameSize(A, C) == IsMatrix(A) /\ IsMatrix(C) /\ C.rows = A.rows /\ C.cols = A.cols

LEMMA PlusFacts ==
  ASSUME NEW A, NEW C, SameSize(A, C)
  PROVE  Plus(A, C) = Added(A, C)
<1> DEFINE n == A.rows * A.cols
           d == A.data
           e == C.data
           D == [i \in 1 .. n |-> d[i - 1 + 1] + e[i - 1 + 1]]
           E == [i \in 1 .. n |-> d[i] + e[i]]
<1>1. Plus(A, C) = [rows |-> A.rows, cols |-> A.cols, data |-> D]
  BY DEF Plus, Filled, Elem
<1>2. Added(A, C) = [rows |-> A.rows, cols |-> A.cols, data |-> E]
  BY DEF Added
<1>3. n \in Nat
  BY MatrixFacts DEF SameSize
<1> HIDE DEF n, d, e
<1>4. ASSUME NEW i \in 1 .. n PROVE i - 1 + 1 = i
  BY <1>3
<1>5. D = E
  BY <1>4
<1> HIDE DEF D, E
<1> QED
  BY <1>1, <1>2, <1>5

LEMMA AddedFacts ==
  ASSUME NEW A, NEW C, SameSize(A, C)
  PROVE  /\ IsMatrix(Added(A, C)) /\ Added(A, C).rows = A.rows /\ Added(A, C).cols = A.cols
         /\ \A i \in 1 .. A.rows * A.cols : Added(A, C).data[i] = A.data[i] + C.data[i]
<1> DEFINE s == A.rows
           k == A.cols
           n == s * k
           d == A.data
           e == C.data
           E == [i \in 1 .. n |-> d[i] + e[i]]
<1>1. Added(A, C) = [rows |-> s, cols |-> k, data |-> E]
  BY DEF Added
<1>2. s \in Nat /\ k \in Nat /\ n \in Nat /\ \A i \in 1 .. n : d[i] \in Int /\ e[i] \in Int
  <2>1. IsMatrix(A) /\ IsMatrix(C) /\ C.rows = s /\ C.cols = k
    BY DEF SameSize
  <2>2. s \in Nat /\ k \in Nat /\ n \in Nat /\ \A i \in 1 .. n : d[i] \in Int
    BY <2>1, MatrixFacts
  <2>3. \A i \in 1 .. C.rows * C.cols : e[i] \in Int
    BY <2>1, MatrixFacts
  <2> QED
    BY <2>1, <2>2, <2>3
<1> HIDE DEF s, k, n, d, e
<1>3. ASSUME NEW i \in 1 .. n PROVE d[i] + e[i] \in Int
  BY <1>2
<1>4. E \in [1 .. n -> Int] /\ \A i \in 1 .. n : E[i] = d[i] + e[i]
  BY <1>3
<1> HIDE DEF E
<1>5. IsMatrix([rows |-> s, cols |-> k, data |-> E])
  BY <1>2, <1>4, MadeOf DEF n
<1> QED
  BY <1>1, <1>4, <1>5 DEF s, k, n, d, e

\* The product of a sum is the sum of the products.
LEMMA ProductAdded ==
  ASSUME NEW A, NEW C, NEW B, SameSize(A, C), IsMatrix(B), A.cols = B.rows
  PROVE  dot(Added(A, C), B) = Added(dot(A, B), dot(C, B))
<1> DEFINE s == A.rows
           k == A.cols
           l == B.cols
           n == s * l
           S == Added(A, C)
           P == dot(A, B)
           Q == dot(C, B)
           D == [i \in 1 .. n |-> DotElement(A, B, (i - 1) \div l, (i - 1) % l)]
           G == [i \in 1 .. n |-> DotElement(C, B, (i - 1) \div l, (i - 1) % l)]
           E == [i \in 1 .. n |-> DotElement(S, B, (i - 1) \div l, (i - 1) % l)]
           F == [i \in 1 .. n |-> D[i] + G[i]]
<1>0. IsMatrix(A) /\ IsMatrix(C) /\ C.rows = s /\ C.cols = k
  BY DEF SameSize
<1>1. s \in Nat /\ k \in Nat /\ l \in Nat
  BY <1>0, MatrixFacts
<1>2. IsMatrix(S) /\ S.rows = s /\ S.cols = k /\ \A i \in 1 .. s * k : S.data[i] = A.data[i] + C.data[i]
  BY AddedFacts
<1> HIDE DEF S
<1>3. dot(S, B) = [rows |-> s, cols |-> l, data |-> E]
  BY <1>2, DotFacts
<1>4. Added(P, Q) = [rows |-> s, cols |-> l, data |-> F]
  <2>1. P = [rows |-> s, cols |-> l, data |-> D]
    BY DotFacts
  <2>2. Q = [rows |-> s, cols |-> l, data |-> G]
    BY <1>0, DotFacts
  <2> HIDE DEF P, Q, D, G, s, l
  <2>3. P.rows = s /\ P.cols = l /\ P.data = D /\ Q.data = G
    BY <2>1, <2>2
  <2>4. Added(P, Q) = [rows |-> P.rows, cols |-> P.cols,
                       data |-> [i \in 1 .. P.rows * P.cols |-> P.data[i] + Q.data[i]]]
    BY DEF Added
  <2> QED
    BY <2>3, <2>4, Zenon
<1>5. ASSUME NEW r \in 0 .. s - 1, NEW c \in 0 .. l - 1
      PROVE  DotElement(S, B, r, c) = DotElement(A, B, r, c) + DotElement(C, B, r, c)
  <2> DEFINE t == Term(S, B, r, c)
             u == Term(A, B, r, c)
             v == Term(C, B, r, c)
  <2>1. /\ DotElement(S, B, r, c) = Sum(t, k) /\ t \in [0 .. k - 1 -> Int]
        /\ DotElement(A, B, r, c) = Sum(u, k) /\ u \in [0 .. k - 1 -> Int]
    BY <1>0, <1>2, TermFacts
  <2>2. DotElement(C, B, r, c) = Sum(v, k) /\ v \in [0 .. k - 1 -> Int]
    BY <1>0, TermFacts
  <2>3. ASSUME NEW inx \in 0 .. k - 1 PROVE t[inx] = u[inx] + v[inx]
    <3> DEFINE y == A.data[r * k + inx + 1]
               x == C.data[r * k + inx + 1]
               z == B.data[c + inx * l + 1]
               w == S.data[r * k + inx + 1]
    <3>1. u[inx] = y * z /\ t[inx] = w * z /\ v[inx] = x * z
      BY <1>0, <1>2 DEF Term
    <3>2. y \in Int /\ z \in Int
      BY <1>0, TermFacts
    <3>3. x \in Int
      BY <1>0, TermFacts
    <3>4. w = y + x
      <4>1. r * k + inx + 1 \in 1 .. s * k
        <5> HIDE DEF s, k
        <5> QED
          BY <1>1, IndexFacts
      <4> QED
        BY <1>2, <4>1
    <3> HIDE DEF y, z, w, x, t, u, v
    <3>5. (y + x) * z = y * z + x * z
      BY <3>2, <3>3
    <3> QED
      BY <3>1, <3>4, <3>5
  <2> HIDE DEF t, u, v, k
  <2>4. Sum(t, k) = Sum(u, k) + Sum(v, k)
    BY <1>1, <2>1, <2>2, <2>3, SumAdded
  <2> QED
    BY <2>1, <2>2, <2>4
<1>6. ASSUME NEW i \in 1 .. n
      PROVE  DotElement(S, B, (i - 1) \div l, (i - 1) % l)
               = DotElement(A, B, (i - 1) \div l, (i - 1) % l) + DotElement(C, B, (i - 1) \div l, (i - 1) % l)
  <2>1. (i - 1) \div l \in 0 .. s - 1 /\ (i - 1) % l \in 0 .. l - 1
    <3> HIDE DEF s, l
    <3> QED
      BY <1>1, RowAndColumn
  <2> QED
    BY <1>5, <2>1
<1>7. E = F
  <2> HIDE DEF n, l
  <2> QED
    BY <1>6
<1> HIDE DEF E, F
<1> QED
  BY <1>3, <1>4, <1>7 DEF S

\* A matrix multiplied by a scalar.
LEMMA TimesScalarFacts ==
  ASSUME NEW A, IsMatrix(A), NEW x \in Int
  PROVE  TimesScalar(A, x) = Scaled(A, x)
<1> DEFINE n == A.rows * A.cols
           d == A.data
           D == [i \in 1 .. n |-> d[i - 1 + 1] * x]
           E == [i \in 1 .. n |-> x * d[i]]
<1>1. TimesScalar(A, x) = [rows |-> A.rows, cols |-> A.cols, data |-> D]
  BY DEF TimesScalar, Filled, Elem
<1>2. Scaled(A, x) = [rows |-> A.rows, cols |-> A.cols, data |-> E]
  BY DEF Scaled
<1>3. n \in Nat /\ \A i \in 1 .. n : d[i] \in Int
  BY MatrixFacts
<1> HIDE DEF n, d
<1>4. ASSUME NEW i \in 1 .. n PROVE d[i - 1 + 1] * x = x * d[i]
  <2>1. i - 1 + 1 = i /\ d[i] \in Int
    BY <1>3
  <2> QED
    BY <2>1
<1>5. D = E
  BY <1>4
<1> HIDE DEF D, E
<1> QED
  BY <1>1, <1>2, <1>5

\* A product is linear in the matrix on its left.
LEMMA Linear ==
  ASSUME NEW A, NEW C, NEW B, NEW x \in Int, SameSize(A, C), IsMatrix(B), A.cols = B.rows
  PROVE  LinearLaws(A, C, B, x)
<1> DEFINE P == dot(A, B)
           Q == dot(C, B)
<1>1. IsMatrix(A) /\ IsMatrix(C) /\ C.rows = A.rows /\ C.cols = A.cols
  BY DEF SameSize
<1>2. IsMatrix(P) /\ IsMatrix(Q)
  BY <1>1, DotIsMatrix
<1>3. SameSize(P, Q)
  BY <1>1, <1>2, DotFacts DEF SameSize
<1>4. dot(Added(A, C), B) = Added(P, Q)
  BY ProductAdded
<1>5. dot(Scaled(A, x), B) = Scaled(P, x)
  BY <1>1, ProductScaled
<1> HIDE DEF P, Q
<1>6. Plus(A, C) = Added(A, C) /\ Plus(P, Q) = Added(P, Q)
  BY <1>3, PlusFacts
<1>7. TimesScalar(A, x) = Scaled(A, x) /\ TimesScalar(P, x) = Scaled(P, x)
  BY <1>1, <1>2, TimesScalarFacts
<1> QED
  BY <1>4, <1>5, <1>6, <1>7 DEF LinearLaws, P, Q

\* The loop of min and max finds the first of the least keys.
LEMMA FirstLeastFacts ==
  ASSUME NEW n \in Nat, n # 0, NEW key \in [0 .. n - 1 -> Int]
  PROVE  /\ FirstLeast(key, n) \in 0 .. n - 1
         /\ \A j \in 0 .. n - 1 : key[FirstLeast(key, n)] <= key[j]
         /\ \A j \in 0 .. FirstLeast(key, n) - 1 : key[FirstLeast(key, n)] < key[j]
<1> DEFINE step == [k \in 1 .. n - 1 |-> [b \in Int |->
                      IF b \in 0 .. n - 1 THEN IF key[k] < key[b] THEN k ELSE b ELSE 0]]
           G == CHOOSE g : g = [k \in 1 .. n |-> IF k = 1 THEN 0
                                  ELSE IF key[k - 1] < key[g[k - 1]] THEN k - 1 ELSE g[k - 1]]
<1>1. step \in [1 .. n - 1 -> [Int -> Int]]
  OBVIOUS
<1>2. \A k \in 1 .. n - 1, b \in 0 .. n - 1 : step[k][b] = IF key[k] < key[b] THEN k ELSE b
  OBVIOUS
<1> HIDE DEF step
<1>3. PICK f \in [0 .. n - 1 -> Int] : f[0] = 0 /\ \A k \in 1 .. n - 1 : f[k] = step[k][f[k - 1]]
  <2> DEFINE z == 0
             last == n - 1
  <2>1. z \in Int /\ last \in Nat
    OBVIOUS
  <2>2. step \in [1 .. last -> [Int -> Int]]
    BY <1>1, Zenon
  <2> HIDE DEF z, last
  <2>3. LoopRuns(z, last, step)
    BY <2>1, <2>2, LoopResults, Zenon
  <2> QED
    BY <2>3 DEF LoopRuns, z, last
<1>4. \A k \in 0 .. n - 1 : f[k] \in 0 .. n - 1
  <2> DEFINE Bad == {k \in 0 .. n - 1 : f[k] \notin 0 .. n - 1}
  <2> SUFFICES ASSUME Bad # {} PROVE FALSE
    OBVIOUS
  <2>1. Bad \subseteq Nat
    OBVIOUS
  <2> HIDE DEF Bad
  <2>2. PICK k \in Bad : \A j \in Bad : k <= j
    BY <2>1, LeastNumber
  <2>3. k \in 1 .. n - 1 /\ f[k] \notin 0 .. n - 1 /\ k - 1 \in 0 .. n - 1
    BY <1>3 DEF Bad
  <2>4. f[k - 1] \in 0 .. n - 1
    BY <2>2, <2>3 DEF Bad
  <2>5. f[k] = k \/ f[k] = f[k - 1]
    BY <1>2, <1>3, <2>3, <2>4
  <2> QED
    BY <2>3, <2>4, <2>5
<1> DEFINE g == [k \in 1 .. n |-> f[k - 1]]
<1>5. g = [k \in 1 .. n |-> IF k = 1 THEN 0
                            ELSE IF key[k - 1] < key[g[k - 1]] THEN k - 1 ELSE g[k - 1]]
  <2>1. ASSUME NEW k \in 1 .. n
        PROVE  g[k] = IF k = 1 THEN 0 ELSE IF key[k - 1] < key[g[k - 1]] THEN k - 1 ELSE g[k - 1]
    <3>1. CASE k = 1
      BY <1>3, <3>1
    <3>2. CASE k # 1
      <4> DEFINE j == k - 1
                 b == f[j - 1]
      <4>1. j \in 1 .. n - 1 /\ j - 1 \in 0 .. n - 1 /\ g[k] = f[j] /\ g[k - 1] = b
        BY <3>2
      <4>2. b \in 0 .. n - 1
        BY <1>4, <4>1
      <4>3. f[j] = IF key[j] < key[b] THEN j ELSE b
        BY <1>2, <1>3, <4>1, <4>2
      <4> QED
        BY <3>2, <4>1, <4>3
    <3> QED
      BY <3>1, <3>2
  <2> QED
    BY <2>1
<1> HIDE DEF g
<1>6. G = [k \in 1 .. n |-> IF k = 1 THEN 0 ELSE IF key[k - 1] < key[G[k - 1]] THEN k - 1 ELSE G[k - 1]]
  BY <1>5
<1>7. FirstLeast(key, n) = G[n]
  BY DEF FirstLeast
<1> HIDE DEF G
<1>8. /\ G[1] = 0
      /\ \A k \in 1 .. n : k # 1 => G[k] = IF key[k - 1] < key[G[k - 1]] THEN k - 1 ELSE G[k - 1]
  <2> DEFINE H(k) == IF k = 1 THEN 0 ELSE IF key[k - 1] < key[G[k - 1]] THEN k - 1 ELSE G[k - 1]
  <2>1. G = [k \in 1 .. n |-> H(k)]
    BY <1>6
  <2>2. H(1) = 0 /\ \A k \in 1 .. n : k # 1 => H(k) = IF key[k - 1] < key[G[k - 1]] THEN k - 1 ELSE G[k - 1]
    OBVIOUS
  <2> HIDE DEF H
  <2>3. \A k \in 1 .. n : G[k] = H(k)
    BY <2>1
  <2> QED
    BY <2>2, <2>3
<1> DEFINE FirstSoFar(k, b) == /\ b \in 0 .. k - 1
                               /\ \A j \in 0 .. k - 1 : key[b] <= key[j]
                               /\ \A j \in 0 .. b - 1 : key[b] < key[j]
<1>9. \A k \in 1 .. n : FirstSoFar(k, G[k])
  <2> DEFINE Bad == {k \in 1 .. n : ~FirstSoFar(k, G[k])}
  <2> SUFFICES ASSUME Bad # {} PROVE FALSE
    <3> HIDE DEF FirstSoFar
    <3> QED
      OBVIOUS
  <2>1. Bad \subseteq Nat
    OBVIOUS
  <2> HIDE DEF Bad
  <2>2. PICK k \in Bad : \A j \in Bad : k <= j
    BY <2>1, LeastNumber
  <2>3. k \in 1 .. n /\ ~FirstSoFar(k, G[k])
    <3> HIDE DEF FirstSoFar
    <3> QED
      BY DEF Bad
  <2>4. k # 1
    BY <1>8, <2>3
  <2>5. k - 1 \in 1 .. n /\ FirstSoFar(k - 1, G[k - 1])
    <3> HIDE DEF FirstSoFar
    <3> QED
      BY <2>2, <2>3, <2>4 DEF Bad
  <2> DEFINE b == G[k - 1]
  <2>6. G[k] = IF key[k - 1] < key[b] THEN k - 1 ELSE b
    BY <1>8, <2>3, <2>4
  <2> HIDE DEF b
  <2>7. /\ b \in 0 .. k - 2 /\ (\A j \in 0 .. k - 2 : key[b] <= key[j]) /\ (\A j \in 0 .. b - 1 : key[b] < key[j])
        /\ \A j \in 0 .. k - 1 : j \in 0 .. k - 2 \/ j = k - 1
    BY <2>3, <2>5 DEF b
  <2>8. /\ \A j \in 0 .. k - 1 : key[j] \in Int
        /\ b \in 0 .. k - 1
    BY <2>3, <2>7
  <2>9. CASE key[k - 1] < key[b]
    <3>a. k \in Nat /\ k # 0
      BY <2>3
    <3>b. ASSUME NEW j \in 0 .. k - 2 PROVE key[k - 1] < key[j]
      <4>1. key[b] <= key[j] /\ key[j] \in Int /\ key[b] \in Int /\ key[k - 1] \in Int
        BY <2>7, <2>8, <3>a
      <4> QED
        BY <2>9, <4>1
    <3>c. ASSUME NEW j \in 0 .. k - 1 PROVE key[k - 1] <= key[j]
      <4>1. key[k - 1] \in Int /\ key[j] \in Int /\ (j \in 0 .. k - 2 \/ j = k - 1)
        BY <2>7, <2>8, <3>a
      <4> QED
        BY <3>b, <4>1
    <3>1. FirstSoFar(k, k - 1)
      BY <3>a, <3>b, <3>c
    <3>2. G[k] = k - 1
      BY <2>6, <2>9
    <3> HIDE DEF FirstSoFar
    <3> QED
      BY <2>3, <3>1, <3>2
  <2>10. CASE ~(key[k - 1] < key[b])
    <3>a. k \in Nat /\ k # 0
      BY <2>3
    <3>b. ASSUME NEW j \in 0 .. k - 1 PROVE key[b] <= key[j]
      <4>1. key[b] \in Int /\ key[j] \in Int /\ key[k - 1] \in Int /\ (j \in 0 .. k - 2 \/ j = k - 1)
        BY <2>7, <2>8, <3>a
      <4> QED
        BY <2>7, <2>10, <4>1
    <3>1. FirstSoFar(k, b)
      BY <2>7, <2>8, <3>b
    <3>2. G[k] = b
      BY <2>6, <2>10
    <3> HIDE DEF FirstSoFar
    <3> QED
      BY <2>3, <3>1, <3>2
  <2> QED
    BY <2>9, <2>10
<1> QED
  BY <1>7, <1>9

\* min, at its index in the array.
LEMMA LeastElement ==
  ASSUME NEW A, IsMatrix(A), Len(A.data) # 0
  PROVE  \E i \in 0 .. A.rows * A.cols - 1 :
           /\ min(A) = [val |-> A.data[i + 1], index |-> [row |-> i \div A.cols, col |-> i % A.cols]]
           /\ \A j \in 0 .. A.rows * A.cols - 1 : A.data[i + 1] <= A.data[j + 1]
           /\ \A j \in 0 .. i - 1 : A.data[i + 1] < A.data[j + 1]
<1> DEFINE n == A.rows * A.cols
           d == A.data
           key == [inx \in 0 .. n - 1 |-> d[inx + 1]]
           i == FirstLeast(key, n)
<1>1. n \in Nat /\ n # 0 /\ n = Len(d) /\ \A j \in 1 .. n : d[j] \in Int
  BY MatrixFacts
<1>2. min(A) = [val |-> d[i + 1], index |-> [row |-> i \div A.cols, col |-> i % A.cols]]
  <2>1. min(A) = LET e == FirstLeast([inx \in 0 .. Len(d) - 1 |-> d[inx + 1]], Len(d))
                 IN  [val |-> d[e + 1], index |-> [row |-> e \div A.cols, col |-> e % A.cols]]
    BY DEF min, IndexOf, Elem
  <2> HIDE DEF n, d
  <2> QED
    BY <1>1, <2>1, Zenon
<1> HIDE DEF n, d
<1>3. key \in [0 .. n - 1 -> Int]
  BY <1>1
<1>4. \A j \in 0 .. n - 1 : key[j] = d[j + 1]
  OBVIOUS
<1> HIDE DEF key
<1>5. /\ i \in 0 .. n - 1 /\ (\A j \in 0 .. n - 1 : key[i] <= key[j])
      /\ \A j \in 0 .. i - 1 : key[i] < key[j]
  BY <1>1, <1>3, FirstLeastFacts
<1> HIDE DEF i
<1>6. \A j \in 0 .. i - 1 : j \in 0 .. n - 1
  BY <1>1, <1>5
<1>7. /\ \A j \in 0 .. n - 1 : d[i + 1] <= d[j + 1]
      /\ \A j \in 0 .. i - 1 : d[i + 1] < d[j + 1]
  BY <1>4, <1>5, <1>6
<1> QED
  BY <1>2, <1>5, <1>7 DEF n, d

\* ... and in its row and column.
LEMMA LeastIsFirst ==
  ASSUME NEW A, IsMatrix(A), Len(A.data) # 0
  PROVE  /\ min(A).index.row \in 0 .. A.rows - 1 /\ min(A).index.col \in 0 .. A.cols - 1
         /\ at(A, min(A).index.row, min(A).index.col) = min(A).val
         /\ min(A).val \in Int
         /\ \A r \in 0 .. A.rows - 1, c \in 0 .. A.cols - 1 :
              /\ min(A).val <= at(A, r, c)
              /\ at(A, r, c) = min(A).val =>
                   min(A).index.row < r \/ (min(A).index.row = r /\ min(A).index.col <= c)
<1> DEFINE s == A.rows
           k == A.cols
           d == A.data
<1>1. /\ s \in Nat /\ k \in Nat /\ s * k \in Nat
      /\ \A i \in 1 .. s * k : d[i] \in Int
  BY MatrixFacts
<1>2. PICK i \in 0 .. s * k - 1 :
        /\ min(A) = [val |-> d[i + 1], index |-> [row |-> i \div k, col |-> i % k]]
        /\ \A j \in 0 .. s * k - 1 : d[i + 1] <= d[j + 1]
        /\ \A j \in 0 .. i - 1 : d[i + 1] < d[j + 1]
  BY LeastElement
<1> DEFINE row == i \div k
           col == i % k
           v == d[i + 1]
<1>3. min(A).val = v /\ min(A).index.row = row /\ min(A).index.col = col
  BY <1>2
<1>4. ASSUME NEW r, NEW c PROVE at(A, r, c) = d[r * k + c + 1]
  BY DEF at
<1> HIDE DEF s, k, d
<1>5. i + 1 \in 1 .. s * k /\ i + 1 - 1 = i
  BY <1>1
<1>6. row \in 0 .. s - 1 /\ col \in 0 .. k - 1 /\ i = row * k + col
  <2> DEFINE j == i + 1
  <2>1. j \in 1 .. s * k /\ j - 1 = i
    BY <1>5
  <2> HIDE DEF j
  <2>2. (j - 1) \div k \in 0 .. s - 1 /\ (j - 1) % k \in 0 .. k - 1 /\ j - 1 = ((j - 1) \div k) * k + ((j - 1) % k)
    BY <1>1, <2>1, RowAndColumn
  <2> QED
    BY <2>1, <2>2
<1>7. v \in Int
  BY <1>1, <1>5
<1> HIDE DEF row, col
<1>8. d[row * k + col + 1] = v
  BY <1>6
<1>9. ASSUME NEW r \in 0 .. s - 1, NEW c \in 0 .. k - 1
      PROVE  /\ v <= d[r * k + c + 1]
             /\ d[r * k + c + 1] = v => row < r \/ (row = r /\ col <= c)
  <2> DEFINE j == r * k + c
  <2>1. j + 1 \in 1 .. s * k /\ j \in Nat
    BY <1>1, IndexFacts
  <2>2. j \in 0 .. s * k - 1
    <3> HIDE DEF j
    <3> QED
      BY <1>1, <2>1
  <2>3. v <= d[j + 1]
    <3> HIDE DEF j
    <3> QED
      BY <1>2, <2>2
  <2>4. ASSUME d[j + 1] = v PROVE i <= j
    <3> HIDE DEF j
    <3>1. ~(j \in 0 .. i - 1)
      <4> SUFFICES ASSUME j \in 0 .. i - 1 PROVE FALSE
        OBVIOUS
      <4>1. v < d[j + 1]
        BY <1>2
      <4> QED
        BY <1>7, <2>4, <4>1
    <3>2. i \in Nat /\ j \in Nat
      BY <1>1, <2>1
    <3> QED
      BY <3>1, <3>2
  <2>5. ASSUME i <= j PROVE row < r \/ (row = r /\ col <= c)
    <3>1. CASE row > r
      <4>1. (r + 1) * k <= row * k /\ (r + 1) * k = r * k + k
        BY <1>1, <1>6, <3>1
      <4>2. r * k \in Nat /\ row * k \in Nat
        BY <1>1, <1>6
      <4> QED
        BY <1>1, <1>6, <2>5, <4>1, <4>2
    <3>2. CASE row = r
      <4>1. r * k \in Nat /\ i = r * k + col
        BY <1>1, <1>6, <3>2
      <4> QED
        BY <1>1, <1>6, <2>5, <3>2, <4>1
    <3> QED
      BY <1>1, <1>6, <3>1, <3>2
  <2> QED
    BY <2>3, <2>4, <2>5
<1> HIDE DEF v
<1> QED
  BY <1>3, <1>4, <1>6, <1>7, <1>8, <1>9 DEF s, k

\* The elements of a transpose are those of the matrix.
LEMMA TransposeAt ==
  ASSUME NEW A, IsMatrix(A), NEW r \in 0 .. A.rows - 1, NEW c \in 0 .. A.cols - 1
  PROVE  at(transpose(A), c, r) = at(A, r, c)
BY TransposeFacts DEF at

\* The least element of the transpose.
LEMMA LeastOfTranspose ==
  ASSUME NEW A, IsMatrix(A), Len(A.data) # 0
  PROVE  min(transpose(A)).val = min(A).val
<1> DEFINE T == transpose(A)
<1>1. /\ IsMatrix(T) /\ T.rows = A.cols /\ T.cols = A.rows /\ A.rows \in Nat /\ A.cols \in Nat
      /\ Len(A.data) = A.rows * A.cols
  BY TransposeFacts, MatrixFacts
<1>2. \A r \in 0 .. A.rows - 1, c \in 0 .. A.cols - 1 : at(T, c, r) = at(A, r, c)
  BY TransposeAt
<1> HIDE DEF T
<1>3. Len(T.data) # 0
  <2>1. Len(T.data) = A.cols * A.rows
    BY <1>1, MatrixFacts
  <2> QED
    BY <1>1, <2>1
<1>4. /\ min(A).val \in Int /\ min(T).val \in Int
      /\ \A r \in 0 .. A.rows - 1, c \in 0 .. A.cols - 1 : min(A).val <= at(A, r, c)
      /\ \A c \in 0 .. A.cols - 1, r \in 0 .. A.rows - 1 : min(T).val <= at(T, c, r)
  BY <1>1, <1>3, LeastIsFirst
<1>5. PICK r \in 0 .. A.rows - 1, c \in 0 .. A.cols - 1 : at(A, r, c) = min(A).val
  BY LeastIsFirst
<1>6. PICK c1 \in 0 .. A.cols - 1, r1 \in 0 .. A.rows - 1 : at(T, c1, r1) = min(T).val
  BY <1>1, <1>3, LeastIsFirst
<1>7. min(T).val <= min(A).val /\ min(A).val <= min(T).val
  BY <1>2, <1>4, <1>5, <1>6
<1> QED
  BY <1>4, <1>7 DEF T

\* max is min with the order turned round.
LEMMA GreatestElement ==
  ASSUME NEW A, IsMatrix(A), Len(A.data) # 0
  PROVE  max(A) = [min(TimesScalar(A, -1)) EXCEPT !.val = -@]
<1> DEFINE N == TimesScalar(A, -1)
           n == A.rows * A.cols
           d == A.data
           e == N.data
           key == [inx \in 0 .. n - 1 |-> -d[inx + 1]]
           kez == [inx \in 0 .. n - 1 |-> e[inx + 1]]
           i == FirstLeast(key, n)
           D == [j \in 1 .. n |-> (-1) * d[j]]
<1>1. n \in Nat /\ n # 0 /\ n = Len(d) /\ \A j \in 1 .. n : d[j] \in Int
  BY MatrixFacts
<1>2. IsMatrix(N) /\ N = [rows |-> A.rows, cols |-> A.cols, data |-> D]
  <2>1. -1 \in Int
    OBVIOUS
  <2>2. N = Scaled(A, -1) /\ IsMatrix(Scaled(A, -1))
    BY <2>1, TimesScalarFacts, ScaledFacts
  <2> QED
    BY <2>2 DEF Scaled
<1>3. e = D /\ N.cols = A.cols /\ Len(e) = n
  <2>1. N.rows = A.rows /\ N.cols = A.cols /\ N.data = D
    <3> HIDE DEF N, D
    <3> QED
      BY <1>2
  <2>2. Len(e) = N.rows * N.cols
    <3> HIDE DEF N
    <3> QED
      BY <1>2, MatrixFacts
  <2> HIDE DEF N, D
  <2> QED
    BY <2>1, <2>2
<1>4. max(A) = [val |-> d[i + 1], index |-> [row |-> i \div A.cols, col |-> i % A.cols]]
  <2>1. max(A) = LET j == FirstLeast([inx \in 0 .. Len(d) - 1 |-> -d[inx + 1]], Len(d))
                 IN  [val |-> d[j + 1], index |-> [row |-> j \div A.cols, col |-> j % A.cols]]
    BY DEF max, IndexOf, Elem
  <2> HIDE DEF n, d
  <2> QED
    BY <1>1, <2>1, Zenon
<1>5. min(N) = LET j == FirstLeast(kez, n)
               IN  [val |-> e[j + 1], index |-> [row |-> j \div A.cols, col |-> j % A.cols]]
  <2>1. min(N) = LET j == FirstLeast([inx \in 0 .. Len(e) - 1 |-> e[inx + 1]], Len(e))
                 IN  [val |-> e[j + 1], index |-> [row |-> j \div N.cols, col |-> j % N.cols]]
    <3> HIDE DEF N
    <3> QED
      BY DEF min, IndexOf, Elem
  <2> HIDE DEF n, e, N
  <2> QED
    BY <1>3, <2>1, Zenon
<1> HIDE DEF N, n, d, e
<1>6. ASSUME NEW j \in 1 .. n PROVE e[j] = -d[j] /\ d[j] = -e[j] /\ e[j] \in Int
  <2>1. e[j] = (-1) * d[j] /\ d[j] \in Int
    BY <1>1, <1>3
  <2> QED
    BY <2>1
<1>7. key = kez /\ key \in [0 .. n - 1 -> Int]
  <2>1. ASSUME NEW j \in 0 .. n - 1 PROVE e[j + 1] = -d[j + 1] /\ -d[j + 1] \in Int
    <3>1. j + 1 \in 1 .. n
      BY <1>1
    <3> QED
      BY <1>1, <1>6, <3>1
  <2> QED
    BY <2>1
<1>8. i \in 0 .. n - 1
  <2> HIDE DEF key
  <2> QED
    BY <1>1, <1>7, FirstLeastFacts
<1>9. d[i + 1] = -e[i + 1]
  <2> HIDE DEF i
  <2>1. i + 1 \in 1 .. n
    BY <1>1, <1>8
  <2> QED
    BY <1>6, <2>1
<1>10. min(N) = [val |-> e[i + 1], index |-> [row |-> i \div A.cols, col |-> i % A.cols]]
  <2> HIDE DEF key, kez
  <2> QED
    BY <1>5, <1>7, Zenon
<1> HIDE DEF i
<1> QED
  BY <1>4, <1>9, <1>10 DEF N

\* The laws of min and max.
LEMMA MinMax ==
  ASSUME NEW A, IsMatrix(A)
  PROVE  MinMaxLaws(A)
<1> SUFFICES ASSUME Len(A.data) # 0
             PROVE  /\ min(A).index.row < A.rows /\ min(A).index.col < A.cols
                    /\ at(A, min(A).index.row, min(A).index.col) = min(A).val
                    /\ \A r \in 0 .. A.rows - 1, c \in 0 .. A.cols - 1 :
                         /\ min(A).val <= at(A, r, c)
                         /\ at(A, r, c) = min(A).val =>
                              min(A).index.row < r \/ (min(A).index.row = r /\ min(A).index.col <= c)
                    /\ min(transpose(A)).val = min(A).val
                    /\ max(A) = [min(TimesScalar(A, -1)) EXCEPT !.val = -@]
  BY DEF MinMaxLaws
<1>1. A.rows \in Nat /\ A.cols \in Nat
  BY MatrixFacts
<1>2. min(A).index.row < A.rows /\ min(A).index.col < A.cols
  <2>1. min(A).index.row \in 0 .. A.rows - 1 /\ min(A).index.col \in 0 .. A.cols - 1
    BY LeastIsFirst
  <2> QED
    BY <1>1, <2>1
<1> QED
  BY <1>2, LeastIsFirst, LeastOfTranspose, GreatestElement

\* Plus and Minus.
LEMMA PlusMinus ==
  ASSUME NEW A, NEW C, SameSize(A, C)
  PROVE  Minus(Plus(A, C), C) = A
<1> DEFINE s == A.rows
           k == A.cols
           d == A.data
           e == C.data
           n == s * k
           P == Plus(A, C)
           D == [i \in 1 .. n |-> d[i - 1 + 1] + e[i - 1 + 1]]
           E == [i \in 1 .. n |-> P.data[i - 1 + 1] - e[i - 1 + 1]]
<1>1. P.rows = s /\ P.cols = k /\ P.data = D
  BY DEF Plus, Filled, Elem
<1> HIDE DEF P
<1>2. Minus(P, C) = [rows |-> s, cols |-> k, data |-> E]
  BY <1>1 DEF Minus, Filled, Elem
<1>3. /\ n \in Nat /\ (\A i \in 1 .. n : d[i] \in Int) /\ d = [i \in 1 .. n |-> d[i]]
      /\ A = [rows |-> s, cols |-> k, data |-> d]
  BY MatrixFacts DEF SameSize
<1>p. \A i \in 1 .. n : e[i] \in Int
  <2>1. IsMatrix(C) /\ C.rows = s /\ C.cols = k
    BY DEF SameSize
  <2>2. \A i \in 1 .. C.rows * C.cols : e[i] \in Int
    BY <2>1, MatrixFacts
  <2> QED
    BY <2>1, <2>2
<1>4. ASSUME NEW i \in 1 .. n PROVE E[i] = d[i]
  <2> HIDE DEF n, d, e
  <2>1. i - 1 + 1 = i /\ d[i] \in Int /\ e[i] \in Int
    BY <1>3, <1>p
  <2>2. D[i] = d[i] + e[i]
    BY <2>1
  <2>3. E[i] = (d[i] + e[i]) - e[i]
    BY <1>1, <2>1, <2>2
  <2> QED
    BY <2>1, <2>3
<1>5. E = d
  <2> HIDE DEF n, d, e
  <2> QED
    BY <1>3, <1>4
<1> HIDE DEF E, s, k, d, e
<1> QED
  BY <1>2, <1>3, <1>5 DEF P

\* PlusScalar and MinusScalar.
LEMMA PlusMinusScalar ==
  ASSUME NEW A, IsMatrix(A), NEW x \in Int
  PROVE  MinusScalar(PlusScalar(A, x), x) = A
<1> DEFINE s == A.rows
           k == A.cols
           d == A.data
           n == s * k
           P == PlusScalar(A, x)
           D == [i \in 1 .. n |-> d[i - 1 + 1] + x]
           E == [i \in 1 .. n |-> P.data[i - 1 + 1] - x]
<1>1. P.rows = s /\ P.cols = k /\ P.data = D
  BY DEF PlusScalar, Filled, Elem
<1> HIDE DEF P
<1>2. MinusScalar(P, x) = [rows |-> s, cols |-> k, data |-> E]
  BY <1>1 DEF MinusScalar, Filled, Elem
<1>3. /\ n \in Nat /\ (\A i \in 1 .. n : d[i] \in Int) /\ d = [i \in 1 .. n |-> d[i]]
      /\ A = [rows |-> s, cols |-> k, data |-> d]
  BY MatrixFacts
<1>4. ASSUME NEW i \in 1 .. n PROVE E[i] = d[i]
  <2> HIDE DEF n, d
  <2>1. i - 1 + 1 = i /\ d[i] \in Int
    BY <1>3
  <2>2. D[i] = d[i] + x
    BY <2>1
  <2>3. E[i] = (d[i] + x) - x
    BY <1>1, <2>1, <2>2
  <2> QED
    BY <2>1, <2>3
<1>5. E = d
  <2> HIDE DEF n, d
  <2> QED
    BY <1>3, <1>4
<1> HIDE DEF E, s, k, d
<1> QED
  BY <1>2, <1>3, <1>5 DEF P

\* ScalarMinus, twice.
LEMMA ScalarMinusTwice ==
  ASSUME NEW A, IsMatrix(A), NEW x \in Int
  PROVE  ScalarMinus(x, ScalarMinus(x, A)) = A
<1> DEFINE s == A.rows
           k == A.cols
           d == A.data
           n == s * k
           P == ScalarMinus(x, A)
           D == [i \in 1 .. n |-> x - d[i - 1 + 1]]
           E == [i \in 1 .. n |-> x - P.data[i - 1 + 1]]
<1>1. P.rows = s /\ P.cols = k /\ P.data = D
  BY DEF ScalarMinus, Filled, Elem
<1> HIDE DEF P
<1>2. ScalarMinus(x, P) = [rows |-> s, cols |-> k, data |-> E]
  BY <1>1 DEF ScalarMinus, Filled, Elem
<1>3. /\ n \in Nat /\ (\A i \in 1 .. n : d[i] \in Int) /\ d = [i \in 1 .. n |-> d[i]]
      /\ A = [rows |-> s, cols |-> k, data |-> d]
  BY MatrixFacts
<1>4. ASSUME NEW i \in 1 .. n PROVE E[i] = d[i]
  <2> HIDE DEF n, d
  <2>1. i - 1 + 1 = i /\ d[i] \in Int
    BY <1>3
  <2>2. D[i] = x - d[i]
    BY <2>1
  <2>3. E[i] = x - (x - d[i])
    BY <1>1, <2>1, <2>2
  <2> QED
    BY <2>1, <2>3
<1>5. E = d
  <2> HIDE DEF n, d
  <2> QED
    BY <1>3, <1>4
<1> HIDE DEF E, s, k, d
<1> QED
  BY <1>2, <1>3, <1>5 DEF P

\* A multiple of y, divided by y.
LEMMA MultipleDivided ==
  ASSUME NEW z \in Int, NEW y \in Nat, y > 0
  PROVE  (z * y) \div y = z
<1>1. 0 \in 0 .. y - 1
  OBVIOUS
<1> DEFINE r == 0
<1>2. r \in 0 .. y - 1
  BY <1>1
<1> HIDE DEF r
<1>3. (z * y + r) \div y = z
  BY <1>2, DivMod
<1>4. z * y + r = z * y
  BY DEF r
<1> QED
  BY <1>3, <1>4

\* Times and Over, by positive elements.
LEMMA TimesOver ==
  ASSUME NEW A, NEW C, SameSize(A, C), Positive(C)
  PROVE  Over(Times(A, C), C) = A
<1> DEFINE s == A.rows
           k == A.cols
           d == A.data
           e == C.data
           n == s * k
           P == Times(A, C)
           D == [i \in 1 .. n |-> d[i - 1 + 1] * e[i - 1 + 1]]
           E == [i \in 1 .. n |-> P.data[i - 1 + 1] \div e[i - 1 + 1]]
<1>1. P.rows = s /\ P.cols = k /\ P.data = D
  BY DEF Times, Filled, Elem
<1> HIDE DEF P
<1>2. Over(P, C) = [rows |-> s, cols |-> k, data |-> E]
  BY <1>1 DEF Over, Filled, Elem
<1>3. /\ n \in Nat /\ (\A i \in 1 .. n : d[i] \in Int) /\ d = [i \in 1 .. n |-> d[i]]
      /\ A = [rows |-> s, cols |-> k, data |-> d]
  BY MatrixFacts DEF SameSize
<1>p. \A i \in 1 .. n : e[i] \in Int /\ e[i] > 0
  <2>1. IsMatrix(C) /\ C.rows = s /\ C.cols = k
    BY DEF SameSize
  <2>2. Len(e) = C.rows * C.cols /\ \A i \in 1 .. C.rows * C.cols : e[i] \in Int
    BY <2>1, MatrixFacts
  <2> QED
    BY <2>1, <2>2 DEF Positive
<1>4. ASSUME NEW i \in 1 .. n PROVE E[i] = d[i]
  <2> HIDE DEF n, d, e
  <2>1. i - 1 + 1 = i /\ d[i] \in Int
    BY <1>3
  <2>2. D[i] = d[i] * e[i]
    BY <2>1
  <2>3. E[i] = (d[i] * e[i]) \div e[i]
    BY <1>1, <2>1, <2>2
  <2>4. e[i] \in Nat /\ e[i] > 0
    BY <1>p, <2>1
  <2> HIDE DEF D, E
  <2> QED
    BY <2>1, <2>3, <2>4, MultipleDivided
<1>5. E = d
  <2> HIDE DEF n, d, e
  <2> QED
    BY <1>3, <1>4
<1> HIDE DEF E, s, k, d, e
<1> QED
  BY <1>2, <1>3, <1>5 DEF P

\* TimesScalar and OverScalar, by a positive number.
LEMMA TimesOverScalar ==
  ASSUME NEW A, IsMatrix(A), NEW x \in Nat, x > 0
  PROVE  OverScalar(TimesScalar(A, x), x) = A
<1> DEFINE s == A.rows
           k == A.cols
           d == A.data
           n == s * k
           P == TimesScalar(A, x)
           D == [i \in 1 .. n |-> d[i - 1 + 1] * x]
           E == [i \in 1 .. n |-> P.data[i - 1 + 1] \div x]
<1>1. P.rows = s /\ P.cols = k /\ P.data = D
  BY DEF TimesScalar, Filled, Elem
<1> HIDE DEF P
<1>2. OverScalar(P, x) = [rows |-> s, cols |-> k, data |-> E]
  BY <1>1 DEF OverScalar, Filled, Elem
<1>3. /\ n \in Nat /\ (\A i \in 1 .. n : d[i] \in Int) /\ d = [i \in 1 .. n |-> d[i]]
      /\ A = [rows |-> s, cols |-> k, data |-> d]
  BY MatrixFacts
<1>4. ASSUME NEW i \in 1 .. n PROVE E[i] = d[i]
  <2> HIDE DEF n, d
  <2>1. i - 1 + 1 = i /\ d[i] \in Int
    BY <1>3
  <2>2. D[i] = d[i] * x
    BY <2>1
  <2>3. E[i] = (d[i] * x) \div x
    BY <1>1, <2>1, <2>2
  <2> HIDE DEF D, E
  <2> QED
    BY <2>1, <2>3, MultipleDivided
<1>5. E = d
  <2> HIDE DEF n, d
  <2> QED
    BY <1>3, <1>4
<1> HIDE DEF E, s, k, d
<1> QED
  BY <1>2, <1>3, <1>5 DEF P

\* What ScalarOver rounds off is the remainder.
LEMMA ScalarOverTimes ==
  ASSUME NEW A, IsMatrix(A), Positive(A), NEW x \in Nat
  PROVE  Times(ScalarOver(x, A), A)
           = apply(A, [e \in {A.data[i] : i \in 1 .. Len(A.data)} |-> x - (x % e)])
<1> DEFINE s == A.rows
           k == A.cols
           d == A.data
           n == s * k
           func == [e \in {d[i] : i \in 1 .. Len(d)} |-> x - (x % e)]
           P == ScalarOver(x, A)
           D == [i \in 1 .. n |-> x \div d[i - 1 + 1]]
           E == [i \in 1 .. n |-> P.data[i - 1 + 1] * d[i - 1 + 1]]
           F == [i \in 1 .. n |-> func[d[i - 1 + 1]]]
<1>1. P.rows = s /\ P.cols = k /\ P.data = D
  BY DEF ScalarOver, Filled, Elem
<1>2. apply(A, func) = [rows |-> s, cols |-> k, data |-> F]
  <2> HIDE DEF func
  <2> QED
    BY DEF apply, Filled, Elem
<1> HIDE DEF P
<1>3. Times(P, A) = [rows |-> s, cols |-> k, data |-> E]
  BY <1>1 DEF Times, Filled, Elem
<1>4. n \in Nat /\ Len(d) = n /\ \A i \in 1 .. n : d[i] \in Int /\ d[i] > 0
  BY MatrixFacts DEF Positive
<1>5. ASSUME NEW i \in 1 .. n PROVE E[i] = F[i]
  <2> HIDE DEF n, d
  <2>1. i - 1 + 1 = i /\ d[i] \in Int /\ d[i] > 0
    BY <1>4
  <2>2. D[i] = x \div d[i]
    BY <2>1
  <2>3. E[i] = (x \div d[i]) * d[i]
    BY <1>1, <2>1, <2>2
  <2>4. F[i] = x - (x % d[i])
    BY <1>4, <2>1
  <2> DEFINE y == d[i]
  <2>5. y \in Int /\ y > 0
    BY <2>1
  <2> HIDE DEF y
  <2>6. (x \div y) * y = x - (x % y)
    BY <2>5
  <2> QED
    BY <2>3, <2>4, <2>6 DEF y
<1>6. E = F
  BY <1>5
<1> QED
  BY <1>2, <1>3, <1>6 DEF P

\* A new matrix has its elements to be written.
LEMMA NewMatrixFacts ==
  ASSUME NEW A, IsMatrix(A)
  PROVE  \E D : /\ NewMatrix(A.rows, A.cols) = [rows |-> A.rows, cols |-> A.cols, data |-> D]
                /\ Len(D) = A.rows * A.cols
<1> DEFINE n == A.rows * A.cols
           D == [i \in 1 .. n |-> Unset]
<1>1. NewMatrix(A.rows, A.cols) = [rows |-> A.rows, cols |-> A.cols, data |-> D]
  BY DEF NewMatrix
<1>2. n \in Nat
  BY MatrixFacts
<1> HIDE DEF n
<1>3. D \in [1 .. n -> Int]
  BY DEF Unset
<1> HIDE DEF D
<1>4. Len(D) = n
  BY <1>2, <1>3, ArrayFacts
<1> QED
  BY <1>1, <1>4 DEF n

\* load and at.
LEMMA Loaded ==
  ASSUME NEW A, IsMatrix(A), NEW x \in Int
  PROVE  /\ load(NewMatrix(A.rows, A.cols), A.data) = A
         /\ LoadArray(NewMatrix(A.rows, A.cols), A.data \o <<x>>) = A
         /\ Len(A.data) # 0 => at(load(NewMatrix(A.rows, A.cols), <<x>>), 0, 0) = x
<1> DEFINE s == A.rows
           k == A.cols
           d == A.data
           n == s * k
           N == NewMatrix(s, k)
<1>1. PICK D : N = [rows |-> s, cols |-> k, data |-> D] /\ Len(D) = n
  BY NewMatrixFacts
<1>2. /\ n \in Nat /\ d \in Seq(Int) /\ Len(d) = n /\ A = [rows |-> s, cols |-> k, data |-> d]
      /\ d = [i \in 1 .. n |-> d[i]] /\ k \in Nat /\ \A i \in 1 .. n : d[i] \in Int
  BY MatrixFacts
<1> HIDE DEF N, s, k, d, n
<1>3. ASSUME NEW e
      PROVE  /\ load(N, e) = [rows |-> s, cols |-> k,
                              data |-> [i \in 1 .. n |-> IF i <= Len(e) THEN e[i] ELSE D[i]]]
             /\ LoadArray(N, e) = [rows |-> s, cols |-> k, data |-> SubSeq(e, 1, n)]
  <2> DEFINE X == [i \in 1 .. n |-> IF i <= Len(e) THEN e[i] ELSE D[i]]
             Y == SubSeq(e, 1, n)
  <2>1. N.data = D
    BY <1>1
  <2>2. load(N, e) = [N EXCEPT !.data = X] /\ LoadArray(N, e) = [N EXCEPT !.data = Y]
    <3>1. /\ load(N, e) = [N EXCEPT !.data = [i \in 1 .. Len(N.data) |-> IF i <= Len(e) THEN e[i] ELSE N.data[i]]]
          /\ LoadArray(N, e) = [N EXCEPT !.data = SubSeq(e, 1, Len(N.data))]
      BY Zenon DEF load, LoadArray
    <3> QED
      BY <1>1, <2>1, <3>1, Zenon
  <2> HIDE DEF X, Y
  <2>3. ASSUME NEW Z PROVE [N EXCEPT !.data = Z] = [rows |-> s, cols |-> k, data |-> Z]
    BY <1>1
  <2> QED
    BY <2>2, <2>3 DEF X, Y
<1>4. load(N, d) = A
  <2>1. [i \in 1 .. n |-> IF i <= Len(d) THEN d[i] ELSE D[i]] = [i \in 1 .. n |-> d[i]]
    BY <1>2
  <2> DEFINE X == [i \in 1 .. n |-> IF i <= Len(d) THEN d[i] ELSE D[i]]
  <2>2. X = d
    BY <1>2, <2>1, Zenon
  <2>3. load(N, d) = [rows |-> s, cols |-> k, data |-> X]
    BY <1>3
  <2> HIDE DEF X
  <2> QED
    BY <1>2, <2>2, <2>3
<1>5. LoadArray(N, d \o <<x>>) = A
  <2>1. SubSeq(d \o <<x>>, 1, n) = d
    BY <1>2
  <2> QED
    BY <1>2, <1>3, <2>1
<1>6. ASSUME Len(d) # 0 PROVE at(load(N, <<x>>), 0, 0) = x
  <2> DEFINE L == [j \in 1 .. n |-> IF j <= Len(<<x>>) THEN <<x>>[j] ELSE D[j]]
             M == load(N, <<x>>)
  <2>1. M = [rows |-> s, cols |-> k, data |-> L]
    BY <1>3
  <2>2. L[1] = x
    BY <1>2, <1>6
  <2> HIDE DEF L, M
  <2>3. M.data = L /\ M.cols = k
    BY <2>1
  <2>4. at(M, 0, 0) = L[0 * k + 0 + 1]
    BY <2>3 DEF at
  <2>5. 0 * k + 0 + 1 = 1
    BY <1>2
  <2> QED
    BY <2>2, <2>4, <2>5 DEF M
<1> QED
  BY <1>4, <1>5, <1>6 DEF N, s, k, d

\* The laws of the operations on the elements.
LEMMA Elementwise ==
  ASSUME NEW A, NEW C, SameSize(A, C), NEW x \in Int
  PROVE  ElementLaws(A, C, x) /\ DivisionLaws(A, C, x)
<1>1. IsMatrix(A)
  BY DEF SameSize
<1>2. ElementLaws(A, C, x)
  BY <1>1, PlusMinus, PlusMinusScalar, ScalarMinusTwice, Loaded DEF ElementLaws
<1>3. ASSUME Positive(C) PROVE Over(Times(A, C), C) = A
  BY <1>3, TimesOver
<1>4. ASSUME x > 0 PROVE OverScalar(TimesScalar(A, x), x) = A
  <2>1. x \in Nat
    BY <1>4
  <2> QED
    BY <1>1, <1>4, <2>1, TimesOverScalar
<1>5. ASSUME x >= 0, Positive(A)
      PROVE  Times(ScalarOver(x, A), A)
               = apply(A, [e \in {A.data[i] : i \in 1 .. Len(A.data)} |-> x - (x % e)])
  <2>1. x \in Nat
    BY <1>5
  <2> QED
    BY <1>1, <1>5, <2>1, ScalarOverTimes
<1> QED
  BY <1>2, <1>3, <1>4, <1>5 DEF DivisionLaws

-----------------------------------------------------------------------------
\* All laws of Matrix hold of any integer matrices whose sizes fit and of any scalar: of
\* what the loops of matrix.h compute from indices into the flat arrays.  A product is
\* linear in its left matrix for any other matrix of the size and any scalar, and addition,
\* subtraction, multiplication and division of any other matrix and scalar undo each other.
THEOREM LawsOfMatrices ==
  ASSUME NEW A, NEW C, NEW B, NEW x \in Int,
         IsMatrix(A), IsMatrix(C), IsMatrix(B), C.rows = A.rows, C.cols = A.cols, A.cols = B.rows
  PROVE  Laws(A, C, B, x)
<1>1. TransposeLaws(A, B)
  BY ProductTransposed, TransposeTwice, TransposeAt DEF TransposeLaws
<1>2. SameSize(A, C)
  BY DEF SameSize
<1> QED
  BY <1>1, <1>2, Linear, MinMax, Elementwise DEF Laws

\* The laws of Matrix, of the matrices that dot is called with.
THEOREM LawsHold == DotSpec => []MatrixLaws
<1>1. DotIInv => MatrixLaws
  <2> SUFFICES ASSUME DotIInv, NEW d \in [1 .. Len(a.data) -> LawData], NEW x \in {-2, 0, 5}
               PROVE  Laws(a, [a EXCEPT !.data = d], input, x)
    BY DEF MatrixLaws
  <2>1. ab \in Operands
    BY DEF DotIInv, DotTypes
  <2>2. IsMatrix(a) /\ IsMatrix(input) /\ a.cols = input.rows
    BY <2>1, OperandFacts
  <2> DEFINE A == a
             C == [A EXCEPT !.data = d]
             n == A.rows * A.cols
  <2>3. A.rows \in Nat /\ A.cols \in Nat /\ n \in Nat /\ Len(A.data) = n
    BY <2>2, MatrixFacts
  <2>4. d \in [1 .. n -> Int]
    BY <2>3, CallerAssumption
  <2>5. C = [rows |-> A.rows, cols |-> A.cols, data |-> d]
    <3>1. A \in [rows : Nat, cols : Nat, data : Seq(Int)]
      BY <2>2 DEF IsMatrix
    <3> HIDE DEF A
    <3> QED
      BY <3>1
  <2> HIDE DEF A, C
  <2>6. IsMatrix(C) /\ C.rows = A.rows /\ C.cols = A.cols
    BY <2>3, <2>4, <2>5, MadeOf
  <2>7. x \in Int
    OBVIOUS
  <2>8. Laws(A, C, input, x)
    BY <2>2, <2>6, <2>7, LawsOfMatrices DEF A
  <2> QED
    BY <2>8 DEF A, C
<1> QED
  BY <1>1, DotInvariant, PTL

==============================================================================
