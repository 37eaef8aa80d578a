--------------------------- MODULE WorkerPoolProofs ---------------------------
(***************************************************************************)
(* Proofs about WorkerPool, for every number of workers, of clients and of *)
(* tasks.                                                                  *)
(*                                                                         *)
(* wait_complete reads the queue and then the count, while workers go on.  *)
(* That its answer is right rests on what IInv says: the count is the      *)
(* number of workers between Enter and Leave, every unfinished task is in  *)
(* the queue or in the hand of one of these, and while a client holds      *)
(* _complete_mutex none of them can count itself out.                      *)
(***************************************************************************)
EXTENDS WorkerPool, FiniteSetTheorems, SequenceTheorems, TLAPS

\* where a worker has counted itself in, and where it has a task
CountedPcs == {"pop", "popped", "run", "push", "notify", "leave"}
CarryPcs == {"popped", "run", "push", "notify"}
WaitPcs == {"wait", "test", "waiting", "woken"}
StopPcs == {"stop", "stopping", "join"}

Counted == {w \in Workers : pc[w] \in CountedPcs}

\* Workers are in do_work, clients are not.
PcKinds ==
  /\ \A w \in Workers : pc[w] \in WorkerPcs
  /\ \A c \in Clients : pc[c] \in ClientPcs

\* _working_threads is the number of workers that counted themselves in.
Count == working = Cardinality(Counted)

\* Who holds _complete_mutex.
MutexOwner ==
  /\ \A w \in Workers : cmutex = w <=> pc[w] = "check"
  /\ \A c \in Clients : cmutex = c <=> pc[c] = "test"

\* Who holds a task.
Hands ==
  /\ \A w \in Workers : hand[w] # 0 <=> pc[w] \in CarryPcs
  /\ \A w \in Workers : child[w] # 0 <=> pc[w] = "push"
  /\ \A c \in Clients : hand[c] # 0 <=> pc[c] = "push"

\* The tasks that are in the pool or have left it.
InPool == InQueue \cup InHand \cup done \cup dropped

\* A task that is being scheduled is in the pool only after the push.
Fresh ==
  /\ InPool \subseteq 1 .. next
  /\ \A t \in Threads : hand[t] \in 0 .. next
  /\ \A w \in Workers : child[w] \in 0 .. next
  /\ \A c \in Clients : hand[c] \notin InPool
  /\ \A w \in Workers : child[w] \notin InPool
  /\ \A s, t \in Threads : hand[s] = hand[t] /\ hand[s] # 0 => s = t
  /\ \A v, w \in Workers : child[v] = child[w] /\ child[v] # 0 => v = w
  /\ \A w \in Workers, t \in Threads : child[w] = hand[t] => child[w] = 0

\* No task that wait_complete waits for is lost; and it is waited for until it is done.
Accounted ==
  \A c \in Clients :
    /\ before[c] \subseteq InPool
    /\ pc[c] \notin WaitPcs => before[c] \subseteq done \cup dropped

\* Once wait_complete has seen an empty queue, only a worker that is counted can put
\* a task there that it waits for, and that worker stays counted.
SeenEmpty ==
  \A c \in Clients :
    pc[c] = "test" /\ seen[c] => working > 0 \/ before[c] \cap InQueue = {}

\* How far stop is.
StopProgress ==
  /\ ~stopped => running /\ dropped = {}
  /\ waitStop => dropped = {}
  /\ \A c \in Clients : pc[c] \in StopPcs => stopped
  /\ stopped /\ (\A c \in Clients : pc[c] \notin StopPcs)
       => \A w \in Workers : pc[w] = "exit"

IInv ==
  /\ TypeOK /\ PcKinds /\ Count /\ MutexOwner /\ Hands
  /\ TaskInOnePlace /\ Fresh /\ Accounted /\ SeenEmpty /\ StopProgress

\* where threads are
USE DEF Threads, Tasks, WorkerPcs, ClientPcs, CountedPcs, CarryPcs, WaitPcs, StopPcs

-------------------------------------------------------------------------------
(* Facts about the pieces of the model.                                     *)

\* The count of workers is the size of a finite set.
LEMMA CountedFinite ==
  IsFiniteSet(Counted) /\ Cardinality(Counted) \in Nat
BY WorkersAssumption, FS_Subset, FS_CardinalityType DEF Counted

\* A step that moves no worker over Enter or Leave keeps the count.
LEMMA CountKept ==
  ASSUME Count, UNCHANGED working,
         \A w \in Workers : pc'[w] \in CountedPcs <=> pc[w] \in CountedPcs
  PROVE  Count'
<1>1. Counted' = Counted
  BY DEF Counted
<1> QED
  BY <1>1 DEF Count

\* With nobody counted in, no worker has a task.
LEMMA NobodyWorking ==
  ASSUME PcKinds, Count, Hands, working = 0
  PROVE  InHand = {}
<1>1. Counted = {}
  BY CountedFinite, FS_EmptySet DEF Count
<1> QED
  BY <1>1 DEF Counted, Hands, InHand

\* Nothing is known of a task that no step touches.
LEMMA TasksKept ==
  ASSUME IInv, UNCHANGED <<queue, hand, child, next, done, dropped>>
  PROVE  /\ TaskInOnePlace' /\ Fresh'
         /\ InQueue' = InQueue /\ InHand' = InHand /\ InPool' = InPool
<1>1. InQueue' = InQueue /\ InHand' = InHand /\ InPool' = InPool
  BY DEF InQueue, InHand, InPool
<1> QED
  BY <1>1 DEF IInv, TaskInOnePlace, Fresh

\* spinlock_queue::push: one more task in the queue, at its end.
LEMMA QueueAppend ==
  ASSUME NEW x \in Tasks, queue \in Seq(Tasks), queue' = Append(queue, x)
  PROVE  /\ queue' \in Seq(Tasks)
         /\ InQueue' = InQueue \cup {x}
         /\ x \notin InQueue /\ (\A i, j \in 1 .. Len(queue) : queue[i] = queue[j] => i = j)
              => \A i, j \in 1 .. Len(queue') : queue'[i] = queue'[j] => i = j
<1>1. /\ queue' \in Seq(Tasks) /\ Len(queue') = Len(queue) + 1
      /\ \A i \in 1 .. Len(queue) : queue'[i] = queue[i]
      /\ queue'[Len(queue) + 1] = x
  OBVIOUS
<1>2. InQueue' = InQueue \cup {x}
  BY <1>1 DEF InQueue
<1> QED
  BY <1>1, <1>2 DEF InQueue

\* spinlock_queue::pop: the first task leaves the queue.
LEMMA QueuePop ==
  ASSUME queue \in Seq(Tasks), queue # <<>>, queue' = Tail(queue),
         \A i, j \in 1 .. Len(queue) : queue[i] = queue[j] => i = j
  PROVE  /\ queue' \in Seq(Tasks)
         /\ Head(queue) \in InQueue /\ Head(queue) \in Tasks
         /\ InQueue' = InQueue \ {Head(queue)}
         /\ \A i, j \in 1 .. Len(queue') : queue'[i] = queue'[j] => i = j
<1>1. /\ queue' \in Seq(Tasks) /\ Len(queue') = Len(queue) - 1 /\ Len(queue) \in Nat \ {0}
      /\ \A i \in 1 .. Len(queue') : queue'[i] = queue[i + 1]
      /\ Head(queue) = queue[1] /\ Head(queue) \in Tasks
  <2>1. Len(queue) \in Nat \ {0}
    BY EmptySeq
  <2>2. /\ queue' \in Seq(Tasks) /\ Len(queue') = Len(queue) - 1 /\ Head(queue) \in Tasks
        /\ \A i \in 1 .. Len(queue') : queue'[i] = queue[i + 1]
    BY HeadTailProperties
  <2>3. Head(queue) = queue[1]
    OBVIOUS
  <2> QED
    BY <2>1, <2>2, <2>3
<1>2. InQueue' = InQueue \ {Head(queue)}
  <2>1. ASSUME NEW k \in InQueue' PROVE k \in InQueue \ {Head(queue)}
    BY <1>1, <2>1 DEF InQueue
  <2>2. ASSUME NEW k \in InQueue \ {Head(queue)} PROVE k \in InQueue'
    <3>1. PICK i \in 1 .. Len(queue) : k = queue[i]
      BY DEF InQueue
    <3>2. i # 1 /\ i - 1 \in 1 .. Len(queue')
      BY <1>1, <3>1
    <3>3. queue'[i - 1] = k
      BY <1>1, <3>1, <3>2
    <3> QED
      BY <3>2, <3>3 DEF InQueue
  <2> QED
    BY <2>1, <2>2
<1> QED
  BY <1>1, <1>2 DEF InQueue

\* notify_one moves at most one worker, from waiting to woken.
LEMMA NotifiedFacts ==
  ASSUME NEW p \in [Threads -> WorkerPcs \cup ClientPcs], NEW q \in Notified(p)
  PROVE  /\ q \in [Threads -> WorkerPcs \cup ClientPcs]
         /\ \A t \in Threads : \/ q[t] = p[t]
                               \/ t \in Workers /\ p[t] = "waiting" /\ q[t] = "woken"
BY DEF Notified

\* A step that only moves threads, none of them over a place that IInv tells apart,
\* keeps IInv.
LEMMA MovesKeep ==
  ASSUME IInv,
         UNCHANGED <<running, waitStop, working, queue, cmutex, hand, child, seen, before, next,
                     done, dropped, stopped>>,
         pc' \in [Threads -> WorkerPcs \cup ClientPcs],
         \A w \in Workers :
           /\ pc'[w] \in WorkerPcs
           /\ \A P \in {CountedPcs, CarryPcs, {"push"}, {"check"}} : pc'[w] \in P <=> pc[w] \in P
           /\ pc[w] = "exit" => pc'[w] = "exit",
         \A c \in Clients :
           /\ pc'[c] \in ClientPcs
           /\ \A P \in {WaitPcs, StopPcs, {"push"}, {"test"}} : pc'[c] \in P <=> pc[c] \in P
  PROVE  IInv'
<1>1. TypeOK' /\ PcKinds'
  BY DEF IInv, TypeOK, PcKinds
<1>2. Count'
  BY CountKept DEF IInv
<1>3. TaskInOnePlace' /\ Fresh' /\ InQueue' = InQueue /\ InPool' = InPool
  BY TasksKept
<1>4. Hands'
  BY DEF IInv, Hands
<1>5. MutexOwner'
  BY DEF IInv, MutexOwner
<1>6. Accounted' /\ SeenEmpty'
  BY <1>3 DEF IInv, Accounted, SeenEmpty
<1>7. StopProgress'
  BY DEF IInv, StopProgress
<1> QED
  BY <1>1, <1>2, <1>3, <1>4, <1>5, <1>6, <1>7 DEF IInv

-------------------------------------------------------------------------------
(* Every step keeps IInv.                                                   *)

\* The test of _running in schedule: the task that will be pushed is a new one.
LEMMA ScheduleKeeps ==
  ASSUME IInv, NEW t \in Threads, Schedule(t)
  PROVE  IInv'
<1>1. /\ pc[t] \in {"idle", "run"} /\ pc' = [pc EXCEPT ![t] = "push"]
      /\ t \in Clients => pc[t] = "idle"
      /\ t \in Workers => pc[t] = "run"
  BY ThreadsAssumption DEF Schedule, Goto
<1>2. /\ next' = next + 1 /\ next' \in Tasks /\ next \in Nat
      /\ UNCHANGED <<running, waitStop, working, queue, cmutex, seen, before, done, dropped, stopped>>
  BY MaxTasksAssumption DEF Schedule, IInv, TypeOK
<1>3. /\ t \in Clients => hand' = [hand EXCEPT ![t] = next'] /\ child' = child
      /\ t \in Workers => child' = [child EXCEPT ![t] = next'] /\ hand' = hand
  BY ThreadsAssumption DEF Schedule
<1>4. TypeOK' /\ PcKinds'
  <2>1. hand' \in [Threads -> Tasks \cup {0}] /\ child' \in [Workers -> Tasks \cup {0}]
    <3>1. hand \in [Threads -> Tasks \cup {0}] /\ child \in [Workers -> Tasks \cup {0}]
      BY DEF IInv, TypeOK
    <3>2. next' \in Tasks
      BY <1>2 DEF IInv, TypeOK
    <3> QED
      BY <1>3, <3>1, <3>2
  <2>2. pc' \in [Threads -> WorkerPcs \cup ClientPcs] /\ PcKinds'
    BY <1>1, ThreadsAssumption DEF IInv, TypeOK, PcKinds
  <2> QED
    BY <1>2, <2>1, <2>2 DEF IInv, TypeOK
<1>5. Count'
  BY <1>1, <1>2, CountKept, ThreadsAssumption DEF IInv, TypeOK
<1>6. MutexOwner' /\ StopProgress'
  BY <1>1, <1>2, ThreadsAssumption DEF IInv, TypeOK, MutexOwner, StopProgress
<1>7. Hands'
  BY <1>1, <1>2, <1>3, ThreadsAssumption DEF IInv, TypeOK, Hands
<1>8. InQueue' = InQueue /\ InHand' = InHand /\ InPool' = InPool
  <2>1. \A w \in Workers : hand'[w] = hand[w]
    BY <1>3, ThreadsAssumption DEF IInv, TypeOK
  <2> QED
    BY <1>2, <2>1 DEF InQueue, InHand, InPool
<1>9. TaskInOnePlace'
  <2>1. \A w \in Workers : hand'[w] = hand[w]
    BY <1>3, ThreadsAssumption DEF IInv, TypeOK
  <2> QED
    BY <1>2, <1>8, <2>1 DEF IInv, TaskInOnePlace
<1>10. Fresh'
  <2>1. InPool \subseteq 1 .. next /\ next' \notin InPool /\ InPool' \subseteq 1 .. next'
    BY <1>2, <1>8 DEF IInv, Fresh
  <2>2. /\ \A s \in Threads : hand'[s] = hand[s] \/ hand'[s] = next'
        /\ \A w \in Workers : child'[w] = child[w] \/ child'[w] = next'
    BY <1>3 DEF IInv, TypeOK
  <2>3. /\ \A s \in Threads : hand[s] # next' /\ hand'[s] \in 0 .. next'
        /\ \A w \in Workers : child[w] # next' /\ child'[w] \in 0 .. next'
    BY <1>2, <2>2 DEF IInv, Fresh
  <2>4. /\ \A c \in Clients : hand'[c] \notin InPool'
        /\ \A w \in Workers : child'[w] \notin InPool'
    <3>1. /\ \A c \in Clients : c \in Threads /\ hand[c] \notin InPool
          /\ \A w \in Workers : child[w] \notin InPool
      BY DEF IInv, Fresh
    <3> QED
      BY <1>8, <2>1, <2>2, <3>1
  <2>5. /\ \A s, r \in Threads : hand'[s] = hand'[r] /\ hand'[s] # 0 => s = r
        /\ \A v, w \in Workers : child'[v] = child'[w] /\ child'[v] # 0 => v = w
        /\ \A w \in Workers, s \in Threads : child'[w] = hand'[s] => child'[w] = 0
    <3> DEFINE n == next'
    <3>1. /\ \A s, r \in Threads : hand[s] = hand[r] /\ hand[s] # 0 => s = r
          /\ \A v, w \in Workers : child[v] = child[w] /\ child[v] # 0 => v = w
          /\ \A w \in Workers, s \in Threads : child[w] = hand[s] => child[w] = 0
          /\ \A s \in Threads : hand[s] # n
          /\ \A w \in Workers : child[w] # n
      BY <2>3 DEF IInv, Fresh
    <3>2. hand \in [Threads -> Tasks \cup {0}] /\ child \in [Workers -> Tasks \cup {0}]
      BY DEF IInv, TypeOK
    <3> HIDE DEF n
    <3>3. CASE hand' = [hand EXCEPT ![t] = n] /\ child' = child
      <4>1. \A s \in Threads : hand'[s] = IF s = t THEN n ELSE hand[s]
        BY <3>2, <3>3
      <4> QED
        BY <3>1, <3>3, <4>1
    <3>4. CASE t \in Workers /\ child' = [child EXCEPT ![t] = n] /\ hand' = hand
      <4>1. \A w \in Workers : child'[w] = IF w = t THEN n ELSE child[w]
        BY <3>2, <3>4
      <4> QED
        BY <3>1, <3>4, <4>1
    <3> QED
      BY <1>3, <3>3, <3>4 DEF n
  <2> QED
    BY <2>1, <2>3, <2>4, <2>5 DEF Fresh
<1>11. Accounted' /\ SeenEmpty'
  BY <1>1, <1>2, <1>8, ThreadsAssumption DEF IInv, TypeOK, Accounted, SeenEmpty
<1> QED
  BY <1>4, <1>5, <1>6, <1>7, <1>9, <1>10, <1>11 DEF IInv

\* The push of schedule: what was nowhere in the pool is in the queue now, and a
\* wait_complete that waits for the running task waits for its child as well.
LEMMA PushKeeps ==
  ASSUME IInv, NEW t \in Threads, Push(t)
  PROVE  IInv'
<1> DEFINE x == IF t \in Clients THEN hand[t] ELSE child[t]
<1>1. /\ pc[t] = "push" /\ pc' = [pc EXCEPT ![t] = "notify"]
      /\ queue' = Append(queue, x)
      /\ UNCHANGED <<running, waitStop, working, cmutex, seen, next, done, dropped, stopped>>
      /\ t \in Clients => hand' = [hand EXCEPT ![t] = 0] /\ UNCHANGED <<child, before>>
      /\ t \in Workers => child' = [child EXCEPT ![t] = 0] /\ hand' = hand
  BY ThreadsAssumption DEF Push, Goto
<1>2. \A c \in Clients :
        \/ before'[c] = before[c]
        \/ t \in Workers /\ hand[t] \in before[c] /\ before'[c] = before[c] \cup {x}
  <2>1. CASE t \in Clients
    BY <1>1, <2>1
  <2>2. CASE t \in Workers
    BY <2>2, ThreadsAssumption DEF Push
  <2> QED
    BY <2>1, <2>2
<1>3. x \in Tasks /\ x \notin InPool
  BY <1>1, ThreadsAssumption DEF IInv, TypeOK, Hands, Fresh
<1>4. /\ queue' \in Seq(Tasks) /\ InQueue' = InQueue \cup {x}
      /\ \A i, j \in 1 .. Len(queue') : queue'[i] = queue'[j] => i = j
  BY <1>1, <1>3, QueueAppend DEF IInv, TypeOK, TaskInOnePlace, InPool
<1>5. TypeOK' /\ PcKinds'
  <2>1. hand' \in [Threads -> Tasks \cup {0}] /\ child' \in [Workers -> Tasks \cup {0}]
    BY <1>1 DEF IInv, TypeOK
  <2>2. pc' \in [Threads -> WorkerPcs \cup ClientPcs] /\ PcKinds'
    BY <1>1, ThreadsAssumption DEF IInv, TypeOK, PcKinds
  <2>3. before' \in [Clients -> SUBSET Tasks]
    BY <1>3, ThreadsAssumption DEF Push, IInv, TypeOK
  <2> QED
    BY <1>1, <1>4, <2>1, <2>2, <2>3 DEF IInv, TypeOK
<1>6. Count'
  BY <1>1, CountKept, ThreadsAssumption DEF IInv, TypeOK
<1>7. MutexOwner' /\ StopProgress'
  BY <1>1, ThreadsAssumption DEF IInv, TypeOK, MutexOwner, StopProgress
<1>8. Hands'
  BY <1>1, ThreadsAssumption DEF IInv, TypeOK, Hands
<1>9. InHand' = InHand /\ InPool' = InPool \cup {x}
  <2>1. \A w \in Workers : hand'[w] = hand[w]
    BY <1>1, ThreadsAssumption DEF IInv, TypeOK
  <2>2. InHand' = InHand
    BY <2>1 DEF InHand
  <2> QED
    BY <1>1, <1>4, <2>2 DEF InPool
<1>10. TaskInOnePlace'
  <2>1. \A w \in Workers : hand'[w] = hand[w]
    BY <1>1, ThreadsAssumption DEF IInv, TypeOK
  <2> QED
    BY <1>1, <1>3, <1>4, <1>9, <2>1 DEF IInv, TaskInOnePlace, InPool
<1>11. Fresh'
  <2>1. \A c \in Clients : hand'[c] # x
    BY <1>1, <1>3, ThreadsAssumption DEF IInv, TypeOK, Fresh
  <2>2. \A w \in Workers : child'[w] # x
    BY <1>1, <1>3, ThreadsAssumption DEF IInv, TypeOK, Fresh
  <2>3. x \in 1 .. next
    BY <1>3, ThreadsAssumption DEF IInv, TypeOK, Fresh
  <2>4. 0 \notin InPool'
    BY <1>3, <1>9 DEF IInv, TypeOK, Fresh
  <2>5. /\ \A s \in Threads : hand'[s] = hand[s] \/ hand'[s] = 0
        /\ \A w \in Workers : child'[w] = child[w] \/ child'[w] = 0
    BY <1>1 DEF IInv, TypeOK
  <2>6. InPool' \subseteq 1 .. next'
    BY <1>1, <1>9, <2>3 DEF IInv, Fresh
  <2>7. next \in Nat /\ next' = next
    BY <1>1 DEF IInv, TypeOK
  <2>8. /\ \A s \in Threads : hand'[s] \in 0 .. next'
        /\ \A w \in Workers : child'[w] \in 0 .. next'
    BY <2>5, <2>7 DEF IInv, Fresh
  <2>9. /\ \A c \in Clients : hand'[c] \notin InPool'
        /\ \A w \in Workers : child'[w] \notin InPool'
    BY <1>9, <2>1, <2>2, <2>4, <2>5 DEF IInv, Fresh
  <2>10. /\ \A s, r \in Threads : hand'[s] = hand'[r] /\ hand'[s] # 0 => s = r
         /\ \A v, w \in Workers : child'[v] = child'[w] /\ child'[v] # 0 => v = w
         /\ \A w \in Workers, s \in Threads : child'[w] = hand'[s] => child'[w] = 0
    BY <2>5 DEF IInv, Fresh
  <2> QED
    BY <2>6, <2>8, <2>9, <2>10 DEF Fresh
<1>12. Accounted'
  <2> SUFFICES ASSUME NEW c \in Clients
               PROVE  /\ before'[c] \subseteq InPool'
                      /\ pc'[c] \notin WaitPcs => before'[c] \subseteq done' \cup dropped'
    BY DEF Accounted
  <2>1. before'[c] \subseteq InPool'
    BY <1>2, <1>9 DEF IInv, Accounted
  <2>2. ASSUME pc'[c] \notin WaitPcs PROVE before'[c] \subseteq done' \cup dropped'
    <3>1. before[c] \subseteq done \cup dropped
      BY <1>1, <2>2 DEF IInv, TypeOK, Accounted
    <3>2. t \in Workers => hand[t] \notin done \cup dropped
      BY <1>1 DEF IInv, Hands, TaskInOnePlace, InHand
    <3> QED
      BY <1>1, <1>2, <3>1, <3>2
  <2> QED
    BY <2>1, <2>2
<1>13. SeenEmpty'
  <2> SUFFICES ASSUME NEW c \in Clients, pc'[c] = "test", seen'[c]
               PROVE  working' > 0 \/ before'[c] \cap InQueue' = {}
    BY DEF SeenEmpty
  <2>1. pc[c] = "test" /\ seen[c]
    BY <1>1 DEF IInv, TypeOK
  <2>2. CASE t \in Workers
    <3>1. t \in Counted
      BY <1>1, <2>2 DEF Counted
    <3>2. working > 0
      BY <3>1, CountedFinite, FS_EmptySet DEF IInv, Count
    <3> QED
      BY <1>1, <3>2
  <2>3. CASE t \in Clients
    <3>1. x \notin before[c] /\ before'[c] = before[c]
      BY <1>2, <1>3, <2>3, ThreadsAssumption DEF IInv, Accounted
    <3> QED
      BY <1>1, <1>4, <2>1, <3>1 DEF IInv, SeenEmpty
  <2> QED
    BY <2>2, <2>3
<1> QED
  BY <1>5, <1>6, <1>7, <1>8, <1>10, <1>11, <1>12, <1>13 DEF IInv

\* The notification of schedule moves its caller and at most one waiting worker.
LEMMA NotifyKeeps ==
  ASSUME IInv, NEW t \in Threads, Notify(t)
  PROVE  IInv'
<1> DEFINE p == [pc EXCEPT ![t] = IF t \in Clients THEN "idle" ELSE "run"]
<1>1. p \in [Threads -> WorkerPcs \cup ClientPcs] /\ pc' \in Notified(p)
  BY DEF Notify, IInv, TypeOK
<1>2. /\ pc' \in [Threads -> WorkerPcs \cup ClientPcs]
      /\ \A s \in Threads : \/ pc'[s] = p[s]
                            \/ s \in Workers /\ p[s] = "waiting" /\ pc'[s] = "woken"
  <2> HIDE DEF p, Threads, WorkerPcs, ClientPcs
  <2> QED
    BY <1>1, NotifiedFacts
<1>3. ASSUME NEW w \in Workers
      PROVE  /\ pc'[w] \in WorkerPcs
             /\ \A P \in {CountedPcs, CarryPcs, {"push"}, {"check"}} : pc'[w] \in P <=> pc[w] \in P
             /\ pc[w] = "exit" => pc'[w] = "exit"
  BY <1>2, ThreadsAssumption DEF Notify, IInv, TypeOK, PcKinds
<1>4. ASSUME NEW c \in Clients
      PROVE  /\ pc'[c] \in ClientPcs
             /\ \A P \in {WaitPcs, StopPcs, {"push"}, {"test"}} : pc'[c] \in P <=> pc[c] \in P
  BY <1>2, ThreadsAssumption DEF Notify, IInv, TypeOK, PcKinds
<1> QED
  BY <1>2, <1>3, <1>4, MovesKeep DEF Notify

\* A worker that looks whether there is work, waits or is woken, outside of the
\* part in which it is counted.
LEMMA WorkerMovesKeep ==
  ASSUME IInv, NEW w \in Workers, Loop(w) \/ Park(w) \/ Woken(w)
  PROVE  IInv'
<1>1. /\ pc[w] \in {"loop", "park", "woken"}
      /\ \E q \in {"enter", "exit", "loop", "waiting"} : pc' = [pc EXCEPT ![w] = q]
  BY DEF Loop, Park, Woken, Goto
<1>2. /\ pc' \in [Threads -> WorkerPcs \cup ClientPcs]
      /\ \A v \in Workers :
           /\ pc'[v] \in WorkerPcs
           /\ \A P \in {CountedPcs, CarryPcs, {"push"}, {"check"}} : pc'[v] \in P <=> pc[v] \in P
           /\ pc[v] = "exit" => pc'[v] = "exit"
  BY <1>1 DEF IInv, TypeOK, PcKinds
<1>3. \A c \in Clients :
        /\ pc'[c] \in ClientPcs
        /\ \A P \in {WaitPcs, StopPcs, {"push"}, {"test"}} : pc'[c] \in P <=> pc[c] \in P
  BY <1>1, ThreadsAssumption DEF IInv, TypeOK, PcKinds
<1> QED
  BY <1>2, <1>3, MovesKeep DEF Loop, Park, Woken

\* A worker counts itself in before it pops.
LEMMA EnterKeeps ==
  ASSUME IInv, NEW w \in Workers, Enter(w)
  PROVE  IInv'
<1>1. /\ pc[w] = "enter" /\ pc' = [pc EXCEPT ![w] = "pop"] /\ working' = working + 1
      /\ UNCHANGED <<running, waitStop, queue, cmutex, hand, child, seen, before, next, done,
                     dropped, stopped>>
  BY DEF Enter, Entered, Goto
<1>2. TypeOK' /\ PcKinds'
  BY <1>1, ThreadsAssumption DEF IInv, TypeOK, PcKinds
<1>3. Count'
  <2>1. Counted' = Counted \cup {w} /\ w \notin Counted
    BY <1>1 DEF Counted, IInv, TypeOK
  <2> QED
    BY <1>1, <2>1, CountedFinite, FS_AddElement DEF IInv, Count
<1>4. TaskInOnePlace' /\ Fresh' /\ InQueue' = InQueue /\ InPool' = InPool
  BY <1>1, TasksKept
<1>5. MutexOwner' /\ Hands' /\ StopProgress'
  BY <1>1, ThreadsAssumption DEF IInv, TypeOK, MutexOwner, Hands, StopProgress
<1>6. Accounted' /\ SeenEmpty'
  <2>1. \A c \in Clients : pc'[c] = pc[c]
    BY <1>1, ThreadsAssumption DEF IInv, TypeOK
  <2>2. working' > 0
    BY <1>1 DEF IInv, TypeOK
  <2> QED
    BY <1>1, <1>4, <2>1, <2>2 DEF IInv, Accounted, SeenEmpty
<1> QED
  BY <1>2, <1>3, <1>4, <1>5, <1>6 DEF IInv

\* A worker takes a task out of the queue into its hand, or finds the queue empty.
LEMMA PopKeeps ==
  ASSUME IInv, NEW w \in Workers, Pop(w)
  PROVE  IInv'
<1>1. /\ pc[w] = "pop" /\ hand[w] = 0
      /\ UNCHANGED <<running, waitStop, working, cmutex, child, seen, before, next, done, dropped,
                     stopped>>
  BY DEF Pop, IInv, Hands
<1>2. \A c \in Clients : pc'[c] = pc[c]
  BY ThreadsAssumption DEF Pop, Goto, IInv, TypeOK
<1>3. Count'
  BY <1>1, CountKept DEF Pop, Goto, IInv, TypeOK
<1>4. MutexOwner' /\ StopProgress'
  BY <1>1, <1>2 DEF Pop, Goto, IInv, TypeOK, MutexOwner, StopProgress
<1>5. CASE queue = <<>>
  <2>1. pc' = [pc EXCEPT ![w] = "leave"] /\ UNCHANGED <<queue, hand>>
    BY <1>5 DEF Pop, Goto
  <2>2. TypeOK' /\ PcKinds' /\ Hands'
    BY <1>1, <1>2, <2>1 DEF IInv, TypeOK, PcKinds, Hands
  <2>3. TaskInOnePlace' /\ Fresh' /\ InQueue' = InQueue /\ InPool' = InPool
    BY <1>1, <2>1, TasksKept
  <2>4. Accounted' /\ SeenEmpty'
    BY <1>1, <1>2, <2>3 DEF IInv, Accounted, SeenEmpty
  <2> QED
    BY <1>3, <1>4, <2>2, <2>3, <2>4 DEF IInv
<1>6. CASE queue # <<>>
  <2> DEFINE x == Head(queue)
  <2>1. /\ pc' = [pc EXCEPT ![w] = "popped"] /\ hand' = [hand EXCEPT ![w] = x]
        /\ queue' = Tail(queue)
    BY <1>6 DEF Pop, Goto, Remaining
  <2>2. /\ queue' \in Seq(Tasks) /\ x \in InQueue /\ x \in Tasks
        /\ InQueue' = InQueue \ {x}
        /\ \A i, j \in 1 .. Len(queue') : queue'[i] = queue'[j] => i = j
    BY <1>6, <2>1, QueuePop DEF IInv, TypeOK, TaskInOnePlace
  <2> HIDE DEF x
  <2>3. TypeOK' /\ PcKinds' /\ Hands'
    <3>1. hand' \in [Threads -> Tasks \cup {0}]
      BY <2>1, <2>2 DEF IInv, TypeOK
    <3>2. pc' \in [Threads -> WorkerPcs \cup ClientPcs] /\ PcKinds'
      BY <1>2, <2>1 DEF IInv, TypeOK, PcKinds
    <3>3. TypeOK'
      BY <1>1, <2>2, <3>1, <3>2 DEF IInv, TypeOK
    <3>4. Hands'
      BY <1>1, <1>2, <2>1, <2>2, ThreadsAssumption DEF IInv, TypeOK, Hands
    <3> QED
      BY <3>2, <3>3, <3>4
  <2>4. /\ \A v \in Threads : hand'[v] = IF v = w THEN x ELSE hand[v]
        /\ x # 0 /\ x \notin InHand /\ x \notin done \cup dropped
    BY <2>1, <2>2 DEF IInv, TypeOK, TaskInOnePlace
  <2>5. InHand' = InHand \cup {x}
    BY <1>1, <2>4 DEF InHand
  <2>6. InPool' = InPool
    BY <1>1, <2>2, <2>5 DEF InPool
  <2>7. TaskInOnePlace'
    <3>1. \A v \in Workers : hand[v] # x
      BY <2>4 DEF InHand
    <3> QED
      BY <1>1, <2>2, <2>4, <2>5, <3>1 DEF IInv, TaskInOnePlace
  <2>8. Fresh'
    <3>1. x \in InPool
      BY <2>2 DEF InPool
    <3>2. x \in 1 .. next /\ \A c \in Clients : hand[c] # x
      BY <3>1 DEF IInv, Fresh
    <3>3. \A v \in Workers : child[v] # x
      BY <3>1 DEF IInv, Fresh
    <3>4. \A v \in Workers : hand[v] # x
      BY <2>4 DEF InHand
    <3> QED
      BY <1>1, <2>4, <2>6, <3>2, <3>3, <3>4, ThreadsAssumption DEF IInv, Fresh
  <2>9. Accounted' /\ SeenEmpty'
    BY <1>1, <1>2, <2>2, <2>6 DEF IInv, Accounted, SeenEmpty
  <2> QED
    BY <1>3, <1>4, <2>3, <2>7, <2>8, <2>9 DEF IInv
<1> QED
  BY <1>5, <1>6

\* A task leaves the hand of its worker for good: it was run, or it is given up.
LEMMA HandEmptied ==
  ASSUME IInv, NEW w \in Workers, pc[w] \in {"popped", "run"},
         hand' = [hand EXCEPT ![w] = 0],
         UNCHANGED <<queue, child, next>>,
         \/ done' = done \cup {hand[w]} /\ dropped' = dropped
         \/ dropped' = dropped \cup {hand[w]} /\ done' = done
  PROVE  /\ TaskInOnePlace' /\ Fresh' /\ InQueue' = InQueue /\ InPool' = InPool
         /\ hand' \in [Threads -> Tasks \cup {0}]
         /\ done' \subseteq Tasks /\ dropped' \subseteq Tasks
         /\ done \cup dropped \subseteq done' \cup dropped'
<1>1. /\ hand[w] # 0 /\ hand[w] \in Tasks /\ hand[w] \in InHand
      /\ \A t \in Threads : hand'[t] = IF t = w THEN 0 ELSE hand[t]
  BY DEF IInv, TypeOK, Hands, InHand
<1>2. hand' \in [Threads -> Tasks \cup {0}] /\ done' \subseteq Tasks /\ dropped' \subseteq Tasks
  BY <1>1 DEF IInv, TypeOK
<1>3. InQueue' = InQueue
  BY DEF InQueue
<1>4. InHand' = InHand \ {hand[w]}
  <2>1. \A v \in Workers : hand[v] = hand[w] => v = w
    BY <1>1 DEF IInv, TaskInOnePlace
  <2> QED
    BY <1>1, <2>1 DEF InHand
<1>5. InPool' = InPool
  BY <1>1, <1>3, <1>4 DEF InPool
<1>6. hand[w] \notin done \cup dropped \cup InQueue
  BY <1>1 DEF IInv, TaskInOnePlace
<1>7. TaskInOnePlace'
  BY <1>1, <1>3, <1>4, <1>6 DEF IInv, TaskInOnePlace
<1>8. Fresh'
  <2>1. next \in Nat
    BY DEF IInv, TypeOK
  <2>2. 0 \notin InPool
    BY DEF IInv, Fresh
  <2> QED
    BY <1>1, <1>5, <2>1, <2>2, ThreadsAssumption DEF IInv, Fresh
<1> QED
  BY <1>2, <1>3, <1>5, <1>7, <1>8

\* A worker runs the task that it popped, unless the pool was stopped meanwhile
\* without waiting.
LEMMA PoppedKeeps ==
  ASSUME IInv, NEW w \in Workers, Popped(w)
  PROVE  IInv'
<1>1. /\ pc[w] = "popped"
      /\ UNCHANGED <<running, waitStop, working, queue, cmutex, child, seen, before, next, done,
                     stopped>>
  BY DEF Popped
<1>2. \A c \in Clients : pc'[c] = pc[c]
  BY ThreadsAssumption DEF Popped, Goto, IInv, TypeOK
<1>3. CASE MayWork
  <2>1. pc' = [pc EXCEPT ![w] = "run"] /\ UNCHANGED <<hand, dropped>>
    BY <1>3 DEF Popped, Goto
  <2>2. /\ pc' \in [Threads -> WorkerPcs \cup ClientPcs]
        /\ \A v \in Workers :
             /\ pc'[v] \in WorkerPcs
             /\ \A P \in {CountedPcs, CarryPcs, {"push"}, {"check"}} : pc'[v] \in P <=> pc[v] \in P
             /\ pc[v] = "exit" => pc'[v] = "exit"
    BY <1>1, <2>1 DEF IInv, TypeOK, PcKinds
  <2>3. \A c \in Clients : pc'[c] \in ClientPcs
    BY <1>2 DEF IInv, PcKinds
  <2> QED
    BY <1>1, <1>2, <2>1, <2>2, <2>3, MovesKeep
<1>4. CASE ~MayWork
  <2>1. /\ pc' = [pc EXCEPT ![w] = "leave"] /\ hand' = [hand EXCEPT ![w] = 0]
        /\ dropped' = dropped \cup {hand[w]}
    BY <1>4 DEF Popped, Goto
  <2>2. /\ TaskInOnePlace' /\ Fresh' /\ InQueue' = InQueue /\ InPool' = InPool
        /\ hand' \in [Threads -> Tasks \cup {0}] /\ dropped' \subseteq Tasks
        /\ done \cup dropped \subseteq done' \cup dropped'
    BY <1>1, <2>1, HandEmptied
  <2>3. TypeOK' /\ PcKinds'
    BY <1>1, <1>2, <2>1, <2>2 DEF IInv, TypeOK, PcKinds
  <2>4. Count'
    BY <1>1, <2>1, CountKept DEF IInv, TypeOK
  <2>5. MutexOwner' /\ Hands'
    BY <1>1, <1>2, <2>1, ThreadsAssumption DEF IInv, TypeOK, MutexOwner, Hands
  <2>6. Accounted' /\ SeenEmpty'
    BY <1>1, <1>2, <2>2 DEF IInv, Accounted, SeenEmpty
  <2>7. StopProgress'
    BY <1>1, <1>2, <1>4, <2>1 DEF MayWork, IInv, TypeOK, StopProgress
  <2> QED
    BY <2>2, <2>3, <2>4, <2>5, <2>6, <2>7 DEF IInv
<1> QED
  BY <1>3, <1>4

\* A task was run.
LEMMA TaskReturnsKeeps ==
  ASSUME IInv, NEW w \in Workers, TaskReturns(w)
  PROVE  IInv'
<1>1. /\ pc[w] = "run" /\ pc' = [pc EXCEPT ![w] = "pop"]
      /\ hand' = [hand EXCEPT ![w] = 0] /\ done' = done \cup {hand[w]}
      /\ UNCHANGED <<running, waitStop, working, queue, cmutex, child, seen, before, next, dropped,
                     stopped>>
  BY DEF TaskReturns, Goto
<1>2. \A c \in Clients : pc'[c] = pc[c]
  BY <1>1, ThreadsAssumption DEF IInv, TypeOK
<1>3. /\ TaskInOnePlace' /\ Fresh' /\ InQueue' = InQueue /\ InPool' = InPool
      /\ hand' \in [Threads -> Tasks \cup {0}] /\ done' \subseteq Tasks
      /\ done \cup dropped \subseteq done' \cup dropped'
  BY <1>1, HandEmptied
<1>4. TypeOK' /\ PcKinds'
  BY <1>1, <1>2, <1>3 DEF IInv, TypeOK, PcKinds
<1>5. Count'
  BY <1>1, CountKept DEF IInv, TypeOK
<1>6. MutexOwner' /\ Hands'
  BY <1>1, <1>2, ThreadsAssumption DEF IInv, TypeOK, MutexOwner, Hands
<1>7. Accounted' /\ SeenEmpty'
  BY <1>1, <1>2, <1>3 DEF IInv, Accounted, SeenEmpty
<1>8. StopProgress'
  BY <1>1, <1>2 DEF IInv, TypeOK, StopProgress
<1> QED
  BY <1>3, <1>4, <1>5, <1>6, <1>7, <1>8 DEF IInv

\* A worker counts itself out under _complete_mutex, so while no client is between
\* its two tests.
LEMMA LeaveKeeps ==
  ASSUME IInv, NEW w \in Workers, Leave(w)
  PROVE  IInv'
<1>1. /\ pc[w] = "leave" /\ pc' = [pc EXCEPT ![w] = "check"] /\ working' = working - 1
      /\ cmutex = None /\ cmutex' = w
      /\ UNCHANGED <<running, waitStop, queue, hand, child, before, next, done, dropped, stopped>>
  BY DEF Leave, Goto
<1>2. \A c \in Clients : pc'[c] = pc[c] /\ pc[c] # "test"
  BY <1>1, ThreadsAssumption DEF IInv, TypeOK, MutexOwner
<1>3. Count' /\ working' \in Nat
  <2>1. Counted' = Counted \ {w} /\ w \in Counted
    BY <1>1 DEF Counted, IInv, TypeOK
  <2>2. Cardinality(Counted') = Cardinality(Counted) - 1 /\ Cardinality(Counted') \in Nat
    BY <2>1, CountedFinite, FS_RemoveElement, FS_CardinalityType
  <2> QED
    BY <1>1, <2>2 DEF IInv, Count
<1>4. seen' \in [Threads -> BOOLEAN]
  BY DEF Leave, IInv, TypeOK
<1>5. TypeOK' /\ PcKinds'
  BY <1>1, <1>2, <1>3, <1>4 DEF IInv, TypeOK, PcKinds
<1>6. TaskInOnePlace' /\ Fresh' /\ InPool' = InPool
  BY <1>1, TasksKept
<1>7. MutexOwner' /\ Hands'
  BY <1>1, <1>2, ThreadsAssumption DEF IInv, TypeOK, MutexOwner, Hands
<1>8. Accounted' /\ SeenEmpty'
  BY <1>1, <1>2, <1>6 DEF IInv, Accounted, SeenEmpty
<1>9. StopProgress'
  BY <1>1, <1>2 DEF IInv, TypeOK, StopProgress
<1> QED
  BY <1>3, <1>5, <1>6, <1>7, <1>8, <1>9 DEF IInv

\* ... and tells the waiting clients if it was the last one.
LEMMA CheckKeeps ==
  ASSUME IInv, NEW w \in Workers, Check(w)
  PROVE  IInv'
<1>1. /\ pc[w] = "check" /\ cmutex = w /\ cmutex' = None
      /\ UNCHANGED <<running, waitStop, working, queue, hand, child, before, next, done, dropped,
                     stopped>>
  BY DEF Check, IInv, MutexOwner
<1>2. /\ pc' \in [Threads -> WorkerPcs \cup ClientPcs] /\ pc'[w] = "park"
      /\ \A v \in Workers \ {w} : pc'[v] = pc[v]
      /\ \A c \in Clients : \/ pc'[c] = pc[c]
                            \/ pc[c] = "waiting" /\ pc'[c] = "woken"
  BY ThreadsAssumption DEF Check, WokenAll, IInv, TypeOK
<1>3. seen' \in [Threads -> BOOLEAN] /\ \A c \in Clients : pc[c] # "test"
  BY <1>1, ThreadsAssumption DEF Check, IInv, TypeOK, MutexOwner
<1>4. TypeOK' /\ PcKinds'
  BY <1>1, <1>2, <1>3 DEF IInv, TypeOK, PcKinds
<1>5. Count'
  BY <1>1, <1>2, CountKept DEF IInv
<1>6. TaskInOnePlace' /\ Fresh' /\ InPool' = InPool
  BY <1>1, TasksKept
<1>7. MutexOwner' /\ Hands'
  BY <1>1, <1>2, <1>3, ThreadsAssumption DEF IInv, MutexOwner, Hands
<1>8. Accounted' /\ SeenEmpty'
  BY <1>1, <1>2, <1>3, <1>6 DEF IInv, Accounted, SeenEmpty
<1>9. StopProgress'
  BY <1>1, <1>2 DEF IInv, StopProgress
<1> QED
  BY <1>4, <1>5, <1>6, <1>7, <1>8, <1>9 DEF IInv

\* wait_complete begins: what it waits for is in the pool.
LEMMA WaitCompleteKeeps ==
  ASSUME IInv, NEW c \in Clients, WaitComplete(c)
  PROVE  IInv'
<1>1. /\ pc[c] = "idle" /\ pc' = [pc EXCEPT ![c] = "wait"]
      /\ before' = [before EXCEPT ![c] = InQueue \cup InHand]
      /\ UNCHANGED <<running, waitStop, working, queue, cmutex, hand, child, seen, next, done,
                     dropped, stopped>>
  BY DEF WaitComplete, Goto
<1>2. /\ \A w \in Workers : pc'[w] = pc[w]
      /\ \A d \in Clients : pc'[d] = IF d = c THEN "wait" ELSE pc[d]
      /\ \A d \in Clients : before'[d] = IF d = c THEN InQueue \cup InHand ELSE before[d]
  BY <1>1, ThreadsAssumption DEF IInv, TypeOK
<1>3. TypeOK' /\ PcKinds'
  <2>1. InPool \subseteq Tasks
    BY MaxTasksAssumption DEF IInv, TypeOK, Fresh
  <2>2. InQueue \cup InHand \subseteq Tasks
    BY <2>1 DEF InPool
  <2> QED
    BY <1>1, <1>2, <2>2 DEF IInv, TypeOK, PcKinds
<1>4. Count'
  BY <1>1, <1>2, CountKept DEF IInv
<1>5. TaskInOnePlace' /\ Fresh' /\ InQueue' = InQueue /\ InPool' = InPool
  BY <1>1, TasksKept
<1>6. MutexOwner' /\ Hands' /\ StopProgress'
  BY <1>1, <1>2 DEF IInv, MutexOwner, Hands, StopProgress
<1>7. Accounted' /\ SeenEmpty'
  BY <1>1, <1>2, <1>5 DEF IInv, Accounted, SeenEmpty, InPool
<1> QED
  BY <1>3, <1>4, <1>5, <1>6, <1>7 DEF IInv

\* The first half of the predicate of wait_complete.
LEMMA TestQueueKeeps ==
  ASSUME IInv, NEW c \in Clients, TestQueue(c)
  PROVE  IInv'
<1>1. /\ pc[c] \in {"wait", "woken"} /\ pc' = [pc EXCEPT ![c] = "test"]
      /\ cmutex = None /\ cmutex' = c /\ seen' = [seen EXCEPT ![c] = queue = <<>>]
      /\ UNCHANGED <<running, waitStop, working, queue, hand, child, before, next, done, dropped,
                     stopped>>
  BY DEF TestQueue, FirstTest, Goto
<1>2. /\ \A w \in Workers : pc'[w] = pc[w]
      /\ \A d \in Clients : pc'[d] = IF d = c THEN "test" ELSE pc[d]
  BY <1>1, ThreadsAssumption DEF IInv, TypeOK
<1>3. seen' \in [Threads -> BOOLEAN]
  BY <1>1 DEF IInv, TypeOK
<1>4. TypeOK' /\ PcKinds'
  BY <1>1, <1>2, <1>3 DEF IInv, TypeOK, PcKinds
<1>5. Count'
  BY <1>1, <1>2, CountKept DEF IInv
<1>6. TaskInOnePlace' /\ Fresh' /\ InQueue' = InQueue /\ InPool' = InPool
  BY <1>1, TasksKept
<1>7. MutexOwner' /\ Hands' /\ StopProgress'
  BY <1>1, <1>2, ThreadsAssumption DEF IInv, MutexOwner, Hands, StopProgress
<1>8. Accounted'
  BY <1>1, <1>2, <1>6 DEF IInv, Accounted
<1>9. SeenEmpty'
  <2> SUFFICES ASSUME NEW d \in Clients, pc'[d] = "test", seen'[d]
               PROVE  before'[d] \cap InQueue' = {}
    BY DEF SeenEmpty
  <2>1. d = c
    BY <1>1, <1>2, ThreadsAssumption DEF IInv, MutexOwner
  <2>2. queue = <<>>
    BY <1>1, <2>1 DEF IInv, TypeOK
  <2>3. InQueue = {}
    BY <2>2 DEF InQueue
  <2> QED
    BY <1>6, <2>3
<1> QED
  BY <1>4, <1>5, <1>6, <1>7, <1>8, <1>9 DEF IInv

\* The second half: wait_complete returns only when no task it waits for is left in
\* the queue, by SeenEmpty, nor in a hand, because nobody is counted in.
LEMMA TestWorkingKeeps ==
  ASSUME IInv, NEW c \in Clients, TestWorking(c)
  PROVE  IInv'
<1>1. /\ pc[c] = "test" /\ cmutex = c /\ cmutex' = None
      /\ pc' = [pc EXCEPT ![c] = IF seen[c] /\ working = 0 THEN "idle" ELSE "waiting"]
      /\ UNCHANGED <<running, waitStop, working, queue, hand, child, before, next, done, dropped,
                     stopped>>
  BY DEF TestWorking, Goto, IInv, MutexOwner
<1>2. /\ \A w \in Workers : pc'[w] = pc[w]
      /\ \A d \in Clients \ {c} : pc'[d] = pc[d]
      /\ pc'[c] \in {"idle", "waiting"}
  BY <1>1, ThreadsAssumption DEF IInv, TypeOK
<1>3. seen' \in [Threads -> BOOLEAN]
  BY DEF TestWorking, IInv, TypeOK
<1>4. TypeOK' /\ PcKinds'
  BY <1>1, <1>2, <1>3 DEF IInv, TypeOK, PcKinds
<1>5. Count'
  BY <1>1, <1>2, CountKept DEF IInv
<1>6. TaskInOnePlace' /\ Fresh' /\ InQueue' = InQueue /\ InPool' = InPool
  BY <1>1, TasksKept
<1>7. MutexOwner' /\ Hands' /\ StopProgress'
  BY <1>1, <1>2, ThreadsAssumption DEF IInv, MutexOwner, Hands, StopProgress
<1>8. pc'[c] = "idle" => before[c] \subseteq done \cup dropped
  <2> SUFFICES ASSUME pc'[c] = "idle" PROVE before[c] \subseteq done \cup dropped
    OBVIOUS
  <2>1. seen[c] /\ working = 0
    BY <1>1 DEF IInv, TypeOK
  <2>2. InHand = {}
    BY <2>1, NobodyWorking DEF IInv
  <2>3. before[c] \cap InQueue = {}
    BY <1>1, <2>1 DEF IInv, SeenEmpty
  <2> QED
    BY <2>2, <2>3 DEF IInv, Accounted, InPool
<1>9. Accounted'
  BY <1>1, <1>2, <1>6, <1>8 DEF IInv, Accounted
<1>10. SeenEmpty'
  BY <1>1, <1>2, <1>6, ThreadsAssumption DEF IInv, MutexOwner, SeenEmpty
<1> QED
  BY <1>4, <1>5, <1>6, <1>7, <1>9, <1>10 DEF IInv

\* stop, up to the join.
LEMMA StopKeeps ==
  ASSUME IInv, NEW c \in Clients,
         (\E wait \in BOOLEAN : Stop(c, wait)) \/ StopRunning(c)
  PROVE  IInv'
<1>1. /\ \/ pc[c] = "idle" /\ pc' = [pc EXCEPT ![c] = "stop"]
            /\ ~stopped /\ stopped' = TRUE /\ waitStop' \in BOOLEAN /\ running' = running
         \/ pc[c] = "stop" /\ pc' = [pc EXCEPT ![c] = "stopping"]
            /\ running' = FALSE /\ UNCHANGED <<waitStop, stopped>>
      /\ UNCHANGED <<working, queue, cmutex, hand, child, seen, before, next, done, dropped>>
  BY DEF Stop, StopRunning, Goto
<1>2. /\ \A w \in Workers : pc'[w] = pc[w]
      /\ \A d \in Clients \ {c} : pc'[d] = pc[d]
      /\ pc'[c] \in {"stop", "stopping"} /\ pc[c] \in {"idle", "stop"}
  BY <1>1, ThreadsAssumption DEF IInv, TypeOK
<1>3. running' \in BOOLEAN /\ waitStop' \in BOOLEAN /\ stopped' \in BOOLEAN
  BY <1>1 DEF IInv, TypeOK
<1>4. TypeOK' /\ PcKinds'
  BY <1>1, <1>2, <1>3 DEF IInv, TypeOK, PcKinds
<1>5. Count'
  BY <1>1, <1>2, CountKept DEF IInv
<1>6. TaskInOnePlace' /\ Fresh' /\ InQueue' = InQueue /\ InPool' = InPool
  BY <1>1, TasksKept
<1>7. MutexOwner' /\ Hands'
  BY <1>1, <1>2 DEF IInv, MutexOwner, Hands
<1>8. Accounted' /\ SeenEmpty'
  BY <1>1, <1>2, <1>6 DEF IInv, Accounted, SeenEmpty
<1>9. StopProgress'
  BY <1>1, <1>2 DEF IInv, StopProgress
<1> QED
  BY <1>4, <1>5, <1>6, <1>7, <1>8, <1>9 DEF IInv

\* stop wakes the workers, and returns when all of them have left.
LEMMA StopEndKeeps ==
  ASSUME IInv, NEW c \in Clients, StopNotify(c) \/ StopJoin(c)
  PROVE  IInv'
<1>1. CASE StopNotify(c)
  <2>1. /\ pc[c] = "stopping" /\ pc' \in [Threads -> WorkerPcs \cup ClientPcs]
        /\ \A w \in Workers : \/ pc'[w] = pc[w]
                              \/ pc[w] = "waiting" /\ pc'[w] = "woken"
        /\ \A d \in Clients : pc'[d] = IF d = c THEN "join" ELSE pc[d]
    BY <1>1, ThreadsAssumption DEF StopNotify, WokenAll, IInv, TypeOK
  <2>2. \A w \in Workers :
          /\ pc'[w] \in WorkerPcs
          /\ \A P \in {CountedPcs, CarryPcs, {"push"}, {"check"}} : pc'[w] \in P <=> pc[w] \in P
          /\ pc[w] = "exit" => pc'[w] = "exit"
    BY <2>1 DEF IInv, PcKinds
  <2>3. \A d \in Clients :
          /\ pc'[d] \in ClientPcs
          /\ \A P \in {WaitPcs, StopPcs, {"push"}, {"test"}} : pc'[d] \in P <=> pc[d] \in P
    BY <2>1 DEF IInv, PcKinds
  <2> QED
    BY <1>1, <2>1, <2>2, <2>3, MovesKeep DEF StopNotify
<1>2. CASE StopJoin(c)
  <2>1. /\ pc[c] = "join" /\ pc' = [pc EXCEPT ![c] = "idle"]
        /\ \A w \in Workers : pc[w] = "exit"
        /\ UNCHANGED <<running, waitStop, working, queue, cmutex, hand, child, seen, before, next,
                       done, dropped, stopped>>
    BY <1>2 DEF StopJoin, Joined, Goto
  <2>2. /\ \A w \in Workers : pc'[w] = pc[w]
        /\ \A d \in Clients : pc'[d] = IF d = c THEN "idle" ELSE pc[d]
    BY <2>1, ThreadsAssumption DEF IInv, TypeOK
  <2>3. TypeOK' /\ PcKinds'
    BY <2>1, <2>2 DEF IInv, TypeOK, PcKinds
  <2>4. Count'
    BY <2>1, <2>2, CountKept DEF IInv
  <2>5. TaskInOnePlace' /\ Fresh' /\ InQueue' = InQueue /\ InPool' = InPool
    BY <2>1, TasksKept
  <2>6. MutexOwner' /\ Hands' /\ StopProgress'
    BY <2>1, <2>2 DEF IInv, MutexOwner, Hands, StopProgress
  <2>7. Accounted' /\ SeenEmpty'
    BY <2>1, <2>2, <2>5 DEF IInv, Accounted, SeenEmpty
  <2> QED
    BY <2>3, <2>4, <2>5, <2>6, <2>7 DEF IInv
<1> QED
  BY <1>1, <1>2

\* IInv holds of a new pool, and every step keeps it.
LEMMA IInvInvariant == Spec => []IInv
<1>1. Init => IInv
  <2> SUFFICES ASSUME Init PROVE IInv
    OBVIOUS
  <2>1. InQueue = {} /\ InHand = {} /\ InPool = {}
    BY DEF Init, InQueue, InHand, InPool
  <2>2. TypeOK
    <3>1. pc \in [Threads -> WorkerPcs \cup ClientPcs]
      BY DEF Init
    <3>2. /\ hand \in [Threads -> Tasks \cup {0}] /\ child \in [Workers -> Tasks \cup {0}]
          /\ seen \in [Threads -> BOOLEAN] /\ before \in [Clients -> SUBSET Tasks]
      BY DEF Init
    <3>3. working \in Nat /\ next \in 0 .. MaxTasks /\ queue \in Seq(Tasks)
      BY MaxTasksAssumption DEF Init
    <3>4. running \in BOOLEAN /\ waitStop \in BOOLEAN /\ stopped \in BOOLEAN
      BY DEF Init
    <3> QED
      BY <3>1, <3>2, <3>3, <3>4 DEF Init, TypeOK
  <2>3. Count
    <3>1. Counted = {}
      BY DEF Init, Counted
    <3> QED
      BY <3>1, FS_EmptySet DEF Init, Count
  <2>4. PcKinds /\ MutexOwner /\ Hands /\ StopProgress
    BY ThreadsAssumption DEF Init, PcKinds, MutexOwner, Hands, StopProgress
  <2>5. TaskInOnePlace /\ Fresh
    BY <2>1 DEF Init, TaskInOnePlace, Fresh
  <2>6. Accounted /\ SeenEmpty
    BY <2>1, ThreadsAssumption DEF Init, Accounted, SeenEmpty
  <2> QED
    BY <2>2, <2>3, <2>4, <2>5, <2>6 DEF IInv
<1>2. IInv /\ [Next]_vars => IInv'
  <2> SUFFICES ASSUME IInv, [Next]_vars PROVE IInv'
    OBVIOUS
  <2>1. CASE UNCHANGED vars
    <3>1. \A w \in Workers : pc'[w] = pc[w]
      BY <2>1 DEF vars
    <3> QED
      BY <2>1, <3>1, MovesKeep DEF vars, IInv, TypeOK, PcKinds
  <2>2. ASSUME NEW t \in Threads, Schedule(t) \/ Scheduling(t) PROVE IInv'
    BY <2>2, ScheduleKeeps, PushKeeps, NotifyKeeps DEF Scheduling
  <2>3. ASSUME NEW w \in Workers, Working(w) PROVE IInv'
    BY <2>3, WorkerMovesKeep, EnterKeeps, PopKeeps, PoppedKeeps, TaskReturnsKeeps, LeaveKeeps,
       CheckKeeps
    DEF Working
  <2>4. ASSUME NEW c \in Clients, WaitComplete(c) \/ Waiting(c) \/ Stopping(c) PROVE IInv'
    BY <2>4, WaitCompleteKeeps, TestQueueKeeps, TestWorkingKeeps, StopKeeps, StopEndKeeps
    DEF Waiting, Stopping
  <2>5. ASSUME NEW c \in Clients, NEW wait \in BOOLEAN, Stop(c, wait) PROVE IInv'
    BY <2>5, StopKeeps
  <2> QED
    BY <2>1, <2>2, <2>3, <2>4, <2>5 DEF Next
<1> QED
  BY <1>1, <1>2, PTL DEF Spec

-------------------------------------------------------------------------------
(* The theorems.                                                            *)

\* Every variable of the pool has its type, and a task is run once: however
\* schedule, the pop and the tasks interleave, it is in one place of the pool, and
\* after it was run or given up in none.
THEOREM TasksRunOnce == Spec => []PoolSafe
<1>1. IInv => PoolSafe
  BY DEF IInv, PoolSafe
<1> QED
  BY <1>1, IInvInvariant, PTL

\* When wait_complete has returned, the tasks that were in the pool when it was
\* called, and the ones they scheduled, are done or were given up by stop: although
\* it reads the queue and the count one after the other.
THEOREM WaitCompleteIsRight == Spec => []WaitCompleteMeansDone
<1>1. IInv => WaitCompleteMeansDone
  BY DEF IInv, Accounted, WaitCompleteMeansDone
<1> QED
  BY <1>1, IInvInvariant, PTL

\* When stop has returned no worker is left, none is counted in, and stop(true) gave
\* up no task.
THEOREM StopLeavesNobody == Spec => []StopJoinsWorkers
<1>1. IInv => StopJoinsWorkers
  <2> SUFFICES ASSUME IInv, stopped, ~running,
                      \A c \in Clients : pc[c] \notin {"stop", "stopping", "join"}
               PROVE  /\ \A w \in Workers : pc[w] = "exit"
                      /\ working = 0 /\ (waitStop => dropped = {})
    BY DEF StopJoinsWorkers
  <2>1. \A w \in Workers : pc[w] = "exit"
    BY DEF IInv, StopProgress
  <2>2. Counted = {}
    BY <2>1 DEF Counted
  <2>3. working = 0
    BY <2>2, FS_EmptySet DEF IInv, Count
  <2> QED
    BY <2>1, <2>3 DEF IInv, StopProgress
<1> QED
  BY <1>1, IInvInvariant, PTL

===============================================================================
