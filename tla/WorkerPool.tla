------------------------------ MODULE WorkerPool ------------------------------
(***************************************************************************)
(* shan::thread::worker_pool with its spinlock_queue of tasks.             *)
(*                                                                         *)
(* The atomics _running, _wait_stop and _working_threads and the queue are *)
(* read and written outside the two mutexes, so each access is a step of   *)
(* its own.  What is done under _mutex (the notifications, and the decision *)
(* of a worker to leave, to wait or to go on) is one step: nothing else in *)
(* it can be told apart by another thread.  Under _complete_mutex both the *)
(* predicate of wait_complete and the test of a worker read two things one *)
(* after the other, so that mutex is a variable.                           *)
(*                                                                         *)
(* A waiting thread is "waiting" until a notification makes it "woken".    *)
(***************************************************************************)
EXTENDS Naturals, Sequences, FiniteSets

CONSTANTS Workers,   \* the threads of the pool
          Clients,   \* threads that use the pool
          MaxTasks,  \* bound: calls of schedule
          None       \* no thread

\* With worker_count 0 every operation runs in the caller: nothing to interleave.
ASSUME WorkersAssumption == Workers # {} /\ IsFiniteSet(Workers)
ASSUME ThreadsAssumption == Workers \cap Clients = {} /\ None \notin Workers \cup Clients
ASSUME MaxTasksAssumption == MaxTasks \in Nat

Threads == Workers \cup Clients
Tasks == 1 .. MaxTasks

VARIABLES
  running,   \* _running
  waitStop,  \* _wait_stop
  working,   \* _working_threads
  queue,     \* _task_queue
  cmutex,    \* the thread that holds _complete_mutex, or None
  pc,        \* where each thread is
  hand,      \* the task a worker popped, or the task a client is scheduling; or 0
  child,     \* the task that the running task of a worker is scheduling, or 0
  seen,      \* the first half of a condition read under _complete_mutex
  before,    \* history: the tasks in the pool when a client called wait_complete,
             \* and the tasks that these scheduled
  next,      \* calls of schedule so far
  done,      \* tasks that were run
  dropped,   \* tasks popped and not run, because the pool was stopped
  stopped    \* stop was called

vars == <<running, waitStop, working, queue, cmutex, pc, hand, child, seen, before,
          next, done, dropped, stopped>>

WorkerPcs == {"loop", "enter", "pop", "popped", "run", "push", "notify", "leave", "check",
              "park", "waiting", "woken", "exit"}
ClientPcs == {"idle", "push", "notify", "wait", "test", "waiting", "woken",
              "stop", "stopping", "join"}

\* The pool was constructed: its threads are about to enter do_work.
Init ==
  /\ running = TRUE /\ waitStop = FALSE /\ working = 0
  /\ queue = <<>> /\ cmutex = None
  /\ pc = [t \in Threads |-> IF t \in Workers THEN "loop" ELSE "idle"]
  /\ hand = [t \in Threads |-> 0] /\ child = [w \in Workers |-> 0]
  /\ seen = [t \in Threads |-> FALSE]
  /\ before = [c \in Clients |-> {}]
  /\ next = 0 /\ done = {} /\ dropped = {} /\ stopped = FALSE

Goto(t, where) == pc' = [pc EXCEPT ![t] = where]

\* the condition of the loops of do_work
MayWork == running \/ waitStop

\* notify_all on the condition variable that the threads of S wait for
WokenAll(S, p) == [t \in Threads |-> IF t \in S /\ p[t] = "waiting" THEN "woken" ELSE p[t]]

-------------------------------------------------------------------------------
(* schedule, called by a client or by a running task.                       *)

\* The test of _running ...
Schedule(t) ==
  /\ running /\ next < MaxTasks
  /\ next' = next + 1
  /\ \/ t \in Clients /\ pc[t] = "idle" /\ hand' = [hand EXCEPT ![t] = next'] /\ UNCHANGED child
     \/ t \in Workers /\ pc[t] = "run" /\ child' = [child EXCEPT ![t] = next'] /\ UNCHANGED hand
  /\ Goto(t, "push")
  /\ UNCHANGED <<running, waitStop, working, queue, cmutex, seen, before, done, dropped, stopped>>

\* ... the push ...
Push(t) ==
  /\ pc[t] = "push"
  /\ \/ t \in Clients /\ queue' = Append(queue, hand[t]) /\ hand' = [hand EXCEPT ![t] = 0]
        /\ UNCHANGED <<child, before>>
     \/ t \in Workers /\ queue' = Append(queue, child[t]) /\ child' = [child EXCEPT ![t] = 0]
        /\ before' = [c \in Clients |-> IF hand[t] \in before[c] THEN before[c] \cup {child[t]}
                                                               ELSE before[c]]
        /\ UNCHANGED hand
  /\ Goto(t, "notify")
  /\ UNCHANGED <<running, waitStop, working, cmutex, seen, next, done, dropped, stopped>>

\* notify_one on _cv: one of the waiting workers, if there is one
Notified(p) ==
  LET asleep == {w \in Workers : p[w] = "waiting"}
  IN  IF asleep = {} THEN {p} ELSE {[p EXCEPT ![w] = "woken"] : w \in asleep}

\* ... and the notification.
Notify(t) ==
  /\ pc[t] = "notify"
  /\ pc' \in Notified([pc EXCEPT ![t] = IF t \in Clients THEN "idle" ELSE "run"])
  /\ UNCHANGED <<running, waitStop, working, queue, cmutex, hand, child, seen, before, next,
                 done, dropped, stopped>>

-------------------------------------------------------------------------------
(* do_work, the body of a worker.                                           *)

Loop(w) ==
  /\ pc[w] = "loop"
  /\ Goto(w, IF MayWork THEN "enter" ELSE "exit")
  /\ UNCHANGED <<running, waitStop, working, queue, cmutex, hand, child, seen, before, next,
                 done, dropped, stopped>>

Entered == working + 1

Enter(w) ==
  /\ pc[w] = "enter"
  /\ working' = Entered
  /\ Goto(w, "pop")
  /\ UNCHANGED <<running, waitStop, queue, cmutex, hand, child, seen, before, next, done,
                 dropped, stopped>>

\* Fault: the task stays in the queue.
M_Remaining == queue

\* what spinlock_queue::pop leaves in the queue
Remaining == Tail(queue)

\* spinlock_queue::pop
Pop(w) ==
  /\ pc[w] = "pop"
  /\ IF queue = <<>>
     THEN Goto(w, "leave") /\ UNCHANGED <<queue, hand>>
     ELSE /\ hand' = [hand EXCEPT ![w] = Head(queue)]
          /\ queue' = Remaining
          /\ Goto(w, "popped")
  /\ UNCHANGED <<running, waitStop, working, cmutex, child, seen, before, next, done, dropped,
                 stopped>>

\* The other half of the loop's condition: a popped task may be given up.
Popped(w) ==
  /\ pc[w] = "popped"
  /\ IF MayWork
     THEN Goto(w, "run") /\ UNCHANGED <<hand, dropped>>
     ELSE /\ dropped' = dropped \cup {hand[w]}
          /\ hand' = [hand EXCEPT ![w] = 0]
          /\ Goto(w, "leave")
  /\ UNCHANGED <<running, waitStop, working, queue, cmutex, child, seen, before, next, done,
                 stopped>>

\* The task returns (its exceptions go to the future).
TaskReturns(w) ==
  /\ pc[w] = "run"
  /\ done' = done \cup {hand[w]}
  /\ hand' = [hand EXCEPT ![w] = 0]
  /\ Goto(w, "pop")
  /\ UNCHANGED <<running, waitStop, working, queue, cmutex, child, seen, before, next, dropped,
                 stopped>>

\* Under _complete_mutex: the worker counts itself out ...
Leave(w) ==
  /\ pc[w] = "leave" /\ cmutex = None
  /\ cmutex' = w
  /\ working' = working - 1
  /\ seen' = [seen EXCEPT ![w] = working' = 0]
  /\ Goto(w, "check")
  /\ UNCHANGED <<running, waitStop, queue, hand, child, before, next, done, dropped, stopped>>

\* Fault: the last worker out does not tell.
M_LastOut(w) == FALSE

\* the rest of the condition under which a worker notifies the waiting clients
LastOut(w) == seen[w] /\ queue = <<>>

\* ... and if it was the last one and the queue is empty, wakes wait_complete.
Check(w) ==
  /\ pc[w] = "check"
  /\ cmutex' = None
  /\ pc' = LET p == [pc EXCEPT ![w] = "park"]
           IN  IF LastOut(w) THEN WokenAll(Clients, p) ELSE p
  /\ seen' = [seen EXCEPT ![w] = FALSE]
  /\ UNCHANGED <<running, waitStop, working, queue, hand, child, before, next, done, dropped,
                 stopped>>

\* the predicate a worker waits for
Wakeable == queue # <<>> \/ ~running

\* Under _mutex: leave for good, wait, or go round again.
Park(w) ==
  /\ pc[w] = "park"
  /\ Goto(w, IF ~running THEN "exit" ELSE IF Wakeable THEN "loop" ELSE "waiting")
  /\ UNCHANGED <<running, waitStop, working, queue, cmutex, hand, child, seen, before, next,
                 done, dropped, stopped>>

Woken(w) ==
  /\ pc[w] = "woken"
  /\ Goto(w, IF Wakeable THEN "loop" ELSE "waiting")
  /\ UNCHANGED <<running, waitStop, working, queue, cmutex, hand, child, seen, before, next,
                 done, dropped, stopped>>

-------------------------------------------------------------------------------
(* wait_complete and stop, called by clients.                               *)

InQueue == {queue[i] : i \in 1 .. Len(queue)}
InHand == {hand[w] : w \in Workers} \ {0}

WaitComplete(c) ==
  /\ pc[c] = "idle"
  /\ before' = [before EXCEPT ![c] = InQueue \cup InHand]
  /\ Goto(c, "wait")
  /\ UNCHANGED <<running, waitStop, working, queue, cmutex, hand, child, seen, next, done,
                 dropped, stopped>>

\* Fault: the count of working threads is looked at first.
M_FirstTest == working = 0

\* "must check _task_queue first"
FirstTest == queue = <<>>

\* The predicate of wait_complete under _complete_mutex: the queue ...
TestQueue(c) ==
  /\ pc[c] \in {"wait", "woken"} /\ cmutex = None
  /\ cmutex' = c
  /\ seen' = [seen EXCEPT ![c] = FirstTest]
  /\ Goto(c, "test")
  /\ UNCHANGED <<running, waitStop, working, queue, hand, child, before, next, done, dropped,
                 stopped>>

\* ... and then the count; wait_complete returns, or waits and gives up the mutex.
TestWorking(c) ==
  /\ pc[c] = "test"
  /\ cmutex' = None
  /\ Goto(c, IF seen[c] /\ working = 0 THEN "idle" ELSE "waiting")
  /\ seen' = [seen EXCEPT ![c] = FALSE]
  /\ UNCHANGED <<running, waitStop, working, queue, hand, child, before, next, done, dropped,
                 stopped>>

\* stop(wait): _wait_stop and then _running.  The pool is stopped by one client.
Stop(c, wait) ==
  /\ pc[c] = "idle" /\ ~stopped
  /\ stopped' = TRUE
  /\ waitStop' = wait
  /\ Goto(c, "stop")
  /\ UNCHANGED <<running, working, queue, cmutex, hand, child, seen, before, next, done, dropped>>

StopRunning(c) ==
  /\ pc[c] = "stop"
  /\ running' = FALSE
  /\ Goto(c, "stopping")
  /\ UNCHANGED <<waitStop, working, queue, cmutex, hand, child, seen, before, next, done,
                 dropped, stopped>>

StopNotify(c) ==
  /\ pc[c] = "stopping"
  /\ pc' = WokenAll(Workers, [pc EXCEPT ![c] = "join"])
  /\ UNCHANGED <<running, waitStop, working, queue, cmutex, hand, child, seen, before, next,
                 done, dropped, stopped>>

\* Fault: only some worker is joined.
M_Joined == \E w \in Workers : pc[w] = "exit"

\* every worker can be joined
Joined == \A w \in Workers : pc[w] = "exit"

StopJoin(c) ==
  /\ pc[c] = "join" /\ Joined
  /\ Goto(c, "idle")
  /\ UNCHANGED <<running, waitStop, working, queue, cmutex, hand, child, seen, before, next,
                 done, dropped, stopped>>

-------------------------------------------------------------------------------
Scheduling(t) == Push(t) \/ Notify(t)
Working(w) ==
  \/ Loop(w) \/ Enter(w) \/ Pop(w) \/ Popped(w) \/ TaskReturns(w)
  \/ Leave(w) \/ Check(w) \/ Park(w) \/ Woken(w)
Waiting(c) == TestQueue(c) \/ TestWorking(c)
Stopping(c) == StopRunning(c) \/ StopNotify(c) \/ StopJoin(c)

Next ==
  \/ \E t \in Threads : Schedule(t) \/ Scheduling(t)
  \/ \E w \in Workers : Working(w)
  \/ \E c \in Clients : WaitComplete(c) \/ Waiting(c) \/ Stopping(c)
  \/ \E c \in Clients, wait \in BOOLEAN : Stop(c, wait)

\* Threads run, tasks return, and a thread that wants _complete_mutex gets it
\* when it is free often enough.  No call has to be made.
Fairness ==
  /\ \A t \in Threads : WF_vars(Scheduling(t))
  /\ \A w \in Workers : SF_vars(Working(w))
  /\ \A c \in Clients : SF_vars(Waiting(c)) /\ WF_vars(Stopping(c))

Spec == Init /\ [][Next]_vars
FairSpec == Spec /\ Fairness
-------------------------------------------------------------------------------
(* Properties.                                                              *)

\* Every variable has its type.
TypeOK ==
  /\ running \in BOOLEAN /\ waitStop \in BOOLEAN /\ stopped \in BOOLEAN
  /\ working \in Nat /\ next \in 0 .. MaxTasks
  /\ queue \in Seq(Tasks) /\ cmutex \in Threads \cup {None}
  /\ pc \in [Threads -> WorkerPcs \cup ClientPcs]
  /\ hand \in [Threads -> Tasks \cup {0}] /\ child \in [Workers -> Tasks \cup {0}]
  /\ seen \in [Threads -> BOOLEAN]
  /\ before \in [Clients -> SUBSET Tasks]
  /\ done \subseteq Tasks /\ dropped \subseteq Tasks

\* When wait_complete has returned, every task that was in the pool when it was
\* called, and every task that these scheduled in turn, was run, or was given up
\* because the pool was stopped: the queue is read before the count, and a worker
\* counts itself before it pops.
WaitCompleteMeansDone ==
  \A c \in Clients : pc[c] = "idle" => before[c] \subseteq done \cup dropped

\* A task is run once: it is in one place of the pool, by the time it was run or
\* given up in none, and the queue holds it once.
TaskInOnePlace ==
  /\ InQueue \cap InHand = {} /\ (InQueue \cup InHand) \cap (done \cup dropped) = {}
  /\ done \cap dropped = {}
  /\ \A i, j \in 1 .. Len(queue) : queue[i] = queue[j] => i = j
  /\ \A v, w \in Workers : hand[v] = hand[w] /\ hand[v] # 0 => v = w

\* The invariant of a pool: its types, and that a task is run once.
PoolSafe == TypeOK /\ TaskInOnePlace

\* When stop has returned, no task is running and none will be: the workers have
\* left, and stop(true) gave up none of the tasks they had popped.
StopJoinsWorkers ==
  stopped /\ ~running /\ (\A c \in Clients : pc[c] \notin {"stop", "stopping", "join"})
    => /\ \A w \in Workers : pc[w] = "exit"
       /\ working = 0 /\ (waitStop => dropped = {})

\* A task in the queue is run as long as the pool is not stopped: the notification
\* of schedule is not lost.
QueuedTaskRuns ==
  \A k \in Tasks : k \in InQueue ~> (k \in done \/ stopped)

\* wait_complete returns as long as the pool is not stopped, although it is
\* notified only by the worker that counts itself out last.
WaitCompleteReturns ==
  \A c \in Clients : pc[c] \in {"wait", "test", "waiting", "woken"} ~> (pc[c] = "idle" \/ stopped)

\* stop returns: no worker sleeps through it.
StopReturns == \A c \in Clients : pc[c] = "join" ~> pc[c] = "idle"

\* All three: a pool that is not stopped runs what it was given and lets its clients go.
NobodyWaitsForEver == QueuedTaskRuns /\ WaitCompleteReturns /\ StopReturns
===============================================================================
