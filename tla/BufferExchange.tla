-------------------------- MODULE BufferExchange --------------------------
(***************************************************************************)
(* util::static_pool and util::pool, from which threads take buffers, and  *)
(* thread::queue, over which they hand them on.  Every operation holds the *)
(* mutex of its pool or queue from start to end, so each is one step; only *)
(* the wait of pop lets it go.                                             *)
(***************************************************************************)
EXTENDS Integers, Sequences, FiniteSets, SequencesExt

CONSTANTS Threads, Buffers,
          MaxSize  \* the template argument MaxSize of the pool

ASSUME ExchangeAssumption == MaxSize \in Nat /\ IsFiniteSet(Threads) /\ IsFiniteSet(Buffers)

VARIABLES
  pool,   \* _pool of the pool
  queue,  \* _queue of the queue
  held,   \* the buffers that a thread has a pointer to
  used,   \* the buffers that hold bytes, or a mark
  waiter  \* where a thread is: running, asleep in _cv.wait, or notified and
          \* about to take the mutex again

xVars == <<pool, queue, held, used, waiter>>

ExchangeInit ==
  /\ pool = <<>> /\ queue = <<>> /\ used = {}
  /\ held = [t \in Threads |-> {}]
  /\ waiter = [t \in Threads |-> "running"]

Sleepers == {t \in Threads : waiter[t] = "asleep"}
Notified == {t \in Threads : waiter[t] = "notified"}
HeldBuffers == UNION {held[t] : t \in Threads}
Free == Buffers \ (Range(pool) \cup Range(queue) \cup HeldBuffers)

Holds(t, b) == held' = [held EXCEPT ![t] = @ \cup {b}]
Releases(t, b) == held' = [held EXCEPT ![t] = @ \ {b}]

\* A thread writes into a buffer of its own.
Fill(t, b) ==
  /\ waiter[t] = "running" /\ b \in held[t]
  /\ used' = used \cup {b}
  /\ UNCHANGED <<pool, queue, held, waiter>>

\* Fault: a pooled object is handed out as it was returned.
M_Blanked(b) == used

\* streambuf::reset(base_size): the areas empty, no mark; the base size it is
\* given is not looked at
Blanked(b) == used \ {b}

\* Fault: the object handed out stays in the pool.
M_static_get_object(t) ==
  /\ waiter[t] = "running"
  /\ \E b \in (IF pool = <<>> THEN Free ELSE {Head(pool)}) : Holds(t, b) /\ used' = Blanked(b)
  /\ UNCHANGED <<pool, queue, waiter>>

\* static_pool::get_object: a new object when the pool is empty
static_get_object(t) ==
  /\ waiter[t] = "running"
  /\ \/ /\ pool = <<>>
        /\ \E b \in Free : Holds(t, b)
        /\ UNCHANGED <<pool, used>>
     \/ /\ pool # <<>>
        /\ Holds(t, Head(pool)) /\ used' = Blanked(Head(pool)) /\ pool' = Tail(pool)
  /\ UNCHANGED <<queue, waiter>>

\* pool::get_object, the same on the pool of an object
pool_get_object(t) == static_get_object(t)

\* static_pool::return_object: kept while there is room and push_back does not
\* throw, else released
static_return_object(t, b) ==
  /\ waiter[t] = "running" /\ b \in held[t]
  /\ Releases(t, b)
  /\ \/ Len(pool) < MaxSize /\ pool' = Append(pool, b) /\ used' = used
     \/ pool' = pool /\ used' = used \ {b}
  /\ UNCHANGED <<queue, waiter>>

\* pool::return_object; that it does not look for a null pointer is left out,
\* no thread here returns one
pool_return_object(t, b) == static_return_object(t, b)

\* Fault: no notification.
M_notify_one == waiter' = waiter

\* _cv.notify_one: one sleeper, any of them, is notified
notify_one ==
  IF Sleepers = {} THEN waiter' = waiter
  ELSE \E s \in Sleepers : waiter' = [waiter EXCEPT ![s] = "notified"]

push(t, b) ==
  /\ waiter[t] = "running" /\ b \in held[t]
  /\ Releases(t, b)
  /\ queue' = Append(queue, b) /\ notify_one
  /\ UNCHANGED <<pool, used>>

\* the front leaves the queue
TakeFront(t) ==
  /\ queue # <<>>
  /\ Holds(t, Head(queue)) /\ queue' = Tail(queue)
  /\ UNCHANGED <<pool, used>>

\* pop, from its call or from a notification: asleep while there is nothing
pop(t) ==
  /\ waiter[t] \in {"running", "notified"}
  /\ \/ TakeFront(t) /\ waiter' = [waiter EXCEPT ![t] = "running"]
     \/ /\ queue = <<>> /\ waiter' = [waiter EXCEPT ![t] = "asleep"]
        /\ UNCHANGED <<pool, queue, held, used>>

\* pop_if_possible: a null pointer, and nothing else, when the queue is empty
pop_if_possible(t) ==
  /\ waiter[t] = "running" /\ TakeFront(t) /\ waiter' = waiter

\* clear: the elements are released
clear(t) ==
  /\ waiter[t] = "running" /\ queue # <<>>
  /\ queue' = <<>> /\ used' = used \ Range(queue)
  /\ UNCHANGED <<pool, held, waiter>>

\* a condition variable may wake a sleeper without a notification
SpuriousWakeup(t) ==
  /\ waiter[t] = "asleep"
  /\ waiter' = [waiter EXCEPT ![t] = "notified"]
  /\ UNCHANGED <<pool, queue, held, used>>

ExchangeNext ==
  \E t \in Threads :
    \/ static_get_object(t) \/ pool_get_object(t)
    \/ pop(t) \/ pop_if_possible(t) \/ clear(t) \/ SpuriousWakeup(t)
    \/ \E b \in Buffers : \/ Fill(t, b) \/ push(t, b)
                          \/ static_return_object(t, b) \/ pool_return_object(t, b)

ExchangeSpec == ExchangeInit /\ [][ExchangeNext]_xVars

-----------------------------------------------------------------------------
\* A buffer is in one place: once in the pool, once in the queue or with one
\* thread.  A buffer in two places is written by two channels.
OneOwner ==
  /\ IsInjective(pool) /\ IsInjective(queue)
  /\ Range(pool) \cap Range(queue) = {}
  /\ (Range(pool) \cup Range(queue)) \cap HeldBuffers = {}
  /\ \A s, t \in Threads : s # t => held[s] \cap held[t] = {}
  /\ Len(pool) <= MaxSize

\* push notifies one thread for each element, so that threads only sleep in pop
\* while the elements have takers: no wake-up is lost to a thread that takes an
\* element without having slept.
NoLostWakeup == Sleepers # {} => Len(queue) <= Cardinality(Notified)

\* A buffer comes out of the pool without the bytes of its last user.
PooledIsBlank ==
  [][\A t \in Threads : \A b \in Range(pool) : b \in held'[t] => b \notin used']_xVars
=============================================================================
