# Shan.Lib in TLA+

Specifications of Shan.Lib, checked with TLC on small instances. The safety of the state
machines, the laws of the matrices and the inverses of the conversions are also proved with
TLAPS, for every value of the constants. Paths are relative to the repository; `net/` stands for
`src/include/shan/net/`, and `thread/`, `util/`, `math/`, `json/` and `unicode/` likewise.
The definition-by-definition correspondence with the code is in `PROJECT.json` under
`map`.

## The system

Shan.Lib is a header-only C++11 library.

| Part | State | Operations | Interacts with |
|---|---|---|---|
| Channel context (`net/channel_context.h`, `context_base.h`, TCP and SSL subclasses) | `_stat`, `_connected`, `_task_in_progress`, the socket, `_write_buf_queue`, the strand | create, connect, handshake, read, write, user event, close, shutdown, disconnect | asio operations complete on the strand; the handlers of the pipeline are called on it; other threads close it |
| Service (`net/service_base.h`, `tcp_server_base.h`, `tcp_client_base.h`) | `_stat`, the io_service, workers, `_channel_contexts`, the pipeline, the acceptor, the stop thread | add handler, start, connect, accept, request_stop, wait_stop, stop, destructor | owns channels; workers run all handlers; two mutexes and a condition variable |
| UDP service and channel (`net/udp_*.h`) | as the channel context, with BOUND and a queue of datagrams | bind_connect, write, write_to, read, close | shares `channel_context` and `service_base` |
| Idle monitor (`net/tcp_idle_monitor.h`) | a map from channel ids to timers | connected, read, write, disconnected, timeout, reset | a handler of the pipeline; fires user events |
| Worker pool (`thread/worker_pool.h`, `spinlock_queue.h`) | `_running`, `_wait_stop`, `_working_threads`, the task queue, two condition variables | schedule, do_work, wait_complete, stop | used by `math/matrix.h` |
| Matrix (`math/matrix.h`) | rows, columns, a flat array | element-wise arithmetic, transpose, min, max, load, dot | `dot` schedules its rows on a worker pool |
| Blocking queue, object pools (`thread/queue.h`, `util/pool.h`) | a deque; a deque of free objects | push, pop, pop_if_possible, clear; get, return | hand buffers between threads |
| Stream buffer (`util/streambuf.h`) | a vector, positions, a mark | prepare, commit, consume, read, write, reserve, mark, reset | buffers of channels; MessagePack is packed into it |
| JSON, MessagePack (`json/`) | trees of values | add, operator[], two parsers, print, pack, unpack | uses `unicode/utf.h`, `util/util.h`, `util/streambuf.h` |
| Unicode, properties (`unicode/utf.h`, `util/properties.h`) | none; a map | convert; load, get | `properties` uses the conversions |

What is hard in it: a close that races with the strand; an SSL stream that must be shut
down exactly once and by itself; in-progress flags that decide between cancelling and
shutting down; a stop that joins the workers with a mutex locked which handlers want;
condition variables whose predicate is read in two pieces; ids that are addresses and
are used again while a timer still knows the old one; a product that is divided over a
pool others may stop; a buffer that moves and resizes itself under its readers; parsers
that exist twice and must agree. `PROJECT.json` lists these under `hazards`, each at its
line.

## Modules

| Module | Models |
|---|---|
| `ChannelCallbacks` | abstract: the order of callbacks that a TCP or SSL channel promises to the handlers of its pipeline |
| `ChannelContext` | one channel of a `tcp_server`, `ssl_server`, `tcp_client` or `ssl_client`, with the completion handlers of the service that run on it |
| `Service` | the life of a service, from its constructor to its destructor |
| `UdpCallbacks` | abstract: the same promise for a UDP channel |
| `UdpChannel` | one channel of a `udp_service` |
| `IdleMonitor` | the timers of `tcp_idle_monitor` for the channels that have one address |
| `WorkerPool` | `worker_pool` with its `spinlock_queue` |
| `Matrix`, `MatrixDot` | `matrix` as functions; its parallel `dot` composed with `WorkerPool` |
| `ByteQueue` | abstract: a queue of bytes with a mark |
| `Streambuf` | `util::streambuf`, shown to implement `ByteQueue` |
| `BufferExchange` | `static_pool`, `pool` and `thread::queue` with the threads that use them |
| `Chars`, `Utf` | what the parsers use of the C++ library; `unicode/utf.h` |
| `Json`, `JsonText`, `JsonStream` | JSON values and printing; the parser of a text; the parser of an istream |
| `PackFormat`, `MessagePack` | the MessagePack formats of numbers and headers, with the byte order of `util/util.h`; pack and unpack of values |
| `JsonDocument` | an array or object that is filled by all of these |
| `Properties` | `properties::load` |
| `ChannelContextProofs` | the inductive invariant of `ChannelContext` and the theorems about operations, callbacks, the map, the order of writes and the end of a channel |
| `ServiceProofs`, `UdpChannelProofs`, `IdleMonitorProofs`, `WorkerPoolProofs` | theorems about the module each is named after |
| `BufferProofs` | theorems about `Streambuf` and `BufferExchange` |
| `MatrixDotProofs` | theorems about `Matrix` and `MatrixDot` |
| `CodecProofs` | theorems about `Utf` and `PackFormat` |
| `MC...` | the instances that TLC checks; `MCBuffers` and `MCValues` put modules side by side that share no state |

Definitions named `M_...` are faulty variants of the definition that follows them,
each a plausible slip in that piece of code (a dropped test, a missing reset, a
swapped order). Nothing uses them; put in place of the original, each violates the
property that `PROJECT.json` pairs it with.

### ChannelContext

The variables are the members of the context and of its channel (`stat`,
`connected`, `tasks`, `socket`, `wq`), the asynchronous operations of asio that are
outstanding (`op`, `shut`), the lambdas posted to the strand (`posted`), the callback
that the strand is executing (`pc`), and the membership in `_channel_contexts`
(`inMap`). `phase`, `sent` and `issued` are history.

*Granularity.* A channel's handlers run one at a time on its strand. A handler of the
library that calls a callback of the application is split there: `ConnectComplete`,
for example, ends with `pc = "connected"`, and `ConnectedReturn` goes on after the
callback. During the callback the application may write, fire events and close
(`CallbackClose`), other threads take steps, and the service may stop. Between two
callbacks the code is one action; the only thing another thread writes there is
`stat`, and one such write has the effect of a write before or after. A close from
another thread is four steps, because `service_base::close_channel` looks the channel
up under a mutex, `fire_channel_close` tests `stat`, then stores it, then posts.

*Environment.* A pending operation completes with success, end of file, an error, or
"aborted" when the socket was cancelled or closed (`NetComplete`, `AbortOps`); the
handler runs later. A callback may throw (`MaxThrows`). Serialization of a message may
fail (`WriteReturn`). An insertion into the map may fail (`ConnectNotInserted`). Data is
a buffer number; what is in it does not matter to the properties.

*Kinds.* `Kinds` is the set of services considered; the kind is chosen in `Init`. A
server's channel begins connected and in the map, a client's has to resolve and
connect; SSL adds the handshake and the asynchronous shutdown.

### Service

Workers are free, in a handler of a channel, in `accept_complete` or
`connect_complete` (`setup`), or in `request_stop` called from one of these. The
application's threads make any call at any time, one at a time each, until one of
them begins the destructor. Holding `_service_mutex` is only visible in `stop()`, where
it lasts while the workers are joined: there `mutex` is a variable, everywhere else the
critical section is one step. `object` says how much of the object the
destructors have left: `StopEnd` depends on it, because `stop()` is virtual, and so does
what handlers may call. `SpuriousWake` is the condition variable's right to wake
for no reason. Channels are counted, not followed.

### UdpChannel

As `ChannelContext`, with these differences of the code: `bind_connect` with or without
a remote end, given as a name or as an address (`target`); the state BOUND, in which
datagrams are exchanged already; a write queue of datagrams that carry an address or do
not; a read buffer that `channel_read_from` sees and that is reset after it, unless it
throws. `call_channel_bound` and `call_channel_connected` are split between their test of
`stat` and their store, because there a REQ_CLOSE of another thread is overwritten.
Erases of the map without `_shared_mutex` are single steps, as the others are.

### IdleMonitor

The module follows one address. The channels that have it one after the other are
numbered, and each has a strand on which handlers may still be queued when the channel
is gone. `monitor` is the entry of `_monitors`: whether its time is not 0 (`on`), whether
a wait is pending, and on which strand. asio's timer is external: a cancelled wait
completes with an error, but a handler that is queued already keeps its success. Time
is abstracted: a pending wait may expire at any moment. Handlers before the monitor in
the pipeline may keep a callback from it (`skipped`). A use of a null context ends the
process (`crash`).

### WorkerPool and MatrixDot

Every access to an atomic or to the spinlock queue is a step, since the code makes
them outside the mutexes. Under `_complete_mutex` two things are read one after the
other, so the mutex is a variable; under `_mutex` nothing can be told apart, so it is
not. A task may schedule another task while it runs (`child`). The case of zero
workers is left out: everything then runs in the caller.

`MatrixDot` extends `WorkerPool`: the client `Caller` computes the number of rows per
block, schedules one task for each block and calls `wait_complete`; a worker that runs
such a task writes its rows of the result (`RunBlock`). The other clients go on using
the pool, and may stop it. `MinWork` is the 28000 of the code.

### Streambuf, BufferExchange

Pointers are offsets into the vector, and `size_t` ends at `SizeMax`, so that the last
doubling is reached. The n-th byte written has the value n, so that lost, repeated or
exchanged bytes show; bytes nobody asked for are `NotOurs`. An operation of `streambuf`
is one step: a buffer has one user at a time, which is what `OneOwner` of
`BufferExchange` is about. In `BufferExchange` an operation holds its mutex from start
to end and is one step; the wait of `pop` is two, and may wake for no reason.

### The value modules

Pure functions. Characters and bytes are their codes, 64-bit integers their eight bytes.
A parser is a function from a text and a position to an outcome (`ok`, `throws`,
`undefined`), the value, which after an exception is what had been added, and the
position. What the code leaves undefined is `undefined`: an unterminated string in a text is read
past its NUL. `JsonDocument` is the state machine over them: a program fills an array or
object with `add`, `operator[]`, `parse` and `unpack`, in any order and also with texts
that fail. A double is its eight bytes. `strtod` and `sprintf` are stand-ins that tell
doubles apart, and so nothing is said about rounding; but which images are infinite or NaN,
and which have too many digits for the 64 bytes of `double_to_string`, is read from the
image, and `strtod` gives an image of the right size for `1e999` and `1e99`. `number::pack`
exists twice in the code and in `MessagePack`.

## Runs

| Run | Bounds | Shows |
|---|---|---|
| `channel` | four kinds, one closing thread, 2 writes, 1 event, 1 exception | the safety of a channel, that it implements `ChannelCallbacks`, and that a close is carried out |
| `channel_write_orphaned` | fails; one kind, 3 writes | after a failed write with a buffer behind it, a close cancels nothing and waits for ever |
| `service` | 2 workers, 2 application threads, 2 requests, 1 channel, 1 handler to add | what `stop()` guarantees, and that stopping comes to an end |
| `service_request_deadlock` | fails; 1 worker | `request_stop` in a single handler can deadlock |
| `udp` | three targets, one closing thread, 2 writes, 2 reads, 1 event, 1 exception, 3 of all these together | the same as `channel`, for UDP |
| `idle` | two channels at one address, 1 read or write, 2 resets | monitors belong to connected channels, idle channels are noticed |
| `idle_off_fires` | fails; 1 channel, 1 touch, 1 reset | a timer that was turned off fires |
| `pool` | 2 workers, 1 client, 2 tasks | no notification is lost |
| `matrix` | 2 workers, 2 clients, 3 tasks, five shapes of operands; the laws with all matrices of two elements and three scalars | `wait_complete` and `stop` keep their word, a task is run once, `dot` returns the product, matrices obey their laws |
| `buffers` | base size 2, `size_t` up to 15, 6 bytes; 3 threads, 3 buffers, a pool of 2 | `streambuf` is a byte queue; pooled buffers have one owner and come out blank |
| `values` | JSON texts of up to 3 fragments behind a start, lines of up to 4, documents of up to 2 additions, every 263rd code point and all edges | parsers agree, print and parse, pack and unpack are inverse |
| `properties_continuation` | fails; one fragment | a continued line loses a character |

The bounds are the least with which the cases happen. Two writes put one buffer
behind another; one exception per run reaches each `catch`; for UDP, three inputs are a
datagram, an exception while it is read, and the datagram that is joined to it, or a write
in the place of one; one closing thread is
enough to race with the strand, which closes the channel itself. Two workers are
needed for a handler to run while another is in `request_stop`; two application
threads for a `wait_stop` against a `request_stop`. Three tasks give a product of three
blocks, a product of two blocks next to a foreign task, and a task that schedules
another while a third is queued. Two channels are needed for an address to be used
again, two resets for one to overtake another. With a base size of 2 and a limit of 15
the vector is doubled twice, is once too large to double, and is halved again.
Three threads give a sleeper, a thread that is notified and a third that takes the
element. The document's values are the edges of every MessagePack format, the texts
include ones that fail half way. Workers of the pool are interchangeable; that symmetry
is used in `matrix`, which has no temporal property.

`CHECK_DEADLOCK FALSE` is in the runs of channels, services, pools and values: a closed
channel, a destroyed service, a stopped pool and a document of full size have nothing
left to do; that they do not stop earlier is what the liveness properties say. `buffers`
checks for deadlock.

### Properties of a channel

* `TypeOK`: types.
* `TasksCoverOps`: an operation that is outstanding has its bit in
  `_task_in_progress`; `is_channel_busy()` is never too early.
* `ShutdownAlone`: an SSL stream is shut down only when no other operation uses it, and
  none is started while its asynchronous shutdown is outstanding. Both kinds of shutdown
  count, the asynchronous one of a close and the one in place of `close_immediately`
  (`ssl_channel.h:40`). The exceptions are the write that may be outstanding when a read
  has failed, and `stop()`.
* `WritesInOrder`: `write_complete`, which pops without a test, pops the buffer that was
  sent; buffers are sent in order, none twice.
* `ConnectedIsReachable`: between `channel_connected` and `channel_disconnected` the
  channel is in the map and its socket is open.
* `NoForgottenChannel`: a channel of which nothing is left to run is out of the map,
  except after a failed handshake and after a failed write whose queued buffers a later
  write has joined (`Orphaned`).
* `ClosedOnce`: unless another thread has stored REQ_CLOSE, no closed socket is cancelled
  and a stream is shut down at most once while the service runs.
* `OnlyLateStoreReverses`: the state goes back only by the store of another thread.
* `CallbackOrder`: the channel implements `ChannelCallbacks`, with `phase` for the phase
  and `pc` for the callback.
* `CloseCompletes`: once `stat` is REQ_CLOSE, the socket is closed and the handlers are
  told (on SSL, once the peer has answered), unless the service stops or the channel is
  `Orphaned`: it counts as busy with a write that nobody has started. A write that
  succeeded with others behind it is no exception, and neither is the end of the process.

### Properties of a UDP channel

`WritesInOrder`, `CallbackOrder`, `NoForgottenChannel`, `CloseCompletes` as above, and
`UdpSafe`, which is its types and `ConnectedIsReachable`. `CloseCompletes` has three more
exceptions, all of them real: a close overwritten by the store of BOUND or CONNECTED, a
channel that is out of the map, and, as an antecedent, a connect that has succeeded behind the close
when that was looked at already (`ConnectedBehindClose`), which swallows it. `NoForgottenChannel` is about channels that were connected: one that was only bound
stays in the map. `DatagramsAlone`: `channel_read_from` sees one datagram at a time, and one more
for each exception that a callback has thrown.

### Properties of the idle monitor

* `IdleSafe`: types; a monitor does not outlive its channel, its timer waits on the
  strand of the connected channel, and neither `timeout` nor the lambda of a reset uses a
  null context, as long as no handler keeps `channel_disconnected` from the monitor.
* `OffIsQuiet`: a timer that was turned off fires only after a read or write, or for a
  wait that had expired before.
* `IdleIsNoticed`: a connected channel with a timer gets its event in the end.

### Properties of a service

* `ServiceSafe`: types, and `stat` STOPPED with the mutex free means that all workers were
  joined. The comment "no more handler will be called" in `stop()` relies on it.
* `WaitStopMeansStopped`: although `_stat` is STOPPED from the beginning of `stop()`,
  `wait_stop` returns only after its end.
* `StoppedForGood`: late requests and destructors do not revive a service.
* `StopComesToAnEnd`: a requested stop happens, `wait_stop` and the destructor return,
  unless a handler is in `request_stop` while the workers are joined. That is the
  deadlock which `service_request_deadlock` exhibits, and the only one.

### Properties of the pool and of dot

* `WaitCompleteMeansDone`: all tasks in the pool when `wait_complete` was called, and the
  tasks that these scheduled, are over when it returns. It depends on the queue being
  read before the count ("must check _task_queue first").
* `PoolSafe`: types, and a task is run at most once. `StopJoinsWorkers`: after `stop` none
  runs; `stop(true)` gives up no task that a worker has popped.
* `NobodyWaitsForEver`: tasks are run, `wait_complete` and `stop` return. The first two are
  about a pool that is not stopped: `stop(true)` may leave a task in the queue (a worker
  that found it empty breaks at `worker_pool.h:102`), and `wait_complete` after `stop(false)`
  may wait for ever.
* `DotIsProduct`: when `dot` returns, every row is there and right, unless the pool was
  stopped. `MatrixLaws`: the index arithmetic of the flat array obeys the laws of
  matrices: (AB)' = B'A', (A + C)B = AB + CB, (xA)B = x(AB), the first extreme element, and
  the operations with another matrix C and a scalar x undo each other.

### Properties of buffers

* `PointersInOrder`: whatever is moved, doubled or halved, the pointers stay in order,
  the mark is not beyond the read position and the vector is between the base size and
  the limit of `size_t`.
* `IsByteQueue`: `Streambuf` implements `ByteQueue`: bytes come out once and in order, also
  after `reset()` to a mark. A write that throws may spoil the bytes that are there, not
  their number, and what follows is a queue again.
* `OneOwner`, `PooledIsBlank`: a buffer is in one place, and comes out of the pool without
  the bytes of its last user.
* `NoLostWakeup`: `push` notifies one thread; nobody sleeps in `pop` while an element has
  no taker.

### Properties of values

* `PrintParse`: whatever a document has been through, its text is read back as the same
  document, by both parsers, if and only if every number in it is printed as one: not
  `number()`, which prints nothing, and no infinity or NaN that was given or unpacked.
* `PackUnpack`: its packed form is read back as the same values, and both pack functions
  write the same, unless a parsed double is too long for the buffer that `unpack` prints it into.
* `ParsersAgree`: the two parsers do the same on every text whose strings are closed,
  also in what a failed parse leaves.
* `EscapesMeanCodePoints`: three copies of the surrogate code give each code point its
  UTF-8 bytes, and these its units.
* `FoundStaysFound`: what was found under a key or at a position stays there.
* `LinesStandAlone`: a line of a properties file means the same whatever is around it;
  of two lines with one key the first counts. The exception is an empty line behind a
  backslash and CR, or CR LF: its end is the character that `ContinuationJoins` finds lost,
  and the next line becomes part of the continued one.

### Fairness

* Channel, UDP: callbacks return, the strand does not rest while it has something to run
  and closers run (all weak). Nothing is assumed of the network: no operation has to
  complete by itself, except that connecting a datagram socket, which sends nothing,
  completes.
* Idle monitor: time passes and strands run (weak).
* Service: threads run, callbacks return, and a thread that wants `_service_mutex` gets
  it if it is free again and again (strong). No call has to be made.
* Pool: the same, with `_complete_mutex`. Tasks return.

## Proofs

Each theorem holds for every value of the constants: any set of kinds or targets, any
number of workers, clients, channels, threads or buffers, any bound on writes, reads,
events, tasks or bytes, integer matrices of any size. The assumptions are those that the modules state as `ASSUME`: bounds
are natural numbers, kinds of threads are disjoint, a pool has at least one worker, sets that are counted are
finite, the base size of a `streambuf` is at least 1 and not above the limit of
`size_t`, and matrices that are multiplied have shapes that fit, which `dot` asserts. TLC evaluates them in the runs.

| Theorem | States |
|---|---|
| `ChannelContextProofs`: `Inductive` | `[]IInv` |
| `TypeCorrect`, `TasksCoverOpsHolds`, `ShutdownAloneHolds`, `ConnectedIsReachableHolds` | `TypeOK`, `TasksCoverOps`, `ShutdownAlone`, `ConnectedIsReachable` |
| `CallbackOrderHolds` | `CallbackOrder`, the refinement of `ChannelCallbacks` |
| `WritesStayInOrder`, `ChannelsCloseOnce`, `NoChannelIsForgotten` | `WritesInOrder`, `ClosedOnce`, `NoForgottenChannel` |
| `StateOnlyRises` | the action property `OnlyLateStoreReverses` |
| `ServiceProofs`: `ServiceIsSafe` | `ServiceSafe` |
| `WaitStopReturnsLast`, `StoppedIsForGood` | the action properties `WaitStopMeansStopped`, `StoppedForGood` |
| `UdpChannelProofs`: `UdpIsSafe`, `DatagramsComeAlone`, `WritesStayInOrder`, `NoChannelIsForgotten` | `UdpSafe`, `DatagramsAlone`, `WritesInOrder`, `NoForgottenChannel` |
| `CallbacksInOrder` | `CallbackOrder`, the refinement of `UdpCallbacks` |
| `IdleMonitorProofs`: `MonitorIsSafe` | `IdleSafe` |
| `TimerOffIsQuiet` | the action property `OffIsQuiet` |
| `WorkerPoolProofs`: `TasksRunOnce`, `WaitCompleteIsRight`, `StopLeavesNobody` | `PoolSafe`, `WaitCompleteMeansDone`, `StopJoinsWorkers` |
| `BufferProofs`: `BuffersHaveOneOwner`, `WakeupsAreNotLost` | `OneOwner`, `NoLostWakeup` |
| `PooledBuffersAreBlank` | the action property `PooledIsBlank` |
| `PointersStayInOrder` | `PointersInOrder` |
| `StreambufIsByteQueue` | `IsByteQueue`, the refinement of `ByteQueue` |
| `MatrixDotProofs`: `DotUsesThePool` | `DotSpec => Spec`: a pool with a product on it is a pool |
| `BlocksMakeTheProduct` | `DotIsProduct` |
| `PoolStaysRight` | `PoolSafe`, `WaitCompleteMeansDone`, `StopJoinsWorkers`, under `DotSpec` |
| `LawsOfMatrices`, `LawsHold` | `Laws` of all integer matrices of fitting shapes, and so `MatrixLaws` |
| `CodecProofs`: `CodePointsComeBack`, `UnitsComeBack` | UTF-8 and UTF-16 give every code point back |
| `NumbersComeBack` | `number::unpack` reads what `number::pack` writes, for every 64-bit integer and every image of a double |
| `StringLengthsComeBack`, `ArrayLengthsComeBack`, `ObjectLengthsComeBack` | the headers give every length below 2^32 back |

Few of the properties are inductive alone. Every module therefore has an inductive
invariant (`IInv`; of `Streambuf` it is `SbInv`, of `BufferExchange` `ExchangeIInv`, of `MatrixDot` `DotIInv`), and every invariant that was added for
a proof was first checked with TLC on the constants of the component's run.

### A channel

`ShutdownAlone` needs that no operation
is outstanding when a stream is shut down (`ShutsAloneStep`, from `TasksCoverOps` and from what a
write needs to be started, `NoEarlyWriteStep`), and that none
starts after the shutdown has: so it needs what `stat` can be while a shutdown is
outstanding, and that `stat` can be taken back to REQ_CLOSE by a late store but never to
a state in which something is sent. `IInv` therefore adds:

* `StatPhase`: which values of `stat` go with which phase. A closer that has passed its
  test holds the channel to the phases after `channel_connected`, which is why its late
  store does no harm to `CallbackOrder`;
* `OpsPhase`: which operations may be outstanding in which phase;
* `SetupOnce`: the steps that set a channel up (the created callback, the connect
  lambda, resolve, connect, handshake) are never outstanding together. Without it a
  second `channel_connected` cannot be excluded;
* `Reachable`: the same as `ConnectedIsReachable`, and for the steps before it;
* `QueueHead`: a write that is outstanding has a buffer in the queue.

There is one lemma per conjunct (`TypeStep`, `QueueStep`, `TasksStep`, `ShutdownStep`,
`StatStep`, `OpsStep`, `SetupStep`, `ReachableStep`), each with a step for every action;
what the shared pieces of the handlers do (`CloseGracefully`, `HandleReqClose`,
`ReleaseChannel`, ...) is stated once before. `CallbackStep` shows that each step is a
step of `ChannelCallbacks` or a stutter.

The order of writes and the end of a channel go on from `IInv`:

* `WritesInOrder` is inductive with `Numbered`: no number in the queue, in a lambda or in
  the callback is above the last that `write_channel` has given. Five actions touch the
  buffers; the others are shown once to be quiet (`WriteSteps`).
* `ClosedOnce` needs `ShutOnce`, which ties the number of shutdowns to `stat`, and
  `SetupOver`: a channel that was closed before it was connected is not set up any
  further, so that it cannot be closed again as a connected one.
* `NoForgottenChannel` is about states in which nothing is left, so its invariant has to
  name what a channel is waiting for in all others. `TasksAreReal`: a bit of
  `_task_in_progress` stands for an operation, a connect lambda or queued buffers.
  `Anchored`: as long as the channel is in the map, there is a first lambda, a set-up, a
  read, a shutdown, a callback or a close that will come back to it.

### A UDP channel

The argument is the same, with what UDP does differently. `StatPhase` is weaker: BOUND and
CONNECTED can be overwritten by a late REQ_CLOSE and overwrite one themselves. A channel
can skip `channel_bound`; the invariant says that it then stays at REQ_CLOSE or beyond
(the last conjunct of `SetupOnce`), and `UdpCallbacks` permits it. `ReadPhase` says when
datagrams are read, `PostedOnce` that the first lambda and the connect lambda are single.
`DatagramsAlone` rests on `Leftovers`: the read buffer holds no more than the datagram at
hand and one for each exception. `Numbered`, `TasksAreReal` and `Anchored` are as above.

### Service

`ServiceSafe` says what is true when nobody holds `_service_mutex`; why it is true is in
`MutexOwner` (only a thread in `stop()` holds it for more than a step, and `_stat` is
STOPPED then), `StopThreadStat` and `WorkersStat` (which states of the stop thread and of
the workers go with which `_stat`), `OneDestroyer` (a destructor makes the last call, and
how far it is tells what is left of the object) and `Released` (`stop()` leaves nothing
behind).

### Worker pool

`wait_complete` reads the queue and then the count while workers go on. The
invariant says that `_working_threads` is the number of workers between counting
themselves in and out (`Count`), which threads hold tasks (`Hands`), that a task that is
not pushed yet is nowhere else (`Fresh`), that no task a client waits for is lost
(`Accounted`), and, the heart of it, `SeenEmpty`: once the client has seen the queue
empty, a task it waits for can be there again only if a counted worker has put it there,
and that worker stays counted while the client holds `_complete_mutex`. That is why the order of
the two reads matters. `StopProgress` ties `stop` to the workers it has joined.

### dot on a pool

Every step of `DotNext` is a step of the pool or leaves it alone, so `DotSpec` implies
`Spec` (`DotUsesThePool`) and the pool's theorems hold with `dot` among its clients. What
`DotIsProduct` needs besides is in `DotIInv`:

* `CutInPlace`: a block begins where the last one ended, and `dest` is `start * cols` as
  long as a block is left. After a short last block `dest` is wrong, and not used;
* `BlocksScheduled`: a block belongs to a task that was scheduled, and lies where its rows do;
* `RowsCovered`: unless the pool was stopped, every row before `start` is in the block of
  some task;
* `DoneRight`: the elements of a block whose task is over are those of the product, also
  after other workers have written theirs;
* `WaitedFor`: at `wait_complete` every block is over or among the tasks that
  the call waits for, so that `WaitCompleteMeansDone` gives the rest.

The loop that doubles the rows of a block is a recursive function; that it ends, within
twice the number of rows, is shown as for `reserve` (`GrowEnds`). The index arithmetic
rests on two lemmas about quotients and remainders (`DivMod`, `RowAndColumn`).

The laws are proved for all integer matrices of fitting shapes, empty ones included. The
sums of `dot` and the search of `min` and `max` are loops, whose results are found by taking the
least number for which a claim about them would fail (`LoopResults`, `SumFacts`,
`FirstLeastFacts`): (AB)' = B'A' needs that equal terms have equal sums, linearity that a
factor can be taken out of a sum (`SumScaled`) and that the sums of two rows add up (`SumAdded`), and `MinMaxLaws` that the first of the least elements wins.
The elements are mathematical integers: nothing is said about overflow or rounding.

### Idle monitor

The address has one owner at a time (`OneAtATime`): while a channel is connected the ones
before it are destroyed, so the context that a handler looks up is its own. `Quiet` says
that a timer that is off and was not touched has neither a pending wait nor an expired
one in any strand.

### Buffers

`OneOwner` and `NoLostWakeup` are inductive together with the types; the proofs need what
`Append` and `Tail` do to a sequence without repetitions, and how the sets of sleeping and
notified threads change in size.

For `Streambuf` the invariant is that the pointers are in order and the vector is between
the base size and the limit of `size_t` (`Valid`). The loop in `reserve` that doubles the
size is a recursive function: that it ends with a large enough size or at the limit, is
proved by taking the least number for which it would fail (`LeastNumber`, `LoopEnds`). On
the contents there is one lemma for each piece (`ReserveFacts`, `PutFacts`, `TakeFacts`,
`PutBackFacts`): what is to be read stays the same, whatever is moved, doubled or halved. From these
each operation is a step of `ByteQueue`, the failed write its step `Fail`.

### Conversions

`CodecProofs` is about single code points, numbers and headers, where the code has both
directions and nothing recursive is involved. `NumbersComeBack` and the theorems about
lengths let the bytes stand anywhere in a longer sequence (`IsAt`), since that is how an
element of an array is read; they give the position behind them and the type that
`array::unpack` and `object::unpack` choose from the first byte. An integer is written with
the least of 1, 2, 3, 5 or 9 bytes; that the bytes left out come back is `SignComesBack`.
The bytes of a double go through `hton64` once in each direction, which gives them back
whether the host is little-endian or not (`OrderComesBack`). Both are what `PackUnpack`
checks at the edges of the formats.

### Only model-checked

* All liveness properties: `CloseCompletes` of both channels, `StopComesToAnEnd`,
  `NobodyWaitsForEver`, `IdleIsNoticed`. Fairness is outside what the prover handles.
* The value modules: `PrintParse`, `PackUnpack`, `ParsersAgree`, `EscapesMeanCodePoints`,
  `LinesStandAlone`, `FoundStaysFound`. Their parsers are `RECURSIVE`, and what a recursive definition
  computes for every input would need an induction over the data. Of `PackUnpack` and
  `EscapesMeanCodePoints` the parts without recursion are proved in `CodecProofs`.

## Disagreements between code and comments

Each is a run that fails, with the quotation under `findings` in `PROJECT.json`: the
cancel after which no handler is called; the deadlock of `request_stop` with a single
handler; the timer that is turned off and fires; the continued line that loses a
character.

## Known exceptions

What the properties except, or leave undefined, is behaviour of the code:

* `stat` goes back when another thread's close stores it late (`channel_context.h:258`).
  The lambda that this close posts may then cancel a socket that is closed already:
  `cancel()` throws, `cancel_all` is noexcept (`tcp_channel_base.h:30`), and the process
  ends in `std::terminate` (`proc = "terminated"`).
* `stop()` shuts an SSL stream down again that is being shut down (`service_base.h:238`).
* After a failed read, `close_immediately` shuts an SSL stream down while an
  `async_write` of it may be outstanding (`ssl_channel.h:40`).
* A channel stays in the map after a failed handshake; a UDP channel that was only bound
  stays in it after its close.
* A close of a UDP channel can be overwritten or swallowed; a datagram is appended to the
  last one when `channel_read_from` has thrown.
* The destructor of a running service leaves its handlers without the derived object,
  and a handler can be added after the start.
* A reset of a timer from another thread uses a null context when the channel is gone.
* A handler that keeps `channel_disconnected` from the idle monitor leaves a monitor
  behind, which the next channel at the address gets.
* A stopped pool gives `dot` an incomplete result.
* `reserve` spoils the contents before it throws; `write_string(const char*)` writes the
  bytes at its parameter; `reset(base_size)` ignores its argument.
* An infinity or NaN is printed as a word that no parser takes, `number()` as nothing; a
  double of 48 digits, or 47 behind a minus, overflows the buffer of `double_to_string`
  (`number.h:377`).
* The end of an empty line behind a backslash and CR, or CR LF, is lost, and with it the end of the line.
* An unterminated string is read past the end of a text; `operator[]` leaves a null
  pointer under a new key, which print and pack dereference; what a failed parse had
  added stays.

## Not modelled

* SSL configuration and socket options, which only pass values on; addresses,
  exceptions and constants, which are values.
* The handlers of a pipeline one by one: the callbacks of all of them are one, and
  `done()` only appears in `IdleMonitor`, as a handler that keeps a callback back.
* The lifetime of a context. Every handler keeps the context it is about alive, except the
  lambda of `fire_user_event` (`channel_context.h:49`), which may run when it is gone.
* Several channels in one map: they share only the map, whose accesses are single
  steps. Accesses that no mutex protects (`_monitors` by two strands, the erases of
  `udp_service`) are data races on a hash table, whose outcome no abstract state shows.
* Pools of no workers; `matrix::random` and `matrix::str`.
* The digits of doubles: `strtod`, `sprintf` and rounding.
* Failures of memory allocation, and exceptions thrown by opening or binding before
  the acceptor exists.
* The vendored `concurrentqueue.h` and `blockingconcurrentqueue.h`, which the library does
  not use, and the test programs, which were read for how the library is used.

## Where the project stands

Modelled and checked: every module above. Proved: every safety invariant, action property
and refinement that the runs check of channels, services, UDP channels, idle monitors,
the pool, matrices, the buffer exchange and the stream buffer. What is left to the model
checker is listed above, with the reason. Were the project to go on, it would follow
several channels of one service in one map, with the accesses to `_channel_contexts` that
no mutex protects.
