---------------------------- MODULE ChannelContext ----------------------------
(***************************************************************************)
(* One TCP or TLS channel of Shan.Net: channel_context<tcp> with its       *)
(* tcp_channel or ssl_channel, and the completion handlers of service_base *)
(* that run on it.                                                         *)
(*                                                                         *)
(* All the handlers of a channel run on its asio strand, one at a time, on *)
(* any worker thread of the service.  Callbacks of the user's pipeline are *)
(* visible: a handler of the library that calls one is split at the call,  *)
(* so other threads take steps while the callback runs.  What the code     *)
(* does between two callbacks is one step: it touches nothing another      *)
(* thread writes but stat, and a racing write of REQ_CLOSE inside such a   *)
(* stretch has the effect of one just before or just after it.             *)
(*                                                                         *)
(* Other threads call service_base::close_channel, which looks the channel *)
(* up, tests stat and then sets it, outside the strand: the three steps of *)
(* a closer are separate.                                                  *)
(***************************************************************************)
EXTENDS Naturals, Sequences, FiniteSets

CONSTANTS Kinds,      \* the kinds of service that own the channel
          Closers,    \* threads outside the strand that close the channel once
          MaxWrites,  \* bound: buffers handed to write_channel
          MaxEvents,  \* bound: user events
          MaxThrows   \* bound: exceptions thrown by callbacks

AllKinds == {"tcp_server", "ssl_server", "tcp_client", "ssl_client"}

ASSUME KindsAssumption == Kinds \subseteq AllKinds
ASSUME BoundsAssumption == MaxWrites \in Nat /\ MaxEvents \in Nat /\ MaxThrows \in Nat

\* enum context_stat
CREATED == 0
OPEN == 1
STARTED == 2
BOUND == 3
CONNECTED == 4
REQ_CLOSE == 5
DISCONNECTED == 6
CLOSED == 7
Stats == CREATED .. CLOSED

\* The bits of _task_in_progress; each of them is in T_BUSY.  T_SHUTDOWN is
\* left out: the code clears it and never sets it.
Tasks == {"connect", "handshake", "read", "write"}

\* asynchronous operations of asio; at most one of each is outstanding
Ops == {"resolve", "connect", "handshake", "read", "write"}
Completed == {"ok", "eof", "failed", "aborted"}
OpStates == {"none", "pending"} \cup Completed

Callbacks == {"created", "connected", "read", "rdbuf_empty", "written",
              "disconnected", "write", "exception", "event"}
Lambdas == {"created", "do_connect", "write", "close", "exception", "event"}

VARIABLES
  kind,       \* the service that owns the channel (constant during a run)
  stat,       \* context_base::_stat
  connected,  \* context_base::_connected
  tasks,      \* context_base::_task_in_progress
  socket,     \* the asio socket: "none", "open" or "closed"
  op,         \* op[o]: none, pending, or completed with its handler not yet run
  shut,       \* ssl_stream::async_shutdown operations outstanding
  issued,     \* history: async_shutdown operations ever started
  wq,         \* tcp_channel_base::_write_buf_queue, of buffer numbers
  sent,       \* history: the last buffer handed to async_write, 0 if none
  posted,     \* lambdas posted to the strand, as <<name, buffer number>>
  pc,         \* the callback the strand is executing, or "idle"
  cur,        \* the buffer the channel_write callback works on, else 0
  inMap,      \* the channel is in service_base::_channel_contexts
  proc,       \* the service runs, is stopped, or the process was terminated
  phase,      \* history: which life-cycle callbacks were made
  count,      \* how much of each bound is used
  closer      \* the place of each closer in close_channel

sockVars == <<socket, op, shut, issued>>
lifeVars == <<stat, connected, phase>>
wqVars == <<wq, sent>>
vars == <<kind, stat, connected, tasks, socket, op, shut, issued, wq, sent,
          posted, pc, cur, inMap, proc, phase, count, closer>>

Ssl == kind \in {"ssl_server", "ssl_client"}
Server == kind \in {"tcp_server", "ssl_server"}

Lambda(name) == <<name, 0>>

Init ==
  /\ kind \in Kinds
  /\ stat = CREATED /\ connected = FALSE /\ tasks = {}
  /\ socket = IF Server THEN "open" ELSE "none"
  /\ op = [o \in Ops |-> "none"]
  /\ shut = 0 /\ issued = 0 /\ wq = <<>> /\ sent = 0
  /\ posted = <<Lambda("created")>>
  /\ pc = "idle" /\ cur = 0
  /\ inMap = Server
  /\ proc = "running" /\ phase = "new"
  /\ count = [b \in {"write", "event", "throw"} |-> 0]
  /\ closer = [c \in Closers |-> "lookup"]

-------------------------------------------------------------------------------
(* Pieces of the handlers.  Each is given the values that tasks and op have *)
(* when the code reaches it, and says what the rest of the handler does.    *)

\* The strand is free to run a handler, on a service that has not stopped.
StrandFree == proc = "running" /\ pc = "idle"

\* Definitions named M_... are faulty variants of the definition that follows
\* them: each shows that a property of this module notices the fault.
\* Fault: T_WRITE left out of T_BUSY.
M_Busy(t) == "read" \in t

\* is_channel_busy() of a set of tasks
Busy(t) == t # {}

\* Fault: all the tasks are cleared.
M_Cleared(t) == {}

\* clear_task_in_progress
Cleared(t) == tasks \ {t}

\* the states in which a buffer may be handed to the channel
Sendable == stat \in {BOUND, CONNECTED}

\* Fault: no test of stat before the callback.
M_MayCallWritten == TRUE

\* the states in which call_channel_written calls the pipeline
MayCallWritten == stat \in {BOUND, CONNECTED}

\* Fault: the newest buffer is removed.
M_RemoveSentData == wq' = SubSeq(wq, 1, Len(wq) - 1) /\ UNCHANGED sent

\* remove_sent_data
RemoveSentData == wq' = Tail(wq) /\ UNCHANGED sent

\* the test that the close lambda and handle_req_close make
CloseWanted == stat = REQ_CLOSE

\* the close lambda cancels what is going on
CancelWanted == CloseWanted /\ Busy(tasks)

\* Closing or cancelling a socket completes what is pending on it with
\* operation_aborted; a resolve is not an operation of the socket.
AbortOps(o) ==
  [p \in Ops |-> IF p # "resolve" /\ o[p] = "pending" THEN "aborted" ELSE o[p]]

\* close_without_shutdown of a channel
CloseSocket(o) == socket' = "closed" /\ op' = AbortOps(o)

\* close_immediately of a channel: TLS shuts its stream down first.
CloseImmediately(o) ==
  /\ CloseSocket(o)
  /\ issued' = IF Ssl /\ socket = "open" THEN issued + 1 ELSE issued

\* Fault: _connected stays set.
M_EnterDisconnected ==
  /\ phase' = "disconnected"
  /\ pc' = "disconnected"
  /\ UNCHANGED connected

\* The part of call_channel_disconnected before its callback returns, for a
\* connected channel.
EnterDisconnected ==
  /\ connected' = FALSE
  /\ phase' = "disconnected"
  /\ pc' = "disconnected"

\* service_base::shutdown_complete up to the disconnected callback.
\* shutdown_complete of a channel that is no longer connected ends here.
ShutdownHandler(o) ==
  /\ stat' = CLOSED
  /\ CloseSocket(o)
  /\ IF connected THEN EnterDisconnected
                  ELSE pc' = "idle" /\ UNCHANGED <<connected, phase>>

\* Fault: TLS does not set stat before it starts the shutdown.
M_CloseGracefully(o) ==
  IF ~Ssl
  THEN ShutdownHandler(o) /\ UNCHANGED <<shut, issued>>
  ELSE /\ IF socket = "open" THEN shut' = shut + 1 /\ issued' = issued + 1
                             ELSE UNCHANGED <<shut, issued>>
       /\ op' = o /\ pc' = "idle"
       /\ UNCHANGED <<stat, socket, connected, phase>>

\* close_gracefully of the two contexts: TCP closes and runs the shutdown
\* handler at once, TLS starts an asynchronous shutdown on an open socket.
CloseGracefully(o) ==
  IF ~Ssl
  THEN ShutdownHandler(o) /\ UNCHANGED <<shut, issued>>
  ELSE /\ stat' = CLOSED
       /\ IF socket = "open" THEN shut' = shut + 1 /\ issued' = issued + 1
                             ELSE UNCHANGED <<shut, issued>>
       /\ op' = o /\ pc' = "idle"
       /\ UNCHANGED <<socket, connected, phase>>

\* The end of a handler that leaves the channel as it is.
NothingMore(o) ==
  /\ op' = o /\ pc' = "idle"
  /\ UNCHANGED <<stat, connected, phase, socket, shut, issued>>

\* Fault: the handler ends without looking for a close.
M_HandleReqClose(t, o) == NothingMore(o)

\* handle_req_close, the last call of a handler
HandleReqClose(t, o) ==
  IF CloseWanted /\ ~Busy(t) THEN CloseGracefully(o) ELSE NothingMore(o)

\* call_channel_connected up to its callback
CallChannelConnected ==
  IF stat < CONNECTED
  THEN stat' = CONNECTED /\ connected' = TRUE /\ phase' = "connected" /\ pc' = "connected"
  ELSE pc' = "idle" /\ UNCHANGED lifeVars

\* What call_channel_disconnected and its caller do once the callback has
\* returned: close if that is still to do, and erase the channel.
ReleaseChannel(o) ==
  /\ IF stat < CLOSED THEN stat' = CLOSED /\ CloseImmediately(o)
                      ELSE op' = o /\ UNCHANGED <<stat, socket, issued>>
  /\ inMap' = FALSE
  /\ pc' = "idle"

\* A callback returns, or throws and has exception_caught posted.
Throws(thrown) ==
  /\ thrown => count["throw"] < MaxThrows
  /\ count' = IF thrown THEN [count EXCEPT !["throw"] = @ + 1] ELSE count

\* fire_exception_caught, if there is something to report
Report(thrown, q) == IF thrown THEN Append(q, Lambda("exception")) ELSE q

-------------------------------------------------------------------------------
(* The public operations, called by callbacks and by other threads.         *)

\* write_channel and fire_channel_write: the buffer is handed to the strand.
WriteChannel ==
  /\ proc = "running" /\ inMap
  /\ count["write"] < MaxWrites
  /\ count' = [count EXCEPT !["write"] = @ + 1]
  /\ posted' = Append(posted, <<"write", count["write"] + 1>>)
  /\ UNCHANGED <<kind, lifeVars, tasks, sockVars, wqVars, pc, cur, inMap, proc, closer>>

\* fire_user_event_channel and fire_user_event
FireUserEvent ==
  /\ proc = "running" /\ inMap
  /\ count["event"] < MaxEvents
  /\ count' = [count EXCEPT !["event"] = @ + 1]
  /\ posted' = Append(posted, Lambda("event"))
  /\ UNCHANGED <<kind, lifeVars, tasks, sockVars, wqVars, pc, cur, inMap, proc, closer>>

\* Fault: no upper bound in the test.
M_Closable == OPEN <= stat

\* the test of fire_channel_close
Closable == OPEN <= stat /\ stat < REQ_CLOSE

\* close() called by a callback: on the strand, so test and set are together.
CallbackClose ==
  /\ proc = "running" /\ pc # "idle"
  /\ inMap /\ Closable
  /\ stat' = REQ_CLOSE
  /\ posted' = Append(posted, Lambda("close"))
  /\ UNCHANGED <<kind, connected, phase, tasks, sockVars, wqVars, pc, cur, inMap,
                 proc, count, closer>>

\* close_channel called by another thread: the lookup in the map ...
CloserLookup(c) ==
  /\ proc # "terminated" /\ closer[c] = "lookup"
  /\ closer' = [closer EXCEPT ![c] = IF inMap THEN "test" ELSE "done"]
  /\ UNCHANGED <<kind, lifeVars, tasks, sockVars, wqVars, posted, pc, cur, inMap, proc, count>>

\* ... the test of stat ...
CloserTest(c) ==
  /\ proc # "terminated" /\ closer[c] = "test"
  /\ closer' = [closer EXCEPT ![c] = IF Closable THEN "set" ELSE "done"]
  /\ UNCHANGED <<kind, lifeVars, tasks, sockVars, wqVars, posted, pc, cur, inMap, proc, count>>

\* ... the assignment of stat ...
CloserSet(c) ==
  /\ proc # "terminated" /\ closer[c] = "set"
  /\ stat' = REQ_CLOSE
  /\ closer' = [closer EXCEPT ![c] = "post"]
  /\ UNCHANGED <<kind, connected, phase, tasks, sockVars, wqVars, posted, pc, cur,
                 inMap, proc, count>>

\* ... and the lambda.
CloserPost(c) ==
  /\ proc # "terminated" /\ closer[c] = "post"
  /\ posted' = Append(posted, Lambda("close"))
  /\ closer' = [closer EXCEPT ![c] = "done"]
  /\ UNCHANGED <<kind, lifeVars, tasks, sockVars, wqVars, pc, cur, inMap, proc, count>>

\* service_base::stop with the workers joined: no handler runs any more, and
\* the channels of the map are closed without a callback.
StopService ==
  /\ StrandFree
  /\ proc' = "stopped"
  /\ IF inMap THEN stat' = CLOSED /\ CloseImmediately(op)
              ELSE UNCHANGED <<stat, socket, op, issued>>
  /\ inMap' = FALSE
  /\ UNCHANGED <<kind, connected, phase, tasks, shut, wqVars, posted, pc,
                 cur, count, closer>>

-------------------------------------------------------------------------------
(* Lambdas posted to the strand, in the order in which they were posted.    *)

Running(name) ==
  /\ StrandFree
  /\ posted # <<>> /\ Head(posted)[1] = name
  /\ posted' = Tail(posted)

\* The lambda of new_channel_accepted, or of connect: call_channel_created.
RunCreated ==
  /\ Running("created")
  /\ pc' = "created" /\ phase' = "created"
  /\ UNCHANGED <<kind, stat, connected, tasks, sockVars, wqVars, cur, inMap, proc, count, closer>>

\* The rest of that lambda: a TCP server's channel is connected, a TLS
\* server starts its handshake, a client connects to an ip_port (in a further
\* lambda) or resolves an address first.
CreatedReturn(thrown) ==
  /\ proc = "running" /\ pc = "created"
  /\ Throws(thrown)
  /\ \/ /\ kind = "tcp_server"
        /\ CallChannelConnected
        /\ posted' = Report(thrown, posted)
        /\ UNCHANGED <<tasks, op>>
     \/ /\ kind = "ssl_server"
        /\ tasks' = tasks \cup {"handshake"}
        /\ op' = [op EXCEPT !["handshake"] = "pending"]
        /\ posted' = Report(thrown, posted)
        /\ pc' = "idle" /\ UNCHANGED lifeVars
     \/ /\ ~Server
        /\ tasks' = tasks \cup {"connect"}
        /\ posted' = Append(Report(thrown, posted), Lambda("do_connect"))
        /\ pc' = "idle" /\ UNCHANGED <<lifeVars, op>>
     \/ /\ ~Server
        /\ op' = [op EXCEPT !["resolve"] = "pending"]
        /\ posted' = Report(thrown, posted)
        /\ pc' = "idle" /\ UNCHANGED <<lifeVars, tasks>>
  /\ UNCHANGED <<kind, socket, shut, issued, wqVars, cur, inMap, proc, closer>>

\* channel_context::connect(ip_port, ...): async_connect opens the socket.
RunDoConnect ==
  /\ Running("do_connect")
  /\ op' = [op EXCEPT !["connect"] = "pending"]
  /\ socket' = "open"
  /\ UNCHANGED <<kind, lifeVars, tasks, shut, issued, wqVars, pc, cur, inMap, proc, count, closer>>

\* fire_channel_write: the channel_write callbacks ...
RunWrite ==
  /\ Running("write")
  /\ pc' = "write" /\ cur' = Head(posted)[2]
  /\ UNCHANGED <<kind, lifeVars, tasks, sockVars, wqVars, inMap, proc, count, closer>>

\* ... and then write_streambuf, if they left a streambuf and stat allows it.
\* write_streambuf starts a write only for the buffer that is alone in the queue.
WriteReturn(thrown, serialized) ==
  /\ proc = "running" /\ pc = "write"
  /\ Throws(thrown)
  /\ IF serialized /\ Sendable
     THEN /\ tasks' = tasks \cup {"write"}
          /\ wq' = Append(wq, cur)
          /\ IF Len(wq') = 1
             THEN op' = [op EXCEPT !["write"] = "pending"] /\ sent' = cur
             ELSE UNCHANGED <<op, sent>>
          /\ posted' = Report(thrown, posted)
     ELSE /\ posted' = Report(TRUE, Report(thrown, posted))
          /\ UNCHANGED <<tasks, wqVars, op>>
  /\ pc' = "idle" /\ cur' = 0
  /\ UNCHANGED <<kind, lifeVars, socket, shut, issued, inMap, proc, closer>>

\* The lambda of fire_channel_close.  cancel_all is noexcept and calls the
\* throwing overload of socket::cancel: on a closed socket that is the end of
\* the process.
RunClose ==
  /\ Running("close")
  /\ \/ /\ ~CloseWanted
        /\ NothingMore(op) /\ UNCHANGED proc
     \/ /\ CloseWanted /\ ~Busy(tasks)
        /\ CloseGracefully(op) /\ UNCHANGED proc
     \/ /\ CancelWanted
        /\ IF socket = "open" THEN op' = AbortOps(op) /\ UNCHANGED proc
                              ELSE proc' = "terminated" /\ UNCHANGED op
        /\ UNCHANGED <<lifeVars, socket, shut, issued, pc>>
  /\ UNCHANGED <<kind, tasks, wqVars, cur, inMap, count, closer>>

\* fire_exception_caught and fire_user_event: a callback and nothing else.
RunPlain(name) ==
  /\ Running(name)
  /\ pc' = name
  /\ UNCHANGED <<kind, lifeVars, tasks, sockVars, wqVars, cur, inMap, proc, count, closer>>

PlainReturn(thrown) ==
  /\ proc = "running" /\ pc \in {"exception", "event"}
  /\ Throws(thrown)
  /\ posted' = Report(thrown, posted)
  /\ pc' = "idle"
  /\ UNCHANGED <<kind, lifeVars, tasks, sockVars, wqVars, cur, inMap, proc, closer>>

-------------------------------------------------------------------------------
(* Completion handlers.                                                     *)

\* The network, or the peer, completes an operation (asio).
Outcomes(o) == IF o = "read" THEN {"ok", "eof", "failed"} ELSE {"ok", "failed"}

NetComplete(o) ==
  /\ proc = "running" /\ op[o] = "pending"
  /\ \E r \in Outcomes(o) : op' = [op EXCEPT ![o] = r]
  /\ UNCHANGED <<kind, lifeVars, tasks, socket, shut, issued, wqVars, posted, pc,
                 cur, inMap, proc, count, closer>>

Completing(o) == StrandFree /\ op[o] \in Completed

\* resolve_complete of tcp_client and ssl_client
ResolveComplete ==
  /\ Completing("resolve")
  /\ IF op["resolve"] = "ok"
     THEN /\ tasks' = tasks \cup {"connect"}
          /\ op' = [op EXCEPT !["resolve"] = "none", !["connect"] = "pending"]
          /\ socket' = "open" /\ UNCHANGED posted
     ELSE /\ op' = [op EXCEPT !["resolve"] = "none"]
          /\ posted' = Report(TRUE, posted)
          /\ UNCHANGED <<tasks, socket>>
  /\ UNCHANGED <<kind, lifeVars, shut, issued, wqVars, pc, cur, inMap, proc, count, closer>>

\* connect_complete of tcp_client_base when it fails
ConnectFailed ==
  /\ Completing("connect") /\ op["connect"] # "ok"
  /\ tasks' = Cleared("connect")
  /\ op' = [op EXCEPT !["connect"] = "none"]
  /\ posted' = Report(TRUE, posted)
  /\ UNCHANGED <<kind, lifeVars, socket, shut, issued, wqVars, pc, cur, inMap, proc, count, closer>>

\* connect_complete: emplaced in the map, and on to connected or handshake
ConnectComplete ==
  /\ Completing("connect") /\ op["connect"] = "ok"
  /\ inMap' = TRUE
  /\ IF Ssl
     THEN /\ tasks' = Cleared("connect") \cup {"handshake"}
          /\ op' = [op EXCEPT !["connect"] = "none", !["handshake"] = "pending"]
          /\ UNCHANGED <<lifeVars, pc>>
     ELSE /\ tasks' = Cleared("connect")
          /\ op' = [op EXCEPT !["connect"] = "none"]
          /\ CallChannelConnected
  /\ UNCHANGED <<kind, socket, shut, issued, wqVars, posted, cur, proc, count, closer>>

\* connect_complete when emplace throws: the channel is closed at once.
ConnectNotInserted ==
  /\ Completing("connect") /\ op["connect"] = "ok"
  /\ tasks' = Cleared("connect")
  /\ posted' = Report(TRUE, posted)
  /\ stat' = CLOSED
  /\ CloseImmediately([op EXCEPT !["connect"] = "none"])
  /\ UNCHANGED <<kind, connected, phase, shut, wqVars, pc, cur, inMap, proc, count, closer>>

\* handshake_complete of ssl_server and ssl_client
HandshakeComplete ==
  /\ Completing("handshake")
  /\ tasks' = Cleared("handshake")
  /\ op' = [op EXCEPT !["handshake"] = "none"]
  /\ IF op["handshake"] = "ok"
     THEN CallChannelConnected /\ UNCHANGED posted
     ELSE posted' = Report(TRUE, posted) /\ UNCHANGED <<lifeVars, pc>>
  /\ UNCHANGED <<kind, socket, shut, issued, wqVars, cur, inMap, proc, count, closer>>

\* call_channel_connected after its callback: the first read, or the close
\* that was asked for meanwhile
ConnectedReturn(thrown) ==
  /\ proc = "running" /\ pc = "connected"
  /\ Throws(thrown)
  /\ posted' = Report(thrown, posted)
  /\ IF stat = CONNECTED
     THEN /\ tasks' = tasks \cup {"read"}
          /\ NothingMore([op EXCEPT !["read"] = "pending"])
     ELSE HandleReqClose(tasks, op) /\ UNCHANGED tasks
  /\ UNCHANGED <<kind, wqVars, cur, inMap, proc, closer>>

\* read_complete with data: call_channel_read up to its callbacks
ReadComplete ==
  /\ Completing("read") /\ op["read"] = "ok"
  /\ tasks' = Cleared("read")
  /\ op' = [op EXCEPT !["read"] = "none"]
  /\ pc' = "read"
  /\ UNCHANGED <<kind, lifeVars, socket, shut, issued, wqVars, posted, cur, inMap,
                 proc, count, closer>>

\* The loop of call_channel_read goes round again when a callback used some of
\* the data; what a turn leaves behind is the exception it may have thrown.
ReadAgain ==
  /\ proc = "running" /\ pc = "read"
  /\ Throws(TRUE)
  /\ posted' = Report(TRUE, posted)
  /\ UNCHANGED <<kind, lifeVars, tasks, sockVars, wqVars, pc, cur, inMap, proc, closer>>

\* call_channel_read with the buffer used up: the rdbuf_empty callbacks
ReadBufEmpty(thrown) ==
  /\ proc = "running" /\ pc = "read"
  /\ stat = CONNECTED
  /\ Throws(thrown)
  /\ posted' = Report(thrown, posted)
  /\ pc' = "rdbuf_empty"
  /\ UNCHANGED <<kind, lifeVars, tasks, sockVars, wqVars, cur, inMap, proc, closer>>

\* the end of call_channel_read and of read_complete: the next read or the close
ReadReturn(thrown) ==
  /\ proc = "running" /\ pc \in {"read", "rdbuf_empty"}
  /\ Throws(thrown)
  /\ posted' = Report(thrown, posted)
  /\ IF stat = CONNECTED
     THEN /\ tasks' = tasks \cup {"read"}
          /\ NothingMore([op EXCEPT !["read"] = "pending"])
     ELSE HandleReqClose(tasks, op) /\ UNCHANGED tasks
  /\ UNCHANGED <<kind, wqVars, cur, inMap, proc, closer>>

\* read_complete with an error: an exception unless the error is a plain end of
\* the connection, call_channel_disconnected, and the channel is erased.
ReadFailed ==
  /\ Completing("read") /\ op["read"] # "ok"
  /\ tasks' = Cleared("read")
  /\ posted' = Report(op["read"] = "failed", posted)
  /\ IF connected
     THEN /\ op' = [op EXCEPT !["read"] = "none"]
          /\ stat' = IF stat < DISCONNECTED THEN DISCONNECTED ELSE stat
          /\ EnterDisconnected
          /\ UNCHANGED <<socket, issued, inMap>>
     ELSE /\ ReleaseChannel([op EXCEPT !["read"] = "none"])
          /\ UNCHANGED <<connected, phase>>
  /\ UNCHANGED <<kind, shut, wqVars, cur, proc, count, closer>>

DisconnectedReturn(thrown) ==
  /\ proc = "running" /\ pc = "disconnected"
  /\ Throws(thrown)
  /\ posted' = Report(thrown, posted)
  /\ ReleaseChannel(op)
  /\ UNCHANGED <<kind, connected, phase, tasks, shut, wqVars, cur, proc, closer>>

\* write_complete: the head of the queue is removed; then channel_written, or
\* an exception and nothing further for the buffers that remain queued.
WriteComplete ==
  /\ Completing("write")
  /\ tasks' = Cleared("write")
  /\ RemoveSentData
  /\ IF op["write"] = "ok" /\ MayCallWritten
     THEN /\ op' = [op EXCEPT !["write"] = "none"]
          /\ pc' = "written"
          /\ UNCHANGED <<lifeVars, socket, shut, issued, posted>>
     ELSE /\ posted' = Report(op["write"] # "ok", posted)
          /\ HandleReqClose(Cleared("write"), [op EXCEPT !["write"] = "none"])
  /\ UNCHANGED <<kind, cur, inMap, proc, count, closer>>

\* call_channel_written after its callback: the next buffer, or the close
WrittenReturn(thrown) ==
  /\ proc = "running" /\ pc = "written"
  /\ Throws(thrown)
  /\ posted' = Report(thrown, posted)
  /\ IF Sendable /\ wq # <<>>
     THEN /\ tasks' = tasks \cup {"write"}
          /\ NothingMore([op EXCEPT !["write"] = "pending"])
          /\ sent' = Head(wq)
     ELSE HandleReqClose(tasks, op) /\ UNCHANGED <<tasks, sent>>
  /\ UNCHANGED <<kind, wq, cur, inMap, proc, closer>>

\* Fault: the handler runs once too often.
M_ShutdownComplete ==
  /\ StrandFree /\ Ssl /\ stat = CLOSED
  /\ shut' = shut - 1
  /\ ShutdownHandler(op)
  /\ UNCHANGED <<kind, tasks, issued, wqVars, posted, cur, inMap, proc, count, closer>>

\* shutdown_complete after async_shutdown, with whatever error
ShutdownComplete ==
  /\ StrandFree /\ shut > 0
  /\ shut' = shut - 1
  /\ ShutdownHandler(op)
  /\ UNCHANGED <<kind, tasks, issued, wqVars, posted, cur, inMap, proc, count, closer>>

-------------------------------------------------------------------------------
RunPosted ==
  \/ RunCreated \/ RunDoConnect \/ RunWrite \/ RunClose
  \/ RunPlain("exception") \/ RunPlain("event")

CallbackReturn ==
  \E thrown \in BOOLEAN :
    \/ CreatedReturn(thrown) \/ ConnectedReturn(thrown)
    \/ ReadBufEmpty(thrown) \/ ReadReturn(thrown) \/ WrittenReturn(thrown)
    \/ DisconnectedReturn(thrown) \/ PlainReturn(thrown)
    \/ \E serialized \in BOOLEAN : WriteReturn(thrown, serialized)

ConnectDone == ConnectComplete \/ ConnectFailed \/ ConnectNotInserted
ReadDone == ReadComplete \/ ReadFailed

Close(c) == CloserLookup(c) \/ CloserTest(c) \/ CloserSet(c) \/ CloserPost(c)

Next ==
  \/ WriteChannel \/ FireUserEvent \/ CallbackClose \/ StopService
  \/ \E c \in Closers : Close(c)
  \/ RunPosted \/ CallbackReturn \/ ReadAgain
  \/ \E o \in Ops : NetComplete(o)
  \/ ResolveComplete \/ ConnectDone \/ HandshakeComplete
  \/ ReadDone \/ WriteComplete \/ ShutdownComplete

\* The strand takes up a posted lambda or a completion handler.
StrandServes ==
  RunPosted \/ ResolveComplete \/ ConnectDone \/ HandshakeComplete \/ ReadDone \/ WriteComplete

\* Callbacks return, the strand does not rest while it has something to run, and
\* closers run.  Nothing is assumed of the network: no operation, and no TLS
\* shutdown, has to complete.
Fairness ==
  /\ WF_vars(CallbackReturn) /\ WF_vars(StrandServes)
  /\ \A c \in Closers : WF_vars(Close(c))

Spec == Init /\ [][Next]_vars
FairSpec == Spec /\ Fairness
-------------------------------------------------------------------------------
(* Properties.                                                              *)

\* The buffers still to be sent: those in the queue, the one in the channel_write
\* callback, and those in posted lambdas.
Queued == {wq[i] : i \in 1 .. Len(wq)}
Calling == {cur} \ {0}
PostedWrites == {i \in 1 .. Len(posted) : posted[i][1] = "write"}
Waiting == {posted[i][2] : i \in PostedWrites}

\* the buffers of A were written before those of B
Before(A, B) == \A a \in A, b \in B : a < b

\* A write failed with buffers queued behind it, and the next write_streambuf joined
\* them: the channel counts as busy with a write that nobody starts.  A write that
\* succeeded clears the flag, and sets it again together with the next operation.
Orphaned == "write" \in tasks /\ op["write"] = "none"

\* Nothing of the channel is left to run.
Quiescent ==
  /\ StrandFree /\ posted = <<>> /\ shut = 0
  /\ \A o \in Ops : op[o] = "none"
  /\ \A c \in Closers : closer[c] = "done"

\* Every variable has its type.
TypeOK ==
  /\ kind \in AllKinds
  /\ stat \in Stats /\ connected \in BOOLEAN /\ tasks \in SUBSET Tasks
  /\ socket \in {"none", "open", "closed"} /\ op \in [Ops -> OpStates]
  /\ shut \in Nat /\ issued \in Nat
  /\ wq \in Seq(Nat) /\ sent \in Nat /\ posted \in Seq(Lambdas \X Nat)
  /\ pc \in {"idle"} \cup Callbacks /\ cur \in Nat
  /\ inMap \in BOOLEAN /\ proc \in {"running", "stopped", "terminated"}
  /\ phase \in {"new", "created", "connected", "disconnected"}
  /\ count \in [{"write", "event", "throw"} -> Nat]
  /\ closer \in [Closers -> {"lookup", "test", "set", "post", "done"}]

\* An operation that is outstanding is recorded in _task_in_progress until its
\* completion handler runs: what is_channel_busy() answers to the code that
\* closes the channel is never "idle" too early.
TasksCoverOps == \A t \in Tasks : op[t] # "none" => t \in tasks

\* No operation uses an SSL stream while its asynchronous shutdown is outstanding.
NoneBesidesShutdown == shut > 0 => \A t \in Tasks : op[t] = "none"

\* An SSL stream is shut down, asynchronously by a close or in place by
\* close_immediately, only when no other operation uses it, and none is started
\* while the asynchronous shutdown is outstanding, whichever thread asked to close.
\* There are two exceptions: when a read has failed, close_immediately follows the
\* channel_disconnected callback and shuts the stream down under a write that may
\* still be outstanding, and stop() shuts it down under whatever is.
ShutdownAlone ==
  [][/\ shut' > 0 => \A t \in Tasks : op'[t] = "none"
     /\ issued' > issued =>
          \/ \A t \in Tasks : op'[t] = "none"
          \/ /\ \E thrown \in BOOLEAN : DisconnectedReturn(thrown)
             /\ \A t \in Tasks \ {"write"} : op'[t] = "none"
          \/ StopService]_vars

\* write_complete finds the buffer that was sent at the head of the queue (it
\* pops without a test), and buffers are sent in the order of the write() calls,
\* none of them twice.
WritesInOrder ==
  /\ op["write"] # "none" => wq # <<>> /\ Head(wq) = sent
  /\ op["write"] = "none" => Before({sent}, Queued)
  /\ \A i, j \in 1 .. Len(wq) : i < j => wq[i] < wq[j]
  /\ \A i, j \in PostedWrites : i < j => posted[i][2] < posted[j][2]
  /\ Before({sent} \cup Queued, Calling \cup Waiting) /\ Before(Calling, Waiting)

\* While the service runs, a channel whose handlers saw channel_connected and
\* not yet channel_disconnected can be found by write_channel, close_channel and
\* stop, and its socket is open.
ConnectedIsReachable ==
  connected /\ proc = "running" => inMap /\ socket = "open"

\* A channel of which nothing is left to run is not forgotten in the map, with
\* two exceptions: a handshake that failed (handshake_complete neither closes
\* nor erases the channel), and a failed write with buffers queued behind it.
NoForgottenChannel ==
  Quiescent /\ inMap => (Ssl /\ phase = "created") \/ Orphaned

\* No other thread has stored REQ_CLOSE yet: it may have looked at stat.
NoLateStore == \A c \in Closers : closer[c] \in {"lookup", "test", "set"}

\* Unless another thread has closed the channel, it is closed once, whatever
\* callbacks, completions and lambdas ask for it: cancel_all, which is noexcept, is not
\* called on a closed socket, and as long as the service runs an SSL stream is shut
\* down at most once.
ClosedOnce == NoLateStore => proc # "terminated" /\ (proc = "running" => issued <= 1)

\* What the strand does never takes the state back, however often a channel is
\* closed: only the store of another thread in fire_channel_close does.
OnlyLateStoreReverses == [][stat' < stat => \E c \in Closers : CloserSet(c)]_vars

\* When a busy channel is cancelled in order to be closed, some completion
\* handler will be called.
CancelledHandlerWillRun ==
  [][RunClose /\ CancelWanted /\ proc' = "running"
       => \E o \in Ops : op'[o] \in Completed]_vars

\* A close that was asked for is carried out, unless the service stops or a failed
\* write keeps the channel busy: the socket is closed and the handlers are told, on
\* TLS once the peer has answered the shutdown.  The end of the process by a
\* cancel of a closed socket comes after that, and does not count as a close.
CloseCompletes ==
  stat = REQ_CLOSE ~> \/ socket = "closed" /\ ~connected
                      \/ shut > 0
                      \/ proc = "stopped"
                      \/ Orphaned

\* The callbacks of the pipeline come in the order channel_handler promises.
CB == INSTANCE ChannelCallbacks WITH cb <- pc
CallbackOrder == CB!Spec
===============================================================================
