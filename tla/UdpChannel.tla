----------------------------- MODULE UdpChannel -----------------------------
(***************************************************************************)
(* One channel of a udp_service: bind_connect, udp_channel_context and     *)
(* udp_channel, with the completion handlers of service_base<udp>.         *)
(*                                                                         *)
(* As in ChannelContext, the handlers run on the channel's strand and are  *)
(* split where they call the pipeline, and other threads close the channel *)
(* in separate steps.  call_channel_bound and call_channel_connected are   *)
(* split once more, between the test of stat and the store: a REQ_CLOSE    *)
(* another thread stores in between is overwritten.                        *)
(***************************************************************************)
EXTENDS Naturals, Sequences

CONSTANTS Targets,     \* the remote ends bind_connect is called with
          Closers,     \* threads outside the strand that close the channel once
          MaxWrites,   \* bound: datagrams handed to write_channel(_to)
          MaxReads,    \* bound: datagrams received
          MaxEvents,   \* bound: user events
          MaxThrows,   \* bound: exceptions thrown by callbacks
          MaxInputs    \* bound: all of these together

\* nothing to connect to, a host name and port, an ip_port
AllTargets == {"none", "name", "ip_port"}
Limit == [write |-> MaxWrites, read |-> MaxReads, event |-> MaxEvents, throw |-> MaxThrows]

ASSUME TargetsAssumption == Targets \subseteq AllTargets
ASSUME LimitAssumption ==
  Limit \in [{"write", "read", "event", "throw"} -> Nat] /\ MaxInputs \in Nat

\* enum context_stat
CREATED == 0
OPEN == 1
BOUND == 3
CONNECTED == 4
REQ_CLOSE == 5
DISCONNECTED == 6
CLOSED == 7

\* operations of asio; all but resolve have a bit in _task_in_progress
Ops == {"resolve", "connect", "read", "write"}
Completed == {"ok", "failed", "aborted"}

VARIABLES
  target, \* what bind_connect was called with (constant during a run)
  ctx,    \* the context: _stat, _connected, _task_in_progress, its socket and
          \* whether it is in _channel_contexts
  op,     \* op[o]: none, pending, or completed with its handler not yet run
  wq,     \* _write_datagram_queue of <<number, has a destination>>
  sent,   \* history: number of the last datagram handed to the socket
  rbuf,   \* the datagrams in the read buffer
  posted, \* lambdas posted to the strand, as <<name, datagram>>
  pc,     \* the callback the strand executes, a test just made, or "idle"
  cur,    \* the datagram the channel_write callback works on
  phase,  \* history: the last life-cycle callback
  proc,   \* running, stopped or terminated
  count,  \* how much of each bound is used
  closer  \* the place of each closer in close_channel

vars == <<target, ctx, op, wq, sent, rbuf, posted, pc, cur, phase, proc, count, closer>>
dataVars == <<wq, sent, rbuf, cur>>
restVars == <<target, proc, closer>>

NoDatagram == <<0, FALSE>>
Lambda(name) == <<name, NoDatagram>>

\* bind_connect has put the context in the map and posted its lambda.
Init ==
  /\ target \in Targets
  /\ ctx = [stat |-> CREATED, connected |-> FALSE, tasks |-> {}, socket |-> "none",
            inMap |-> TRUE]
  /\ op = [o \in Ops |-> "none"]
  /\ wq = <<>> /\ sent = 0 /\ rbuf = <<>> /\ cur = NoDatagram
  /\ posted = <<Lambda("created")>> /\ pc = "idle" /\ phase = "new"
  /\ proc = "running" /\ count = [b \in DOMAIN Limit |-> 0]
  /\ closer = [c \in Closers |-> "lookup"]

StrandFree == proc = "running" /\ pc = "idle"
At(p) == proc = "running" /\ pc = p

\* Fault: any open state will do.
M_Sendable == OPEN <= ctx.stat

\* the states in which datagrams are accepted and channel_written is called
Sendable == ctx.stat \in {BOUND, CONNECTED}

\* A bound that is not used up is used once more.
Use(b) ==
  /\ count[b] < Limit[b]
  /\ count["write"] + count["read"] + count["event"] + count["throw"] < MaxInputs
  /\ count' = [count EXCEPT ![b] = @ + 1]

\* A callback returns, or throws and exception_caught is posted.
Throws(thrown) == IF thrown THEN Use("throw") ELSE UNCHANGED count
Report(thrown, q) == IF thrown THEN Append(q, Lambda("exception")) ELSE q

\* Closing or cancelling a socket aborts what is pending on it.
AbortOps(o) ==
  [p \in Ops |-> IF p # "resolve" /\ o[p] = "pending" THEN "aborted" ELSE o[p]]

\* clear_task_in_progress
Cleared(x, t) == [x EXCEPT !.tasks = @ \ {t}]

\* set_task_in_progress and the operation it stands for
Start(x, t) == [x EXCEPT !.tasks = @ \cup {t}]
Pending(o, t) == [o EXCEPT ![t] = "pending"]

\* Fault: the context is left connected.
M_CloseGracefully(x, o) ==
  /\ ctx' = [x EXCEPT !.stat = CLOSED, !.socket = "closed"]
  /\ op' = AbortOps(o)
  /\ pc' = IF x.connected THEN "disconnected" ELSE "idle"
  /\ phase' = IF x.connected THEN "disconnected" ELSE phase

\* close_gracefully: the socket is closed and shutdown_complete called at once.
\* It goes on to the disconnected callback, and erases, a connected channel only.
CloseGracefully(x, o) ==
  /\ ctx' = [x EXCEPT !.stat = CLOSED, !.socket = "closed", !.connected = FALSE]
  /\ op' = AbortOps(o)
  /\ pc' = IF x.connected THEN "disconnected" ELSE "idle"
  /\ phase' = IF x.connected THEN "disconnected" ELSE phase

\* the end of a handler that leaves the channel as it is
NothingMore(x, o) == ctx' = x /\ op' = o /\ pc' = "idle" /\ UNCHANGED phase

\* Fault: the close is left to others.
M_HandleReqClose(x, o) == NothingMore(x, o)

\* handle_req_close
HandleReqClose(x, o) ==
  IF x.stat = REQ_CLOSE /\ x.tasks = {} THEN CloseGracefully(x, o) ELSE NothingMore(x, o)

\* Fault: the context is not erased.
M_Release(x, o) ==
  /\ ctx' = [x EXCEPT !.stat = CLOSED, !.socket = "closed"]
  /\ op' = AbortOps(o)
  /\ pc' = "idle" /\ UNCHANGED phase

\* the end of call_channel_disconnected, and the erase of its caller
Release(x, o) ==
  /\ ctx' = [x EXCEPT !.stat = CLOSED, !.socket = "closed", !.inMap = FALSE]
  /\ op' = AbortOps(o)
  /\ pc' = "idle" /\ UNCHANGED phase

-----------------------------------------------------------------------------
(* The public operations.                                                   *)

\* write_channel and write_channel_to of a channel in the map
WriteChannel(addressed) ==
  /\ proc = "running" /\ ctx.inMap
  /\ Use("write")
  /\ posted' = Append(posted, <<"write", <<count["write"] + 1, addressed>>>>)
  /\ UNCHANGED <<ctx, op, dataVars, pc, phase, restVars>>

\* fire_user_event_channel
FireUserEvent ==
  /\ proc = "running" /\ ctx.inMap
  /\ Use("event")
  /\ posted' = Append(posted, Lambda("event"))
  /\ UNCHANGED <<ctx, op, dataVars, pc, phase, restVars>>

\* the test of fire_channel_close
Closable == OPEN <= ctx.stat /\ ctx.stat < REQ_CLOSE

\* close() in a callback, on the strand
CallbackClose ==
  /\ proc = "running" /\ pc \notin {"idle", "opened", "binding", "connecting"}
  /\ ctx.inMap /\ Closable
  /\ ctx' = [ctx EXCEPT !.stat = REQ_CLOSE]
  /\ posted' = Append(posted, Lambda("close"))
  /\ UNCHANGED <<op, dataVars, pc, phase, count, restVars>>

Moves(c, from, to) == closer[c] = from /\ closer' = [closer EXCEPT ![c] = to]

CloserSet(c) == Moves(c, "set", "post") /\ ctx' = [ctx EXCEPT !.stat = REQ_CLOSE] /\ UNCHANGED posted

\* close_channel in another thread: lookup, test, store, post
Close(c) ==
  /\ proc # "terminated"
  /\ \/ Moves(c, "lookup", IF ctx.inMap THEN "test" ELSE "done") /\ UNCHANGED <<ctx, posted>>
     \/ Moves(c, "test", IF Closable THEN "set" ELSE "done") /\ UNCHANGED <<ctx, posted>>
     \/ CloserSet(c)
     \/ /\ Moves(c, "post", "done")
        /\ posted' = Append(posted, Lambda("close")) /\ UNCHANGED ctx
  /\ UNCHANGED <<target, op, dataVars, pc, phase, proc, count>>

\* service_base::stop, with the workers joined
StopService ==
  /\ StrandFree
  /\ proc' = "stopped"
  /\ IF ctx.inMap
     THEN /\ ctx' = [ctx EXCEPT !.stat = CLOSED, !.socket = "closed", !.inMap = FALSE]
          /\ op' = AbortOps(op)
     ELSE UNCHANGED <<ctx, op>>
  /\ UNCHANGED <<target, dataVars, posted, pc, phase, count, closer>>

-----------------------------------------------------------------------------
(* Lambdas posted to the strand.                                            *)

Running(name) ==
  /\ StrandFree
  /\ posted # <<>> /\ Head(posted)[1] = name
  /\ posted' = Tail(posted)

\* the lambda of bind_connect: call_channel_created
RunCreated ==
  /\ Running("created")
  /\ pc' = "created" /\ phase' = "created"
  /\ UNCHANGED <<ctx, op, dataVars, count, restVars>>

\* ... open and bind.  bind throws when the port is taken, and nothing between
\* here and the thread function of the worker catches.
CreatedReturn(thrown) ==
  /\ At("created")
  /\ Throws(thrown)
  /\ posted' = Report(thrown, posted)
  /\ ctx' = [ctx EXCEPT !.stat = OPEN, !.socket = "open"]
  /\ \/ pc' = "opened" /\ UNCHANGED proc
     \/ proc' = "terminated" /\ UNCHANGED pc
  /\ UNCHANGED <<target, op, dataVars, phase, closer>>

\* What bind_connect does after call_channel_bound(false, ...).
StartConnect ==
  \/ target = "none" /\ UNCHANGED <<posted, op>>
  \/ target = "name" /\ op' = Pending(op, "resolve") /\ UNCHANGED posted
  \/ target = "ip_port" /\ posted' = Append(posted, Lambda("connect")) /\ UNCHANGED op

\* call_channel_bound: the test ...
BoundTest ==
  /\ At("opened")
  /\ IF ctx.stat < BOUND THEN pc' = "binding" /\ UNCHANGED <<posted, op>>
                         ELSE pc' = "idle" /\ StartConnect
  /\ UNCHANGED <<ctx, dataVars, phase, count, restVars>>

\* ... the store, and the callbacks ...
BoundSet ==
  /\ At("binding")
  /\ ctx' = [ctx EXCEPT !.stat = BOUND]
  /\ pc' = "bound" /\ phase' = "bound"
  /\ UNCHANGED <<op, dataVars, posted, count, restVars>>

\* ... and the first read, when there is nothing to connect to.
BoundReturn(thrown) ==
  /\ At("bound")
  /\ Throws(thrown)
  /\ \/ /\ target = "none"
        /\ posted' = Report(thrown, posted)
        /\ IF ctx.stat = BOUND THEN NothingMore(Start(ctx, "read"), Pending(op, "read"))
                               ELSE NothingMore(ctx, op)
     \/ /\ target = "name"
        /\ posted' = Report(thrown, posted)
        /\ NothingMore(ctx, Pending(op, "resolve"))
     \/ /\ target = "ip_port"
        /\ posted' = Append(Report(thrown, posted), Lambda("connect"))
        /\ NothingMore(ctx, op)
  /\ UNCHANGED <<dataVars, restVars>>

\* channel_context::connect(ip_port): async_connect, without T_CONNECT.  It opens
\* a socket that was closed meanwhile.
RunConnect ==
  /\ Running("connect")
  /\ ctx' = [ctx EXCEPT !.socket = "open"]
  /\ op' = Pending(op, "connect")
  /\ UNCHANGED <<dataVars, pc, phase, count, restVars>>

\* fire_channel_write(_to): the channel_write callbacks ...
RunWrite ==
  /\ Running("write")
  /\ pc' = "write" /\ cur' = Head(posted)[2]
  /\ UNCHANGED <<ctx, op, wq, sent, rbuf, phase, count, restVars>>

\* ... and write_streambuf(_to), which sends a datagram that is alone in the queue.
WriteReturn(thrown, serialized) ==
  /\ At("write")
  /\ Throws(thrown)
  /\ IF serialized /\ Sendable
     THEN /\ wq' = Append(wq, cur)
          /\ sent' = IF wq = <<>> THEN cur[1] ELSE sent
          /\ NothingMore(Start(ctx, "write"), IF wq = <<>> THEN Pending(op, "write") ELSE op)
          /\ posted' = Report(thrown, posted)
     ELSE /\ posted' = Report(TRUE, Report(thrown, posted))
          /\ NothingMore(ctx, op)
          /\ UNCHANGED <<wq, sent>>
  /\ cur' = NoDatagram
  /\ UNCHANGED <<rbuf, restVars>>

\* the lambda of fire_channel_close; cancel_all is noexcept, and throws on a
\* closed socket
RunClose ==
  /\ Running("close")
  /\ IF ctx.stat = REQ_CLOSE /\ ctx.tasks # {}
     THEN /\ IF ctx.socket = "open" THEN op' = AbortOps(op) /\ UNCHANGED proc
                                    ELSE proc' = "terminated" /\ UNCHANGED op
          /\ UNCHANGED <<ctx, pc, phase>>
     ELSE HandleReqClose(ctx, op) /\ UNCHANGED proc
  /\ UNCHANGED <<target, dataVars, count, closer>>

\* exception_caught and user_event: a callback and nothing else
RunPlain(name) ==
  /\ Running(name)
  /\ pc' = name
  /\ UNCHANGED <<ctx, op, dataVars, phase, count, restVars>>

PlainReturn(thrown) ==
  /\ pc \in {"exception", "event"} /\ At(pc)
  /\ Throws(thrown)
  /\ posted' = Report(thrown, posted)
  /\ NothingMore(ctx, op)
  /\ UNCHANGED <<dataVars, restVars>>

-----------------------------------------------------------------------------
(* Completion handlers.                                                     *)

\* asio: an operation completes.  A datagram without a destination cannot leave a
\* socket that is not connected.
NetComplete(o) ==
  /\ proc = "running" /\ op[o] = "pending"
  /\ \/ /\ o = "read" => Use("read")
        /\ o = "write" => Head(wq)[2] \/ target # "none"
        /\ op' = [op EXCEPT ![o] = "ok"]
     \/ op' = [op EXCEPT ![o] = "failed"] /\ o = "read" /\ UNCHANGED count
     \/ op' = [op EXCEPT ![o] = "failed"] /\ o # "read"
  /\ o # "read" => UNCHANGED count
  /\ UNCHANGED <<ctx, dataVars, posted, pc, phase, restVars>>

Completing(o) == StrandFree /\ op[o] \in Completed
Done(o) == [op EXCEPT ![o] = "none"]

\* resolve_complete: the connect, or an exception and the erase.  async_connect
\* over an iterator closes and opens the socket again.
ResolveComplete ==
  /\ Completing("resolve")
  /\ IF op["resolve"] = "ok"
     THEN /\ NothingMore([Start(ctx, "connect") EXCEPT !.socket = "open"],
                         Pending(Done("resolve"), "connect"))
          /\ UNCHANGED posted
     ELSE /\ posted' = Report(TRUE, posted)
          /\ NothingMore([ctx EXCEPT !.inMap = FALSE], Done("resolve"))
  /\ UNCHANGED <<dataVars, count, restVars>>

\* connect_complete up to the test in call_channel_connected; a connect that
\* failed, or that nobody wants any more, ends here: no handle_req_close
ConnectComplete ==
  /\ Completing("connect")
  /\ op' = Done("connect")
  /\ IF op["connect"] = "ok"
     THEN /\ ctx' = Cleared(ctx, "connect")
          /\ pc' = IF ctx.stat < CONNECTED THEN "connecting" ELSE "idle"
          /\ UNCHANGED posted
     ELSE /\ ctx' = [Cleared(ctx, "connect") EXCEPT !.inMap = FALSE]
          /\ posted' = Report(TRUE, posted)
          /\ UNCHANGED pc
  /\ UNCHANGED <<dataVars, phase, count, restVars>>

ConnectedSet ==
  /\ At("connecting")
  /\ ctx' = [ctx EXCEPT !.stat = CONNECTED, !.connected = TRUE]
  /\ pc' = "connected" /\ phase' = "connected"
  /\ UNCHANGED <<op, dataVars, posted, count, restVars>>

\* The next read after a callback, or the close that was asked for.
ReadOrClose(states) ==
  IF ctx.stat \in states THEN NothingMore(Start(ctx, "read"), Pending(op, "read"))
                         ELSE HandleReqClose(ctx, op)

ConnectedReturn(thrown) ==
  /\ At("connected")
  /\ Throws(thrown)
  /\ posted' = Report(thrown, posted)
  /\ ReadOrClose({CONNECTED})
  /\ UNCHANGED <<dataVars, restVars>>

\* read_complete with a datagram: it is committed behind what the buffer holds
ReadComplete ==
  /\ Completing("read") /\ op["read"] = "ok"
  /\ ctx' = Cleared(ctx, "read") /\ op' = Done("read")
  /\ rbuf' = Append(rbuf, count["read"])
  /\ pc' = "read"
  /\ UNCHANGED <<wq, sent, cur, posted, phase, count, restVars>>

\* Fault: the buffer is not reset.
M_AfterRead(thrown) == UNCHANGED rbuf

\* call_channel_read resets the buffer, unless a callback threw.
AfterRead(thrown) == IF thrown THEN UNCHANGED rbuf ELSE rbuf' = <<>>

ReadReturn(thrown) ==
  /\ At("read")
  /\ Throws(thrown)
  /\ posted' = Report(thrown, posted)
  /\ AfterRead(thrown)
  /\ ReadOrClose({BOUND, CONNECTED})
  /\ UNCHANGED <<wq, sent, cur, restVars>>

\* read_complete with an error: call_channel_disconnected and the erase
ReadFailed ==
  /\ Completing("read") /\ op["read"] # "ok"
  /\ posted' = Report(op["read"] = "failed", posted)
  /\ LET x == Cleared(ctx, "read") IN
     IF ctx.connected
     THEN /\ ctx' = [x EXCEPT !.connected = FALSE,
                              !.stat = IF @ < DISCONNECTED THEN DISCONNECTED ELSE @]
          /\ op' = Done("read")
          /\ pc' = "disconnected" /\ phase' = "disconnected"
     ELSE Release(x, Done("read"))
  /\ UNCHANGED <<dataVars, count, restVars>>

DisconnectedReturn(thrown) ==
  /\ At("disconnected")
  /\ Throws(thrown)
  /\ posted' = Report(thrown, posted)
  /\ Release(ctx, op)
  /\ UNCHANGED <<dataVars, restVars>>

\* Fault: the newest datagram is removed.
M_RemoveSentData == SubSeq(wq, 1, Len(wq) - 1)

\* remove_sent_data
RemoveSentData == Tail(wq)

\* write_complete: a failed datagram is dropped, and what is queued behind it stays
WriteComplete ==
  /\ Completing("write")
  /\ wq' = RemoveSentData
  /\ IF op["write"] = "ok" /\ Sendable
     THEN /\ ctx' = Cleared(ctx, "write") /\ op' = Done("write")
          /\ pc' = "written"
          /\ UNCHANGED <<posted, phase>>
     ELSE /\ posted' = Report(op["write"] # "ok", posted)
          /\ HandleReqClose(Cleared(ctx, "write"), Done("write"))
  /\ UNCHANGED <<sent, rbuf, cur, count, restVars>>

\* call_channel_written after its callbacks: write_next_streambuf, or the close
WrittenReturn(thrown) ==
  /\ At("written")
  /\ Throws(thrown)
  /\ posted' = Report(thrown, posted)
  /\ IF Sendable /\ wq # <<>>
     THEN NothingMore(Start(ctx, "write"), Pending(op, "write")) /\ sent' = Head(wq)[1]
     ELSE HandleReqClose(ctx, op) /\ UNCHANGED sent
  /\ UNCHANGED <<wq, rbuf, cur, restVars>>

-----------------------------------------------------------------------------
RunPosted ==
  \/ RunCreated \/ RunConnect \/ RunWrite \/ RunClose
  \/ RunPlain("exception") \/ RunPlain("event")

StrandGoesOn ==
  \/ BoundTest \/ BoundSet \/ ConnectedSet
  \/ \E thrown \in BOOLEAN :
       \/ CreatedReturn(thrown) \/ BoundReturn(thrown) \/ ConnectedReturn(thrown)
       \/ ReadReturn(thrown) \/ WrittenReturn(thrown) \/ DisconnectedReturn(thrown)
       \/ PlainReturn(thrown) \/ \E serialized \in BOOLEAN : WriteReturn(thrown, serialized)

\* The strand takes up a lambda or a completion handler.
StrandServes ==
  RunPosted \/ ResolveComplete \/ ConnectComplete \/ ReadComplete \/ ReadFailed \/ WriteComplete

Next ==
  \/ \E addressed \in BOOLEAN : WriteChannel(addressed)
  \/ FireUserEvent \/ CallbackClose \/ StopService
  \/ \E c \in Closers : Close(c)
  \/ StrandServes \/ StrandGoesOn
  \/ \E o \in Ops : NetComplete(o)

\* Callbacks return, the strand does not rest while it has something to run, and
\* other threads run; no operation of the network has to complete, but connecting
\* a datagram socket, which sends nothing.
Fairness ==
  /\ WF_vars(StrandGoesOn) /\ WF_vars(StrandServes)
  /\ WF_vars(NetComplete("connect"))
  /\ \A c \in Closers : WF_vars(Close(c))

Spec == Init /\ [][Next]_vars /\ Fairness
-----------------------------------------------------------------------------
(* Properties.                                                              *)

\* The datagrams still to be sent: those in the queue, the one in the channel_write
\* callback, and those in posted lambdas.
Queued == {wq[i][1] : i \in 1 .. Len(wq)}
Calling == {cur[1]} \ {0}
PostedWrites == {i \in 1 .. Len(posted) : posted[i][1] = "write"}
Waiting == {posted[i][2][1] : i \in PostedWrites}

\* the datagrams of A were written before those of B
Before(A, B) == \A a \in A, b \in B : a < b

\* A send failed with datagrams queued behind it, and the next write_streambuf
\* joined them: the channel counts as busy with a send that nobody starts.  A send
\* that succeeded clears the flag, and sets it again together with the next one.
Orphaned == "write" \in ctx.tasks /\ op["write"] = "none"

\* Nothing of the channel is left to run, and nothing can arrive for it.
Quiescent ==
  /\ StrandFree /\ posted = <<>>
  /\ \A o \in Ops : op[o] = "none"
  /\ \A c \in Closers : closer[c] = "done"

\* Every variable has its type.
TypeOK ==
  /\ target \in AllTargets
  /\ ctx \in [stat : CREATED .. CLOSED, connected : BOOLEAN, tasks : SUBSET (Ops \ {"resolve"}),
              socket : {"none", "open", "closed"}, inMap : BOOLEAN]
  /\ op \in [Ops -> {"none", "pending"} \cup Completed]
  /\ wq \in Seq(Nat \X BOOLEAN) /\ cur \in Nat \X BOOLEAN
  /\ sent \in Nat /\ rbuf \in Seq(Nat)
  /\ phase \in {"new", "created", "bound", "connected", "disconnected"}
  /\ proc \in {"running", "stopped", "terminated"}
  /\ closer \in [Closers -> {"lookup", "test", "set", "post", "done"}]

\* write_complete finds the datagram that was sent at the head of the queue, and
\* datagrams leave in the order of the write calls, none of them twice.
WritesInOrder ==
  /\ op["write"] # "none" => wq # <<>> /\ Head(wq)[1] = sent
  /\ op["write"] = "none" => Before({sent}, Queued)
  /\ \A i, j \in 1 .. Len(wq) : i < j => wq[i][1] < wq[j][1]
  /\ \A i, j \in PostedWrites : i < j => posted[i][2][1] < posted[j][2][1]
  /\ Before({sent} \cup Queued, Calling \cup Waiting) /\ Before(Calling, Waiting)

\* channel_read_from sees one datagram at a time, however reads, throws and closes
\* interleave; one more for each exception a callback has thrown.
DatagramsAlone == pc = "read" => Len(rbuf) <= 1 + count["throw"]

\* While the service runs, a connected channel is in the map and its socket open.
ConnectedIsReachable ==
  ctx.connected /\ proc = "running" => ctx.inMap /\ ctx.socket = "open"

\* The invariant of a UDP channel: its types, and that a connected one can be reached.
UdpSafe == TypeOK /\ ConnectedIsReachable

\* A channel of which nothing is left to run is not forgotten in the map once it
\* was connected, unless a failed send left datagrams queued.  A channel that was
\* only bound is: shutdown_complete erases connected channels only.
NoForgottenChannel == Quiescent /\ ctx.inMap /\ phase \in {"connected", "disconnected"} => Orphaned

\* The lambda of a close is posted, or will be.
CloseToCome ==
  \/ \E i \in 1 .. Len(posted) : posted[i][1] = "close"
  \/ \E c \in Closers : closer[c] = "post"

\* The connect to a resolved name succeeded, and the close was looked at while it
\* was the only task: connect_complete finds stat at REQ_CLOSE and returns without
\* handle_req_close.
ConnectedBehindClose ==
  /\ ctx.stat = REQ_CLOSE /\ ~CloseToCome
  /\ op["connect"] = "ok" /\ ctx.tasks = {"connect"}

\* Where no connect succeeds behind the close, a close is carried out, the socket
\* closed and the handlers told, unless the service stops, a failed send keeps the
\* channel busy, a failed resolve or connect erases the channel, or the store of
\* BOUND or CONNECTED overwrites the REQ_CLOSE.  The end of the process by a cancel
\* of a closed socket does not count as a close.
CloseCompletes ==
  [](~ConnectedBehindClose) =>
    (ctx.stat = REQ_CLOSE ~> \/ ctx.socket = "closed" /\ ~ctx.connected
                             \/ ctx.stat \in {BOUND, CONNECTED}
                             \/ ~ctx.inMap
                             \/ proc = "stopped"
                             \/ Orphaned)

\* The callbacks of the pipeline come in the order UdpCallbacks promises.
Callback == IF pc \in {"opened", "binding", "connecting"} THEN "idle" ELSE pc
CB == INSTANCE UdpCallbacks WITH cb <- Callback
CallbackOrder == CB!Spec
=============================================================================
