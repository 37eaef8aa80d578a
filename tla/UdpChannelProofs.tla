-------------------------- MODULE UdpChannelProofs --------------------------
(***************************************************************************)
(* Proofs about UdpChannel, for every set of targets, every set of closers *)
(* and every bound.                                                        *)
(*                                                                         *)
(* As for a TCP channel, the invariants that the run checks need what ties *)
(* stat to the phase that the handlers see, and that the steps which set a *)
(* channel up (the created lambda, the stretch up to channel_bound, the    *)
(* connect lambda, resolve and connect) are never outstanding together.    *)
(* A UDP channel may skip channel_bound: then a close was stored behind    *)
(* its back, and stat stays at REQ_CLOSE or beyond until the end.          *)
(***************************************************************************)
EXTENDS UdpChannel, TLAPS

Lambdas == {"created", "connect", "write", "close", "exception", "event"}
Datagrams == Nat \X BOOLEAN
LambdaType == Lambdas \X Datagrams
OpStates == {"none", "pending"} \cup Completed
OpType == [Ops -> OpStates]
CtxType == [stat : CREATED .. CLOSED, connected : BOOLEAN, tasks : SUBSET (Ops \ {"resolve"}),
            socket : {"none", "open", "closed"}, inMap : BOOLEAN]
BoundNames == {"write", "read", "event", "throw"}

\* where the strand is between the start of its first lambda and channel_connected
SetupPcs == {"created", "opened", "binding", "bound", "connecting"}
PcStates == SetupPcs \cup {"idle", "connected", "read", "written", "disconnected", "write",
                           "exception", "event"}

\* The types, those that TypeOK leaves out too.
Types ==
  /\ TypeOK
  /\ posted \in Seq(LambdaType) /\ pc \in PcStates /\ count \in [BoundNames -> Nat]

\* the datagram that is being sent is in the queue
SendingQueued == op["write"] # "none" => wq # <<>>

\* stat against the phase of the channel
StatPhase ==
  /\ ctx.connected <=> phase = "connected"
  /\ ctx.stat = BOUND => phase = "bound"
  /\ ctx.stat = CONNECTED => phase = "connected"

IsConnect(i) == posted[i][1] = "connect"
ConnectPosted == \E i \in 1 .. Len(posted) : IsConnect(i)

\* the first lambda is the only one of its kind, and so is the connect lambda
PostedOnce ==
  /\ \A i \in 1 .. Len(posted) : posted[i][1] = "created" => i = 1 /\ phase = "new"
  /\ \A i, j \in 1 .. Len(posted) : IsConnect(i) /\ IsConnect(j) => i = j

\* a connect is on its way
Connecting ==
  ConnectPosted \/ op["resolve"] # "none" \/ op["connect"] # "none" \/ pc = "connecting"

\* The steps that set the channel up exclude each other.
SetupOnce ==
  /\ pc \in {"created", "opened", "binding"} => phase = "created"
  /\ pc \in {"bound", "connecting"} => phase = "bound"
  /\ pc = "disconnected" => phase = "disconnected"
  /\ ConnectPosted => op["resolve"] = "none" /\ op["connect"] = "none" /\ pc \notin SetupPcs
  /\ op["resolve"] # "none" => op["connect"] = "none" /\ pc \notin SetupPcs
  /\ op["connect"] # "none" => pc \notin SetupPcs
  /\ Connecting => /\ target # "none" /\ phase \in {"created", "bound"}
                   /\ phase = "created" => ctx.stat >= REQ_CLOSE

\* Datagrams are read between channel_bound and channel_disconnected, and not before
\* channel_connected if there is something to connect to.
ReadPhase ==
  op["read"] # "none" \/ pc = "read" =>
    phase \in {"bound", "connected"} /\ (target = "none" \/ phase = "connected")

\* Reads and writes are recorded in _task_in_progress.
TasksCoverOps == \A t \in {"read", "write"} : op[t] # "none" => t \in ctx.tasks

\* Where the channel can be found and its socket is open.
Reachable ==
  proc = "running" =>
    /\ ctx.connected \/ Connecting => ctx.inMap
    /\ phase = "new" \/ pc \in SetupPcs => ctx.inMap
    /\ ctx.connected \/ pc = "connecting" => ctx.socket = "open"
    /\ op["connect"] # "none" /\ ctx.stat < REQ_CLOSE => ctx.socket = "open"

Core == StatPhase /\ SetupOnce /\ ReadPhase /\ TasksCoverOps /\ Reachable
IInv == Types /\ SendingQueued /\ PostedOnce /\ Core

USE DEF CREATED, OPEN, BOUND, CONNECTED, REQ_CLOSE, DISCONNECTED, CLOSED

-----------------------------------------------------------------------------
(* What the pieces of the handlers do.                                      *)

\* The types of the variables, one by one.
LEMMA TypeFacts ==
  ASSUME Types
  PROVE  /\ ctx \in CtxType /\ op \in OpType /\ posted \in Seq(LambdaType) /\ pc \in PcStates
         /\ ctx.stat \in 0 .. 7 /\ ctx.connected \in BOOLEAN /\ ctx.inMap \in BOOLEAN
         /\ ctx.tasks \subseteq {"connect", "read", "write"}
         /\ ctx.socket \in {"none", "open", "closed"}
         /\ Ops = {"resolve", "connect", "read", "write"}
         /\ wq \in Seq(Datagrams) /\ cur \in Datagrams /\ sent \in Nat /\ rbuf \in Seq(Nat)
         /\ count \in [BoundNames -> Nat]
         /\ phase \in {"new", "created", "bound", "connected", "disconnected"}
         /\ proc \in {"running", "stopped", "terminated"} /\ target \in AllTargets
         /\ closer \in [Closers -> {"lookup", "test", "set", "post", "done"}]
BY DEF Types, TypeOK, CtxType, OpType, OpStates, Datagrams, Ops

\* Types from the types of the variables.
LEMMA TypesBack ==
  ASSUME /\ target' \in AllTargets /\ ctx' \in CtxType /\ op' \in OpType
         /\ wq' \in Seq(Datagrams) /\ cur' \in Datagrams /\ sent' \in Nat /\ rbuf' \in Seq(Nat)
         /\ phase' \in {"new", "created", "bound", "connected", "disconnected"}
         /\ proc' \in {"running", "stopped", "terminated"}
         /\ closer' \in [Closers -> {"lookup", "test", "set", "post", "done"}]
         /\ posted' \in Seq(LambdaType) /\ pc' \in PcStates /\ count' \in [BoundNames -> Nat]
  PROVE  Types'
BY DEF Types, TypeOK, CtxType, OpType, OpStates, Datagrams

\* fire_channel_close stores REQ_CLOSE, ...
LEMMA CloseStored ==
  ASSUME NEW x \in CtxType, NEW y, y = [x EXCEPT !.stat = REQ_CLOSE]
  PROVE  /\ y \in CtxType /\ y.stat = REQ_CLOSE /\ y.connected = x.connected
         /\ y.tasks = x.tasks /\ y.socket = x.socket /\ y.inMap = x.inMap
<1> DEFINE u == REQ_CLOSE
<1>1. /\ u \in CREATED .. CLOSED /\ y = [x EXCEPT !.stat = u]
  OBVIOUS
<1> HIDE DEF u
<1>2. y \in CtxType
  BY <1>1 DEF CtxType
<1>3. /\ y.stat = u
  BY <1>1 DEF CtxType
<1>4. /\ y.connected = x.connected /\ y.tasks = x.tasks /\ y.socket = x.socket
      /\ y.inMap = x.inMap
  BY <1>1 DEF CtxType
<1> QED
  BY <1>2, <1>3, <1>4 DEF u

\* ... call_channel_bound BOUND, ...
LEMMA BoundStored ==
  ASSUME NEW x \in CtxType, NEW y, y = [x EXCEPT !.stat = BOUND]
  PROVE  /\ y \in CtxType /\ y.stat = BOUND /\ y.connected = x.connected /\ y.tasks = x.tasks
         /\ y.socket = x.socket /\ y.inMap = x.inMap
<1> DEFINE u == BOUND
<1>1. /\ u \in CREATED .. CLOSED /\ y = [x EXCEPT !.stat = u]
  OBVIOUS
<1> HIDE DEF u
<1>2. y \in CtxType
  BY <1>1 DEF CtxType
<1>3. /\ y.stat = u
  BY <1>1 DEF CtxType
<1>4. /\ y.connected = x.connected /\ y.tasks = x.tasks /\ y.socket = x.socket
      /\ y.inMap = x.inMap
  BY <1>1 DEF CtxType
<1> QED
  BY <1>2, <1>3, <1>4 DEF u

\* ... and call_channel_connected CONNECTED.
LEMMA ConnectedStored ==
  ASSUME NEW x \in CtxType, NEW y, y = [x EXCEPT !.stat = CONNECTED, !.connected = TRUE]
  PROVE  /\ y \in CtxType /\ y.stat = CONNECTED /\ y.connected = TRUE /\ y.tasks = x.tasks
         /\ y.socket = x.socket /\ y.inMap = x.inMap
<1> DEFINE u == CONNECTED
           v == TRUE
<1>1. /\ u \in CREATED .. CLOSED /\ v \in BOOLEAN
      /\ y = [x EXCEPT !.stat = u, !.connected = v]
  OBVIOUS
<1> HIDE DEF u, v
<1>2. y \in CtxType
  BY <1>1 DEF CtxType
<1>3. /\ y.stat = u /\ y.connected = v
  BY <1>1 DEF CtxType
<1>4. /\ y.tasks = x.tasks /\ y.socket = x.socket /\ y.inMap = x.inMap
  BY <1>1 DEF CtxType
<1> QED
  BY <1>2, <1>3, <1>4 DEF u, v

\* The socket is opened, ...
LEMMA OpenStored ==
  ASSUME NEW x \in CtxType, NEW y, y = [x EXCEPT !.stat = OPEN, !.socket = "open"]
  PROVE  /\ y \in CtxType /\ y.stat = OPEN /\ y.socket = "open" /\ y.connected = x.connected
         /\ y.tasks = x.tasks /\ y.inMap = x.inMap
<1> DEFINE u == OPEN
           v == "open"
<1>1. /\ u \in CREATED .. CLOSED /\ v \in {"none", "open", "closed"}
      /\ y = [x EXCEPT !.stat = u, !.socket = v]
  OBVIOUS
<1> HIDE DEF u, v
<1>2. y \in CtxType
  BY <1>1 DEF CtxType
<1>3. /\ y.stat = u /\ y.socket = v
  BY <1>1 DEF CtxType
<1>4. /\ y.connected = x.connected /\ y.tasks = x.tasks /\ y.inMap = x.inMap
  BY <1>1 DEF CtxType
<1> QED
  BY <1>2, <1>3, <1>4 DEF u, v

\* ... opened by a connect ...
LEMMA SocketReopened ==
  ASSUME NEW x \in CtxType, NEW y, y = [x EXCEPT !.socket = "open"]
  PROVE  /\ y \in CtxType /\ y.socket = "open" /\ y.stat = x.stat
         /\ y.connected = x.connected /\ y.tasks = x.tasks /\ y.inMap = x.inMap
<1> DEFINE u == "open"
<1>1. /\ u \in {"none", "open", "closed"} /\ y = [x EXCEPT !.socket = u]
  OBVIOUS
<1> HIDE DEF u
<1>2. y \in CtxType
  BY <1>1 DEF CtxType
<1>3. /\ y.socket = u
  BY <1>1 DEF CtxType
<1>4. /\ y.stat = x.stat /\ y.connected = x.connected /\ y.tasks = x.tasks
      /\ y.inMap = x.inMap
  BY <1>1 DEF CtxType
<1> QED
  BY <1>2, <1>3, <1>4 DEF u

\* ... and closed, with the context erased ...
LEMMA ClosedAndErased ==
  ASSUME NEW x \in CtxType, NEW y, y = [x EXCEPT !.stat = CLOSED, !.socket = "closed", !.inMap = FALSE]
  PROVE  /\ y \in CtxType /\ y.stat = CLOSED /\ y.socket = "closed" /\ y.inMap = FALSE
         /\ y.connected = x.connected /\ y.tasks = x.tasks
<1> DEFINE u == CLOSED
           v == "closed"
           w == FALSE
<1>1. /\ u \in CREATED .. CLOSED /\ v \in {"none", "open", "closed"} /\ w \in BOOLEAN
      /\ y = [x EXCEPT !.stat = u, !.socket = v, !.inMap = w]
  OBVIOUS
<1> HIDE DEF u, v, w
<1>2. y \in CtxType
  BY <1>1 DEF CtxType
<1>3. /\ y.stat = u /\ y.socket = v /\ y.inMap = w
  BY <1>1 DEF CtxType
<1>4. /\ y.connected = x.connected /\ y.tasks = x.tasks
  BY <1>1 DEF CtxType
<1> QED
  BY <1>2, <1>3, <1>4 DEF u, v, w

\* ... or no longer connected.
LEMMA ClosedAndCut ==
  ASSUME NEW x \in CtxType, NEW y, y = [x EXCEPT !.stat = CLOSED, !.socket = "closed", !.connected = FALSE]
  PROVE  /\ y \in CtxType /\ y.stat = CLOSED /\ y.socket = "closed" /\ y.connected = FALSE
         /\ y.tasks = x.tasks /\ y.inMap = x.inMap
<1> DEFINE u == CLOSED
           v == "closed"
           w == FALSE
<1>1. /\ u \in CREATED .. CLOSED /\ v \in {"none", "open", "closed"} /\ w \in BOOLEAN
      /\ y = [x EXCEPT !.stat = u, !.socket = v, !.connected = w]
  OBVIOUS
<1> HIDE DEF u, v, w
<1>2. y \in CtxType
  BY <1>1 DEF CtxType
<1>3. /\ y.stat = u /\ y.socket = v /\ y.connected = w
  BY <1>1 DEF CtxType
<1>4. /\ y.tasks = x.tasks /\ y.inMap = x.inMap
  BY <1>1 DEF CtxType
<1> QED
  BY <1>2, <1>3, <1>4 DEF u, v, w

\* The context is erased.
LEMMA Erased ==
  ASSUME NEW x \in CtxType, NEW y, y = [x EXCEPT !.inMap = FALSE]
  PROVE  /\ y \in CtxType /\ y.inMap = FALSE /\ y.stat = x.stat /\ y.connected = x.connected
         /\ y.tasks = x.tasks /\ y.socket = x.socket
<1> DEFINE u == FALSE
<1>1. /\ u \in BOOLEAN /\ y = [x EXCEPT !.inMap = u]
  OBVIOUS
<1> HIDE DEF u
<1>2. y \in CtxType
  BY <1>1 DEF CtxType
<1>3. /\ y.inMap = u
  BY <1>1 DEF CtxType
<1>4. /\ y.stat = x.stat /\ y.connected = x.connected /\ y.tasks = x.tasks
      /\ y.socket = x.socket
  BY <1>1 DEF CtxType
<1> QED
  BY <1>2, <1>3, <1>4 DEF u

\* A read that failed: call_channel_disconnected stores DISCONNECTED.
LEMMA CutOff ==
  ASSUME NEW x \in CtxType, NEW v \in CREATED .. CLOSED, NEW y,
         y = [x EXCEPT !.connected = FALSE, !.stat = v]
  PROVE  /\ y \in CtxType /\ y.connected = FALSE /\ y.stat = v
         /\ y.tasks = x.tasks /\ y.socket = x.socket /\ y.inMap = x.inMap
<1> DEFINE u == FALSE
<1>1. u \in BOOLEAN /\ y = [x EXCEPT !.connected = u, !.stat = v]
  OBVIOUS
<1> HIDE DEF u
<1>2. y \in CtxType
  BY <1>1 DEF CtxType
<1>3. y.connected = u /\ y.stat = v
  BY <1>1 DEF CtxType
<1>4. y.tasks = x.tasks /\ y.socket = x.socket /\ y.inMap = x.inMap
  BY <1>1 DEF CtxType
<1> QED
  BY <1>2, <1>3, <1>4 DEF u

\* Aborting operations leaves alone which of them are outstanding.
LEMMA AbortOpsFacts ==
  ASSUME NEW o \in OpType
  PROVE  AbortOps(o) \in OpType /\ \A p \in Ops : AbortOps(o)[p] = "none" <=> o[p] = "none"
BY DEF AbortOps, OpType, Ops, OpStates, Completed

\* An operation is started, ...
LEMMA PendingFacts ==
  ASSUME NEW o \in OpType, NEW p \in Ops
  PROVE  /\ Pending(o, p) \in OpType /\ Pending(o, p)[p] = "pending"
         /\ \A r \in Ops \ {p} : Pending(o, p)[r] = o[r]
BY DEF Pending, OpType, OpStates

\* ... or over.
LEMMA DoneFacts ==
  ASSUME op \in OpType, NEW p \in Ops
  PROVE  Done(p) \in OpType /\ Done(p)[p] = "none" /\ \A r \in Ops \ {p} : Done(p)[r] = op[r]
BY DEF Done, OpType, OpStates

\* A task is recorded, ...
LEMMA StartFacts ==
  ASSUME ctx \in CtxType, NEW t \in Ops \ {"resolve"}
  PROVE  /\ Start(ctx, t) \in CtxType /\ Start(ctx, t).tasks = ctx.tasks \cup {t}
         /\ Start(ctx, t).stat = ctx.stat /\ Start(ctx, t).connected = ctx.connected
         /\ Start(ctx, t).socket = ctx.socket /\ Start(ctx, t).inMap = ctx.inMap
BY DEF Start, CtxType

\* ... or cleared.
LEMMA ClearedFacts ==
  ASSUME ctx \in CtxType, NEW t
  PROVE  /\ Cleared(ctx, t) \in CtxType /\ Cleared(ctx, t).tasks = ctx.tasks \ {t}
         /\ Cleared(ctx, t).stat = ctx.stat /\ Cleared(ctx, t).connected = ctx.connected
         /\ Cleared(ctx, t).socket = ctx.socket /\ Cleared(ctx, t).inMap = ctx.inMap
BY DEF Cleared, CtxType

\* The channel is closed.
Closed(x, o) ==
  /\ ctx' \in CtxType /\ op' \in OpType
  /\ ctx'.stat = CLOSED /\ ctx'.socket = "closed" /\ ctx'.connected = FALSE
  /\ ctx'.tasks = x.tasks /\ ctx'.inMap = x.inMap
  /\ \A p \in Ops : op'[p] = "none" <=> o[p] = "none"
  /\ \/ x.connected /\ pc' = "disconnected" /\ phase' = "disconnected"
     \/ ~x.connected /\ pc' = "idle" /\ phase' = phase

\* close_gracefully closes the channel.
LEMMA CloseGracefullyFacts ==
  ASSUME NEW x \in CtxType, NEW o \in OpType, CloseGracefully(x, o)
  PROVE  Closed(x, o)
<1>1. op' \in OpType /\ \A p \in Ops : op'[p] = "none" <=> o[p] = "none"
  BY AbortOpsFacts DEF CloseGracefully
<1>2. /\ ctx' \in CtxType /\ ctx'.stat = CLOSED /\ ctx'.socket = "closed" /\ ctx'.connected = FALSE
      /\ ctx'.tasks = x.tasks /\ ctx'.inMap = x.inMap
  BY ClosedAndCut DEF CloseGracefully
<1>3. CASE x.connected
  BY <1>1, <1>2, <1>3 DEF CloseGracefully, Closed
<1>4. CASE ~x.connected
  BY <1>1, <1>2, <1>4 DEF CloseGracefully, Closed
<1> QED
  BY <1>3, <1>4

\* handle_req_close leaves a close undone only while the channel is busy.
Ended(x, o) ==
  \/ NothingMore(x, o) /\ ~(x.stat = REQ_CLOSE /\ x.tasks = {})
  \/ Closed(x, o) /\ x.stat = REQ_CLOSE /\ x.tasks = {}

\* handle_req_close ends in one of these two ways.
LEMMA EndFacts ==
  ASSUME NEW x \in CtxType, NEW o \in OpType, HandleReqClose(x, o)
  PROVE  Ended(x, o)
BY CloseGracefullyFacts DEF HandleReqClose, Ended

\* The end of call_channel_disconnected.
LEMMA ReleaseFacts ==
  ASSUME NEW x \in CtxType, NEW o \in OpType, Release(x, o)
  PROVE  /\ ctx' \in CtxType /\ op' \in OpType
         /\ ctx'.stat = CLOSED /\ ctx'.socket = "closed" /\ ctx'.inMap = FALSE
         /\ ctx'.tasks = x.tasks /\ ctx'.connected = x.connected
         /\ \A p \in Ops : op'[p] = "none" <=> o[p] = "none"
         /\ pc' = "idle" /\ phase' = phase
<1>1. op' \in OpType /\ \A p \in Ops : op'[p] = "none" <=> o[p] = "none"
  BY AbortOpsFacts DEF Release
<1>2. /\ ctx' \in CtxType /\ ctx'.stat = CLOSED /\ ctx'.socket = "closed" /\ ctx'.inMap = FALSE
      /\ ctx'.tasks = x.tasks /\ ctx'.connected = x.connected
  BY ClosedAndErased DEF Release
<1> QED
  BY <1>1, <1>2 DEF Release

\* The next read, or the close.
LEMMA ReadOrCloseFacts ==
  ASSUME Types, NEW states, ReadOrClose(states)
  PROVE  \/ /\ ctx.stat \in states /\ ctx' = Start(ctx, "read") /\ op' = Pending(op, "read")
            /\ pc' = "idle" /\ phase' = phase
         \/ ctx.stat \notin states /\ Ended(ctx, op)
<1>1. ctx \in CtxType /\ op \in OpType
  BY TypeFacts
<1>2. CASE ctx.stat \in states
  BY <1>2 DEF ReadOrClose, NothingMore
<1>3. CASE ctx.stat \notin states
  BY <1>1, <1>3, EndFacts DEF ReadOrClose
<1> QED
  BY <1>2, <1>3

\* A bound that is used: the others are left alone.
LEMMA UseFacts ==
  ASSUME Types, NEW b \in BoundNames, Use(b)
  PROVE  /\ count' \in [BoundNames -> Nat] /\ count'[b] = count[b] + 1
         /\ \A d \in BoundNames \ {b} : count'[d] = count[d]
BY TypeFacts DEF Use

\* A callback that throws uses up one of MaxThrows.
LEMMA ThrowsFacts ==
  ASSUME Types, NEW thrown \in BOOLEAN, Throws(thrown)
  PROVE  /\ count' \in [BoundNames -> Nat]
         /\ count'["throw"] = count["throw"] + (IF thrown THEN 1 ELSE 0)
         /\ \A d \in BoundNames \ {"throw"} : count'[d] = count[d]
<1>1. "throw" \in BoundNames /\ count \in [BoundNames -> Nat]
  BY TypeFacts DEF BoundNames
<1>2. CASE thrown = TRUE
  BY <1>1, <1>2, UseFacts DEF Throws
<1>3. CASE thrown = FALSE
  BY <1>1, <1>3 DEF Throws
<1> QED
  BY <1>2, <1>3

\* Lambdas are of their type, and exceptions are posted at the end of the queue.
LEMMA LambdaIsTyped ==
  ASSUME NEW name \in Lambdas
  PROVE  Lambda(name) \in LambdaType /\ Lambda(name)[1] = name
BY DEF Lambda, LambdaType, Datagrams, NoDatagram

\* What an exception leaves in the queue of the strand has its type.
LEMMA ReportType ==
  ASSUME NEW q \in Seq(LambdaType), NEW b
  PROVE  Report(b, q) \in Seq(LambdaType)
<1>1. Lambda("exception") \in LambdaType
  BY LambdaIsTyped DEF Lambdas
<1> QED
  BY <1>1 DEF Report

-----------------------------------------------------------------------------
(* Every step keeps the types.                                              *)

\* handle_req_close keeps the types.
LEMMA EndedTypes ==
  ASSUME Types, NEW x \in CtxType, NEW o \in OpType, Ended(x, o)
  PROVE  /\ ctx' \in CtxType /\ op' \in OpType /\ pc' \in PcStates
         /\ phase' \in {"new", "created", "bound", "connected", "disconnected"}
BY TypeFacts DEF Ended, Closed, NothingMore, PcStates

\* So does the end of a callback that reads on or closes.
LEMMA ReadOrCloseTypes ==
  ASSUME Types, NEW states, ReadOrClose(states)
  PROVE  /\ ctx' \in CtxType /\ op' \in OpType /\ pc' \in PcStates
         /\ phase' \in {"new", "created", "bound", "connected", "disconnected"}
<1>1. ctx \in CtxType /\ op \in OpType /\ "read" \in Ops \ {"resolve"}
  BY TypeFacts DEF Ops
<1>2. CASE ctx.stat \in states
  BY <1>1, <1>2, TypeFacts, ReadOrCloseFacts, StartFacts, PendingFacts DEF PcStates
<1>3. CASE ctx.stat \notin states
  BY <1>1, <1>3, ReadOrCloseFacts, EndedTypes
<1> QED
  BY <1>2, <1>3

\* A callback that returns posts an exception or nothing.
LEMMA CallbackPosts ==
  ASSUME Types, NEW thrown \in BOOLEAN, Throws(thrown), posted' = Report(thrown, posted)
  PROVE  posted' \in Seq(LambdaType) /\ count' \in [BoundNames -> Nat]
BY TypeFacts, ReportType, ThrowsFacts

\* A lambda is taken from the front of the queue.
LEMMA RunningFacts ==
  ASSUME Types, NEW name, Running(name)
  PROVE  /\ posted' \in Seq(LambdaType) /\ posted # <<>> /\ posted' = Tail(posted)
         /\ posted[1][1] = name /\ posted[1] \in LambdaType /\ pc = "idle" /\ proc = "running"
BY TypeFacts DEF Running, StrandFree

\* A queue that may have grown by one element keeps its type.
LEMMA AppendType ==
  ASSUME NEW S, NEW q \in Seq(S), NEW e \in S, NEW r, r = q \/ r = Append(q, e)
  PROVE  r \in Seq(S)
OBVIOUS

\* Every step keeps the types.
LEMMA TypeStep ==
  ASSUME Types, SendingQueued, [Next]_vars
  PROVE  Types'
<1>t. /\ ctx \in CtxType /\ op \in OpType /\ posted \in Seq(LambdaType) /\ pc \in PcStates
      /\ wq \in Seq(Datagrams) /\ cur \in Datagrams /\ sent \in Nat /\ rbuf \in Seq(Nat)
      /\ count \in [BoundNames -> Nat]
      /\ phase \in {"new", "created", "bound", "connected", "disconnected"}
      /\ proc \in {"running", "stopped", "terminated"} /\ target \in AllTargets
      /\ closer \in [Closers -> {"lookup", "test", "set", "post", "done"}]
  BY TypeFacts
<1>p. posted \in Seq(LambdaType)
  BY <1>t
<1>w. wq \in Seq(Datagrams) /\ cur \in Datagrams
  BY <1>t
<1>o. /\ "resolve" \in Ops /\ "connect" \in Ops \ {"resolve"}
      /\ "read" \in Ops \ {"resolve"} /\ "write" \in Ops \ {"resolve"}
  BY DEF Ops
<1>1. ASSUME NEW a \in BOOLEAN, WriteChannel(a) PROVE Types'
  <2>a. ctx' \in CtxType /\ op' \in OpType
    BY <1>t, <1>1 DEF WriteChannel
  <2>b. posted' \in Seq(LambdaType) /\ count' \in [BoundNames -> Nat]
    <3>1. "write" \in BoundNames /\ count["write"] \in Nat
      BY <1>t DEF BoundNames
    <3>2. <<"write", <<count["write"] + 1, a>>>> \in LambdaType
      BY <3>1 DEF LambdaType, Lambdas, Datagrams
    <3> QED
      BY <1>t, <1>1, <3>1, <3>2, UseFacts DEF WriteChannel
  <2>c. pc' \in PcStates /\ phase' \in {"new", "created", "bound", "connected", "disconnected"}
    BY <1>t, <1>1 DEF WriteChannel, PcStates, SetupPcs
  <2>d. wq' \in Seq(Datagrams) /\ cur' \in Datagrams /\ sent' \in Nat /\ rbuf' \in Seq(Nat)
    BY <1>t, <1>1 DEF WriteChannel, dataVars
  <2>e. /\ proc' \in {"running", "stopped", "terminated"} /\ target' \in AllTargets
        /\ closer' \in [Closers -> {"lookup", "test", "set", "post", "done"}]
    BY <1>t, <1>1 DEF WriteChannel, restVars
  <2> QED
    BY <2>a, <2>b, <2>c, <2>d, <2>e, TypesBack
<1>2. CASE FireUserEvent
  <2>a. ctx' \in CtxType /\ op' \in OpType
    BY <1>t, <1>2 DEF FireUserEvent
  <2>b. posted' \in Seq(LambdaType) /\ count' \in [BoundNames -> Nat]
    <3>1. "event" \in BoundNames /\ Lambda("event") \in LambdaType
      BY LambdaIsTyped DEF BoundNames, Lambdas
    <3> QED
      BY <1>t, <1>2, <3>1, UseFacts DEF FireUserEvent
  <2>c. pc' \in PcStates /\ phase' \in {"new", "created", "bound", "connected", "disconnected"}
    BY <1>t, <1>2 DEF FireUserEvent, PcStates, SetupPcs
  <2>d. wq' \in Seq(Datagrams) /\ cur' \in Datagrams /\ sent' \in Nat /\ rbuf' \in Seq(Nat)
    BY <1>t, <1>2 DEF FireUserEvent, dataVars
  <2>e. /\ proc' \in {"running", "stopped", "terminated"} /\ target' \in AllTargets
        /\ closer' \in [Closers -> {"lookup", "test", "set", "post", "done"}]
    BY <1>t, <1>2 DEF FireUserEvent, restVars
  <2> QED
    BY <2>a, <2>b, <2>c, <2>d, <2>e, TypesBack
<1>3. CASE CallbackClose
  <2>a. ctx' \in CtxType /\ op' \in OpType
    BY <1>t, <1>o, <1>3, CloseStored DEF CallbackClose
  <2>b. posted' \in Seq(LambdaType) /\ count' \in [BoundNames -> Nat]
    <3>1. Lambda("close") \in LambdaType
      BY LambdaIsTyped DEF Lambdas
    <3> QED
      BY <1>t, <1>3, <3>1 DEF CallbackClose
  <2>c. pc' \in PcStates /\ phase' \in {"new", "created", "bound", "connected", "disconnected"}
    BY <1>t, <1>3 DEF CallbackClose, PcStates, SetupPcs
  <2>d. wq' \in Seq(Datagrams) /\ cur' \in Datagrams /\ sent' \in Nat /\ rbuf' \in Seq(Nat)
    BY <1>t, <1>3 DEF CallbackClose, dataVars
  <2>e. /\ proc' \in {"running", "stopped", "terminated"} /\ target' \in AllTargets
        /\ closer' \in [Closers -> {"lookup", "test", "set", "post", "done"}]
    BY <1>t, <1>3 DEF CallbackClose, restVars
  <2> QED
    BY <2>a, <2>b, <2>c, <2>d, <2>e, TypesBack
<1>4. CASE StopService
  <2>a. ctx' \in CtxType /\ op' \in OpType
    <3>1. ctx' = ctx \/ ctx' = [ctx EXCEPT !.stat = CLOSED, !.socket = "closed", !.inMap = FALSE]
      BY <1>4 DEF StopService
    <3>2. op' = op \/ op' = AbortOps(op)
      BY <1>4 DEF StopService
    <3>3. ctx' \in CtxType
      BY <1>t, <3>1, ClosedAndErased
    <3>4. op' \in OpType
      BY <1>t, <3>2, AbortOpsFacts
    <3> QED
      BY <3>3, <3>4
  <2>b. posted' \in Seq(LambdaType) /\ count' \in [BoundNames -> Nat]
    BY <1>t, <1>4 DEF StopService
  <2>c. pc' \in PcStates /\ phase' \in {"new", "created", "bound", "connected", "disconnected"}
    BY <1>t, <1>4 DEF StopService, PcStates, SetupPcs
  <2>d. wq' \in Seq(Datagrams) /\ cur' \in Datagrams /\ sent' \in Nat /\ rbuf' \in Seq(Nat)
    BY <1>t, <1>4 DEF StopService, dataVars
  <2>e. /\ proc' \in {"running", "stopped", "terminated"} /\ target' \in AllTargets
        /\ closer' \in [Closers -> {"lookup", "test", "set", "post", "done"}]
    BY <1>t, <1>4 DEF StopService, restVars
  <2> QED
    BY <2>a, <2>b, <2>c, <2>d, <2>e, TypesBack
<1>5. ASSUME NEW c \in Closers, Close(c) PROVE Types'
  <2>a. ctx' \in CtxType /\ op' \in OpType
    <3>1. ctx' = ctx \/ ctx' = [ctx EXCEPT !.stat = REQ_CLOSE]
      BY <1>5 DEF Close, CloserSet
    <3>2. op' = op
      BY <1>5 DEF Close
    <3> QED
      BY <1>t, <3>1, <3>2, CloseStored
  <2>b. posted' \in Seq(LambdaType) /\ count' \in [BoundNames -> Nat]
    <3>1. Lambda("close") \in LambdaType
      BY LambdaIsTyped DEF Lambdas
    <3>2. posted' = posted \/ posted' = Append(posted, Lambda("close"))
      BY <1>5 DEF Close, CloserSet
    <3>3. count' = count
      BY <1>5 DEF Close
    <3>4. posted' \in Seq(LambdaType)
      BY <1>p, <3>1, <3>2, AppendType
    <3> QED
      BY <1>t, <3>3, <3>4
  <2>c. pc' \in PcStates /\ phase' \in {"new", "created", "bound", "connected", "disconnected"}
    BY <1>t, <1>5 DEF Close, PcStates, SetupPcs
  <2>d. wq' \in Seq(Datagrams) /\ cur' \in Datagrams /\ sent' \in Nat /\ rbuf' \in Seq(Nat)
    BY <1>t, <1>5 DEF Close, dataVars
  <2>e. /\ proc' \in {"running", "stopped", "terminated"} /\ target' \in AllTargets
        /\ closer' \in [Closers -> {"lookup", "test", "set", "post", "done"}]
    BY <1>t, <1>o, <1>5, SMTT(30) DEF Close, CloserSet, Moves
  <2> QED
    BY <2>a, <2>b, <2>c, <2>d, <2>e, TypesBack
<1>6. CASE RunCreated
  <2>a. ctx' \in CtxType /\ op' \in OpType
    BY <1>t, <1>6 DEF RunCreated
  <2>b. posted' \in Seq(LambdaType) /\ count' \in [BoundNames -> Nat]
    BY <1>t, <1>o, <1>6, RunningFacts DEF RunCreated
  <2>c. pc' \in PcStates /\ phase' \in {"new", "created", "bound", "connected", "disconnected"}
    BY <1>t, <1>6 DEF RunCreated, PcStates, SetupPcs
  <2>d. wq' \in Seq(Datagrams) /\ cur' \in Datagrams /\ sent' \in Nat /\ rbuf' \in Seq(Nat)
    BY <1>t, <1>6 DEF RunCreated, dataVars
  <2>e. /\ proc' \in {"running", "stopped", "terminated"} /\ target' \in AllTargets
        /\ closer' \in [Closers -> {"lookup", "test", "set", "post", "done"}]
    BY <1>t, <1>6 DEF RunCreated, restVars
  <2> QED
    BY <2>a, <2>b, <2>c, <2>d, <2>e, TypesBack
<1>7. CASE RunConnect
  <2>a. ctx' \in CtxType /\ op' \in OpType
    BY <1>t, <1>o, <1>7, SocketReopened, PendingFacts DEF RunConnect
  <2>b. posted' \in Seq(LambdaType) /\ count' \in [BoundNames -> Nat]
    BY <1>t, <1>o, <1>7, RunningFacts DEF RunConnect
  <2>c. pc' \in PcStates /\ phase' \in {"new", "created", "bound", "connected", "disconnected"}
    BY <1>t, <1>7 DEF RunConnect, PcStates, SetupPcs
  <2>d. wq' \in Seq(Datagrams) /\ cur' \in Datagrams /\ sent' \in Nat /\ rbuf' \in Seq(Nat)
    BY <1>t, <1>7 DEF RunConnect, dataVars
  <2>e. /\ proc' \in {"running", "stopped", "terminated"} /\ target' \in AllTargets
        /\ closer' \in [Closers -> {"lookup", "test", "set", "post", "done"}]
    BY <1>t, <1>7 DEF RunConnect, restVars
  <2> QED
    BY <2>a, <2>b, <2>c, <2>d, <2>e, TypesBack
<1>8. CASE RunWrite
  <2>a. ctx' \in CtxType /\ op' \in OpType
    BY <1>t, <1>8 DEF RunWrite
  <2>b. posted' \in Seq(LambdaType) /\ count' \in [BoundNames -> Nat]
    BY <1>t, <1>o, <1>8, RunningFacts DEF RunWrite
  <2>c. pc' \in PcStates /\ phase' \in {"new", "created", "bound", "connected", "disconnected"}
    BY <1>t, <1>8 DEF RunWrite, PcStates, SetupPcs
  <2>d. wq' \in Seq(Datagrams) /\ cur' \in Datagrams /\ sent' \in Nat /\ rbuf' \in Seq(Nat)
    BY <1>t, <1>o, <1>8, RunningFacts DEF RunWrite, LambdaType, Running
  <2>e. /\ proc' \in {"running", "stopped", "terminated"} /\ target' \in AllTargets
        /\ closer' \in [Closers -> {"lookup", "test", "set", "post", "done"}]
    BY <1>t, <1>8 DEF RunWrite, restVars
  <2> QED
    BY <2>a, <2>b, <2>c, <2>d, <2>e, TypesBack
<1>9. CASE RunClose
  <2>a. ctx' \in CtxType /\ op' \in OpType
    <3>1. CASE ctx.stat = REQ_CLOSE /\ ctx.tasks # {}
      BY <1>t, <1>9, <3>1, AbortOpsFacts DEF RunClose
    <3>2. CASE ~(ctx.stat = REQ_CLOSE /\ ctx.tasks # {})
      <4>1. Ended(ctx, op)
        BY <1>t, <1>9, <3>2, EndFacts DEF RunClose
      <4> QED
        BY <1>t, <4>1, EndedTypes
    <3> QED
      BY <3>1, <3>2
  <2>b. posted' \in Seq(LambdaType) /\ count' \in [BoundNames -> Nat]
    BY <1>t, <1>o, <1>9, RunningFacts DEF RunClose
  <2>c. pc' \in PcStates /\ phase' \in {"new", "created", "bound", "connected", "disconnected"}
    <3>1. CASE ctx.stat = REQ_CLOSE /\ ctx.tasks # {}
      BY <1>t, <1>9, <3>1, AbortOpsFacts DEF RunClose
    <3>2. CASE ~(ctx.stat = REQ_CLOSE /\ ctx.tasks # {})
      <4>1. Ended(ctx, op)
        BY <1>t, <1>9, <3>2, EndFacts DEF RunClose
      <4> QED
        BY <1>t, <4>1, EndedTypes
    <3> QED
      BY <3>1, <3>2
  <2>d. wq' \in Seq(Datagrams) /\ cur' \in Datagrams /\ sent' \in Nat /\ rbuf' \in Seq(Nat)
    BY <1>t, <1>9 DEF RunClose, dataVars
  <2>e. /\ proc' \in {"running", "stopped", "terminated"} /\ target' \in AllTargets
        /\ closer' \in [Closers -> {"lookup", "test", "set", "post", "done"}]
    BY <1>t, <1>9 DEF RunClose, restVars
  <2> QED
    BY <2>a, <2>b, <2>c, <2>d, <2>e, TypesBack
<1>10. ASSUME NEW name \in {"exception", "event"}, RunPlain(name) PROVE Types'
  <2>a. ctx' \in CtxType /\ op' \in OpType
    BY <1>t, <1>10 DEF RunPlain
  <2>b. posted' \in Seq(LambdaType) /\ count' \in [BoundNames -> Nat]
    BY <1>t, <1>o, <1>10, RunningFacts DEF RunPlain
  <2>c. pc' \in PcStates /\ phase' \in {"new", "created", "bound", "connected", "disconnected"}
    BY <1>t, <1>10 DEF RunPlain, PcStates, SetupPcs
  <2>d. wq' \in Seq(Datagrams) /\ cur' \in Datagrams /\ sent' \in Nat /\ rbuf' \in Seq(Nat)
    BY <1>t, <1>10 DEF RunPlain, dataVars
  <2>e. /\ proc' \in {"running", "stopped", "terminated"} /\ target' \in AllTargets
        /\ closer' \in [Closers -> {"lookup", "test", "set", "post", "done"}]
    BY <1>t, <1>10 DEF RunPlain, restVars
  <2> QED
    BY <2>a, <2>b, <2>c, <2>d, <2>e, TypesBack
<1>11. CASE ResolveComplete
  <2>a. ctx' \in CtxType /\ op' \in OpType
    <3> DEFINE x == Start(ctx, "connect")
               o == Done("resolve")
    <3>1. x \in CtxType /\ o \in OpType
      BY <1>t, <1>o, StartFacts, DoneFacts
    <3> HIDE DEF x, o
    <3>2. CASE op["resolve"] = "ok"
      <4>1. ctx' = [x EXCEPT !.socket = "open"] /\ op' = Pending(o, "connect")
        BY <1>11, <3>2 DEF ResolveComplete, NothingMore, x, o
      <4> QED
        BY <1>o, <3>1, <4>1, SocketReopened, PendingFacts
    <3>3. CASE op["resolve"] # "ok"
      <4>1. ctx' = [ctx EXCEPT !.inMap = FALSE] /\ op' = o
        BY <1>11, <3>3 DEF ResolveComplete, NothingMore, o
      <4> QED
        BY <1>t, <3>1, <4>1, Erased
    <3> QED
      BY <3>2, <3>3
  <2>b. posted' \in Seq(LambdaType) /\ count' \in [BoundNames -> Nat]
    BY <1>t, <1>o, <1>11, ReportType DEF ResolveComplete
  <2>c. pc' \in PcStates /\ phase' \in {"new", "created", "bound", "connected", "disconnected"}
    BY <1>t, <1>o, <1>11 DEF ResolveComplete, NothingMore, PcStates
  <2>d. wq' \in Seq(Datagrams) /\ cur' \in Datagrams /\ sent' \in Nat /\ rbuf' \in Seq(Nat)
    BY <1>t, <1>11 DEF ResolveComplete, dataVars
  <2>e. /\ proc' \in {"running", "stopped", "terminated"} /\ target' \in AllTargets
        /\ closer' \in [Closers -> {"lookup", "test", "set", "post", "done"}]
    BY <1>t, <1>11 DEF ResolveComplete, restVars
  <2> QED
    BY <2>a, <2>b, <2>c, <2>d, <2>e, TypesBack
<1>12. CASE ConnectComplete
  <2>a. ctx' \in CtxType /\ op' \in OpType
    <3> DEFINE x == Cleared(ctx, "connect")
    <3>1. x \in CtxType /\ Done("connect") \in OpType
      BY <1>t, <1>o, ClearedFacts, DoneFacts
    <3> HIDE DEF x
    <3>2. ctx' = x \/ ctx' = [x EXCEPT !.inMap = FALSE]
      BY <1>12 DEF ConnectComplete, x
    <3>3. op' = Done("connect")
      BY <1>12 DEF ConnectComplete
    <3> QED
      BY <3>1, <3>2, <3>3, Erased
  <2>b. posted' \in Seq(LambdaType) /\ count' \in [BoundNames -> Nat]
    <3>1. posted' = posted \/ posted' = Report(TRUE, posted)
      BY <1>12 DEF ConnectComplete
    <3>2. count' = count
      BY <1>12 DEF ConnectComplete
    <3> QED
      BY <1>t, <3>1, <3>2, ReportType
  <2>c. pc' \in PcStates /\ phase' \in {"new", "created", "bound", "connected", "disconnected"}
    BY <1>t, <1>12 DEF ConnectComplete, PcStates, SetupPcs
  <2>d. wq' \in Seq(Datagrams) /\ cur' \in Datagrams /\ sent' \in Nat /\ rbuf' \in Seq(Nat)
    BY <1>t, <1>12 DEF ConnectComplete, dataVars
  <2>e. /\ proc' \in {"running", "stopped", "terminated"} /\ target' \in AllTargets
        /\ closer' \in [Closers -> {"lookup", "test", "set", "post", "done"}]
    BY <1>t, <1>12 DEF ConnectComplete, restVars
  <2> QED
    BY <2>a, <2>b, <2>c, <2>d, <2>e, TypesBack
<1>13. CASE ReadComplete
  <2>a. ctx' \in CtxType /\ op' \in OpType
    BY <1>t, <1>o, <1>13, ClearedFacts, DoneFacts DEF ReadComplete
  <2>b. posted' \in Seq(LambdaType) /\ count' \in [BoundNames -> Nat]
    BY <1>t, <1>13 DEF ReadComplete
  <2>c. pc' \in PcStates /\ phase' \in {"new", "created", "bound", "connected", "disconnected"}
    BY <1>t, <1>13 DEF ReadComplete, PcStates, SetupPcs
  <2>d. wq' \in Seq(Datagrams) /\ cur' \in Datagrams /\ sent' \in Nat /\ rbuf' \in Seq(Nat)
    <3>1. count["read"] \in Nat
      BY <1>t DEF BoundNames
    <3> QED
      BY <1>t, <1>13, <3>1 DEF ReadComplete
  <2>e. /\ proc' \in {"running", "stopped", "terminated"} /\ target' \in AllTargets
        /\ closer' \in [Closers -> {"lookup", "test", "set", "post", "done"}]
    BY <1>t, <1>13 DEF ReadComplete, restVars
  <2> QED
    BY <2>a, <2>b, <2>c, <2>d, <2>e, TypesBack
<1>14. CASE ReadFailed
  <2>a. ctx' \in CtxType /\ op' \in OpType
    <3> DEFINE x == Cleared(ctx, "read")
               o == Done("read")
    <3>1. x \in CtxType /\ o \in OpType
      BY <1>t, <1>o, ClearedFacts, DoneFacts
    <3> HIDE DEF x, o
    <3>2. CASE ctx.connected
      <4> DEFINE v == IF x.stat < DISCONNECTED THEN DISCONNECTED ELSE x.stat
      <4>1. v \in CREATED .. CLOSED
        BY <3>1 DEF CtxType
      <4>2. op' = o /\ ctx' = [x EXCEPT !.connected = FALSE, !.stat = v]
        BY <1>14, <3>2 DEF ReadFailed, x, o
      <4> HIDE DEF v
      <4> QED
        BY <3>1, <4>1, <4>2, CutOff
    <3>3. CASE ~ctx.connected
      <4>1. Release(x, o)
        BY <1>14, <3>3 DEF ReadFailed, x, o
      <4> QED
        BY <3>1, <4>1, ReleaseFacts
    <3> QED
      BY <3>2, <3>3
  <2>b. posted' \in Seq(LambdaType) /\ count' \in [BoundNames -> Nat]
    BY <1>t, <1>o, <1>14, ReportType DEF ReadFailed
  <2>c. pc' \in PcStates /\ phase' \in {"new", "created", "bound", "connected", "disconnected"}
    BY <1>t, <1>o, <1>14 DEF ReadFailed, Release, PcStates
  <2>d. wq' \in Seq(Datagrams) /\ cur' \in Datagrams /\ sent' \in Nat /\ rbuf' \in Seq(Nat)
    BY <1>t, <1>14 DEF ReadFailed, dataVars
  <2>e. /\ proc' \in {"running", "stopped", "terminated"} /\ target' \in AllTargets
        /\ closer' \in [Closers -> {"lookup", "test", "set", "post", "done"}]
    BY <1>t, <1>14 DEF ReadFailed, restVars
  <2> QED
    BY <2>a, <2>b, <2>c, <2>d, <2>e, TypesBack
<1>15. CASE WriteComplete
  <2>a. ctx' \in CtxType /\ op' \in OpType
    <3> DEFINE x == Cleared(ctx, "write")
               o == Done("write")
    <3>1. x \in CtxType /\ o \in OpType
      BY <1>t, <1>o, ClearedFacts, DoneFacts
    <3> HIDE DEF x, o
    <3>2. CASE op["write"] = "ok" /\ Sendable
      BY <1>t, <1>15, <3>1, <3>2 DEF WriteComplete, x, o, PcStates
    <3>3. CASE ~(op["write"] = "ok" /\ Sendable)
      <4>1. HandleReqClose(x, o)
        BY <1>15, <3>3 DEF WriteComplete, x, o
      <4> QED
        BY <3>1, <4>1, EndFacts, EndedTypes
    <3> QED
      BY <3>2, <3>3
  <2>b. posted' \in Seq(LambdaType) /\ count' \in [BoundNames -> Nat]
    BY <1>t, <1>o, <1>15, ReportType DEF WriteComplete
  <2>c. pc' \in PcStates /\ phase' \in {"new", "created", "bound", "connected", "disconnected"}
    <3> DEFINE x == Cleared(ctx, "write")
               o == Done("write")
    <3>1. x \in CtxType /\ o \in OpType
      BY <1>t, <1>o, ClearedFacts, DoneFacts
    <3> HIDE DEF x, o
    <3>2. CASE op["write"] = "ok" /\ Sendable
      BY <1>t, <1>15, <3>1, <3>2 DEF WriteComplete, x, o, PcStates
    <3>3. CASE ~(op["write"] = "ok" /\ Sendable)
      <4>1. HandleReqClose(x, o)
        BY <1>15, <3>3 DEF WriteComplete, x, o
      <4> QED
        BY <3>1, <4>1, EndFacts, EndedTypes
    <3> QED
      BY <3>2, <3>3
  <2>d. wq' \in Seq(Datagrams) /\ cur' \in Datagrams /\ sent' \in Nat /\ rbuf' \in Seq(Nat)
    <3>1. wq # <<>> => Tail(wq) \in Seq(Datagrams)
      BY <1>t
    <3>2. wq' = Tail(wq)
      BY <1>15 DEF WriteComplete, RemoveSentData
    <3>3. wq # <<>>
      BY <1>15 DEF WriteComplete, Completing, Completed, SendingQueued
    <3> QED
      BY <1>t, <1>15, <3>1, <3>2, <3>3 DEF WriteComplete
  <2>e. /\ proc' \in {"running", "stopped", "terminated"} /\ target' \in AllTargets
        /\ closer' \in [Closers -> {"lookup", "test", "set", "post", "done"}]
    BY <1>t, <1>15 DEF WriteComplete, restVars
  <2> QED
    BY <2>a, <2>b, <2>c, <2>d, <2>e, TypesBack
<1>16. CASE BoundTest
  <2>a. ctx' \in CtxType /\ op' \in OpType
    <3>1. op' = op \/ op' = Pending(op, "resolve")
      BY <1>16 DEF BoundTest, StartConnect
    <3>2. ctx' = ctx
      BY <1>16 DEF BoundTest
    <3> QED
      BY <1>t, <1>o, <3>1, <3>2, PendingFacts, ZenonT(40)
  <2>b. posted' \in Seq(LambdaType) /\ count' \in [BoundNames -> Nat]
    <3>1. Lambda("connect") \in LambdaType
      BY LambdaIsTyped DEF Lambdas
    <3>2. posted' = posted \/ posted' = Append(posted, Lambda("connect"))
      BY <1>16 DEF BoundTest, StartConnect
    <3>3. count' = count
      BY <1>16 DEF BoundTest
    <3>4. posted' \in Seq(LambdaType)
      BY <1>p, <3>1, <3>2, AppendType
    <3> QED
      BY <1>t, <3>3, <3>4
  <2>c. pc' \in PcStates /\ phase' \in {"new", "created", "bound", "connected", "disconnected"}
    BY <1>t, <1>16 DEF BoundTest, PcStates, SetupPcs
  <2>d. wq' \in Seq(Datagrams) /\ cur' \in Datagrams /\ sent' \in Nat /\ rbuf' \in Seq(Nat)
    BY <1>t, <1>16 DEF BoundTest, dataVars
  <2>e. /\ proc' \in {"running", "stopped", "terminated"} /\ target' \in AllTargets
        /\ closer' \in [Closers -> {"lookup", "test", "set", "post", "done"}]
    BY <1>t, <1>16 DEF BoundTest, restVars
  <2> QED
    BY <2>a, <2>b, <2>c, <2>d, <2>e, TypesBack
<1>17. CASE BoundSet
  <2>a. ctx' \in CtxType /\ op' \in OpType
    BY <1>t, <1>o, <1>17, BoundStored DEF BoundSet
  <2>b. posted' \in Seq(LambdaType) /\ count' \in [BoundNames -> Nat]
    BY <1>t, <1>17 DEF BoundSet
  <2>c. pc' \in PcStates /\ phase' \in {"new", "created", "bound", "connected", "disconnected"}
    BY <1>t, <1>17 DEF BoundSet, PcStates, SetupPcs
  <2>d. wq' \in Seq(Datagrams) /\ cur' \in Datagrams /\ sent' \in Nat /\ rbuf' \in Seq(Nat)
    BY <1>t, <1>17 DEF BoundSet, dataVars
  <2>e. /\ proc' \in {"running", "stopped", "terminated"} /\ target' \in AllTargets
        /\ closer' \in [Closers -> {"lookup", "test", "set", "post", "done"}]
    BY <1>t, <1>17 DEF BoundSet, restVars
  <2> QED
    BY <2>a, <2>b, <2>c, <2>d, <2>e, TypesBack
<1>18. CASE ConnectedSet
  <2>a. ctx' \in CtxType /\ op' \in OpType
    BY <1>t, <1>o, <1>18, ConnectedStored DEF ConnectedSet
  <2>b. posted' \in Seq(LambdaType) /\ count' \in [BoundNames -> Nat]
    BY <1>t, <1>18 DEF ConnectedSet
  <2>c. pc' \in PcStates /\ phase' \in {"new", "created", "bound", "connected", "disconnected"}
    BY <1>t, <1>18 DEF ConnectedSet, PcStates, SetupPcs
  <2>d. wq' \in Seq(Datagrams) /\ cur' \in Datagrams /\ sent' \in Nat /\ rbuf' \in Seq(Nat)
    BY <1>t, <1>18 DEF ConnectedSet, dataVars
  <2>e. /\ proc' \in {"running", "stopped", "terminated"} /\ target' \in AllTargets
        /\ closer' \in [Closers -> {"lookup", "test", "set", "post", "done"}]
    BY <1>t, <1>18 DEF ConnectedSet, restVars
  <2> QED
    BY <2>a, <2>b, <2>c, <2>d, <2>e, TypesBack
<1>19. ASSUME NEW thrown \in BOOLEAN, CreatedReturn(thrown) PROVE Types'
  <2>a. ctx' \in CtxType /\ op' \in OpType
    BY <1>t, <1>o, <1>19, OpenStored DEF CreatedReturn
  <2>b. posted' \in Seq(LambdaType) /\ count' \in [BoundNames -> Nat]
    BY <1>t, <1>o, <1>19, CallbackPosts DEF CreatedReturn
  <2>c. pc' \in PcStates /\ phase' \in {"new", "created", "bound", "connected", "disconnected"}
    BY <1>t, <1>19 DEF CreatedReturn, PcStates, SetupPcs
  <2>d. wq' \in Seq(Datagrams) /\ cur' \in Datagrams /\ sent' \in Nat /\ rbuf' \in Seq(Nat)
    BY <1>t, <1>19 DEF CreatedReturn, dataVars
  <2>e. /\ proc' \in {"running", "stopped", "terminated"} /\ target' \in AllTargets
        /\ closer' \in [Closers -> {"lookup", "test", "set", "post", "done"}]
    BY <1>t, <1>19 DEF CreatedReturn, restVars
  <2> QED
    BY <2>a, <2>b, <2>c, <2>d, <2>e, TypesBack
<1>20. ASSUME NEW thrown \in BOOLEAN, BoundReturn(thrown) PROVE Types'
  <2>a. ctx' \in CtxType /\ op' \in OpType
    <3>1. op' = op \/ op' = Pending(op, "read") \/ op' = Pending(op, "resolve")
      BY <1>20 DEF BoundReturn, NothingMore
    <3>2. ctx' = ctx \/ ctx' = Start(ctx, "read")
      BY <1>20 DEF BoundReturn, NothingMore
    <3>p. Pending(op, "read") \in OpType /\ Pending(op, "resolve") \in OpType
      BY <1>t, <1>o, PendingFacts
    <3>3. op' \in OpType
      BY <1>t, <3>1, <3>p
    <3>4. ctx' \in CtxType
      BY <1>t, <1>o, <3>2, StartFacts
    <3> QED
      BY <3>3, <3>4
  <2>b. posted' \in Seq(LambdaType) /\ count' \in [BoundNames -> Nat]
    <3>1. Lambda("connect") \in LambdaType
      BY LambdaIsTyped DEF Lambdas
    <3>2. Report(thrown, posted) \in Seq(LambdaType)
      BY <1>t, ReportType
    <3>3. posted' = Report(thrown, posted) \/ posted' = Append(Report(thrown, posted), Lambda("connect"))
      BY <1>20 DEF BoundReturn
    <3>4. count' \in [BoundNames -> Nat]
      BY <1>20, ThrowsFacts DEF BoundReturn
    <3> QED
      BY <3>1, <3>2, <3>3, <3>4
  <2>c. pc' \in PcStates /\ phase' \in {"new", "created", "bound", "connected", "disconnected"}
    BY <1>t, <1>o, <1>20 DEF BoundReturn, NothingMore, PcStates
  <2>d. wq' \in Seq(Datagrams) /\ cur' \in Datagrams /\ sent' \in Nat /\ rbuf' \in Seq(Nat)
    BY <1>t, <1>20 DEF BoundReturn, dataVars
  <2>e. /\ proc' \in {"running", "stopped", "terminated"} /\ target' \in AllTargets
        /\ closer' \in [Closers -> {"lookup", "test", "set", "post", "done"}]
    BY <1>t, <1>20 DEF BoundReturn, restVars
  <2> QED
    BY <2>a, <2>b, <2>c, <2>d, <2>e, TypesBack
<1>21. ASSUME NEW thrown \in BOOLEAN, ConnectedReturn(thrown) PROVE Types'
  <2>a. ctx' \in CtxType /\ op' \in OpType
    BY <1>t, <1>o, <1>21, ReadOrCloseTypes DEF ConnectedReturn
  <2>b. posted' \in Seq(LambdaType) /\ count' \in [BoundNames -> Nat]
    BY <1>t, <1>o, <1>21, CallbackPosts DEF ConnectedReturn
  <2>c. pc' \in PcStates /\ phase' \in {"new", "created", "bound", "connected", "disconnected"}
    BY <1>t, <1>o, <1>21, ReadOrCloseTypes DEF ConnectedReturn
  <2>d. wq' \in Seq(Datagrams) /\ cur' \in Datagrams /\ sent' \in Nat /\ rbuf' \in Seq(Nat)
    BY <1>t, <1>21 DEF ConnectedReturn, dataVars
  <2>e. /\ proc' \in {"running", "stopped", "terminated"} /\ target' \in AllTargets
        /\ closer' \in [Closers -> {"lookup", "test", "set", "post", "done"}]
    BY <1>t, <1>21 DEF ConnectedReturn, restVars
  <2> QED
    BY <2>a, <2>b, <2>c, <2>d, <2>e, TypesBack
<1>22. ASSUME NEW thrown \in BOOLEAN, ReadReturn(thrown) PROVE Types'
  <2>a. ctx' \in CtxType /\ op' \in OpType
    BY <1>t, <1>o, <1>22, ReadOrCloseTypes DEF ReadReturn
  <2>b. posted' \in Seq(LambdaType) /\ count' \in [BoundNames -> Nat]
    BY <1>t, <1>o, <1>22, CallbackPosts DEF ReadReturn
  <2>c. pc' \in PcStates /\ phase' \in {"new", "created", "bound", "connected", "disconnected"}
    BY <1>t, <1>o, <1>22, ReadOrCloseTypes DEF ReadReturn
  <2>d. wq' \in Seq(Datagrams) /\ cur' \in Datagrams /\ sent' \in Nat /\ rbuf' \in Seq(Nat)
    <3>1. wq' = wq /\ cur' = cur /\ sent' = sent
      BY <1>22 DEF ReadReturn
    <3>2. rbuf' = rbuf \/ rbuf' = <<>>
      BY <1>22 DEF ReadReturn, AfterRead
    <3>3. rbuf \in Seq(Nat) /\ <<>> \in Seq(Nat)
      BY <1>t
    <3>4. rbuf' \in Seq(Nat)
      BY <3>2, <3>3
    <3> QED
      BY <1>t, <3>1, <3>4
  <2>e. /\ proc' \in {"running", "stopped", "terminated"} /\ target' \in AllTargets
        /\ closer' \in [Closers -> {"lookup", "test", "set", "post", "done"}]
    BY <1>t, <1>22 DEF ReadReturn, restVars
  <2> QED
    BY <2>a, <2>b, <2>c, <2>d, <2>e, TypesBack
<1>23. ASSUME NEW thrown \in BOOLEAN, WrittenReturn(thrown) PROVE Types'
  <2>a. ctx' \in CtxType /\ op' \in OpType
    <3>1. CASE Sendable /\ wq # <<>>
      BY <1>t, <1>o, <1>23, <3>1, StartFacts, PendingFacts DEF WrittenReturn, NothingMore, PcStates
    <3>2. CASE ~(Sendable /\ wq # <<>>)
      <4>1. HandleReqClose(ctx, op)
        BY <1>23, <3>2 DEF WrittenReturn
      <4> QED
        BY <1>t, <4>1, EndFacts, EndedTypes
    <3> QED
      BY <3>1, <3>2
  <2>b. posted' \in Seq(LambdaType) /\ count' \in [BoundNames -> Nat]
    BY <1>t, <1>o, <1>23, CallbackPosts DEF WrittenReturn
  <2>c. pc' \in PcStates /\ phase' \in {"new", "created", "bound", "connected", "disconnected"}
    <3>1. CASE Sendable /\ wq # <<>>
      BY <1>t, <1>o, <1>23, <3>1, StartFacts, PendingFacts DEF WrittenReturn, NothingMore, PcStates
    <3>2. CASE ~(Sendable /\ wq # <<>>)
      <4>1. HandleReqClose(ctx, op)
        BY <1>23, <3>2 DEF WrittenReturn
      <4> QED
        BY <1>t, <4>1, EndFacts, EndedTypes
    <3> QED
      BY <3>1, <3>2
  <2>d. wq' \in Seq(Datagrams) /\ cur' \in Datagrams /\ sent' \in Nat /\ rbuf' \in Seq(Nat)
    <3>1. wq # <<>> => Head(wq)[1] \in Nat
      BY <1>t DEF Datagrams
    <3> QED
      BY <1>t, <1>23, <3>1 DEF WrittenReturn
  <2>e. /\ proc' \in {"running", "stopped", "terminated"} /\ target' \in AllTargets
        /\ closer' \in [Closers -> {"lookup", "test", "set", "post", "done"}]
    BY <1>t, <1>23 DEF WrittenReturn, restVars
  <2> QED
    BY <2>a, <2>b, <2>c, <2>d, <2>e, TypesBack
<1>24. ASSUME NEW thrown \in BOOLEAN, DisconnectedReturn(thrown) PROVE Types'
  <2>a. ctx' \in CtxType /\ op' \in OpType
    BY <1>t, <1>o, <1>24, ReleaseFacts DEF DisconnectedReturn
  <2>b. posted' \in Seq(LambdaType) /\ count' \in [BoundNames -> Nat]
    BY <1>t, <1>o, <1>24, CallbackPosts DEF DisconnectedReturn
  <2>c. pc' \in PcStates /\ phase' \in {"new", "created", "bound", "connected", "disconnected"}
    BY <1>t, <1>o, <1>24 DEF DisconnectedReturn, Release, PcStates
  <2>d. wq' \in Seq(Datagrams) /\ cur' \in Datagrams /\ sent' \in Nat /\ rbuf' \in Seq(Nat)
    BY <1>t, <1>24 DEF DisconnectedReturn, dataVars
  <2>e. /\ proc' \in {"running", "stopped", "terminated"} /\ target' \in AllTargets
        /\ closer' \in [Closers -> {"lookup", "test", "set", "post", "done"}]
    BY <1>t, <1>24 DEF DisconnectedReturn, restVars
  <2> QED
    BY <2>a, <2>b, <2>c, <2>d, <2>e, TypesBack
<1>25. ASSUME NEW thrown \in BOOLEAN, PlainReturn(thrown) PROVE Types'
  <2>a. ctx' \in CtxType /\ op' \in OpType
    BY <1>t, <1>o, <1>25 DEF PlainReturn, NothingMore
  <2>b. posted' \in Seq(LambdaType) /\ count' \in [BoundNames -> Nat]
    BY <1>t, <1>o, <1>25, CallbackPosts DEF PlainReturn
  <2>c. pc' \in PcStates /\ phase' \in {"new", "created", "bound", "connected", "disconnected"}
    BY <1>t, <1>o, <1>25 DEF PlainReturn, NothingMore, PcStates
  <2>d. wq' \in Seq(Datagrams) /\ cur' \in Datagrams /\ sent' \in Nat /\ rbuf' \in Seq(Nat)
    BY <1>t, <1>25 DEF PlainReturn, dataVars
  <2>e. /\ proc' \in {"running", "stopped", "terminated"} /\ target' \in AllTargets
        /\ closer' \in [Closers -> {"lookup", "test", "set", "post", "done"}]
    BY <1>t, <1>25 DEF PlainReturn, restVars
  <2> QED
    BY <2>a, <2>b, <2>c, <2>d, <2>e, TypesBack
<1>26. ASSUME NEW thrown \in BOOLEAN, NEW serialized \in BOOLEAN, WriteReturn(thrown, serialized)
       PROVE  Types'
  <2>a. ctx' \in CtxType /\ op' \in OpType
    <3>1. ctx' = ctx \/ ctx' = Start(ctx, "write")
      BY <1>26 DEF WriteReturn, NothingMore
    <3>2. op' = op \/ op' = Pending(op, "write")
      BY <1>26 DEF WriteReturn, NothingMore
    <3> QED
      <4>1. Pending(op, "write") \in OpType /\ Start(ctx, "write") \in CtxType
        BY <1>t, <1>o, PendingFacts, StartFacts
      <4> QED
        BY <1>t, <3>1, <3>2, <4>1
  <2>b. posted' \in Seq(LambdaType) /\ count' \in [BoundNames -> Nat]
    <3> DEFINE q == Report(thrown, posted)
    <3>1. q \in Seq(LambdaType)
      BY <1>t, ReportType
    <3>2. posted' = q \/ posted' = Report(TRUE, q)
      BY <1>26 DEF WriteReturn
    <3> HIDE DEF q
    <3>3. posted' \in Seq(LambdaType)
      BY <3>1, <3>2, ReportType
    <3>4. count' \in [BoundNames -> Nat]
      BY <1>26, ThrowsFacts DEF WriteReturn
    <3> QED
      BY <3>3, <3>4
  <2>c. pc' \in PcStates /\ phase' \in {"new", "created", "bound", "connected", "disconnected"}
    BY <1>t, <1>o, <1>26 DEF WriteReturn, NothingMore, PcStates
  <2>d. wq' \in Seq(Datagrams) /\ cur' \in Datagrams /\ sent' \in Nat /\ rbuf' \in Seq(Nat)
    <3>1. cur[1] \in Nat /\ NoDatagram \in Datagrams
      BY <1>t DEF Datagrams, NoDatagram
    <3>2. (wq' = Append(wq, cur) \/ wq' = wq) /\ cur' = NoDatagram /\ rbuf' = rbuf
      BY <1>26 DEF WriteReturn
    <3>3. sent' = cur[1] \/ sent' = sent
      BY <1>26 DEF WriteReturn
    <3>4. wq' \in Seq(Datagrams)
      BY <1>w, <3>2, AppendType
    <3> QED
      BY <1>t, <3>1, <3>2, <3>3, <3>4
  <2>e. /\ proc' \in {"running", "stopped", "terminated"} /\ target' \in AllTargets
        /\ closer' \in [Closers -> {"lookup", "test", "set", "post", "done"}]
    BY <1>t, <1>26 DEF WriteReturn, restVars
  <2> QED
    BY <2>a, <2>b, <2>c, <2>d, <2>e, TypesBack
<1>27. ASSUME NEW o \in Ops, NetComplete(o) PROVE Types'
  <2>a. ctx' \in CtxType /\ op' \in OpType
    BY <1>t, <1>o, <1>27 DEF NetComplete, OpType, OpStates, Completed
  <2>b. posted' \in Seq(LambdaType) /\ count' \in [BoundNames -> Nat]
    <3>1. "read" \in BoundNames
      BY DEF BoundNames
    <3>2. (o = "read" /\ Use("read")) \/ UNCHANGED count
      BY <1>27 DEF NetComplete
    <3> QED
      BY <1>t, <1>27, <3>1, <3>2, UseFacts DEF NetComplete
  <2>c. pc' \in PcStates /\ phase' \in {"new", "created", "bound", "connected", "disconnected"}
    BY <1>t, <1>27 DEF NetComplete, PcStates, SetupPcs
  <2>d. wq' \in Seq(Datagrams) /\ cur' \in Datagrams /\ sent' \in Nat /\ rbuf' \in Seq(Nat)
    BY <1>t, <1>27 DEF NetComplete, dataVars
  <2>e. /\ proc' \in {"running", "stopped", "terminated"} /\ target' \in AllTargets
        /\ closer' \in [Closers -> {"lookup", "test", "set", "post", "done"}]
    BY <1>t, <1>27 DEF NetComplete, restVars
  <2> QED
    BY <2>a, <2>b, <2>c, <2>d, <2>e, TypesBack
<1>28. CASE UNCHANGED vars
  BY <1>t, <1>28, TypesBack DEF vars
<1> QED
  BY <1>1, <1>2, <1>3, <1>4, <1>5, <1>6, <1>7, <1>8, <1>9, <1>10, <1>11, <1>12, <1>13,
     <1>14, <1>15, <1>16, <1>17, <1>18, <1>19, <1>20, <1>21, <1>22, <1>23, <1>24, <1>25,
     <1>26, <1>27, <1>28
  DEF Next, StrandServes, StrandGoesOn, RunPosted

-----------------------------------------------------------------------------
(* What is posted to the strand.                                            *)

\* The queue of the strand loses its first d lambdas and gains lambdas called N.
Posts(d, N) ==
  /\ \A i \in 1 .. Len(posted') :
       \/ i + d \in 1 .. Len(posted) /\ posted'[i] = posted[i + d]
       \/ posted'[i][1] \in N
  /\ \A i \in 1 .. Len(posted) : i > d => i - d \in 1 .. Len(posted') /\ posted'[i - d] = posted[i]

\* what handlers and closers post
Common == {"exception", "event", "close"}

\* A step that posts nothing ...
LEMMA PostsNothing ==
  ASSUME Types, posted' = posted PROVE Posts(0, Common)
BY TypeFacts DEF Posts

\* ... an exception lambda, or none ...
LEMMA PostsReport ==
  ASSUME Types, NEW b \in BOOLEAN, posted' = Report(b, posted)
  PROVE  Posts(0, Common)
<1>t. posted \in Seq(LambdaType)
  BY TypeFacts
<1>1. CASE b = TRUE
  <2>1. Lambda("exception") \in LambdaType /\ Lambda("exception")[1] = "exception"
    BY LambdaIsTyped DEF Lambdas
  <2>2. posted' = Append(posted, Lambda("exception"))
    BY <1>1 DEF Report
  <2> QED
    BY <1>t, <2>1, <2>2 DEF Posts, Common
<1>2. CASE b = FALSE
  BY <1>t, <1>2 DEF Report, Posts
<1> QED
  BY <1>1, <1>2

\* ... one lambda at the end of the queue.
LEMMA PostsOne ==
  ASSUME Types, NEW l \in LambdaType, posted' = Append(posted, l) PROVE Posts(0, {l[1]})
BY TypeFacts DEF Posts

\* Two lambdas are posted one after the other.
LEMMA PostsTwo ==
  ASSUME Types, NEW b \in BOOLEAN, NEW l \in LambdaType, posted' = Append(Report(b, posted), l)
  PROVE  Posts(0, {"exception", l[1]})
<1>1. posted \in Seq(LambdaType)
  BY TypeFacts
<1>2. CASE b = TRUE
  <2>1. Lambda("exception") \in LambdaType /\ Lambda("exception")[1] = "exception"
    BY LambdaIsTyped DEF Lambdas
  <2> DEFINE q == Append(posted, Lambda("exception"))
  <2>2. posted' = Append(q, l)
    BY <1>2 DEF Report
  <2>3. /\ q \in Seq(LambdaType) /\ Len(q) = Len(posted) + 1 /\ q[Len(posted) + 1][1] = "exception"
        /\ \A i \in 1 .. Len(posted) : q[i] = posted[i]
    BY <1>1, <2>1
  <2> HIDE DEF q
  <2>4. /\ Len(posted') = Len(q) + 1 /\ posted'[Len(q) + 1] = l
        /\ \A i \in 1 .. Len(q) : posted'[i] = q[i]
    BY <2>2, <2>3
  <2>5. Len(posted) \in Nat
    BY <1>1
  <2> QED
    BY <2>3, <2>4, <2>5 DEF Posts
<1>3. CASE b = FALSE
  <2>1. posted' = Append(posted, l)
    BY <1>3 DEF Report
  <2> QED
    BY <1>1, <2>1 DEF Posts
<1> QED
  BY <1>2, <1>3

\* Running a lambda takes it from the front of the queue.
LEMMA PostsRunning ==
  ASSUME Types, NEW name, Running(name)
  PROVE  Posts(1, {}) /\ posted # <<>> /\ posted[1][1] = name
<1>1. posted \in Seq(LambdaType) /\ posted # <<>> /\ posted' = Tail(posted)
  BY TypeFacts, RunningFacts
<1>2. Posts(1, {})
  BY <1>1 DEF Posts
<1> QED
  BY <1>1, <1>2, RunningFacts

\* How the queue of the strand changes.
Posting ==
  \/ Posts(0, Common)
  \/ (\E addressed \in BOOLEAN : WriteChannel(addressed)) /\ Posts(0, {"write"})
  \/ /\ BoundTest \/ \E thrown \in BOOLEAN : BoundReturn(thrown)
     /\ Posts(0, {"exception", "connect"})
  \/ RunPosted /\ posted # <<>> /\ Posts(1, {})

\* Every step changes the queue in one of these ways.
LEMMA PostingSteps ==
  ASSUME Types, [Next]_vars PROVE Posting
<1>1. ASSUME NEW a \in BOOLEAN, WriteChannel(a) PROVE Posting
  <2>1. count["write"] \in Nat
    BY TypeFacts DEF BoundNames
  <2> DEFINE l == <<"write", <<count["write"] + 1, a>>>>
  <2>2. l \in LambdaType /\ l[1] = "write"
    BY <2>1 DEF LambdaType, Lambdas, Datagrams
  <2>3. posted' = Append(posted, l)
    BY <1>1 DEF WriteChannel
  <2> HIDE DEF l
  <2>4. Posts(0, {"write"})
    BY <2>2, <2>3, PostsOne
  <2> QED
    BY <1>1, <2>4 DEF Posting
<1>2. CASE FireUserEvent
  <2>1. Lambda("event") \in LambdaType /\ Lambda("event")[1] = "event"
    BY LambdaIsTyped DEF Lambdas
  <2>2. posted' = Append(posted, Lambda("event"))
    BY <1>2 DEF FireUserEvent
  <2>3. Posts(0, {"event"})
    BY <2>1, <2>2, PostsOne
  <2> QED
    BY <2>3 DEF Posts, Common, Posting
<1>3. CASE CallbackClose
  <2>1. Lambda("close") \in LambdaType /\ Lambda("close")[1] = "close"
    BY LambdaIsTyped DEF Lambdas
  <2>2. posted' = Append(posted, Lambda("close"))
    BY <1>3 DEF CallbackClose
  <2>3. Posts(0, {"close"})
    BY <2>1, <2>2, PostsOne
  <2> QED
    BY <2>3 DEF Posts, Common, Posting
<1>4. CASE StopService
  BY <1>4, PostsNothing DEF StopService, Posting
<1>5. ASSUME NEW c \in Closers, Close(c) PROVE Posting
  <2>1. Lambda("close") \in LambdaType /\ Lambda("close")[1] = "close"
    BY LambdaIsTyped DEF Lambdas
  <2>2. CASE posted' = Append(posted, Lambda("close"))
    <3>1. Posts(0, {"close"})
      BY <2>1, <2>2, PostsOne
    <3> QED
      BY <3>1 DEF Posts, Common, Posting
  <2>3. CASE posted' = posted
    BY <2>3, PostsNothing DEF Posting
  <2> QED
    BY <1>5, <2>2, <2>3 DEF Close, CloserSet
<1>6. CASE RunCreated
  BY <1>6, PostsRunning DEF RunCreated, RunPosted, Posting
<1>7. CASE RunConnect
  BY <1>7, PostsRunning DEF RunConnect, RunPosted, Posting
<1>8. CASE RunWrite
  BY <1>8, PostsRunning DEF RunWrite, RunPosted, Posting
<1>9. CASE RunClose
  BY <1>9, PostsRunning DEF RunClose, RunPosted, Posting
<1>10. ASSUME NEW name \in {"exception", "event"}, RunPlain(name) PROVE Posting
  BY <1>10, PostsRunning DEF RunPlain, RunPosted, Posting
<1>11. CASE ResolveComplete
  <2>1. posted' = posted \/ posted' = Report(TRUE, posted)
    BY <1>11 DEF ResolveComplete
  <2> QED
    BY <2>1, PostsReport, PostsNothing DEF Posting
<1>12. CASE ConnectComplete
  <2>1. posted' = posted \/ posted' = Report(TRUE, posted)
    BY <1>12 DEF ConnectComplete
  <2> QED
    BY <2>1, PostsReport, PostsNothing DEF Posting
<1>13. CASE ReadComplete
  BY <1>13, PostsNothing DEF ReadComplete, Posting
<1>14. CASE ReadFailed
  <2>1. posted' = Report(op["read"] = "failed", posted) /\ (op["read"] = "failed") \in BOOLEAN
    BY <1>14 DEF ReadFailed
  <2> QED
    BY <2>1, PostsReport DEF Posting
<1>15. CASE WriteComplete
  <2>1. posted' = posted \/ posted' = Report(op["write"] # "ok", posted)
    BY <1>15 DEF WriteComplete
  <2>2. (op["write"] # "ok") \in BOOLEAN
    OBVIOUS
  <2> QED
    BY <2>1, <2>2, PostsReport, PostsNothing DEF Posting
<1>16. CASE BoundTest
  <2>1. CASE posted' = posted
    BY <2>1, PostsNothing DEF Posting
  <2>2. CASE posted' = Append(posted, Lambda("connect"))
    <3>1. Lambda("connect") \in LambdaType /\ Lambda("connect")[1] = "connect"
      BY LambdaIsTyped DEF Lambdas
    <3>2. Posts(0, {"connect"})
      BY <2>2, <3>1, PostsOne
    <3>3. Posts(0, {"exception", "connect"})
      BY <3>2 DEF Posts
    <3> QED
      BY <1>16, <3>3 DEF Posting
  <2> QED
    BY <1>16, <2>1, <2>2 DEF BoundTest, StartConnect
<1>17. CASE BoundSet
  BY <1>17, PostsNothing DEF BoundSet, Posting
<1>18. CASE ConnectedSet
  BY <1>18, PostsNothing DEF ConnectedSet, Posting
<1>19. ASSUME NEW thrown \in BOOLEAN, CreatedReturn(thrown) PROVE Posting
  <2>1. posted' = Report(thrown, posted)
    BY <1>19 DEF CreatedReturn
  <2> QED
    BY <1>19, <2>1, PostsReport DEF Posting
<1>20. ASSUME NEW thrown \in BOOLEAN, BoundReturn(thrown) PROVE Posting
  <2>1. CASE posted' = Report(thrown, posted)
    BY <1>20, <2>1, PostsReport DEF Posting
  <2>2. CASE posted' = Append(Report(thrown, posted), Lambda("connect"))
    <3>1. Lambda("connect") \in LambdaType /\ Lambda("connect")[1] = "connect"
      BY LambdaIsTyped DEF Lambdas
    <3>2. Posts(0, {"exception", "connect"})
      BY <1>20, <2>2, <3>1, PostsTwo
    <3> QED
      BY <1>20, <3>2 DEF Posting
  <2> QED
    BY <1>20, <2>1, <2>2 DEF BoundReturn
<1>21. ASSUME NEW thrown \in BOOLEAN, ConnectedReturn(thrown) PROVE Posting
  <2>1. posted' = Report(thrown, posted)
    BY <1>21 DEF ConnectedReturn
  <2> QED
    BY <1>21, <2>1, PostsReport DEF Posting
<1>22. ASSUME NEW thrown \in BOOLEAN, ReadReturn(thrown) PROVE Posting
  <2>1. posted' = Report(thrown, posted)
    BY <1>22 DEF ReadReturn
  <2> QED
    BY <1>22, <2>1, PostsReport DEF Posting
<1>23. ASSUME NEW thrown \in BOOLEAN, WrittenReturn(thrown) PROVE Posting
  <2>1. posted' = Report(thrown, posted)
    BY <1>23 DEF WrittenReturn
  <2> QED
    BY <1>23, <2>1, PostsReport DEF Posting
<1>24. ASSUME NEW thrown \in BOOLEAN, DisconnectedReturn(thrown) PROVE Posting
  <2>1. posted' = Report(thrown, posted)
    BY <1>24 DEF DisconnectedReturn
  <2> QED
    BY <1>24, <2>1, PostsReport DEF Posting
<1>25. ASSUME NEW thrown \in BOOLEAN, PlainReturn(thrown) PROVE Posting
  <2>1. posted' = Report(thrown, posted)
    BY <1>25 DEF PlainReturn
  <2> QED
    BY <1>25, <2>1, PostsReport DEF Posting
<1>26. ASSUME NEW thrown \in BOOLEAN, NEW serialized \in BOOLEAN, WriteReturn(thrown, serialized)
       PROVE  Posting
  <2>1. CASE posted' = Report(thrown, posted)
    BY <1>26, <2>1, PostsReport DEF Posting
  <2>2. CASE posted' = Report(TRUE, Report(thrown, posted))
    <3>1. posted' = Append(Report(thrown, posted), Lambda("exception"))
      BY <2>2 DEF Report
    <3>2. Lambda("exception") \in LambdaType /\ Lambda("exception")[1] = "exception"
      BY LambdaIsTyped DEF Lambdas
    <3>3. Posts(0, {"exception", "exception"})
      BY <1>26, <3>1, <3>2, PostsTwo
    <3> QED
      BY <3>3 DEF Posts, Common, Posting
  <2> QED
    BY <1>26, <2>1, <2>2 DEF WriteReturn
<1>27. ASSUME NEW o \in Ops, NetComplete(o) PROVE Posting
  BY <1>27, PostsNothing DEF NetComplete, Posting
<1>28. CASE UNCHANGED vars
  BY <1>28, PostsNothing DEF vars, Posting
<1> QED
  BY <1>1, <1>2, <1>3, <1>4, <1>5, <1>6, <1>7, <1>8, <1>9, <1>10, <1>11, <1>12, <1>13,
     <1>14, <1>15, <1>16, <1>17, <1>18, <1>19, <1>20, <1>21, <1>22, <1>23, <1>24, <1>25,
     <1>26, <1>27, <1>28
  DEF Next, StrandServes, StrandGoesOn, RunPosted

\* No connect is posted but at the end of the stretch up to channel_bound.
LEMMA PlainPosts ==
  ASSUME Types, SendingQueued, PostedOnce, [Next]_vars,
         ~BoundTest, ~\E thrown \in BOOLEAN : BoundReturn(thrown),
         phase' = phase \/ phase # "new" \/ RunCreated
  PROVE  PostedOnce' /\ (ConnectPosted' => ConnectPosted)
<1>1. PICK d \in {0, 1}, N \in SUBSET {"exception", "event", "close", "write"} :
        Posts(d, N) /\ (d = 0 => phase' = phase \/ phase # "new")
  <2>1. CASE RunCreated
    BY <2>1, PostsRunning DEF RunCreated
  <2>2. CASE ~RunCreated
    BY <2>2, PostingSteps DEF Posting, Common
  <2> QED
    BY <2>1, <2>2
<1>2. \A i \in 1 .. Len(posted') : posted'[i][1] \in {"created", "connect"} =>
         i + d \in 1 .. Len(posted) /\ posted'[i] = posted[i + d]
  BY <1>1 DEF Posts
<1>3. Len(posted) \in Nat /\ Len(posted') \in Nat
  <2>1. posted \in Seq(LambdaType)
    BY TypeFacts
  <2>2. posted' \in Seq(LambdaType)
    BY TypeStep DEF Types
  <2> QED
    BY <2>1, <2>2
<1>4. ASSUME NEW i \in 1 .. Len(posted'), posted'[i][1] = "created" PROVE i = 1 /\ phase' = "new"
  BY <1>1, <1>2, <1>3, <1>4 DEF PostedOnce
<1>5. ASSUME NEW i \in 1 .. Len(posted'), NEW j \in 1 .. Len(posted'),
             posted'[i][1] = "connect", posted'[j][1] = "connect"
      PROVE  i = j
  BY <1>1, <1>2, <1>3, <1>5, SMTT(30) DEF PostedOnce, IsConnect
<1>6. ConnectPosted' => ConnectPosted
  BY <1>1, <1>2, <1>3 DEF ConnectPosted, IsConnect
<1> QED
  BY <1>4, <1>5, <1>6 DEF PostedOnce, IsConnect

-----------------------------------------------------------------------------
(* The steps that leave alone how far the channel is set up.                *)

\* A step that sets nothing up and tears nothing down keeps Core.
LEMMA MildStep ==
  ASSUME Types, Types', Core, target' = target, phase' = phase,
         pc' = pc \/ pc' \notin SetupPcs \cup {"read", "disconnected"},
         proc' = "running" =>
           proc = "running" /\ ctx'.inMap = ctx.inMap /\ ctx'.socket = ctx.socket,
         \A p \in {"resolve", "connect", "read"} : op'[p] = "none" <=> op[p] = "none",
         op'["write"] # "none" => "write" \in ctx'.tasks,
         "read" \in ctx.tasks => "read" \in ctx'.tasks,
         ctx'.connected = ctx.connected, ctx'.stat = ctx.stat \/ ctx'.stat >= REQ_CLOSE,
         ConnectPosted' => ConnectPosted
  PROVE  Core'
<1>t. ctx.stat \in 0 .. 7 /\ ctx'.stat \in 0 .. 7
  BY TypeFacts DEF Types, TypeOK
<1>s. pc' \in SetupPcs \cup {"read", "disconnected"} => pc' = pc
  OBVIOUS
<1>c. Connecting' => Connecting
  BY <1>s DEF Connecting, SetupPcs
<1>1. StatPhase'
  BY <1>t DEF Core, StatPhase
<1>2. SetupOnce'
  <2>1. Connecting' => /\ target' # "none" /\ phase' \in {"created", "bound"}
                       /\ phase' = "created" => ctx'.stat >= REQ_CLOSE
    BY <1>t, <1>c DEF Core, SetupOnce
  <2>2. /\ pc' \in {"created", "opened", "binding"} => phase' = "created"
        /\ pc' \in {"bound", "connecting"} => phase' = "bound"
        /\ pc' = "disconnected" => phase' = "disconnected"
    BY <1>s DEF Core, SetupOnce, SetupPcs
  <2>3. /\ ConnectPosted' => op'["resolve"] = "none" /\ op'["connect"] = "none" /\ pc' \notin SetupPcs
        /\ op'["resolve"] # "none" => op'["connect"] = "none" /\ pc' \notin SetupPcs
        /\ op'["connect"] # "none" => pc' \notin SetupPcs
    BY <1>s DEF Core, SetupOnce
  <2> QED
    BY <2>1, <2>2, <2>3 DEF SetupOnce
<1>3. ReadPhase'
  BY <1>s DEF Core, ReadPhase
<1>4. TasksCoverOps'
  BY DEF Core, TasksCoverOps
<1>5. Reachable'
  BY <1>t, <1>s, <1>c DEF Core, Reachable, SetupPcs
<1> QED
  BY <1>1, <1>2, <1>3, <1>4, <1>5 DEF Core

\* handle_req_close closes the channel.
LEMMA ClosedStep ==
  ASSUME Types, Types', Core, target' = target, proc' = proc,
         NEW x, NEW o, Closed(x, o), x.connected = ctx.connected, x.inMap = ctx.inMap,
         o["read"] = "none", o["write"] = "none",
         \A p \in {"resolve", "connect"} : o[p] = "none" <=> op[p] = "none",
         ConnectPosted' => ConnectPosted
  PROVE  Core'
<1>t. ctx.stat \in 0 .. 7 /\ ctx'.stat = 7 /\ ctx'.connected = FALSE
  BY TypeFacts DEF Closed
<1>o. /\ \A p \in {"resolve", "connect"} : op'[p] = "none" <=> op[p] = "none"
      /\ op'["read"] = "none" /\ op'["write"] = "none"
  BY DEF Closed, Ops
<1>p. \/ ctx.connected /\ pc' = "disconnected" /\ phase' = "disconnected"
      \/ ~ctx.connected /\ pc' = "idle" /\ phase' = phase
  BY DEF Closed
<1>m. ctx'.inMap = ctx.inMap
  BY DEF Closed
<1>s. pc' \notin SetupPcs /\ pc' # "read" /\ pc' # "connecting"
  BY <1>p DEF SetupPcs
<1>c. Connecting' => Connecting
  BY <1>o, <1>s DEF Connecting
<1>n. Connecting => phase' = phase
  BY <1>p DEF Core, SetupOnce, StatPhase
<1>1. StatPhase'
  BY <1>t, <1>p DEF Core, StatPhase
<1>2. SetupOnce'
  <2>1. Connecting' => /\ target' # "none" /\ phase' \in {"created", "bound"}
                       /\ phase' = "created" => ctx'.stat >= REQ_CLOSE
    BY <1>t, <1>c, <1>n DEF Core, SetupOnce
  <2>2. /\ pc' \notin {"created", "opened", "binding", "bound", "connecting"}
        /\ pc' = "disconnected" => phase' = "disconnected"
    BY <1>p
  <2>3. /\ ConnectPosted' => op'["resolve"] = "none" /\ op'["connect"] = "none" /\ pc' \notin SetupPcs
        /\ op'["resolve"] # "none" => op'["connect"] = "none" /\ pc' \notin SetupPcs
        /\ op'["connect"] # "none" => pc' \notin SetupPcs
    BY <1>s, <1>o DEF Core, SetupOnce
  <2> QED
    BY <2>1, <2>2, <2>3 DEF SetupOnce
<1>3. ReadPhase'
  BY <1>s, <1>o DEF ReadPhase
<1>4. TasksCoverOps'
  BY <1>o DEF TasksCoverOps
<1>5. Reachable'
  <2>1. phase' = "new" => phase = "new"
    BY <1>p
  <2> QED
    BY <1>t, <1>s, <1>c, <1>m, <2>1 DEF Core, Reachable
<1> QED
  BY <1>1, <1>2, <1>3, <1>4, <1>5 DEF Core

\* A handler ends with handle_req_close.
LEMMA EndedStep ==
  ASSUME Types, Types', Core, target' = target, proc' = proc,
         NEW x \in CtxType, NEW o \in OpType, Ended(x, o),
         x.connected = ctx.connected, x.inMap = ctx.inMap, x.socket = ctx.socket,
         x.stat = ctx.stat, "read" \in ctx.tasks => "read" \in x.tasks,
         \A p \in {"resolve", "connect", "read"} : o[p] = "none" <=> op[p] = "none",
         o["write"] # "none" => "write" \in x.tasks,
         ConnectPosted' => ConnectPosted
  PROVE  Core'
<1>1. CASE NothingMore(x, o)
  <2>1. ctx' = x /\ op' = o /\ pc' = "idle" /\ phase' = phase
    BY <1>1 DEF NothingMore
  <2>2. pc' \notin SetupPcs \cup {"read", "disconnected"}
    BY <2>1 DEF SetupPcs
  <2> QED
    BY <2>1, <2>2, MildStep
<1>2. CASE Closed(x, o) /\ x.tasks = {}
  <2>1. o["read"] = "none" /\ o["write"] = "none"
    BY <1>2 DEF Core, TasksCoverOps
  <2> QED
    BY <1>2, <2>1, ClosedStep
<1> QED
  BY <1>1, <1>2 DEF Ended

\* The next datagram is read.
LEMMA ReadStep ==
  ASSUME Types, Types', Core, target' = target, proc' = proc, phase' = phase, pc' = "idle",
         ctx' = Start(ctx, "read"), op' = Pending(op, "read"),
         phase \in {"bound", "connected"} /\ (target = "none" \/ phase = "connected"),
         ConnectPosted' => ConnectPosted
  PROVE  Core'
<1>t. /\ ctx.stat \in 0 .. 7 /\ ctx'.tasks = ctx.tasks \cup {"read"} /\ ctx'.stat = ctx.stat
      /\ ctx'.connected = ctx.connected /\ ctx'.socket = ctx.socket /\ ctx'.inMap = ctx.inMap
  BY TypeFacts, StartFacts
<1>o. /\ op'["read"] = "pending" /\ op'["resolve"] = op["resolve"] /\ op'["connect"] = op["connect"]
      /\ op'["write"] = op["write"]
  <2>1. op \in OpType
    BY TypeFacts
  <2>2. "read" \in Ops /\ {"resolve", "connect", "write"} = Ops \ {"read"}
    BY DEF Ops
  <2> QED
    BY <2>1, <2>2, PendingFacts
<1>c. Connecting' => Connecting
  BY <1>o DEF Connecting
<1>s. pc' \notin SetupPcs
  BY DEF SetupPcs
<1>1. StatPhase'
  BY <1>t DEF Core, StatPhase
<1>2. SetupOnce'
  BY <1>t, <1>o, <1>c, <1>s DEF Core, SetupOnce
<1>3. ReadPhase'
  BY DEF ReadPhase
<1>4. TasksCoverOps'
  BY <1>t, <1>o DEF Core, TasksCoverOps
<1>5. Reachable'
  BY <1>t, <1>o, <1>c, <1>s DEF Core, Reachable
<1> QED
  BY <1>1, <1>2, <1>3, <1>4, <1>5 DEF Core

-----------------------------------------------------------------------------
(* The steps that set the channel up, read and end it.                      *)

\* The operations by name.
LEMMA OpNames ==
  /\ "resolve" \in Ops /\ "connect" \in Ops \ {"resolve"} /\ "read" \in Ops \ {"resolve"}
  /\ "write" \in Ops \ {"resolve"}
BY DEF Ops

\* An operation that is started leaves a write alone.
LEMMA StartsOther ==
  ASSUME NEW o \in OpType
  PROVE  /\ Pending(o, "read")["write"] = o["write"]
         /\ Pending(o, "resolve")["write"] = o["write"]
         /\ Pending(o, "connect")["write"] = o["write"]
BY DEF Pending, OpType, Ops

\* which operations are outstanding after one is started ...
LEMMA PendingBits ==
  ASSUME NEW o \in OpType, NEW p \in Ops
  PROVE  \A r \in Ops : Pending(o, p)[r] = "none" <=> r # p /\ o[r] = "none"
BY PendingFacts

\* ... or over
LEMMA DoneBits ==
  ASSUME op \in OpType, NEW p \in Ops
  PROVE  \A r \in Ops : Done(p)[r] = "none" <=> r = p \/ op[r] = "none"
BY DoneFacts

\* The lambda of bind_connect runs.
LEMMA RunCreatedCore ==
  ASSUME IInv, Types', RunCreated, ConnectPosted' => ConnectPosted
  PROVE  Core'
<1>t. Types /\ Core /\ ctx \in CtxType /\ op \in OpType /\ ctx.stat \in 0 .. 7 /\ ctx.connected \in BOOLEAN
  BY TypeFacts DEF IInv
<1>a. /\ ctx'.stat = ctx.stat /\ ctx'.connected = ctx.connected /\ ctx'.tasks = ctx.tasks
      /\ ctx'.socket = ctx.socket /\ ctx'.inMap = ctx.inMap
  BY DEF RunCreated
<1>b. /\ (op'["resolve"] = "none" <=> op["resolve"] = "none")
      /\ (op'["connect"] = "none" <=> op["connect"] = "none")
      /\ (op'["read"] = "none" <=> op["read"] = "none")
      /\ (op'["write"] = "none" <=> op["write"] = "none")
  BY DEF RunCreated
<1>c. /\ pc' = "created" /\ phase = "new" /\ phase' = "created" /\ pc = "idle"
      /\ target' = target /\ proc' = proc
  <2>1. Running("created") /\ Len(posted) >= 1
    BY <1>t, TypeFacts, RunningFacts DEF RunCreated
  <2>2. phase = "new"
    BY <1>t, <2>1, RunningFacts DEF IInv, PostedOnce
  <2> QED
    BY <2>1, <2>2 DEF RunCreated, Running, StrandFree, restVars
<1>1. StatPhase'
  BY <1>t, <1>a, <1>b, <1>c DEF Core, StatPhase, SetupOnce
<1>2. SetupOnce'
  BY <1>t, <1>a, <1>b, <1>c DEF Core, StatPhase, SetupOnce, Connecting, SetupPcs
<1>3. ReadPhase'
  BY <1>t, <1>a, <1>b, <1>c DEF Core, StatPhase, SetupOnce, Connecting, ReadPhase, SetupPcs
<1>4. TasksCoverOps'
  BY <1>t, <1>a, <1>b, <1>c DEF Core, TasksCoverOps
<1>5. Reachable'
  BY <1>t, <1>a, <1>b, <1>c DEF Core, StatPhase, SetupOnce, ReadPhase, Reachable, Connecting, SetupPcs
<1> QED
  BY <1>1, <1>2, <1>3, <1>4, <1>5 DEF Core

\* The socket is opened and bound.
LEMMA CreatedReturnCore ==
  ASSUME IInv, Types', NEW thrown \in BOOLEAN, CreatedReturn(thrown), ConnectPosted' => ConnectPosted
  PROVE  Core'
<1>t. Types /\ Core /\ ctx \in CtxType /\ op \in OpType /\ ctx.stat \in 0 .. 7 /\ ctx.connected \in BOOLEAN
  BY TypeFacts DEF IInv
<1>a. /\ ctx'.stat = OPEN /\ ctx'.connected = ctx.connected /\ ctx'.tasks = ctx.tasks
      /\ ctx'.socket = "open" /\ ctx'.inMap = ctx.inMap
  BY <1>t, OpenStored DEF CreatedReturn
<1>b. /\ (op'["resolve"] = "none" <=> op["resolve"] = "none")
      /\ (op'["connect"] = "none" <=> op["connect"] = "none")
      /\ (op'["read"] = "none" <=> op["read"] = "none")
      /\ (op'["write"] = "none" <=> op["write"] = "none")
  BY DEF CreatedReturn
<1>c. /\ pc = "created" /\ phase' = phase /\ target' = target /\ proc = "running"
      /\ \/ pc' = "opened"
         \/ proc' = "terminated" /\ pc' = pc
  BY DEF CreatedReturn, At
<1>1. StatPhase'
  BY <1>t, <1>a, <1>b, <1>c DEF Core, StatPhase, SetupOnce
<1>2. SetupOnce'
  BY <1>t, <1>a, <1>b, <1>c DEF Core, StatPhase, SetupOnce, Connecting, SetupPcs
<1>3. ReadPhase'
  BY <1>t, <1>a, <1>b, <1>c DEF Core, StatPhase, SetupOnce, Connecting, ReadPhase, SetupPcs
<1>4. TasksCoverOps'
  BY <1>t, <1>a, <1>b, <1>c DEF Core, TasksCoverOps
<1>5. Reachable'
  BY <1>t, <1>a, <1>b, <1>c DEF Core, StatPhase, SetupOnce, ReadPhase, Reachable, Connecting, SetupPcs
<1> QED
  BY <1>1, <1>2, <1>3, <1>4, <1>5 DEF Core

\* BOUND is stored.
LEMMA BoundSetCore ==
  ASSUME IInv, Types', BoundSet, ConnectPosted' => ConnectPosted
  PROVE  Core'
<1>t. Types /\ Core /\ ctx \in CtxType /\ op \in OpType /\ ctx.stat \in 0 .. 7 /\ ctx.connected \in BOOLEAN
  BY TypeFacts DEF IInv
<1>a. /\ ctx'.stat = BOUND /\ ctx'.connected = ctx.connected /\ ctx'.tasks = ctx.tasks
      /\ ctx'.socket = ctx.socket /\ ctx'.inMap = ctx.inMap
  BY <1>t, BoundStored DEF BoundSet
<1>b. /\ (op'["resolve"] = "none" <=> op["resolve"] = "none")
      /\ (op'["connect"] = "none" <=> op["connect"] = "none")
      /\ (op'["read"] = "none" <=> op["read"] = "none")
      /\ (op'["write"] = "none" <=> op["write"] = "none")
  BY DEF BoundSet
<1>c. /\ pc = "binding" /\ pc' = "bound" /\ phase' = "bound" /\ target' = target /\ proc' = proc
  BY DEF BoundSet, At, restVars
<1>1. StatPhase'
  BY <1>t, <1>a, <1>b, <1>c DEF Core, StatPhase, SetupOnce
<1>2. SetupOnce'
  BY <1>t, <1>a, <1>b, <1>c DEF Core, StatPhase, SetupOnce, Connecting, SetupPcs
<1>3. ReadPhase'
  BY <1>t, <1>a, <1>b, <1>c DEF Core, StatPhase, SetupOnce, Connecting, ReadPhase, SetupPcs
<1>4. TasksCoverOps'
  BY <1>t, <1>a, <1>b, <1>c DEF Core, TasksCoverOps
<1>5. Reachable'
  BY <1>t, <1>a, <1>b, <1>c DEF Core, StatPhase, SetupOnce, ReadPhase, Reachable, Connecting, SetupPcs
<1> QED
  BY <1>1, <1>2, <1>3, <1>4, <1>5 DEF Core

\* CONNECTED is stored.
LEMMA ConnectedSetCore ==
  ASSUME IInv, Types', ConnectedSet, ConnectPosted' => ConnectPosted
  PROVE  Core'
<1>t. Types /\ Core /\ ctx \in CtxType /\ op \in OpType /\ ctx.stat \in 0 .. 7 /\ ctx.connected \in BOOLEAN
  BY TypeFacts DEF IInv
<1>a. /\ ctx'.stat = CONNECTED /\ ctx'.connected = TRUE /\ ctx'.tasks = ctx.tasks
      /\ ctx'.socket = ctx.socket /\ ctx'.inMap = ctx.inMap
  BY <1>t, ConnectedStored DEF ConnectedSet
<1>b. /\ (op'["resolve"] = "none" <=> op["resolve"] = "none")
      /\ (op'["connect"] = "none" <=> op["connect"] = "none")
      /\ (op'["read"] = "none" <=> op["read"] = "none")
      /\ (op'["write"] = "none" <=> op["write"] = "none")
  BY DEF ConnectedSet
<1>c. /\ pc = "connecting" /\ pc' = "connected" /\ phase' = "connected" /\ target' = target
      /\ proc' = proc /\ proc = "running"
  BY DEF ConnectedSet, At, restVars
<1>1. StatPhase'
  BY <1>t, <1>a, <1>b, <1>c DEF Core, StatPhase, SetupOnce
<1>2. SetupOnce'
  BY <1>t, <1>a, <1>b, <1>c DEF Core, StatPhase, SetupOnce, Connecting, SetupPcs
<1>3. ReadPhase'
  BY <1>t, <1>a, <1>b, <1>c DEF Core, StatPhase, SetupOnce, Connecting, ReadPhase, SetupPcs
<1>4. TasksCoverOps'
  BY <1>t, <1>a, <1>b, <1>c DEF Core, TasksCoverOps
<1>5. Reachable'
  BY <1>t, <1>a, <1>b, <1>c DEF Core, StatPhase, SetupOnce, ReadPhase, Reachable, Connecting, SetupPcs
<1> QED
  BY <1>1, <1>2, <1>3, <1>4, <1>5 DEF Core

\* The connect lambda starts the connect.
LEMMA RunConnectCore ==
  ASSUME IInv, Types', RunConnect
  PROVE  Core'
<1>t. Types /\ Core /\ ctx \in CtxType /\ op \in OpType /\ ctx.stat \in 0 .. 7 /\ ctx.connected \in BOOLEAN
  BY TypeFacts DEF IInv
<1>a. /\ ctx'.stat = ctx.stat /\ ctx'.connected = ctx.connected /\ ctx'.tasks = ctx.tasks
      /\ ctx'.socket = "open" /\ ctx'.inMap = ctx.inMap
  BY <1>t, SocketReopened DEF RunConnect
<1>b. /\ (op'["resolve"] = "none" <=> op["resolve"] = "none")
      /\ op'["connect"] # "none"
      /\ (op'["read"] = "none" <=> op["read"] = "none")
      /\ (op'["write"] = "none" <=> op["write"] = "none")
  BY <1>t, OpNames, PendingBits DEF RunConnect
<1>c. /\ pc = "idle" /\ pc' = pc /\ phase' = phase /\ target' = target /\ proc' = proc
      /\ ConnectPosted /\ ~ConnectPosted'
  <2>1. Running("connect")
    BY DEF RunConnect
  <2>2. Len(posted) \in Nat /\ Len(posted) >= 1 /\ posted \in Seq(LambdaType)
    BY <1>t, <2>1, TypeFacts, RunningFacts
  <2>3. posted[1][1] = "connect" /\ posted' = Tail(posted)
    BY <1>t, <2>1, RunningFacts
  <2>4. ConnectPosted
    BY <2>2, <2>3 DEF ConnectPosted, IsConnect
  <2>5. ASSUME NEW i \in 1 .. Len(posted'), posted'[i][1] = "connect" PROVE FALSE
    <3>1. i + 1 \in 1 .. Len(posted) /\ posted[i + 1][1] = "connect"
      BY <2>2, <2>3, <2>5
    <3>2. i + 1 = 1
      BY <2>2, <2>3, <3>1 DEF IInv, PostedOnce, IsConnect
    <3> QED
      BY <3>2
  <2>6. ~ConnectPosted'
    BY <2>5 DEF ConnectPosted, IsConnect
  <2> QED
    BY <2>1, <2>4, <2>6 DEF RunConnect, Running, StrandFree, restVars
<1>1. StatPhase'
  BY <1>t, <1>a, <1>b, <1>c DEF Core, StatPhase, SetupOnce
<1>2. SetupOnce'
  BY <1>t, <1>a, <1>b, <1>c DEF Core, StatPhase, SetupOnce, Connecting, SetupPcs
<1>3. ReadPhase'
  BY <1>t, <1>a, <1>b, <1>c DEF Core, StatPhase, SetupOnce, Connecting, ReadPhase, SetupPcs
<1>4. TasksCoverOps'
  BY <1>t, <1>a, <1>b, <1>c DEF Core, TasksCoverOps
<1>5. Reachable'
  BY <1>t, <1>a, <1>b, <1>c DEF Core, StatPhase, SetupOnce, ReadPhase, Reachable, Connecting, SetupPcs
<1> QED
  BY <1>1, <1>2, <1>3, <1>4, <1>5 DEF Core

\* resolve_complete starts the connect, or gives up.
LEMMA ResolveCompleteCore ==
  ASSUME IInv, Types', ResolveComplete, ConnectPosted' => ConnectPosted
  PROVE  Core'
<1>t. Types /\ Core /\ ctx \in CtxType /\ op \in OpType /\ ctx.stat \in 0 .. 7 /\ ctx.connected \in BOOLEAN
  BY TypeFacts DEF IInv
<1>a. /\ ctx'.stat = ctx.stat /\ ctx'.connected = ctx.connected
      /\ ctx.tasks \subseteq ctx'.tasks
      /\ \/ ctx'.socket = "open" /\ ctx'.inMap = ctx.inMap /\ op'["connect"] # "none"
         \/ ctx'.inMap = FALSE /\ ctx'.socket = ctx.socket /\ (op'["connect"] = "none" <=> op["connect"] = "none")
  <2>1. CASE op["resolve"] = "ok"
    <3> DEFINE x == Start(ctx, "connect")
               o == Done("resolve")
    <3>1. o \in OpType /\ x \in CtxType /\ x.tasks = ctx.tasks \cup {"connect"} /\ x.stat = ctx.stat
      BY <1>t, OpNames, StartFacts, DoneFacts
    <3>2. x.connected = ctx.connected /\ x.socket = ctx.socket /\ x.inMap = ctx.inMap
      BY <1>t, OpNames, StartFacts
    <3> HIDE DEF x, o
    <3>3. ctx' = [x EXCEPT !.socket = "open"] /\ op' = Pending(o, "connect")
      BY <2>1 DEF ResolveComplete, NothingMore, x, o
    <3>4. /\ ctx'.socket = "open" /\ ctx'.stat = x.stat /\ ctx'.connected = x.connected
          /\ ctx'.tasks = x.tasks /\ ctx'.inMap = x.inMap
      BY <3>1, <3>3, SocketReopened
    <3>5. op'["connect"] # "none"
      BY <3>1, <3>3, OpNames, PendingBits
    <3> QED
      BY <3>1, <3>2, <3>4, <3>5
  <2>2. CASE op["resolve"] # "ok"
    <3>1. ctx' = [ctx EXCEPT !.inMap = FALSE] /\ op' = Done("resolve")
      BY <2>2 DEF ResolveComplete, NothingMore
    <3>2. /\ ctx'.inMap = FALSE /\ ctx'.stat = ctx.stat /\ ctx'.connected = ctx.connected
          /\ ctx'.tasks = ctx.tasks /\ ctx'.socket = ctx.socket
      BY <1>t, <3>1, Erased
    <3>3. op'["connect"] = "none" <=> op["connect"] = "none"
      BY <1>t, <3>1, OpNames, DoneBits
    <3> QED
      BY <3>2, <3>3
  <2> QED
    BY <2>1, <2>2
<1>b. /\ op["resolve"] # "none" /\ op'["resolve"] = "none"
      /\ (op'["read"] = "none" <=> op["read"] = "none") /\ (op'["write"] = "none" <=> op["write"] = "none")
  <2>1. op' = Done("resolve") \/ op' = Pending(Done("resolve"), "connect")
    BY DEF ResolveComplete, NothingMore
  <2>2. Done("resolve") \in OpType
    BY <1>t, OpNames, DoneFacts
  <2>3. op["resolve"] # "none"
    BY DEF ResolveComplete, Completing, Completed
  <2>4. CASE op' = Done("resolve")
    BY <1>t, <2>3, <2>4, OpNames, DoneBits
  <2>5. CASE op' = Pending(Done("resolve"), "connect")
    BY <1>t, <2>2, <2>3, <2>5, OpNames, DoneBits, PendingBits
  <2> QED
    BY <2>1, <2>4, <2>5
<1>c. /\ pc = "idle" /\ pc' = "idle" /\ phase' = phase /\ target' = target /\ proc' = proc
  BY DEF ResolveComplete, NothingMore, Completing, StrandFree, restVars
<1>1. StatPhase'
  BY <1>t, <1>a, <1>b, <1>c DEF Core, StatPhase, SetupOnce
<1>2. SetupOnce'
  BY <1>t, <1>a, <1>b, <1>c DEF Core, StatPhase, SetupOnce, Connecting, SetupPcs
<1>3. ReadPhase'
  BY <1>t, <1>a, <1>b, <1>c DEF Core, StatPhase, SetupOnce, Connecting, ReadPhase, SetupPcs
<1>4. TasksCoverOps'
  BY <1>t, <1>a, <1>b, <1>c DEF Core, TasksCoverOps
<1>5. Reachable'
  BY <1>t, <1>a, <1>b, <1>c DEF Core, StatPhase, SetupOnce, ReadPhase, Reachable, Connecting, SetupPcs
<1> QED
  BY <1>1, <1>2, <1>3, <1>4, <1>5 DEF Core

\* connect_complete goes on to the store of CONNECTED, or ends.
LEMMA ConnectCompleteCore ==
  ASSUME IInv, Types', ConnectComplete, ConnectPosted' => ConnectPosted
  PROVE  Core'
<1>t. Types /\ Core /\ ctx \in CtxType /\ op \in OpType /\ ctx.stat \in 0 .. 7 /\ ctx.connected \in BOOLEAN
  BY TypeFacts DEF IInv
<1>a. /\ ctx'.stat = ctx.stat /\ ctx'.connected = ctx.connected /\ ctx'.socket = ctx.socket
      /\ ctx'.tasks = ctx.tasks \ {"connect"} /\ (pc' = "connecting" => ctx'.inMap = ctx.inMap)
  <2> DEFINE x == Cleared(ctx, "connect")
  <2>1. /\ x \in CtxType /\ x.tasks = ctx.tasks \ {"connect"} /\ x.stat = ctx.stat
        /\ x.connected = ctx.connected /\ x.socket = ctx.socket /\ x.inMap = ctx.inMap
    BY <1>t, ClearedFacts
  <2> HIDE DEF x
  <2>2. CASE op["connect"] = "ok"
    <3>1. ctx' = x
      BY <2>2 DEF ConnectComplete, x
    <3> QED
      BY <2>1, <3>1
  <2>3. CASE op["connect"] # "ok"
    <3>1. ctx' = [x EXCEPT !.inMap = FALSE] /\ pc' = "idle"
      BY <2>3 DEF ConnectComplete, Completing, StrandFree, x
    <3>2. /\ ctx'.stat = x.stat /\ ctx'.connected = x.connected /\ ctx'.socket = x.socket
          /\ ctx'.tasks = x.tasks
      BY <2>1, <3>1, Erased
    <3> QED
      BY <2>1, <3>1, <3>2
  <2> QED
    BY <2>2, <2>3
<1>b. /\ op["connect"] # "none" /\ (op'["resolve"] = "none" <=> op["resolve"] = "none")
      /\ op'["connect"] = "none"
      /\ (op'["read"] = "none" <=> op["read"] = "none")
      /\ (op'["write"] = "none" <=> op["write"] = "none")
  <2>1. op' = Done("connect") /\ op["connect"] # "none"
    BY DEF ConnectComplete, Completing, Completed
  <2> QED
    BY <1>t, <2>1, OpNames, DoneBits
<1>c. /\ pc = "idle" /\ phase' = phase /\ target' = target /\ proc' = proc
      /\ \/ pc' = "connecting" /\ ctx.stat < CONNECTED
         \/ pc' = "idle"
  BY DEF ConnectComplete, Completing, StrandFree, restVars
<1>1. StatPhase'
  BY <1>t, <1>a, <1>b, <1>c DEF Core, StatPhase, SetupOnce
<1>2. SetupOnce'
  BY <1>t, <1>a, <1>b, <1>c DEF Core, StatPhase, SetupOnce, Connecting, SetupPcs
<1>3. ReadPhase'
  BY <1>t, <1>a, <1>b, <1>c DEF Core, StatPhase, SetupOnce, Connecting, ReadPhase, SetupPcs
<1>4. TasksCoverOps'
  BY <1>t, <1>a, <1>b, <1>c DEF Core, TasksCoverOps
<1>5. Reachable'
  BY <1>t, <1>a, <1>b, <1>c DEF Core, StatPhase, SetupOnce, ReadPhase, Reachable, Connecting, SetupPcs
<1> QED
  BY <1>1, <1>2, <1>3, <1>4, <1>5 DEF Core

\* read_complete commits the datagram.
LEMMA ReadCompleteCore ==
  ASSUME IInv, Types', ReadComplete, ConnectPosted' => ConnectPosted
  PROVE  Core'
<1>t. Types /\ Core /\ ctx \in CtxType /\ op \in OpType /\ ctx.stat \in 0 .. 7 /\ ctx.connected \in BOOLEAN
  BY TypeFacts DEF IInv
<1>a. /\ ctx'.stat = ctx.stat /\ ctx'.connected = ctx.connected /\ ctx'.tasks = ctx.tasks \ {"read"}
      /\ ctx'.socket = ctx.socket /\ ctx'.inMap = ctx.inMap
  BY <1>t, ClearedFacts DEF ReadComplete
<1>b. /\ op["read"] # "none" /\ (op'["resolve"] = "none" <=> op["resolve"] = "none")
      /\ (op'["connect"] = "none" <=> op["connect"] = "none")
      /\ op'["read"] = "none"
      /\ (op'["write"] = "none" <=> op["write"] = "none")
  <2>1. op' = Done("read") /\ op["read"] # "none"
    BY DEF ReadComplete, Completing, Completed
  <2> QED
    BY <1>t, <2>1, OpNames, DoneBits
<1>c. /\ pc = "idle" /\ pc' = "read" /\ phase' = phase /\ target' = target /\ proc' = proc
  BY DEF ReadComplete, Completing, StrandFree, restVars
<1>1. StatPhase'
  BY <1>t, <1>a, <1>b, <1>c DEF Core, StatPhase, SetupOnce
<1>2. SetupOnce'
  BY <1>t, <1>a, <1>b, <1>c DEF Core, StatPhase, SetupOnce, Connecting, SetupPcs
<1>3. ReadPhase'
  BY <1>t, <1>a, <1>b, <1>c DEF Core, StatPhase, SetupOnce, Connecting, ReadPhase, SetupPcs
<1>4. TasksCoverOps'
  BY <1>t, <1>a, <1>b, <1>c DEF Core, TasksCoverOps
<1>5. Reachable'
  BY <1>t, <1>a, <1>b, <1>c DEF Core, StatPhase, SetupOnce, ReadPhase, Reachable, Connecting, SetupPcs
<1> QED
  BY <1>1, <1>2, <1>3, <1>4, <1>5 DEF Core

\* read_complete ends the channel.
LEMMA ReadFailedCore ==
  ASSUME IInv, Types', ReadFailed, ConnectPosted' => ConnectPosted
  PROVE  Core'
<1>t. Types /\ Core /\ ctx \in CtxType /\ op \in OpType /\ ctx.stat \in 0 .. 7 /\ ctx.connected \in BOOLEAN
  BY TypeFacts DEF IInv
<1>a. /\ ctx'.tasks = ctx.tasks \ {"read"} /\ ctx'.connected = FALSE /\ ctx'.stat >= DISCONNECTED
      /\ \/ ctx.connected /\ pc' = "disconnected" /\ phase' = "disconnected" /\ ctx'.inMap = ctx.inMap
         \/ ~ctx.connected /\ pc' = "idle" /\ phase' = phase
  <2> DEFINE x == Cleared(ctx, "read")
             o == Done("read")
  <2>1. /\ x \in CtxType /\ x.tasks = ctx.tasks \ {"read"} /\ x.stat = ctx.stat
        /\ x.connected = ctx.connected /\ x.inMap = ctx.inMap /\ o \in OpType
    BY <1>t, OpNames, ClearedFacts, DoneFacts
  <2> HIDE DEF x, o
  <2>2. CASE ctx.connected
    <3> DEFINE v == IF x.stat < DISCONNECTED THEN DISCONNECTED ELSE x.stat
    <3>1. v \in CREATED .. CLOSED /\ v >= DISCONNECTED
      BY <1>t, <2>1
    <3>2. /\ pc' = "disconnected" /\ phase' = "disconnected"
          /\ ctx' = [x EXCEPT !.connected = FALSE, !.stat = v]
      BY <2>2 DEF ReadFailed, x
    <3> HIDE DEF v
    <3>3. ctx'.connected = FALSE
      BY <2>1, <3>2 DEF CtxType
    <3>4. ctx'.stat = v
      BY <2>1, <3>2 DEF CtxType
    <3>5. ctx'.tasks = x.tasks /\ ctx'.inMap = x.inMap
      BY <2>1, <3>2 DEF CtxType
    <3> QED
      BY <1>t, <2>1, <2>2, <3>1, <3>2, <3>3, <3>4, <3>5
  <2>3. CASE ~ctx.connected
    <3>1. Release(x, o)
      BY <2>3 DEF ReadFailed, x, o
    <3>2. /\ ctx'.stat = CLOSED /\ ctx'.connected = x.connected /\ ctx'.tasks = x.tasks
          /\ pc' = "idle" /\ phase' = phase
      BY <2>1, <3>1, ReleaseFacts
    <3> QED
      BY <2>1, <2>3, <3>2
  <2> QED
    BY <2>2, <2>3
<1>b. /\ op["read"] # "none" /\ (op'["resolve"] = "none" <=> op["resolve"] = "none")
      /\ (op'["connect"] = "none" <=> op["connect"] = "none")
      /\ op'["read"] = "none"
      /\ (op'["write"] = "none" <=> op["write"] = "none")
  <2> DEFINE o == Done("read")
  <2>1. /\ o \in OpType /\ o["read"] = "none"
        /\ \A r \in {"resolve", "connect", "write"} : o[r] = "none" <=> op[r] = "none"
    BY <1>t, OpNames, DoneFacts, DoneBits
  <2> HIDE DEF o
  <2>2. op' = o \/ op' = AbortOps(o)
    BY DEF ReadFailed, Release, o
  <2>3. \A r \in Ops : op'[r] = "none" <=> o[r] = "none"
    BY <2>1, <2>2, AbortOpsFacts
  <2>4. op["read"] # "none"
    BY DEF ReadFailed, Completing, Completed
  <2> QED
    BY <2>1, <2>3, <2>4, OpNames
<1>c. /\ pc = "idle" /\ target' = target /\ proc' = proc
  BY DEF ReadFailed, Completing, StrandFree, restVars
<1>d. (Connecting' => Connecting) /\ pc' \notin SetupPcs
  BY <1>a, <1>b, <1>c DEF Connecting, SetupPcs
<1>e. Connecting => phase' = phase
  BY <1>t, <1>a DEF Core, SetupOnce, StatPhase
<1>1. StatPhase'
  BY <1>t, <1>a, <1>b, <1>c, <1>d, <1>e DEF Core, StatPhase, SetupOnce
<1>2. SetupOnce'
  <2>1. Connecting' => /\ target' # "none" /\ phase' \in {"created", "bound"}
                       /\ phase' = "created" => ctx'.stat >= REQ_CLOSE
    <3>1. ctx'.stat \in 0 .. 7
      BY DEF Types, TypeOK
    <3> QED
      BY <1>t, <1>a, <1>c, <1>d, <1>e, <3>1 DEF Core, SetupOnce
  <2>2. /\ pc' \notin {"created", "opened", "binding", "bound", "connecting"}
        /\ pc' = "disconnected" => phase' = "disconnected"
    BY <1>a
  <2>3. /\ ConnectPosted' => op'["resolve"] = "none" /\ op'["connect"] = "none" /\ pc' \notin SetupPcs
        /\ op'["resolve"] # "none" => op'["connect"] = "none" /\ pc' \notin SetupPcs
        /\ op'["connect"] # "none" => pc' \notin SetupPcs
    BY <1>t, <1>b, <1>d DEF Core, SetupOnce
  <2> QED
    BY <2>1, <2>2, <2>3 DEF SetupOnce
<1>3. ReadPhase'
  BY <1>t, <1>a, <1>b, <1>c, <1>d, <1>e DEF Core, StatPhase, SetupOnce, Connecting, ReadPhase, SetupPcs
<1>4. TasksCoverOps'
  BY <1>t, <1>a, <1>b, <1>c, <1>d, <1>e DEF Core, TasksCoverOps
<1>5. Reachable'
  BY <1>t, <1>a, <1>b, <1>c, <1>d, <1>e DEF Core, StatPhase, SetupOnce, ReadPhase, Reachable, Connecting, SetupPcs
<1> QED
  BY <1>1, <1>2, <1>3, <1>4, <1>5 DEF Core

\* call_channel_disconnected ends.
LEMMA DisconnectedReturnCore ==
  ASSUME IInv, Types', NEW thrown \in BOOLEAN, DisconnectedReturn(thrown), ConnectPosted' => ConnectPosted
  PROVE  Core'
<1>t. Types /\ Core /\ ctx \in CtxType /\ op \in OpType /\ ctx.stat \in 0 .. 7 /\ ctx.connected \in BOOLEAN
  BY TypeFacts DEF IInv
<1>a. /\ ctx'.stat = CLOSED /\ ctx'.tasks = ctx.tasks /\ ctx'.connected = ctx.connected
  BY <1>t, ReleaseFacts DEF DisconnectedReturn
<1>b. /\ (op'["resolve"] = "none" <=> op["resolve"] = "none")
      /\ (op'["connect"] = "none" <=> op["connect"] = "none")
      /\ (op'["read"] = "none" <=> op["read"] = "none")
      /\ (op'["write"] = "none" <=> op["write"] = "none")
  BY <1>t, OpNames, ReleaseFacts DEF DisconnectedReturn
<1>c. /\ pc = "disconnected" /\ pc' = "idle" /\ phase' = phase /\ target' = target /\ proc' = proc
  BY DEF DisconnectedReturn, Release, At, restVars
<1>1. StatPhase'
  BY <1>t, <1>a, <1>b, <1>c DEF Core, StatPhase, SetupOnce
<1>2. SetupOnce'
  BY <1>t, <1>a, <1>b, <1>c DEF Core, StatPhase, SetupOnce, Connecting, SetupPcs
<1>3. ReadPhase'
  BY <1>t, <1>a, <1>b, <1>c DEF Core, StatPhase, SetupOnce, Connecting, ReadPhase, SetupPcs
<1>4. TasksCoverOps'
  BY <1>t, <1>a, <1>b, <1>c DEF Core, TasksCoverOps
<1>5. Reachable'
  BY <1>t, <1>a, <1>b, <1>c DEF Core, StatPhase, SetupOnce, ReadPhase, Reachable, Connecting, SetupPcs
<1> QED
  BY <1>1, <1>2, <1>3, <1>4, <1>5 DEF Core

\* call_channel_bound tests stat.
LEMMA BoundTestCore ==
  ASSUME IInv, Types', BoundTest
  PROVE  Core'
<1>t. Types /\ Core /\ ctx \in CtxType /\ op \in OpType /\ ctx.stat \in 0 .. 7 /\ ctx.connected \in BOOLEAN
  BY TypeFacts DEF IInv
<1>a. /\ ctx'.stat = ctx.stat /\ ctx'.connected = ctx.connected /\ ctx'.tasks = ctx.tasks
      /\ ctx'.socket = ctx.socket /\ ctx'.inMap = ctx.inMap
  BY DEF BoundTest
<1>b. /\ (op'["connect"] = "none" <=> op["connect"] = "none")
      /\ (op'["read"] = "none" <=> op["read"] = "none") /\ (op'["write"] = "none" <=> op["write"] = "none")
  <2>1. op' = op \/ op' = Pending(op, "resolve")
    BY DEF BoundTest, StartConnect
  <2> QED
    BY <1>t, <2>1, OpNames, PendingBits
<1>c. /\ pc = "opened" /\ phase' = phase /\ target' = target /\ proc' = proc
      /\ \/ ctx.stat < BOUND /\ pc' = "binding" /\ op' = op /\ posted' = posted
         \/ /\ ctx.stat >= BOUND /\ pc' = "idle"
            /\ \/ target = "none" /\ op' = op /\ posted' = posted
               \/ target # "none" /\ (op' = op \/ posted' = posted)
  <2>1. /\ pc = "opened" /\ phase' = phase /\ target' = target /\ proc' = proc
    BY DEF BoundTest, At, restVars
  <2>2. CASE ctx.stat < BOUND
    BY <2>1, <2>2 DEF BoundTest
  <2>3. CASE ~(ctx.stat < BOUND)
    BY <1>t, <2>1, <2>3 DEF BoundTest, StartConnect
  <2> QED
    BY <2>2, <2>3
<1>d. posted' = posted => ~ConnectPosted'
  BY <1>t, <1>c DEF Core, SetupOnce, SetupPcs, ConnectPosted, IsConnect
<1>e. op' = op => op'["resolve"] = "none"
  BY <1>t, <1>c DEF Core, SetupOnce, SetupPcs
<1>1. StatPhase'
  BY <1>t, <1>a, <1>b, <1>c, <1>d, <1>e DEF Core, StatPhase, SetupOnce
<1>2. SetupOnce'
  BY <1>t, <1>a, <1>b, <1>c, <1>d, <1>e DEF Core, StatPhase, SetupOnce, Connecting, SetupPcs
<1>3. ReadPhase'
  BY <1>t, <1>a, <1>b, <1>c, <1>d, <1>e DEF Core, StatPhase, SetupOnce, Connecting, ReadPhase, SetupPcs
<1>4. TasksCoverOps'
  BY <1>t, <1>a, <1>b, <1>c, <1>d, <1>e DEF Core, TasksCoverOps
<1>5. Reachable'
  BY <1>t, <1>a, <1>b, <1>c, <1>d, <1>e DEF Core, StatPhase, SetupOnce, ReadPhase, Reachable, Connecting, SetupPcs
<1> QED
  BY <1>1, <1>2, <1>3, <1>4, <1>5 DEF Core

\* Reporting an exception posts no connect.
LEMMA ReportNoConnect ==
  ASSUME Types, NEW b \in BOOLEAN, posted' = Report(b, posted)
  PROVE  ConnectPosted' => ConnectPosted
<1>1. Posts(0, Common) /\ Len(posted) \in Nat
  BY PostsReport, TypeFacts
<1> QED
  BY <1>1 DEF Posts, Common, ConnectPosted, IsConnect

\* A connect is posted when none is.
LEMMA ConnectPosts ==
  ASSUME Types, PostedOnce, ~ConnectPosted, phase # "new", NEW b \in BOOLEAN,
         posted' = Report(b, posted) \/ posted' = Append(Report(b, posted), Lambda("connect"))
  PROVE  PostedOnce'
<1> DEFINE q == Report(b, posted)
<1>1. q \in Seq(LambdaType) /\ posted \in Seq(LambdaType)
  BY TypeFacts, ReportType
<1>2. \A i \in 1 .. Len(q) : q[i][1] \notin {"created", "connect"}
  <2>1. \A i \in 1 .. Len(posted) : posted[i][1] \notin {"created", "connect"}
    BY DEF PostedOnce, ConnectPosted, IsConnect
  <2>2. CASE b = FALSE
    BY <2>1, <2>2 DEF Report
  <2>3. CASE b = TRUE
    <3>1. Lambda("exception") \in LambdaType /\ Lambda("exception")[1] = "exception"
      BY LambdaIsTyped DEF Lambdas
    <3>2. q = Append(posted, Lambda("exception"))
      BY <2>3 DEF Report
    <3> QED
      BY <1>1, <2>1, <3>1, <3>2
  <2> QED
    BY <2>2, <2>3
<1>3. posted' = q \/ posted' = Append(q, Lambda("connect"))
  OBVIOUS
<1>4. Lambda("connect") \in LambdaType /\ Lambda("connect")[1] = "connect"
  BY LambdaIsTyped DEF Lambdas
<1> HIDE DEF q
<1>5. /\ \A i \in 1 .. Len(posted') : posted'[i][1] # "created"
      /\ \A i \in 1 .. Len(posted') : posted'[i][1] = "connect" => i = Len(q) + 1
  <2>1. CASE posted' = q
    BY <1>1, <1>2, <2>1
  <2>2. CASE posted' = Append(q, Lambda("connect"))
    <3>1. /\ Len(posted') = Len(q) + 1 /\ posted'[Len(q) + 1] = Lambda("connect")
          /\ \A i \in 1 .. Len(q) : posted'[i] = q[i]
      BY <1>1, <1>4, <2>2
    <3> QED
      BY <1>1, <1>2, <1>4, <3>1
  <2> QED
    BY <1>3, <2>1, <2>2
<1> QED
  BY <1>5 DEF PostedOnce, IsConnect

\* The end of the stretch up to channel_bound.
LEMMA BoundReturnCore ==
  ASSUME IInv, Types', NEW thrown \in BOOLEAN, BoundReturn(thrown)
  PROVE  Core'
<1>t. Types /\ Core /\ ctx \in CtxType /\ op \in OpType /\ ctx.stat \in 0 .. 7
  BY TypeFacts DEF IInv
<1>c. /\ pc = "bound" /\ pc' = "idle" /\ phase' = phase /\ target' = target /\ proc' = proc
      /\ phase = "bound" /\ pc' \notin SetupPcs
  BY <1>t DEF BoundReturn, At, NothingMore, restVars, Core, SetupOnce, SetupPcs
<1>n. ~ConnectPosted /\ op["resolve"] = "none" /\ op["connect"] = "none"
  BY <1>t, <1>c DEF Core, SetupOnce, SetupPcs
<1>1. CASE target = "none"
  <2>1. posted' = Report(thrown, posted)
    BY <1>1 DEF BoundReturn
  <2>2. ConnectPosted' => ConnectPosted
    BY <1>t, <2>1, ReportNoConnect
  <2>3. CASE ctx.stat = BOUND
    <3>1. ctx' = Start(ctx, "read") /\ op' = Pending(op, "read")
      BY <1>1, <2>3 DEF BoundReturn, NothingMore
    <3> QED
      BY <1>t, <1>c, <1>1, <2>2, <3>1, ReadStep
  <2>4. CASE ctx.stat # BOUND
    <3>1. ctx' = ctx /\ op' = op
      BY <1>1, <2>4 DEF BoundReturn, NothingMore
    <3>2. pc' \notin SetupPcs \cup {"read", "disconnected"}
      BY <1>c
    <3>3. op'["write"] # "none" => "write" \in ctx'.tasks
      BY <1>t, <3>1 DEF Core, TasksCoverOps
    <3> QED
      BY <1>t, <1>c, <2>2, <3>1, <3>2, <3>3, MildStep
  <2> QED
    BY <2>3, <2>4
<1>2. CASE target # "none"
  <2>1. /\ ctx' = ctx
        /\ \/ op' = Pending(op, "resolve") /\ posted' = Report(thrown, posted)
           \/ op' = op
    BY <1>2 DEF BoundReturn, NothingMore
  <2>2. posted' = Report(thrown, posted) => ~ConnectPosted'
    BY <1>t, <1>n, ReportNoConnect
  <2>3. /\ op'["connect"] = "none" /\ (op'["read"] = "none" <=> op["read"] = "none")
        /\ (op'["write"] = "none" <=> op["write"] = "none")
    BY <1>t, <1>n, <2>1, OpNames, PendingBits
  <2>4. ConnectPosted' => op'["resolve"] = "none"
    BY <1>n, <2>1, <2>2
  <2>5. StatPhase'
    BY <1>t, <1>c, <2>1 DEF Core, StatPhase
  <2>6. SetupOnce'
    BY <1>t, <1>c, <1>2, <2>1, <2>3, <2>4 DEF SetupOnce, Connecting, SetupPcs
  <2>7. ReadPhase'
    BY <1>t, <1>c, <2>3 DEF Core, ReadPhase
  <2>8. TasksCoverOps'
    BY <1>t, <2>1, <2>3 DEF Core, TasksCoverOps
  <2>9. Reachable'
    BY <1>t, <1>c, <2>1, <2>3 DEF Core, Reachable, SetupPcs
  <2> QED
    BY <2>5, <2>6, <2>7, <2>8, <2>9 DEF Core
<1> QED
  BY <1>1, <1>2

\* Every step keeps what is posted once, and the order of the set-up.
LEMMA PlainCore ==
  ASSUME IInv, [Next]_vars, ~BoundTest, ~\E thrown \in BOOLEAN : BoundReturn(thrown)
  PROVE  PostedOnce' /\ Core'
<1>t. /\ Types /\ Core /\ PostedOnce /\ SendingQueued /\ ctx \in CtxType /\ op \in OpType
      /\ ctx.stat \in 0 .. 7
  BY TypeFacts DEF IInv
<1>u. Types'
  BY <1>t, TypeStep
<1>p. phase' = phase \/ phase # "new" \/ RunCreated =>
        PostedOnce' /\ (ConnectPosted' => ConnectPosted)
  BY <1>t, PlainPosts
<1>n. ctx.connected => phase # "new"
  BY <1>t DEF Core, StatPhase
<1>w. op["write"] # "none" => "write" \in ctx.tasks
  BY <1>t DEF Core, TasksCoverOps
<1>1. ASSUME NEW a \in BOOLEAN, WriteChannel(a) PROVE PostedOnce' /\ Core'
  <2>1. /\ target' = target /\ phase' = phase
        /\ pc' = pc \/ pc' \notin SetupPcs \cup {"read", "disconnected"}
        /\ proc' = "running" => proc = "running"
    BY <1>1 DEF WriteChannel, vars, restVars, SetupPcs
  <2>2. /\ proc' = "running" => ctx'.inMap = ctx.inMap /\ ctx'.socket = ctx.socket
        /\ "read" \in ctx.tasks => "read" \in ctx'.tasks
        /\ ctx'.connected = ctx.connected
        /\ ctx'.stat = ctx.stat \/ ctx'.stat >= REQ_CLOSE
    BY <1>1 DEF WriteChannel, vars
  <2>3. /\ \A p \in {"resolve", "connect", "read"} : op'[p] = "none" <=> op[p] = "none"
        /\ op'["write"] # "none" => "write" \in ctx'.tasks
    BY <1>w, <1>1 DEF WriteChannel, vars
  <2>4. PostedOnce' /\ (ConnectPosted' => ConnectPosted)
    BY <1>p, <2>1
  <2> QED
    BY <1>t, <1>u, <2>1, <2>2, <2>3, <2>4, MildStep
<1>2. CASE FireUserEvent
  <2>1. /\ target' = target /\ phase' = phase
        /\ pc' = pc \/ pc' \notin SetupPcs \cup {"read", "disconnected"}
        /\ proc' = "running" => proc = "running"
    BY <1>2 DEF FireUserEvent, vars, restVars, SetupPcs
  <2>2. /\ proc' = "running" => ctx'.inMap = ctx.inMap /\ ctx'.socket = ctx.socket
        /\ "read" \in ctx.tasks => "read" \in ctx'.tasks
        /\ ctx'.connected = ctx.connected
        /\ ctx'.stat = ctx.stat \/ ctx'.stat >= REQ_CLOSE
    BY <1>2 DEF FireUserEvent, vars
  <2>3. /\ \A p \in {"resolve", "connect", "read"} : op'[p] = "none" <=> op[p] = "none"
        /\ op'["write"] # "none" => "write" \in ctx'.tasks
    BY <1>w, <1>2 DEF FireUserEvent, vars
  <2>4. PostedOnce' /\ (ConnectPosted' => ConnectPosted)
    BY <1>p, <2>1
  <2> QED
    BY <1>t, <1>u, <2>1, <2>2, <2>3, <2>4, MildStep
<1>3. CASE CallbackClose
  <2>1. /\ target' = target /\ phase' = phase
        /\ pc' = pc \/ pc' \notin SetupPcs \cup {"read", "disconnected"}
        /\ proc' = "running" => proc = "running"
    BY <1>3 DEF CallbackClose, vars, restVars, SetupPcs
  <2>2. /\ proc' = "running" => ctx'.inMap = ctx.inMap /\ ctx'.socket = ctx.socket
        /\ "read" \in ctx.tasks => "read" \in ctx'.tasks
        /\ ctx'.connected = ctx.connected
        /\ ctx'.stat = ctx.stat \/ ctx'.stat >= REQ_CLOSE
    <3>1. ctx' = [ctx EXCEPT !.stat = REQ_CLOSE]
      BY <1>3 DEF CallbackClose
    <3>2. /\ ctx'.stat = REQ_CLOSE /\ ctx'.connected = ctx.connected /\ ctx'.tasks = ctx.tasks
          /\ ctx'.socket = ctx.socket /\ ctx'.inMap = ctx.inMap
      BY <1>t, <3>1, CloseStored
    <3> QED
      BY <3>2
  <2>3. /\ \A p \in {"resolve", "connect", "read"} : op'[p] = "none" <=> op[p] = "none"
        /\ op'["write"] # "none" => "write" \in ctx'.tasks
    <3>1. ctx'.tasks = ctx.tasks /\ op' = op
      BY <1>t, <1>3, CloseStored DEF CallbackClose
    <3> QED
      BY <1>w, <3>1
  <2>4. PostedOnce' /\ (ConnectPosted' => ConnectPosted)
    BY <1>p, <2>1
  <2> QED
    BY <1>t, <1>u, <2>1, <2>2, <2>3, <2>4, MildStep
<1>4. CASE StopService
  <2>1. /\ target' = target /\ phase' = phase
        /\ pc' = pc \/ pc' \notin SetupPcs \cup {"read", "disconnected"}
        /\ proc' = "running" => proc = "running"
    BY <1>4 DEF StopService, StrandFree
  <2>2. /\ proc' = "running" => ctx'.inMap = ctx.inMap /\ ctx'.socket = ctx.socket
        /\ "read" \in ctx.tasks => "read" \in ctx'.tasks
        /\ ctx'.connected = ctx.connected
        /\ ctx'.stat = ctx.stat \/ ctx'.stat >= REQ_CLOSE
    <3>1. /\ proc' = "stopped"
          /\ \/ ctx' = ctx
             \/ ctx' = [ctx EXCEPT !.stat = CLOSED, !.socket = "closed", !.inMap = FALSE]
      BY <1>4 DEF StopService
    <3>2. /\ ctx'.tasks = ctx.tasks /\ ctx'.connected = ctx.connected
          /\ ctx'.stat = ctx.stat \/ ctx'.stat = CLOSED
      BY <1>t, <3>1, ClosedAndErased
    <3> QED
      BY <3>1, <3>2
  <2>3. /\ \A p \in {"resolve", "connect", "read"} : op'[p] = "none" <=> op[p] = "none"
        /\ op'["write"] # "none" => "write" \in ctx'.tasks
    <3>1. \/ ctx' = ctx
          \/ ctx' = [ctx EXCEPT !.stat = CLOSED, !.socket = "closed", !.inMap = FALSE]
      BY <1>4 DEF StopService
    <3>2. ctx'.tasks = ctx.tasks
      BY <1>t, <3>1, ClosedAndErased
    <3>3. op' = op \/ op' = AbortOps(op)
      BY <1>4 DEF StopService
    <3>4. \A p \in Ops : op'[p] = "none" <=> op[p] = "none"
      BY <1>t, <3>3, AbortOpsFacts
    <3> QED
      BY <1>w, <3>2, <3>4, OpNames
  <2>4. PostedOnce' /\ (ConnectPosted' => ConnectPosted)
    BY <1>p, <2>1
  <2> QED
    BY <1>t, <1>u, <2>1, <2>2, <2>3, <2>4, MildStep
<1>5. ASSUME NEW c \in Closers, Close(c) PROVE PostedOnce' /\ Core'
  <2>1. /\ target' = target /\ phase' = phase
        /\ pc' = pc \/ pc' \notin SetupPcs \cup {"read", "disconnected"}
        /\ proc' = "running" => proc = "running"
    BY <1>5 DEF Close
  <2>2. /\ proc' = "running" => ctx'.inMap = ctx.inMap /\ ctx'.socket = ctx.socket
        /\ "read" \in ctx.tasks => "read" \in ctx'.tasks
        /\ ctx'.connected = ctx.connected
        /\ ctx'.stat = ctx.stat \/ ctx'.stat >= REQ_CLOSE
    <3>1. ctx' = ctx \/ ctx' = [ctx EXCEPT !.stat = REQ_CLOSE]
      BY <1>5 DEF Close, CloserSet
    <3> QED
      BY <1>t, <3>1, CloseStored
  <2>3. /\ \A p \in {"resolve", "connect", "read"} : op'[p] = "none" <=> op[p] = "none"
        /\ op'["write"] # "none" => "write" \in ctx'.tasks
    <3>1. ctx' = ctx \/ ctx' = [ctx EXCEPT !.stat = REQ_CLOSE]
      BY <1>5 DEF Close, CloserSet
    <3>2. ctx'.tasks = ctx.tasks
      BY <1>t, <3>1, CloseStored
    <3>3. op' = op
      BY <1>5 DEF Close
    <3> QED
      BY <1>w, <3>2, <3>3
  <2>4. PostedOnce' /\ (ConnectPosted' => ConnectPosted)
    BY <1>p, <2>1
  <2> QED
    BY <1>t, <1>u, <2>1, <2>2, <2>3, <2>4, MildStep
<1>6. CASE RunCreated
  <2>1. phase' = phase \/ phase # "new" \/ RunCreated
    BY <1>6
  <2>2. PostedOnce' /\ (ConnectPosted' => ConnectPosted)
    BY <1>p, <2>1
  <2> QED
    BY <1>u, <1>6, <2>2, RunCreatedCore
<1>7. CASE RunConnect
  <2>1. PostedOnce'
    BY <1>p, <1>7 DEF RunConnect
  <2> QED
    BY <1>u, <1>7, <2>1, RunConnectCore
<1>8. CASE RunWrite
  <2>1. /\ target' = target /\ phase' = phase
        /\ pc' = pc \/ pc' \notin SetupPcs \cup {"read", "disconnected"}
        /\ proc' = "running" => proc = "running"
    BY <1>8 DEF RunWrite, vars, restVars, SetupPcs
  <2>2. /\ proc' = "running" => ctx'.inMap = ctx.inMap /\ ctx'.socket = ctx.socket
        /\ "read" \in ctx.tasks => "read" \in ctx'.tasks
        /\ ctx'.connected = ctx.connected
        /\ ctx'.stat = ctx.stat \/ ctx'.stat >= REQ_CLOSE
    BY <1>8 DEF RunWrite, vars
  <2>3. /\ \A p \in {"resolve", "connect", "read"} : op'[p] = "none" <=> op[p] = "none"
        /\ op'["write"] # "none" => "write" \in ctx'.tasks
    BY <1>w, <1>8 DEF RunWrite, vars
  <2>4. PostedOnce' /\ (ConnectPosted' => ConnectPosted)
    BY <1>p, <2>1
  <2> QED
    BY <1>t, <1>u, <2>1, <2>2, <2>3, <2>4, MildStep
<1>9. CASE RunClose
  <2>1. CASE ctx.stat = REQ_CLOSE /\ ctx.tasks # {}
    <3>1. /\ ctx' = ctx /\ phase' = phase /\ target' = target /\ pc' = pc
          /\ proc' = "running" => proc = "running"
      BY <1>9, <2>1 DEF RunClose
    <3>2. op' = op \/ op' = AbortOps(op)
      BY <1>9, <2>1 DEF RunClose
    <3>3. \A p \in Ops : op'[p] = "none" <=> op[p] = "none"
      BY <1>t, <3>2, AbortOpsFacts
    <3>4. PostedOnce' /\ (ConnectPosted' => ConnectPosted)
      BY <1>p, <3>1
    <3>5. /\ \A p \in {"resolve", "connect", "read"} : op'[p] = "none" <=> op[p] = "none"
          /\ op'["write"] # "none" => "write" \in ctx'.tasks
      BY <1>w, <3>1, <3>3, OpNames
    <3> QED
      BY <1>t, <1>u, <3>1, <3>4, <3>5, MildStep
  <2>2. CASE ~(ctx.stat = REQ_CLOSE /\ ctx.tasks # {})
    <3>1. Ended(ctx, op)
      BY <1>t, <1>9, <2>2, EndFacts DEF RunClose
    <3>2. target' = target /\ proc' = proc
      BY <1>9, <2>2 DEF RunClose
    <3>3. phase' = phase \/ phase # "new"
      BY <1>n, <3>1 DEF Ended, Closed, NothingMore
    <3>4. PostedOnce' /\ (ConnectPosted' => ConnectPosted)
      BY <1>p, <3>3
    <3> QED
      BY <1>t, <1>u, <1>w, <3>1, <3>2, <3>4, EndedStep
  <2> QED
    BY <2>1, <2>2
<1>10. ASSUME NEW name \in {"exception", "event"}, RunPlain(name) PROVE PostedOnce' /\ Core'
  <2>1. /\ target' = target /\ phase' = phase
        /\ pc' = pc \/ pc' \notin SetupPcs \cup {"read", "disconnected"}
        /\ proc' = "running" => proc = "running"
    BY <1>10 DEF RunPlain, vars, restVars, SetupPcs
  <2>2. /\ proc' = "running" => ctx'.inMap = ctx.inMap /\ ctx'.socket = ctx.socket
        /\ "read" \in ctx.tasks => "read" \in ctx'.tasks
        /\ ctx'.connected = ctx.connected
        /\ ctx'.stat = ctx.stat \/ ctx'.stat >= REQ_CLOSE
    BY <1>10 DEF RunPlain, vars
  <2>3. /\ \A p \in {"resolve", "connect", "read"} : op'[p] = "none" <=> op[p] = "none"
        /\ op'["write"] # "none" => "write" \in ctx'.tasks
    BY <1>w, <1>10 DEF RunPlain, vars
  <2>4. PostedOnce' /\ (ConnectPosted' => ConnectPosted)
    BY <1>p, <2>1
  <2> QED
    BY <1>t, <1>u, <2>1, <2>2, <2>3, <2>4, MildStep
<1>11. CASE ResolveComplete
  <2>1. phase' = phase \/ phase # "new" \/ RunCreated
    BY <1>11 DEF ResolveComplete, NothingMore
  <2>2. PostedOnce' /\ (ConnectPosted' => ConnectPosted)
    BY <1>p, <2>1
  <2> QED
    BY <1>u, <1>11, <2>2, ResolveCompleteCore
<1>12. CASE ConnectComplete
  <2>1. phase' = phase \/ phase # "new" \/ RunCreated
    BY <1>12 DEF ConnectComplete
  <2>2. PostedOnce' /\ (ConnectPosted' => ConnectPosted)
    BY <1>p, <2>1
  <2> QED
    BY <1>u, <1>12, <2>2, ConnectCompleteCore
<1>13. CASE ReadComplete
  <2>1. phase' = phase \/ phase # "new" \/ RunCreated
    BY <1>13 DEF ReadComplete
  <2>2. PostedOnce' /\ (ConnectPosted' => ConnectPosted)
    BY <1>p, <2>1
  <2> QED
    BY <1>u, <1>13, <2>2, ReadCompleteCore
<1>14. CASE ReadFailed
  <2>1. phase' = phase \/ phase # "new" \/ RunCreated
    <3>1. op["read"] # "none"
      BY <1>14 DEF ReadFailed, Completing, Completed
    <3> QED
      BY <1>t, <3>1 DEF Core, ReadPhase
  <2>2. PostedOnce' /\ (ConnectPosted' => ConnectPosted)
    BY <1>p, <2>1
  <2> QED
    BY <1>u, <1>14, <2>2, ReadFailedCore
<1>15. CASE WriteComplete
  <2> DEFINE x == Cleared(ctx, "write")
             o == Done("write")
  <2>x. /\ x \in CtxType /\ o \in OpType /\ x.tasks = ctx.tasks \ {"write"} /\ x.stat = ctx.stat
        /\ x.connected = ctx.connected /\ x.socket = ctx.socket /\ x.inMap = ctx.inMap
    BY <1>t, OpNames, ClearedFacts, DoneFacts
  <2>o. /\ o["write"] = "none"
        /\ \A p \in {"resolve", "connect", "read"} : o[p] = "none" <=> op[p] = "none"
    BY <1>t, OpNames, DoneBits
  <2> HIDE DEF x, o
  <2>1. CASE op["write"] = "ok" /\ Sendable
    <3>1. ctx' = x /\ op' = o /\ pc' = "written" /\ phase' = phase
      BY <1>15, <2>1 DEF WriteComplete, x, o
    <3>2. target' = target /\ proc' = proc /\ pc' \notin SetupPcs \cup {"read", "disconnected"}
      BY <1>15, <3>1 DEF WriteComplete, restVars, SetupPcs
    <3>3. PostedOnce' /\ (ConnectPosted' => ConnectPosted)
      BY <1>p, <3>1
    <3> QED
      BY <1>t, <1>u, <2>x, <2>o, <3>1, <3>2, <3>3, MildStep
  <2>2. CASE ~(op["write"] = "ok" /\ Sendable)
    <3>1. Ended(x, o)
      <4>1. HandleReqClose(x, o)
        BY <1>15, <2>2 DEF WriteComplete, x, o
      <4> QED
        BY <2>x, <4>1, EndFacts
    <3>2. target' = target /\ proc' = proc
      BY <1>15 DEF WriteComplete, restVars
    <3>3. phase' = phase \/ phase # "new"
      BY <1>n, <2>x, <3>1 DEF Ended, Closed, NothingMore
    <3>4. PostedOnce' /\ (ConnectPosted' => ConnectPosted)
      BY <1>p, <3>3
    <3> QED
      BY <1>t, <1>u, <2>x, <2>o, <3>1, <3>2, <3>4, EndedStep
  <2> QED
    BY <2>1, <2>2
<1>16. CASE BoundTest
  BY <1>16
<1>17. CASE BoundSet
  <2>1. phase' = phase \/ phase # "new" \/ RunCreated
    BY <1>t, <1>17 DEF BoundSet, At, Core, SetupOnce
  <2>2. PostedOnce' /\ (ConnectPosted' => ConnectPosted)
    BY <1>p, <2>1
  <2> QED
    BY <1>u, <1>17, <2>2, BoundSetCore
<1>18. CASE ConnectedSet
  <2>1. phase' = phase \/ phase # "new" \/ RunCreated
    BY <1>t, <1>18 DEF ConnectedSet, At, Core, SetupOnce
  <2>2. PostedOnce' /\ (ConnectPosted' => ConnectPosted)
    BY <1>p, <2>1
  <2> QED
    BY <1>u, <1>18, <2>2, ConnectedSetCore
<1>19. ASSUME NEW thrown \in BOOLEAN, CreatedReturn(thrown) PROVE PostedOnce' /\ Core'
  <2>1. phase' = phase \/ phase # "new" \/ RunCreated
    BY <1>19 DEF CreatedReturn
  <2>2. PostedOnce' /\ (ConnectPosted' => ConnectPosted)
    BY <1>p, <2>1
  <2> QED
    BY <1>u, <1>19, <2>2, CreatedReturnCore
<1>20. ASSUME NEW thrown \in BOOLEAN, BoundReturn(thrown) PROVE PostedOnce' /\ Core'
  BY <1>20
<1>21. ASSUME NEW thrown \in BOOLEAN, ConnectedReturn(thrown) PROVE PostedOnce' /\ Core'
  <2>1. ReadOrClose({CONNECTED}) /\ target' = target /\ proc' = proc
    BY <1>21 DEF ConnectedReturn, restVars
  <2>2. CASE Ended(ctx, op)
    <3>1. phase' = phase \/ phase # "new"
      BY <1>n, <2>2 DEF Ended, Closed, NothingMore
    <3>2. PostedOnce' /\ (ConnectPosted' => ConnectPosted)
      BY <1>p, <3>1
    <3> QED
      BY <1>t, <1>u, <1>w, <2>1, <2>2, <3>2, EndedStep
  <2>3. CASE /\ ctx.stat \in {CONNECTED} /\ ctx' = Start(ctx, "read")
             /\ op' = Pending(op, "read") /\ pc' = "idle" /\ phase' = phase
    <3>1. phase \in {"bound", "connected"} /\ (target = "none" \/ phase = "connected")
      <4>1. ctx.stat = CONNECTED
        BY <2>3
      <4> QED
        BY <1>t, <4>1 DEF Core, StatPhase
    <3>2. PostedOnce' /\ (ConnectPosted' => ConnectPosted)
      BY <1>p, <2>3
    <3> QED
      BY <1>t, <1>u, <2>1, <2>3, <3>1, <3>2, ReadStep
  <2> QED
    BY <1>t, <2>1, <2>2, <2>3, ReadOrCloseFacts
<1>22. ASSUME NEW thrown \in BOOLEAN, ReadReturn(thrown) PROVE PostedOnce' /\ Core'
  <2>1. ReadOrClose({BOUND, CONNECTED}) /\ target' = target /\ proc' = proc
    BY <1>22 DEF ReadReturn, restVars
  <2>2. CASE Ended(ctx, op)
    <3>1. phase' = phase \/ phase # "new"
      BY <1>n, <2>2 DEF Ended, Closed, NothingMore
    <3>2. PostedOnce' /\ (ConnectPosted' => ConnectPosted)
      BY <1>p, <3>1
    <3> QED
      BY <1>t, <1>u, <1>w, <2>1, <2>2, <3>2, EndedStep
  <2>3. CASE /\ ctx.stat \in {BOUND, CONNECTED} /\ ctx' = Start(ctx, "read")
             /\ op' = Pending(op, "read") /\ pc' = "idle" /\ phase' = phase
    <3>1. phase \in {"bound", "connected"} /\ (target = "none" \/ phase = "connected")
      BY <1>t, <1>22 DEF ReadReturn, At, Core, ReadPhase
    <3>2. PostedOnce' /\ (ConnectPosted' => ConnectPosted)
      BY <1>p, <2>3
    <3> QED
      BY <1>t, <1>u, <2>1, <2>3, <3>1, <3>2, ReadStep
  <2> QED
    BY <1>t, <2>1, <2>2, <2>3, ReadOrCloseFacts
<1>23. ASSUME NEW thrown \in BOOLEAN, WrittenReturn(thrown) PROVE PostedOnce' /\ Core'
  <2>1. CASE Sendable /\ wq # <<>>
    <3>1. ctx' = Start(ctx, "write") /\ op' = Pending(op, "write") /\ pc' = "idle" /\ phase' = phase
      BY <1>23, <2>1 DEF WrittenReturn, NothingMore
    <3>2. target' = target /\ proc' = proc /\ pc' \notin SetupPcs \cup {"read", "disconnected"}
      BY <1>23, <3>1 DEF WrittenReturn, restVars, SetupPcs
    <3>3. PostedOnce' /\ (ConnectPosted' => ConnectPosted)
      BY <1>p, <3>1
    <3>4. /\ ctx'.stat = ctx.stat /\ ctx'.connected = ctx.connected /\ ctx'.inMap = ctx.inMap
          /\ ctx'.socket = ctx.socket /\ ctx'.tasks = ctx.tasks \cup {"write"}
      BY <1>t, <3>1, OpNames, StartFacts
    <3>5. \A p \in Ops \ {"write"} : op'[p] = op[p]
      BY <1>t, <3>1, OpNames, PendingFacts
    <3>6. \A p \in {"resolve", "connect", "read"} : op'[p] = "none" <=> op[p] = "none"
      BY <3>5, OpNames
    <3> QED
      BY <1>t, <1>u, <3>1, <3>2, <3>3, <3>4, <3>6, MildStep
  <2>2. CASE ~(Sendable /\ wq # <<>>)
    <3>1. Ended(ctx, op)
      BY <1>t, <1>23, <2>2, EndFacts DEF WrittenReturn
    <3>2. target' = target /\ proc' = proc
      BY <1>23 DEF WrittenReturn, restVars
    <3>3. phase' = phase \/ phase # "new"
      BY <1>n, <3>1 DEF Ended, Closed, NothingMore
    <3>4. PostedOnce' /\ (ConnectPosted' => ConnectPosted)
      BY <1>p, <3>3
    <3> QED
      BY <1>t, <1>u, <1>w, <3>1, <3>2, <3>4, EndedStep
  <2> QED
    BY <2>1, <2>2
<1>24. ASSUME NEW thrown \in BOOLEAN, DisconnectedReturn(thrown) PROVE PostedOnce' /\ Core'
  <2>1. phase' = phase \/ phase # "new" \/ RunCreated
    BY <1>24 DEF DisconnectedReturn, Release
  <2>2. PostedOnce' /\ (ConnectPosted' => ConnectPosted)
    BY <1>p, <2>1
  <2> QED
    BY <1>u, <1>24, <2>2, DisconnectedReturnCore
<1>25. ASSUME NEW thrown \in BOOLEAN, PlainReturn(thrown) PROVE PostedOnce' /\ Core'
  <2>1. /\ target' = target /\ phase' = phase
        /\ pc' = pc \/ pc' \notin SetupPcs \cup {"read", "disconnected"}
        /\ proc' = "running" => proc = "running"
    BY <1>25 DEF PlainReturn, NothingMore, restVars, SetupPcs
  <2>2. /\ proc' = "running" => ctx'.inMap = ctx.inMap /\ ctx'.socket = ctx.socket
        /\ "read" \in ctx.tasks => "read" \in ctx'.tasks
        /\ ctx'.connected = ctx.connected
        /\ ctx'.stat = ctx.stat \/ ctx'.stat >= REQ_CLOSE
    BY <1>25 DEF PlainReturn, NothingMore
  <2>3. /\ \A p \in {"resolve", "connect", "read"} : op'[p] = "none" <=> op[p] = "none"
        /\ op'["write"] # "none" => "write" \in ctx'.tasks
    BY <1>w, <1>25 DEF PlainReturn, NothingMore
  <2>4. PostedOnce' /\ (ConnectPosted' => ConnectPosted)
    BY <1>p, <2>1
  <2> QED
    BY <1>t, <1>u, <2>1, <2>2, <2>3, <2>4, MildStep
<1>26. ASSUME NEW thrown \in BOOLEAN, NEW serialized \in BOOLEAN, WriteReturn(thrown, serialized)
       PROVE  PostedOnce' /\ Core'
  <2>1. /\ target' = target /\ phase' = phase
        /\ pc' = pc \/ pc' \notin SetupPcs \cup {"read", "disconnected"}
        /\ proc' = "running" => proc = "running"
    BY <1>26 DEF WriteReturn, NothingMore, restVars, SetupPcs
  <2>2. /\ proc' = "running" => ctx'.inMap = ctx.inMap /\ ctx'.socket = ctx.socket
        /\ "read" \in ctx.tasks => "read" \in ctx'.tasks
        /\ ctx'.connected = ctx.connected
        /\ ctx'.stat = ctx.stat \/ ctx'.stat >= REQ_CLOSE
    <3>1. ctx' = ctx \/ ctx' = Start(ctx, "write")
      BY <1>26 DEF WriteReturn, NothingMore
    <3> QED
      BY <1>t, <3>1, OpNames, StartFacts
  <2>3. /\ \A p \in {"resolve", "connect", "read"} : op'[p] = "none" <=> op[p] = "none"
        /\ op'["write"] # "none" => "write" \in ctx'.tasks
    <3>1. CASE ctx' = Start(ctx, "write") /\ (op' = op \/ op' = Pending(op, "write"))
      <4>1. "write" \in ctx'.tasks
        BY <1>t, <3>1, OpNames, StartFacts
      <4>2. \A p \in Ops \ {"write"} : Pending(op, "write")[p] = op[p]
        BY <1>t, OpNames, PendingFacts
      <4> QED
        BY <3>1, <4>1, <4>2, OpNames
    <3>2. CASE ctx' = ctx /\ op' = op
      BY <1>w, <3>2
    <3> QED
      BY <1>26, <3>1, <3>2 DEF WriteReturn, NothingMore
  <2>4. PostedOnce' /\ (ConnectPosted' => ConnectPosted)
    BY <1>p, <2>1
  <2> QED
    BY <1>t, <1>u, <2>1, <2>2, <2>3, <2>4, MildStep
<1>27. ASSUME NEW o \in Ops, NetComplete(o) PROVE PostedOnce' /\ Core'
  <2>1. /\ target' = target /\ phase' = phase
        /\ pc' = pc \/ pc' \notin SetupPcs \cup {"read", "disconnected"}
        /\ proc' = "running" => proc = "running"
    BY <1>27 DEF NetComplete, vars, restVars, SetupPcs
  <2>2. /\ proc' = "running" => ctx'.inMap = ctx.inMap /\ ctx'.socket = ctx.socket
        /\ "read" \in ctx.tasks => "read" \in ctx'.tasks
        /\ ctx'.connected = ctx.connected
        /\ ctx'.stat = ctx.stat \/ ctx'.stat >= REQ_CLOSE
    BY <1>27 DEF NetComplete, vars
  <2>3. /\ \A p \in {"resolve", "connect", "read"} : op'[p] = "none" <=> op[p] = "none"
        /\ op'["write"] # "none" => "write" \in ctx'.tasks
    <3>1. \A p \in Ops : op'[p] = "none" <=> op[p] = "none"
      BY <1>t, <1>27 DEF NetComplete, OpType
    <3>2. ctx' = ctx
      BY <1>27 DEF NetComplete
    <3> QED
      BY <1>w, <3>1, <3>2, OpNames
  <2>4. PostedOnce' /\ (ConnectPosted' => ConnectPosted)
    BY <1>p, <2>1
  <2> QED
    BY <1>t, <1>u, <2>1, <2>2, <2>3, <2>4, MildStep
<1>28. CASE UNCHANGED vars
  <2>1. /\ target' = target /\ phase' = phase
        /\ pc' = pc \/ pc' \notin SetupPcs \cup {"read", "disconnected"}
        /\ proc' = "running" => proc = "running"
    BY <1>28 DEF vars, restVars, SetupPcs
  <2>2. /\ proc' = "running" => ctx'.inMap = ctx.inMap /\ ctx'.socket = ctx.socket
        /\ "read" \in ctx.tasks => "read" \in ctx'.tasks
        /\ ctx'.connected = ctx.connected
        /\ ctx'.stat = ctx.stat \/ ctx'.stat >= REQ_CLOSE
    BY <1>28 DEF vars
  <2>3. /\ \A p \in {"resolve", "connect", "read"} : op'[p] = "none" <=> op[p] = "none"
        /\ op'["write"] # "none" => "write" \in ctx'.tasks
    BY <1>w, <1>28 DEF vars
  <2>4. PostedOnce' /\ (ConnectPosted' => ConnectPosted)
    BY <1>p, <2>1
  <2> QED
    BY <1>t, <1>u, <2>1, <2>2, <2>3, <2>4, MildStep
<1> QED
  BY <1>1, <1>2, <1>3, <1>4, <1>5, <1>6, <1>7, <1>8, <1>9, <1>10, <1>11, <1>12, <1>13,
     <1>14, <1>15, <1>16, <1>17, <1>18, <1>19, <1>20, <1>21, <1>22, <1>23, <1>24, <1>25,
     <1>26, <1>27, <1>28
  DEF Next, StrandServes, StrandGoesOn, RunPosted

\* Every step keeps Core, and the first lambdas unique.
LEMMA CoreStep ==
  ASSUME IInv, [Next]_vars
  PROVE  PostedOnce' /\ Core'
<1>t. Types /\ Core /\ PostedOnce /\ SendingQueued
  BY DEF IInv
<1>u. Types'
  BY <1>t, TypeStep
<1>1. CASE BoundTest
  <2>1. phase = "created" /\ ~ConnectPosted
    BY <1>t, <1>1 DEF BoundTest, At, Core, SetupOnce, SetupPcs
  <2>2. \/ posted' = Report(FALSE, posted)
        \/ posted' = Append(Report(FALSE, posted), Lambda("connect"))
    BY <1>1 DEF BoundTest, StartConnect, Report
  <2>3. PostedOnce'
    BY <1>t, <2>1, <2>2, ConnectPosts
  <2> QED
    BY <1>u, <1>1, <2>3, BoundTestCore
<1>2. ASSUME NEW thrown \in BOOLEAN, BoundReturn(thrown) PROVE PostedOnce' /\ Core'
  <2>1. phase = "bound" /\ ~ConnectPosted
    BY <1>t, <1>2 DEF BoundReturn, At, Core, SetupOnce, SetupPcs
  <2>2. \/ posted' = Report(thrown, posted)
        \/ posted' = Append(Report(thrown, posted), Lambda("connect"))
    BY <1>2 DEF BoundReturn
  <2>3. PostedOnce'
    BY <1>t, <2>1, <2>2, ConnectPosts
  <2> QED
    BY <1>u, <1>2, <2>3, BoundReturnCore
<1>3. CASE ~BoundTest /\ ~\E thrown \in BOOLEAN : BoundReturn(thrown)
  BY <1>3, PlainCore
<1> QED
  BY <1>1, <1>2, <1>3

-----------------------------------------------------------------------------
(* The inductive invariant.                                                 *)

\* write_complete always finds its datagram in the queue.
LEMMA SendingStep ==
  ASSUME Types, SendingQueued, [Next]_vars
  PROVE  SendingQueued'
<1>t. ctx \in CtxType /\ op \in OpType /\ wq \in Seq(Datagrams)
  BY TypeFacts
<1>i. wq' = wq /\ (op'["write"] # "none" => op["write"] # "none") => SendingQueued'
  BY DEF SendingQueued
<1>r. Pending(op, "read")["write"] = op["write"] /\ Pending(op, "resolve")["write"] = op["write"]
  BY <1>t, StartsOther
<1>s. Pending(op, "connect")["write"] = op["write"]
  BY <1>t, OpNames, PendingFacts
<1>1. ASSUME NEW a \in BOOLEAN, WriteChannel(a) PROVE SendingQueued'
  BY <1>i, <1>1 DEF WriteChannel, dataVars
<1>2. CASE FireUserEvent
  BY <1>i, <1>2 DEF FireUserEvent, dataVars
<1>3. CASE CallbackClose
  BY <1>i, <1>3 DEF CallbackClose, dataVars
<1>4. CASE StopService
  <2>1. op' = op \/ op' = AbortOps(op)
    BY <1>4 DEF StopService
  <2>2. op'["write"] # "none" => op["write"] # "none"
    BY <1>t, <2>1, OpNames, AbortOpsFacts
  <2> QED
    BY <1>i, <1>4, <2>2 DEF StopService, dataVars
<1>5. ASSUME NEW c \in Closers, Close(c) PROVE SendingQueued'
  BY <1>i, <1>5 DEF Close, dataVars
<1>6. CASE RunCreated
  BY <1>i, <1>6 DEF RunCreated, dataVars
<1>7. CASE RunConnect
  <2>1. op'["write"] = op["write"]
    BY <1>t, <1>7, <1>s DEF RunConnect
  <2> QED
    BY <1>i, <1>7, <2>1 DEF RunConnect, dataVars
<1>8. CASE RunWrite
  BY <1>i, <1>8 DEF RunWrite, dataVars
<1>9. CASE RunClose
  <2>1. op'["write"] # "none" => op["write"] # "none"
    <3>1. CASE op' = op \/ op' = AbortOps(op)
      BY <1>t, <3>1, OpNames, AbortOpsFacts
    <3>2. CASE Ended(ctx, op)
      BY <3>2, OpNames DEF Ended, Closed, NothingMore
    <3> QED
      BY <1>t, <1>9, <3>1, <3>2, EndFacts DEF RunClose
  <2> QED
    BY <1>i, <1>9, <2>1 DEF RunClose, dataVars
<1>10. ASSUME NEW name \in {"exception", "event"}, RunPlain(name) PROVE SendingQueued'
  BY <1>i, <1>10 DEF RunPlain, dataVars
<1>11. CASE ResolveComplete
  <2> DEFINE o == Done("resolve")
  <2>1. o \in OpType /\ o["write"] = op["write"]
    BY <1>t, OpNames, DoneFacts
  <2>2. op' = o \/ op' = Pending(o, "connect")
    BY <1>11 DEF ResolveComplete, NothingMore
  <2> HIDE DEF o
  <2>3. op'["write"] = op["write"]
    BY <2>1, <2>2, StartsOther
  <2> QED
    BY <1>i, <1>11, <2>3 DEF ResolveComplete, dataVars
<1>12. CASE ConnectComplete
  <2>1. op'["write"] = op["write"]
    BY <1>t, <1>12, OpNames, DoneFacts DEF ConnectComplete
  <2> QED
    BY <1>i, <1>12, <2>1 DEF ConnectComplete, dataVars
<1>13. CASE ReadComplete
  <2>1. op'["write"] = op["write"]
    BY <1>t, <1>13, OpNames, DoneFacts DEF ReadComplete
  <2> QED
    BY <1>i, <1>13, <2>1 DEF ReadComplete, dataVars
<1>14. CASE ReadFailed
  <2> DEFINE o == Done("read")
  <2>1. o \in OpType /\ o["write"] = op["write"]
    BY <1>t, OpNames, DoneFacts
  <2>2. op' = o \/ op' = AbortOps(o)
    BY <1>14 DEF ReadFailed, Release
  <2> HIDE DEF o
  <2>3. op'["write"] # "none" => op["write"] # "none"
    BY <2>1, <2>2, OpNames, AbortOpsFacts
  <2> QED
    BY <1>i, <1>14, <2>3 DEF ReadFailed, dataVars
<1>15. CASE WriteComplete
  <2> DEFINE x == Cleared(ctx, "write")
             o == Done("write")
  <2>1. x \in CtxType /\ o \in OpType /\ o["write"] = "none"
    BY <1>t, OpNames, ClearedFacts, DoneFacts
  <2> HIDE DEF x, o
  <2>2. op' = o \/ HandleReqClose(x, o)
    BY <1>15 DEF WriteComplete, x, o
  <2>3. op'["write"] = "none"
    BY <2>1, <2>2, OpNames, EndFacts DEF Ended, Closed, NothingMore
  <2> QED
    BY <2>3 DEF SendingQueued
<1>16. CASE BoundTest
  <2>1. op' = op \/ op' = Pending(op, "resolve")
    BY <1>16 DEF BoundTest, StartConnect
  <2> QED
    BY <1>i, <1>r, <1>16, <2>1 DEF BoundTest, dataVars
<1>17. CASE BoundSet
  BY <1>i, <1>17 DEF BoundSet, dataVars
<1>18. CASE ConnectedSet
  BY <1>i, <1>18 DEF ConnectedSet, dataVars
<1>19. ASSUME NEW thrown \in BOOLEAN, CreatedReturn(thrown) PROVE SendingQueued'
  BY <1>i, <1>19 DEF CreatedReturn, dataVars
<1>20. ASSUME NEW thrown \in BOOLEAN, BoundReturn(thrown) PROVE SendingQueued'
  <2>1. op' = op \/ op' = Pending(op, "read") \/ op' = Pending(op, "resolve")
    BY <1>20 DEF BoundReturn, NothingMore
  <2> QED
    BY <1>i, <1>r, <1>20, <2>1 DEF BoundReturn, dataVars
<1>21. ASSUME NEW thrown \in BOOLEAN, ConnectedReturn(thrown) PROVE SendingQueued'
  <2>1. op' = Pending(op, "read") \/ Ended(ctx, op)
    BY <1>21, ReadOrCloseFacts DEF ConnectedReturn
  <2>2. op'["write"] # "none" => op["write"] # "none"
    BY <1>r, <2>1, OpNames DEF Ended, Closed, NothingMore
  <2> QED
    BY <1>i, <1>21, <2>2 DEF ConnectedReturn, dataVars
<1>22. ASSUME NEW thrown \in BOOLEAN, ReadReturn(thrown) PROVE SendingQueued'
  <2>1. op' = Pending(op, "read") \/ Ended(ctx, op)
    BY <1>22, ReadOrCloseFacts DEF ReadReturn
  <2>2. op'["write"] # "none" => op["write"] # "none"
    BY <1>r, <2>1, OpNames DEF Ended, Closed, NothingMore
  <2> QED
    BY <1>i, <1>22, <2>2 DEF ReadReturn, dataVars
<1>23. ASSUME NEW thrown \in BOOLEAN, WrittenReturn(thrown) PROVE SendingQueued'
  <2>1. CASE Sendable /\ wq # <<>>
    BY <1>23, <2>1 DEF WrittenReturn, SendingQueued
  <2>2. CASE ~(Sendable /\ wq # <<>>)
    <3>1. HandleReqClose(ctx, op)
      BY <1>23, <2>2 DEF WrittenReturn
    <3>2. op'["write"] # "none" => op["write"] # "none"
      BY <1>t, <3>1, OpNames, EndFacts DEF Ended, Closed, NothingMore
    <3> QED
      BY <1>i, <1>23, <3>2 DEF WrittenReturn
  <2> QED
    BY <2>1, <2>2
<1>24. ASSUME NEW thrown \in BOOLEAN, DisconnectedReturn(thrown) PROVE SendingQueued'
  <2>1. op'["write"] # "none" => op["write"] # "none"
    BY <1>t, <1>24, OpNames, ReleaseFacts DEF DisconnectedReturn
  <2> QED
    BY <1>i, <1>24, <2>1 DEF DisconnectedReturn, dataVars
<1>25. ASSUME NEW thrown \in BOOLEAN, PlainReturn(thrown) PROVE SendingQueued'
  BY <1>i, <1>25 DEF PlainReturn, NothingMore, dataVars
<1>26. ASSUME NEW thrown \in BOOLEAN, NEW serialized \in BOOLEAN, WriteReturn(thrown, serialized)
       PROVE  SendingQueued'
  <2>1. CASE wq' = Append(wq, cur)
    <3>1. wq' # <<>>
      BY <1>t, <2>1, TypeFacts
    <3> QED
      BY <3>1 DEF SendingQueued
  <2>2. CASE wq' = wq /\ op' = op
    BY <1>i, <2>2
  <2> QED
    BY <1>26, <2>1, <2>2 DEF WriteReturn, NothingMore
<1>27. ASSUME NEW o \in Ops, NetComplete(o) PROVE SendingQueued'
  <2>1. \A p \in Ops : op'[p] = "none" <=> op[p] = "none"
    BY <1>t, <1>27 DEF NetComplete, OpType
  <2> QED
    BY <1>i, <1>27, <2>1, OpNames DEF NetComplete, dataVars
<1>28. CASE UNCHANGED vars
  BY <1>i, <1>28 DEF vars
<1> QED
  BY <1>1, <1>2, <1>3, <1>4, <1>5, <1>6, <1>7, <1>8, <1>9, <1>10, <1>11, <1>12, <1>13,
     <1>14, <1>15, <1>16, <1>17, <1>18, <1>19, <1>20, <1>21, <1>22, <1>23, <1>24, <1>25,
     <1>26, <1>27, <1>28
  DEF Next, StrandServes, StrandGoesOn, RunPosted

\* The invariant holds at the start ...
LEMMA IInvInit ==
  ASSUME Init
  PROVE  IInv
<1>1. ctx \in CtxType
  BY DEF Init, CtxType, Ops
<1>2. posted \in Seq(LambdaType) /\ Len(posted) = 1 /\ posted[1][1] = "created"
  BY LambdaIsTyped DEF Init, Lambdas
<1>3. count \in [BoundNames -> Nat]
  BY DEF Init, Limit, BoundNames
<1>4. Types
  <2>1. /\ target \in AllTargets /\ proc = "running" /\ pc \in PcStates
        /\ phase \in {"new", "created", "bound", "connected", "disconnected"}
    BY TargetsAssumption DEF Init, PcStates
  <2>2. op \in [Ops -> {"none", "pending"} \cup Completed]
    BY DEF Init
  <2>3. closer \in [Closers -> {"lookup", "test", "set", "post", "done"}]
    BY DEF Init
  <2>4. wq \in Seq(Nat \X BOOLEAN) /\ rbuf \in Seq(Nat) /\ sent \in Nat
    BY DEF Init
  <2>5. cur \in Nat \X BOOLEAN
    BY DEF Init, NoDatagram
  <2> QED
    BY <1>1, <1>2, <1>3, <2>1, <2>2, <2>3, <2>4, <2>5 DEF Types, TypeOK, CtxType
<1>5. ~ConnectPosted /\ PostedOnce
  BY <1>2 DEF Init, ConnectPosted, PostedOnce, IsConnect
<1>6. \A p \in Ops : op[p] = "none"
  BY DEF Init
<1>7. /\ pc = "idle" /\ phase = "new" /\ ctx.stat = CREATED /\ ctx.connected = FALSE
      /\ ctx.inMap = TRUE /\ ~Connecting
  BY <1>5, <1>6, OpNames DEF Init, Connecting
<1>8. Core
  BY <1>5, <1>6, <1>7, OpNames
     DEF Core, StatPhase, SetupOnce, ReadPhase, TasksCoverOps, Reachable, SetupPcs
<1>9. SendingQueued
  BY <1>6, OpNames DEF SendingQueued
<1> QED
  BY <1>4, <1>5, <1>8, <1>9 DEF IInv

\* ... every step keeps it ...
LEMMA IInvStep ==
  ASSUME IInv, [Next]_vars
  PROVE  IInv'
BY TypeStep, SendingStep, CoreStep DEF IInv

\* ... and so it holds in every state.
LEMMA Invariance == Spec => []IInv
<1>1. Init => IInv
  BY IInvInit
<1>2. IInv /\ [Next]_vars => IInv'
  BY IInvStep
<1> QED
  BY <1>1, <1>2, PTL DEF Spec

\* A UDP channel keeps its types, and while the service runs a connected channel is
\* in the map and its socket open, however closes, reads and writes interleave.
THEOREM UdpIsSafe == Spec => []UdpSafe
<1>1. IInv => UdpSafe
  BY DEF IInv, Types, Core, Reachable, UdpSafe, ConnectedIsReachable
<1> QED
  BY <1>1, Invariance, PTL

-----------------------------------------------------------------------------
(* The channel implements UdpCallbacks.                                     *)

CallbackNext == [CB!Move \/ CB!Data \/ CB!Free \/ CB!Return]_(CB!vars)

\* Every step of the channel is one that its handlers were promised, or none at all
\* to them.
LEMMA CallbackStep ==
  ASSUME IInv, [Next]_vars
  PROVE  CallbackNext
<1>t. Types /\ Core /\ PostedOnce /\ ctx \in CtxType /\ op \in OpType
  BY TypeFacts DEF IInv
<1>s. pc' = pc /\ phase' = phase => CallbackNext
  BY DEF CallbackNext, CB!vars, Callback
<1>r. pc' \in {"idle", "opened", "binding", "connecting"} /\ phase' = phase => CallbackNext
  <2>1. SUFFICES ASSUME pc' \in {"idle", "opened", "binding", "connecting"}, phase' = phase
                 PROVE  CallbackNext
    OBVIOUS
  <2>2. Callback' = "idle"
    BY <2>1 DEF Callback
  <2>3. CASE Callback = "idle"
    BY <2>1, <2>2, <2>3 DEF CallbackNext, CB!vars
  <2>4. CASE Callback # "idle"
    BY <2>1, <2>2, <2>4 DEF CallbackNext, CB!Return
  <2> QED
    BY <2>3, <2>4
<1>m. /\ <<phase, phase'>> \in {<<"new", "created">>, <<"created", "bound">>,
                               <<"bound", "connected">>, <<"connected", "disconnected">>}
      /\ pc' = phase'
      => CallbackNext
  BY DEF CallbackNext, CB!Move, CB!Moves, Callback
<1>f. pc = "idle" /\ pc' \in {"write", "exception", "event"} /\ phase' = phase => CallbackNext
  BY DEF CallbackNext, CB!Free, Callback
<1>d. phase \in {"bound", "connected"} /\ pc' \in {"read", "written"} /\ phase' = phase => CallbackNext
  BY DEF CallbackNext, CB!Data, Callback
<1>e. ASSUME NEW x \in CtxType, NEW o \in OpType, Ended(x, o), x.connected = ctx.connected
      PROVE  CallbackNext
  <2>1. CASE pc' = "idle" /\ phase' = phase
    BY <1>r, <2>1
  <2>2. CASE ctx.connected /\ pc' = "disconnected" /\ phase' = "disconnected"
    BY <1>t, <1>m, <2>2 DEF Core, StatPhase
  <2> QED
    BY <1>e, <2>1, <2>2 DEF Ended, Closed, NothingMore
<1>1. ASSUME NEW a \in BOOLEAN, WriteChannel(a) PROVE CallbackNext
  BY <1>s, <1>1 DEF WriteChannel
<1>2. CASE FireUserEvent
  BY <1>s, <1>2 DEF FireUserEvent
<1>3. CASE CallbackClose
  BY <1>s, <1>3 DEF CallbackClose
<1>4. CASE StopService
  BY <1>s, <1>4 DEF StopService
<1>5. ASSUME NEW c \in Closers, Close(c) PROVE CallbackNext
  BY <1>s, <1>5 DEF Close
<1>6. CASE RunCreated
  <2>1. phase = "new"
    <3>1. Running("created") /\ Len(posted) \in Nat
      BY <1>t, <1>6, TypeFacts DEF RunCreated
    <3>2. posted[1][1] = "created" /\ Len(posted) >= 1
      BY <1>t, <3>1, TypeFacts, RunningFacts
    <3> QED
      BY <1>t, <3>1, <3>2 DEF PostedOnce
  <2> QED
    BY <1>m, <1>6, <2>1 DEF RunCreated
<1>7. CASE RunConnect
  BY <1>s, <1>7 DEF RunConnect
<1>8. CASE RunWrite
  BY <1>f, <1>8 DEF RunWrite, Running, StrandFree
<1>9. CASE RunClose
  <2>1. CASE ctx.stat = REQ_CLOSE /\ ctx.tasks # {}
    BY <1>s, <1>9, <2>1 DEF RunClose
  <2>2. CASE ~(ctx.stat = REQ_CLOSE /\ ctx.tasks # {})
    <3>1. Ended(ctx, op)
      BY <1>t, <1>9, <2>2, EndFacts DEF RunClose
    <3> QED
      BY <1>t, <1>e, <3>1
  <2> QED
    BY <2>1, <2>2
<1>10. ASSUME NEW name \in {"exception", "event"}, RunPlain(name) PROVE CallbackNext
  BY <1>f, <1>10 DEF RunPlain, Running, StrandFree
<1>11. CASE ResolveComplete
  BY <1>r, <1>11 DEF ResolveComplete, NothingMore
<1>12. CASE ConnectComplete
  BY <1>r, <1>s, <1>12 DEF ConnectComplete
<1>13. CASE ReadComplete
  <2>1. op["read"] # "none" /\ pc' = "read" /\ phase' = phase
    BY <1>13 DEF ReadComplete, Completing, Completed
  <2> QED
    BY <1>t, <1>d, <2>1 DEF Core, ReadPhase
<1>14. CASE ReadFailed
  <2>1. CASE ctx.connected
    <3>1. pc' = "disconnected" /\ phase' = "disconnected" /\ phase = "connected"
      BY <1>t, <1>14, <2>1 DEF ReadFailed, Core, StatPhase
    <3> QED
      BY <1>m, <3>1
  <2>2. CASE ~ctx.connected
    BY <1>r, <1>14, <2>2 DEF ReadFailed, Release
  <2> QED
    BY <2>1, <2>2
<1>15. CASE WriteComplete
  <2> DEFINE x == Cleared(ctx, "write")
             o == Done("write")
  <2>x. x \in CtxType /\ o \in OpType /\ x.connected = ctx.connected
    BY <1>t, OpNames, ClearedFacts, DoneFacts
  <2> HIDE DEF x, o
  <2>1. CASE op["write"] = "ok" /\ Sendable
    <3>1. phase \in {"bound", "connected"}
      BY <1>t, <2>1 DEF Sendable, Core, StatPhase
    <3> QED
      BY <1>d, <1>15, <2>1, <3>1 DEF WriteComplete
  <2>2. CASE ~(op["write"] = "ok" /\ Sendable)
    <3>1. HandleReqClose(x, o)
      BY <1>15, <2>2 DEF WriteComplete, x, o
    <3> QED
      BY <1>e, <2>x, <3>1, EndFacts
  <2> QED
    BY <2>1, <2>2
<1>16. CASE BoundTest
  BY <1>r, <1>16 DEF BoundTest
<1>17. CASE BoundSet
  BY <1>t, <1>m, <1>17 DEF BoundSet, At, Core, SetupOnce
<1>18. CASE ConnectedSet
  BY <1>t, <1>m, <1>18 DEF ConnectedSet, At, Core, SetupOnce
<1>19. ASSUME NEW thrown \in BOOLEAN, CreatedReturn(thrown) PROVE CallbackNext
  BY <1>r, <1>s, <1>19 DEF CreatedReturn
<1>20. ASSUME NEW thrown \in BOOLEAN, BoundReturn(thrown) PROVE CallbackNext
  BY <1>r, <1>20 DEF BoundReturn, NothingMore
<1>21. ASSUME NEW thrown \in BOOLEAN, ConnectedReturn(thrown) PROVE CallbackNext
  <2>1. Ended(ctx, op) \/ (pc' = "idle" /\ phase' = phase)
    BY <1>t, <1>21, ReadOrCloseFacts DEF ConnectedReturn
  <2> QED
    BY <1>t, <1>e, <1>r, <2>1
<1>22. ASSUME NEW thrown \in BOOLEAN, ReadReturn(thrown) PROVE CallbackNext
  <2>1. Ended(ctx, op) \/ (pc' = "idle" /\ phase' = phase)
    BY <1>t, <1>22, ReadOrCloseFacts DEF ReadReturn
  <2> QED
    BY <1>t, <1>e, <1>r, <2>1
<1>23. ASSUME NEW thrown \in BOOLEAN, WrittenReturn(thrown) PROVE CallbackNext
  <2>1. CASE Sendable /\ wq # <<>>
    BY <1>r, <1>23, <2>1 DEF WrittenReturn, NothingMore
  <2>2. CASE ~(Sendable /\ wq # <<>>)
    <3>1. Ended(ctx, op)
      BY <1>t, <1>23, <2>2, EndFacts DEF WrittenReturn
    <3> QED
      BY <1>t, <1>e, <3>1
  <2> QED
    BY <2>1, <2>2
<1>24. ASSUME NEW thrown \in BOOLEAN, DisconnectedReturn(thrown) PROVE CallbackNext
  BY <1>r, <1>24 DEF DisconnectedReturn, Release
<1>25. ASSUME NEW thrown \in BOOLEAN, PlainReturn(thrown) PROVE CallbackNext
  BY <1>r, <1>25 DEF PlainReturn, NothingMore
<1>26. ASSUME NEW thrown \in BOOLEAN, NEW serialized \in BOOLEAN, WriteReturn(thrown, serialized)
       PROVE  CallbackNext
  BY <1>r, <1>26 DEF WriteReturn, NothingMore
<1>27. ASSUME NEW o \in Ops, NetComplete(o) PROVE CallbackNext
  BY <1>s, <1>27 DEF NetComplete
<1>28. CASE UNCHANGED vars
  BY <1>s, <1>28 DEF vars
<1> QED
  BY <1>1, <1>2, <1>3, <1>4, <1>5, <1>6, <1>7, <1>8, <1>9, <1>10, <1>11, <1>12, <1>13,
     <1>14, <1>15, <1>16, <1>17, <1>18, <1>19, <1>20, <1>21, <1>22, <1>23, <1>24, <1>25,
     <1>26, <1>27, <1>28
  DEF Next, StrandServes, StrandGoesOn, RunPosted

\* The callbacks of a UDP channel come in the order that UdpCallbacks promises to the
\* handlers of the pipeline, whatever closes it and whenever.
THEOREM CallbacksInOrder == Spec => CallbackOrder
<1>1. Init => CB!Init
  BY DEF Init, CB!Init, Callback
<1>2. IInv /\ [Next]_vars => CallbackNext
  BY CallbackStep
<1> QED
  BY <1>1, <1>2, Invariance, PTL DEF Spec, CallbackOrder, CB!Spec, CallbackNext

-----------------------------------------------------------------------------
(* One datagram at a time.                                                  *)

\* What is left in the read buffer was left by a callback that threw; the last datagram
\* is the one being handed on.
Leftovers == Len(rbuf) <= count["throw"] + (IF pc = "read" THEN 1 ELSE 0)

\* No step takes back an exception.
LEMMA ThrowsOnlyRise ==
  ASSUME Types, NEW b \in BoundNames \ {"throw"}, Use(b) PROVE count'["throw"] = count["throw"]
BY UseFacts DEF BoundNames

\* Every step keeps count of what is left in the read buffer.
LEMMA LeftoversStep ==
  ASSUME Types, Leftovers, [Next]_vars
  PROVE  Leftovers'
<1>t. rbuf \in Seq(Nat) /\ Len(rbuf) \in Nat /\ count["throw"] \in Nat
  BY TypeFacts DEF BoundNames
<1>b. {"write", "read", "event"} \subseteq BoundNames \ {"throw"}
  BY DEF BoundNames
<1>q. ASSUME rbuf' = rbuf, count'["throw"] \in Nat, count'["throw"] >= count["throw"],
             pc = "read" => pc' = "read"
      PROVE  Leftovers'
  BY <1>t, <1>q DEF Leftovers
<1>c. ASSUME NEW thrown \in BOOLEAN, Throws(thrown)
      PROVE  count'["throw"] \in Nat /\ count'["throw"] >= count["throw"]
  BY <1>t, <1>c, ThrowsFacts
<1>k. ASSUME rbuf' = rbuf, count'["throw"] = count["throw"], pc = "read" => pc' = "read"
      PROVE  Leftovers'
  BY <1>t, <1>q, <1>k
<1>1. ASSUME NEW a \in BOOLEAN, WriteChannel(a) PROVE Leftovers'
  <2>1. count'["throw"] = count["throw"]
    BY <1>b, <1>1, ThrowsOnlyRise DEF WriteChannel
  <2> QED
    BY <1>k, <1>1, <2>1 DEF WriteChannel, dataVars
<1>2. CASE FireUserEvent
  <2>1. count'["throw"] = count["throw"]
    BY <1>b, <1>2, ThrowsOnlyRise DEF FireUserEvent
  <2> QED
    BY <1>k, <1>2, <2>1 DEF FireUserEvent, dataVars
<1>3. CASE CallbackClose
  BY <1>k, <1>3 DEF CallbackClose, dataVars
<1>4. CASE StopService
  BY <1>k, <1>4 DEF StopService, dataVars
<1>5. ASSUME NEW c \in Closers, Close(c) PROVE Leftovers'
  BY <1>k, <1>5 DEF Close, dataVars
<1>6. CASE RunCreated
  BY <1>k, <1>6 DEF RunCreated, Running, StrandFree, dataVars
<1>7. CASE RunConnect
  BY <1>k, <1>7 DEF RunConnect, Running, StrandFree, dataVars
<1>8. CASE RunWrite
  BY <1>k, <1>8 DEF RunWrite, Running, StrandFree, dataVars
<1>9. CASE RunClose
  BY <1>k, <1>9 DEF RunClose, Running, StrandFree, dataVars
<1>10. ASSUME NEW name \in {"exception", "event"}, RunPlain(name) PROVE Leftovers'
  BY <1>k, <1>10 DEF RunPlain, Running, StrandFree, dataVars
<1>11. CASE ResolveComplete
  BY <1>k, <1>11 DEF ResolveComplete, Completing, StrandFree, dataVars
<1>12. CASE ConnectComplete
  BY <1>k, <1>12 DEF ConnectComplete, Completing, StrandFree, dataVars
<1>13. CASE ReadComplete
  <2>1. /\ pc = "idle" /\ pc' = "read" /\ rbuf' = Append(rbuf, count["read"])
        /\ count' = count /\ count["read"] \in Nat
    BY <1>13, TypeFacts DEF ReadComplete, Completing, StrandFree, BoundNames
  <2>2. Len(rbuf') = Len(rbuf) + 1
    BY <1>t, <2>1
  <2> QED
    BY <1>t, <2>1, <2>2 DEF Leftovers
<1>14. CASE ReadFailed
  BY <1>k, <1>14 DEF ReadFailed, Completing, StrandFree, dataVars
<1>15. CASE WriteComplete
  BY <1>k, <1>15 DEF WriteComplete, Completing, StrandFree, dataVars
<1>16. CASE BoundTest
  BY <1>k, <1>16 DEF BoundTest, At, dataVars
<1>17. CASE BoundSet
  BY <1>k, <1>17 DEF BoundSet, At, dataVars
<1>18. CASE ConnectedSet
  BY <1>k, <1>18 DEF ConnectedSet, At, dataVars
<1>19. ASSUME NEW thrown \in BOOLEAN, CreatedReturn(thrown) PROVE Leftovers'
  <2>1. rbuf' = rbuf /\ pc # "read" /\ Throws(thrown)
    BY <1>19 DEF CreatedReturn, At, dataVars
  <2> QED
    BY <1>q, <1>c, <2>1
<1>20. ASSUME NEW thrown \in BOOLEAN, BoundReturn(thrown) PROVE Leftovers'
  <2>1. rbuf' = rbuf /\ pc # "read" /\ Throws(thrown)
    BY <1>20 DEF BoundReturn, At, dataVars
  <2> QED
    BY <1>q, <1>c, <2>1
<1>21. ASSUME NEW thrown \in BOOLEAN, ConnectedReturn(thrown) PROVE Leftovers'
  <2>1. rbuf' = rbuf /\ pc # "read" /\ Throws(thrown)
    BY <1>21 DEF ConnectedReturn, At, dataVars
  <2> QED
    BY <1>q, <1>c, <2>1
<1>22. ASSUME NEW thrown \in BOOLEAN, ReadReturn(thrown) PROVE Leftovers'
  <2>1. pc = "read" /\ Throws(thrown) /\ AfterRead(thrown)
    BY <1>22 DEF ReadReturn, At
  <2>2. CASE thrown = TRUE
    <3>1. rbuf' = rbuf /\ count'["throw"] = count["throw"] + 1
      BY <2>1, <2>2, ThrowsFacts DEF AfterRead
    <3> QED
      BY <1>t, <2>1, <3>1 DEF Leftovers
  <2>3. CASE thrown = FALSE
    <3>1. Len(rbuf') = 0 /\ count'["throw"] \in Nat
      BY <1>c, <2>1, <2>3 DEF AfterRead
    <3> QED
      BY <3>1 DEF Leftovers
  <2> QED
    BY <2>2, <2>3
<1>23. ASSUME NEW thrown \in BOOLEAN, WrittenReturn(thrown) PROVE Leftovers'
  <2>1. rbuf' = rbuf /\ pc # "read" /\ Throws(thrown)
    BY <1>23 DEF WrittenReturn, At, dataVars
  <2> QED
    BY <1>q, <1>c, <2>1
<1>24. ASSUME NEW thrown \in BOOLEAN, DisconnectedReturn(thrown) PROVE Leftovers'
  <2>1. rbuf' = rbuf /\ pc # "read" /\ Throws(thrown)
    BY <1>24 DEF DisconnectedReturn, At, dataVars
  <2> QED
    BY <1>q, <1>c, <2>1
<1>25. ASSUME NEW thrown \in BOOLEAN, PlainReturn(thrown) PROVE Leftovers'
  <2>1. rbuf' = rbuf /\ pc # "read" /\ Throws(thrown)
    BY <1>25 DEF PlainReturn, At, dataVars
  <2> QED
    BY <1>q, <1>c, <2>1
<1>26. ASSUME NEW thrown \in BOOLEAN, NEW serialized \in BOOLEAN, WriteReturn(thrown, serialized)
       PROVE  Leftovers'
  <2>1. rbuf' = rbuf /\ pc # "read" /\ Throws(thrown)
    BY <1>26 DEF WriteReturn, At, dataVars
  <2> QED
    BY <1>q, <1>c, <2>1
<1>27. ASSUME NEW o \in Ops, NetComplete(o) PROVE Leftovers'
  <2>1. count'["throw"] = count["throw"]
    BY <1>b, <1>27, ThrowsOnlyRise DEF NetComplete
  <2> QED
    BY <1>k, <1>27, <2>1 DEF NetComplete, dataVars
<1>28. CASE UNCHANGED vars
  BY <1>k, <1>28 DEF vars
<1> QED
  BY <1>1, <1>2, <1>3, <1>4, <1>5, <1>6, <1>7, <1>8, <1>9, <1>10, <1>11, <1>12, <1>13,
     <1>14, <1>15, <1>16, <1>17, <1>18, <1>19, <1>20, <1>21, <1>22, <1>23, <1>24, <1>25,
     <1>26, <1>27, <1>28
  DEF Next, StrandServes, StrandGoesOn, RunPosted

\* channel_read_from is handed one datagram at a time, and one more for every exception
\* that a callback has thrown, however reads, throws and closes interleave.
THEOREM DatagramsComeAlone == Spec => []DatagramsAlone
<1>1. Init => Leftovers
  BY DEF Init, Leftovers, Limit
<1>2. IInv /\ Leftovers /\ [Next]_vars => Leftovers'
  BY LeftoversStep DEF IInv
<1>3. IInv /\ Leftovers => DatagramsAlone
  BY TypeFacts DEF IInv, BoundNames, Leftovers, DatagramsAlone
<1> QED
  BY <1>1, <1>2, <1>3, Invariance, PTL DEF Spec

-----------------------------------------------------------------------------
(* The order of the datagrams.                                              *)

\* write_channel numbers the datagrams, and only the channel_write callback works on one.
Numbered ==
  /\ cur[1] # 0 <=> pc = "write"
  /\ sent <= count["write"] /\ cur[1] <= count["write"]
  /\ \A i \in 1 .. Len(wq) : wq[i][1] <= count["write"]
  /\ \A i \in PostedWrites : 1 <= posted[i][2][1] /\ posted[i][2][1] <= count["write"]

\* The lambdas of write_channel are still posted as they were, or moved up by d.
WritesKept(d) ==
  \A i \in 1 .. Len(posted') :
    posted'[i][1] = "write" => i + d \in 1 .. Len(posted) /\ posted'[i] = posted[i + d]

\* A step that has nothing to do with the datagrams.
QuietWrite ==
  /\ UNCHANGED <<wq, sent, cur>> /\ count'["write"] = count["write"]
  /\ op'["write"] = "none" <=> op["write"] = "none"
  /\ pc' = "write" <=> pc = "write"

\* Only write_channel posts a write.
LEMMA WritesStayPosted ==
  ASSUME Types, [Next]_vars, ~\E addressed \in BOOLEAN : WriteChannel(addressed)
  PROVE  WritesKept(0) \/ WritesKept(1)
<1>1. ASSUME Posts(0, Common) PROVE WritesKept(0)
  BY <1>1 DEF Posts, WritesKept, Common
<1>2. ASSUME Posts(0, {"exception", "connect"}) PROVE WritesKept(0)
  BY <1>2 DEF Posts, WritesKept
<1>3. ASSUME Posts(1, {}) PROVE WritesKept(1)
  BY <1>3 DEF Posts, WritesKept
<1> QED
  BY <1>1, <1>2, <1>3, PostingSteps DEF Posting

\* A callback that throws writes nothing.
LEMMA ThrowsKeepsCount ==
  ASSUME Types, NEW thrown \in BOOLEAN, Throws(thrown) PROVE count'["write"] = count["write"]
BY ThrowsFacts DEF BoundNames

\* Every step of the channel is quiet or works on a datagram.
LEMMA QuietSteps ==
  ASSUME Types, [Next]_vars, ~\E addressed \in BOOLEAN : WriteChannel(addressed),
         ~RunWrite, ~WriteComplete, ~\E thrown \in BOOLEAN : WrittenReturn(thrown),
         ~\E thrown, serialized \in BOOLEAN : WriteReturn(thrown, serialized)
  PROVE  QuietWrite
<1>t. ctx \in CtxType /\ op \in OpType /\ wq \in Seq(Datagrams)
  BY TypeFacts
<1>b. {"read", "event"} \subseteq BoundNames /\ "write" \in BoundNames \ {"read", "event"}
  BY DEF BoundNames
<1>r. Pending(op, "read")["write"] = op["write"] /\ Pending(op, "resolve")["write"] = op["write"]
  BY <1>t, StartsOther
<1>s. Pending(op, "connect")["write"] = op["write"]
  BY <1>t, OpNames, PendingFacts
<1>e. ASSUME NEW x, NEW o, Ended(x, o) PROVE op'["write"] = "none" <=> o["write"] = "none"
  BY <1>e, OpNames DEF Ended, Closed, NothingMore
<1>p. ASSUME NEW x, NEW o, Ended(x, o) PROVE pc' # "write"
  BY <1>p DEF Ended, Closed, NothingMore
<1>2. CASE FireUserEvent
  <2>1. count'["write"] = count["write"]
    BY <1>b, <1>2, UseFacts DEF FireUserEvent
  <2> QED
    BY <1>2, <2>1 DEF FireUserEvent, dataVars, QuietWrite
<1>3. CASE CallbackClose
  BY <1>3 DEF CallbackClose, Running, StrandFree, At, dataVars, QuietWrite
<1>4. CASE StopService
  <2>1. op' = op \/ op' = AbortOps(op)
    BY <1>4 DEF StopService
  <2>2. op'["write"] = "none" <=> op["write"] = "none"
    BY <1>t, <2>1, OpNames, AbortOpsFacts
  <2> QED
    BY <1>4, <2>2 DEF StopService, dataVars, QuietWrite
<1>5. ASSUME NEW c \in Closers, Close(c) PROVE QuietWrite
  BY <1>5 DEF Close, Running, StrandFree, At, dataVars, QuietWrite
<1>6. CASE RunCreated
  BY <1>6 DEF RunCreated, Running, StrandFree, At, dataVars, QuietWrite
<1>7. CASE RunConnect
  BY <1>s, <1>7 DEF RunConnect, dataVars, QuietWrite
<1>9. CASE RunClose
  <2>1. UNCHANGED <<wq, sent, cur, count>> /\ pc = "idle"
    BY <1>9 DEF RunClose, Running, StrandFree, dataVars
  <2>2. CASE (op' = op \/ op' = AbortOps(op)) /\ pc' = pc
    BY <1>t, <2>1, <2>2, OpNames, AbortOpsFacts DEF QuietWrite
  <2>3. CASE Ended(ctx, op)
    BY <1>e, <1>p, <2>1, <2>3 DEF QuietWrite
  <2> QED
    BY <1>t, <1>9, <2>2, <2>3, EndFacts DEF RunClose
<1>10. ASSUME NEW name \in {"exception", "event"}, RunPlain(name) PROVE QuietWrite
  BY <1>10 DEF RunPlain, Running, StrandFree, dataVars, QuietWrite
<1>11. CASE ResolveComplete
  <2> DEFINE o == Done("resolve")
  <2>1. o \in OpType /\ o["write"] = op["write"]
    BY <1>t, OpNames, DoneFacts
  <2>2. op' = o \/ op' = Pending(o, "connect")
    BY <1>11 DEF ResolveComplete, NothingMore
  <2> HIDE DEF o
  <2>3. op'["write"] = op["write"]
    BY <2>1, <2>2, StartsOther
  <2> QED
    BY <1>11, <2>3 DEF ResolveComplete, NothingMore, Completing, StrandFree, dataVars, QuietWrite
<1>12. CASE ConnectComplete
  <2>1. op'["write"] = op["write"]
    BY <1>t, <1>12, OpNames, DoneFacts DEF ConnectComplete
  <2> QED
    BY <1>12, <2>1 DEF ConnectComplete, Completing, StrandFree, dataVars, QuietWrite
<1>13. CASE ReadComplete
  <2>1. op'["write"] = op["write"]
    BY <1>t, <1>13, OpNames, DoneFacts DEF ReadComplete
  <2> QED
    BY <1>13, <2>1 DEF ReadComplete, Completing, StrandFree, dataVars, QuietWrite
<1>14. CASE ReadFailed
  <2> DEFINE o == Done("read")
  <2>1. o \in OpType /\ o["write"] = op["write"]
    BY <1>t, OpNames, DoneFacts
  <2>2. op' = o \/ op' = AbortOps(o)
    BY <1>14 DEF ReadFailed, Release
  <2> HIDE DEF o
  <2>3. op'["write"] = "none" <=> op["write"] = "none"
    BY <2>1, <2>2, OpNames, AbortOpsFacts
  <2>4. pc = "idle" /\ pc' # "write"
    BY <1>14 DEF ReadFailed, Release, Completing, StrandFree
  <2> QED
    BY <1>14, <2>3, <2>4 DEF ReadFailed, dataVars, QuietWrite
<1>16. CASE BoundTest
  <2>1. op' = op \/ op' = Pending(op, "resolve")
    BY <1>16 DEF BoundTest, StartConnect
  <2> QED
    BY <1>r, <1>16, <2>1 DEF BoundTest, At, dataVars, QuietWrite
<1>17. CASE BoundSet
  BY <1>17 DEF BoundSet, Running, StrandFree, At, dataVars, QuietWrite
<1>18. CASE ConnectedSet
  BY <1>18 DEF ConnectedSet, Running, StrandFree, At, dataVars, QuietWrite
<1>19. ASSUME NEW thrown \in BOOLEAN, CreatedReturn(thrown) PROVE QuietWrite
  BY <1>19, ThrowsKeepsCount DEF CreatedReturn, At, dataVars, QuietWrite
<1>20. ASSUME NEW thrown \in BOOLEAN, BoundReturn(thrown) PROVE QuietWrite
  <2>1. op' = op \/ op' = Pending(op, "read") \/ op' = Pending(op, "resolve")
    BY <1>20 DEF BoundReturn, NothingMore
  <2>2. pc = "bound" /\ pc' = "idle"
    BY <1>20 DEF BoundReturn, At, NothingMore
  <2> QED
    BY <1>r, <1>20, <2>1, <2>2, ThrowsKeepsCount DEF BoundReturn, dataVars, QuietWrite
<1>21. ASSUME NEW thrown \in BOOLEAN, ConnectedReturn(thrown) PROVE QuietWrite
  <2>1. (op' = Pending(op, "read") /\ pc' = "idle") \/ Ended(ctx, op)
    BY <1>21, ReadOrCloseFacts DEF ConnectedReturn
  <2>2. (op'["write"] = "none" <=> op["write"] = "none") /\ pc' # "write"
    BY <1>r, <1>e, <1>p, <2>1
  <2> QED
    BY <1>21, <2>2, ThrowsKeepsCount DEF ConnectedReturn, At, dataVars, QuietWrite
<1>22. ASSUME NEW thrown \in BOOLEAN, ReadReturn(thrown) PROVE QuietWrite
  <2>1. (op' = Pending(op, "read") /\ pc' = "idle") \/ Ended(ctx, op)
    BY <1>22, ReadOrCloseFacts DEF ReadReturn
  <2>2. (op'["write"] = "none" <=> op["write"] = "none") /\ pc' # "write"
    BY <1>r, <1>e, <1>p, <2>1
  <2> QED
    BY <1>22, <2>2, ThrowsKeepsCount DEF ReadReturn, At, dataVars, QuietWrite
<1>24. ASSUME NEW thrown \in BOOLEAN, DisconnectedReturn(thrown) PROVE QuietWrite
  <2>1. op'["write"] = "none" <=> op["write"] = "none"
    BY <1>t, <1>24, OpNames, ReleaseFacts DEF DisconnectedReturn
  <2> QED
    BY <1>24, <2>1, ThrowsKeepsCount DEF DisconnectedReturn, Release, At, dataVars, QuietWrite
<1>25. ASSUME NEW thrown \in BOOLEAN, PlainReturn(thrown) PROVE QuietWrite
  BY <1>25, ThrowsKeepsCount DEF PlainReturn, NothingMore, dataVars, QuietWrite
<1>27. ASSUME NEW o \in Ops, NetComplete(o) PROVE QuietWrite
  <2>1. count'["write"] = count["write"]
    BY <1>b, <1>27, UseFacts DEF NetComplete
  <2>2. \A p \in Ops : op'[p] = "none" <=> op[p] = "none"
    BY <1>t, <1>27 DEF NetComplete, OpType
  <2> QED
    BY <1>27, <2>1, <2>2, OpNames DEF NetComplete, dataVars, QuietWrite
<1>28. CASE UNCHANGED vars
  BY <1>28 DEF vars, QuietWrite
<1> QED
  BY <1>2, <1>3, <1>4, <1>5, <1>6, <1>7, <1>9, <1>10, <1>11, <1>12, <1>13, <1>14, <1>16,
     <1>17, <1>18, <1>19, <1>20, <1>21, <1>22, <1>24, <1>25, <1>27, <1>28
  DEF Next, StrandServes, StrandGoesOn, RunPosted

\* The lambdas of write_channel that are kept are kept in order.
LEMMA PostedKept ==
  ASSUME WritesInOrder, Numbered, NEW d \in {0, 1}, WritesKept(d),
         count'["write"] = count["write"]
  PROVE  /\ Waiting' \subseteq Waiting
         /\ \A i, j \in PostedWrites' : i < j => posted'[i][2][1] < posted'[j][2][1]
         /\ \A i \in PostedWrites' : 1 <= posted'[i][2][1] /\ posted'[i][2][1] <= count'["write"]
<1>1. \A i \in PostedWrites' : i + d \in PostedWrites /\ posted'[i] = posted[i + d] /\ i \in Nat
  BY DEF WritesKept, PostedWrites
<1>2. Waiting' \subseteq Waiting
  BY <1>1 DEF Waiting
<1>3. ASSUME NEW i \in PostedWrites', NEW j \in PostedWrites', i < j
      PROVE  posted'[i][2][1] < posted'[j][2][1]
  <2>1. i + d \in PostedWrites /\ j + d \in PostedWrites /\ i + d < j + d
    BY <1>1, <1>3
  <2> QED
    BY <1>1, <2>1 DEF WritesInOrder
<1>4. \A i \in PostedWrites' : 1 <= posted'[i][2][1] /\ posted'[i][2][1] <= count'["write"]
  BY <1>1 DEF Numbered
<1> QED
  BY <1>2, <1>3, <1>4

\* A quiet step keeps the order.
LEMMA QuietKeepsOrder ==
  ASSUME WritesInOrder, Numbered, QuietWrite, WritesKept(0) \/ WritesKept(1)
  PROVE  WritesInOrder' /\ Numbered'
<1>1. PICK d \in {0, 1} : WritesKept(d)
  OBVIOUS
<1>2. /\ Waiting' \subseteq Waiting
      /\ \A i, j \in PostedWrites' : i < j => posted'[i][2][1] < posted'[j][2][1]
      /\ \A i \in PostedWrites' : 1 <= posted'[i][2][1] /\ posted'[i][2][1] <= count'["write"]
  BY <1>1, PostedKept DEF QuietWrite
<1>4. Queued' = Queued /\ Calling' = Calling
  BY DEF QuietWrite, Queued, Calling
<1>6. WritesInOrder'
  <2>1. op'["write"] # "none" => wq' # <<>> /\ Head(wq')[1] = sent'
    BY DEF QuietWrite, WritesInOrder
  <2>2. op'["write"] = "none" => Before({sent'}, Queued')
    BY <1>4 DEF QuietWrite, WritesInOrder
  <2>3. \A i, j \in 1 .. Len(wq') : i < j => wq'[i][1] < wq'[j][1]
    BY DEF QuietWrite, WritesInOrder
  <2>4. Before({sent'} \cup Queued', Calling' \cup Waiting') /\ Before(Calling', Waiting')
    BY <1>2, <1>4 DEF QuietWrite, WritesInOrder, Before
  <2> QED
    BY <1>2, <2>1, <2>2, <2>3, <2>4 DEF WritesInOrder, Before
<1>7. Numbered'
  <2>1. cur'[1] # 0 <=> pc' = "write"
    BY DEF QuietWrite, Numbered
  <2> QED
    BY <1>2, <2>1 DEF QuietWrite, Numbered
<1> QED
  BY <1>6, <1>7

\* The numbers of datagrams are numbers.
LEMMA DatagramFacts ==
  ASSUME Types
  PROVE  /\ \A i \in 1 .. Len(wq) : wq[i] \in Datagrams /\ wq[i][1] \in Nat
         /\ \A i \in 1 .. Len(posted) : posted[i][2] \in Datagrams /\ posted[i][2][1] \in Nat
         /\ cur[1] \in Nat /\ sent \in Nat /\ count["write"] \in Nat
         /\ Len(posted) \in Nat /\ Len(wq) \in Nat
<1>1. wq \in Seq(Datagrams) /\ posted \in Seq(LambdaType) /\ cur \in Datagrams /\ sent \in Nat
  BY TypeFacts
<1>2. \A i \in 1 .. Len(posted) : posted[i][2] \in Datagrams
  BY <1>1 DEF LambdaType
<1>3. \A i \in 1 .. Len(wq) : wq[i] \in Datagrams
  BY <1>1
<1>4. \A d \in Datagrams : d[1] \in Nat
  BY DEF Datagrams
<1>5. count["write"] \in Nat
  BY TypeFacts DEF BoundNames
<1>6. Len(posted) \in Nat /\ Len(wq) \in Nat
  BY <1>1
<1> QED
  BY <1>1, <1>2, <1>3, <1>4, <1>5, <1>6

\* write_channel numbers its datagram after all the others.
LEMMA WriteChannelKeepsOrder ==
  ASSUME Types, WritesInOrder, Numbered, NEW a \in BOOLEAN, WriteChannel(a)
  PROVE  WritesInOrder' /\ Numbered'
<1> DEFINE n == count["write"] + 1
           l == <<"write", <<n, a>>>>
<1>t. /\ cur[1] \in Nat /\ sent \in Nat /\ count["write"] \in Nat /\ posted \in Seq(LambdaType)
      /\ Len(posted) \in Nat
  BY DatagramFacts, TypeFacts
<1>1. /\ posted' = Append(posted, l) /\ UNCHANGED <<wq, sent, cur, op, pc>>
      /\ count'["write"] = n
  <2>1. "write" \in BoundNames
    BY DEF BoundNames
  <2> QED
    BY <2>1, UseFacts DEF WriteChannel, dataVars
<1>n. n \in Nat /\ 1 <= n /\ n = count["write"] + 1
  BY <1>t
<1>l. l \in LambdaType /\ l[1] = "write" /\ l[2][1] = n
  BY <1>n DEF LambdaType, Lambdas, Datagrams
<1> HIDE DEF n, l
<1>2. \A i \in 1 .. Len(posted') :
        \/ i \in 1 .. Len(posted) /\ posted'[i] = posted[i]
        \/ i = Len(posted) + 1 /\ posted'[i] = l
  BY <1>t, <1>1, <1>l
<1>3. \A i \in PostedWrites' :
        \/ i \in PostedWrites /\ posted'[i] = posted[i]
        \/ i = Len(posted) + 1 /\ posted'[i][2][1] = n
  BY <1>2, <1>l DEF PostedWrites
<1>4. \A i \in PostedWrites :
        i <= Len(posted) /\ posted[i][2][1] \in Nat /\ posted[i][2][1] < n /\ i \in Nat
  <2> TAKE i \in PostedWrites
  <2>1. posted[i][2][1] \in Nat /\ i <= Len(posted) /\ i \in Nat
    BY <1>t, DatagramFacts DEF PostedWrites
  <2>2. posted[i][2][1] <= count["write"]
    BY DEF Numbered
  <2> QED
    BY <1>t, <1>n, <2>1, <2>2
<1>5. \A i, j \in PostedWrites' : i < j => posted'[i][2][1] < posted'[j][2][1]
  <2> SUFFICES ASSUME NEW i \in PostedWrites', NEW j \in PostedWrites', i < j
               PROVE  posted'[i][2][1] < posted'[j][2][1]
    OBVIOUS
  <2>1. CASE j \in PostedWrites /\ posted'[j] = posted[j]
    <3>1. i \in PostedWrites /\ posted'[i] = posted[i]
      BY <1>t, <1>3, <1>4, <2>1
    <3> QED
      BY <2>1, <3>1 DEF WritesInOrder
  <2>2. CASE j = Len(posted) + 1 /\ posted'[j][2][1] = n
    <3>1. i \in PostedWrites /\ posted'[i] = posted[i]
      BY <1>t, <1>3, <2>2
    <3> QED
      BY <1>4, <2>2, <3>1
  <2> QED
    BY <1>3, <2>1, <2>2
<1>6. Waiting' \subseteq Waiting \cup {n}
  BY <1>3 DEF Waiting
<1>7. Queued' = Queued /\ Calling' = Calling
  BY <1>1 DEF Queued, Calling
<1>q. \A i \in 1 .. Len(wq) : wq[i][1] \in Nat /\ wq[i][1] <= count["write"]
  BY DatagramFacts DEF Numbered
<1>8. \A b \in {sent} \cup Queued \cup Calling : b \in Nat /\ b < n
  <2>1. sent < n /\ cur[1] < n
    BY <1>t, <1>n DEF Numbered
  <2>2. ASSUME NEW i \in 1 .. Len(wq) PROVE wq[i][1] \in Nat /\ wq[i][1] < n
    BY <1>t, <1>n, <1>q
  <2> QED
    BY <1>t, <2>1, <2>2 DEF Queued, Calling
<1>9. Before({sent'} \cup Queued', Calling' \cup Waiting') /\ Before(Calling', Waiting')
  BY <1>1, <1>6, <1>7, <1>8 DEF WritesInOrder, Before
<1>10. WritesInOrder'
  <2>1. op'["write"] # "none" => wq' # <<>> /\ Head(wq')[1] = sent'
    BY <1>1 DEF WritesInOrder
  <2>2. op'["write"] = "none" => Before({sent'}, Queued')
    BY <1>1, <1>7 DEF WritesInOrder
  <2>3. \A i, j \in 1 .. Len(wq') : i < j => wq'[i][1] < wq'[j][1]
    BY <1>1 DEF WritesInOrder
  <2> QED
    BY <1>5, <1>9, <2>1, <2>2, <2>3 DEF WritesInOrder, Before
<1>11. Numbered'
  <2>1. cur'[1] # 0 <=> pc' = "write"
    BY <1>1 DEF Numbered
  <2>2. sent' <= count'["write"] /\ cur'[1] <= count'["write"]
    BY <1>1, <1>n, <1>t DEF Numbered
  <2>3. \A i \in 1 .. Len(wq') : wq'[i][1] <= count'["write"]
    <3> SUFFICES ASSUME NEW i \in 1 .. Len(wq) PROVE wq[i][1] <= n
      BY <1>1
    <3> QED
      BY <1>t, <1>n, <1>q
  <2>4. \A i \in PostedWrites' : 1 <= posted'[i][2][1] /\ posted'[i][2][1] <= count'["write"]
    <3> TAKE i \in PostedWrites'
    <3>1. CASE i \in PostedWrites /\ posted'[i] = posted[i]
      <4>1. posted[i][2][1] \in Nat /\ posted[i][2][1] < n /\ 1 <= posted[i][2][1]
        BY <1>4, <3>1 DEF Numbered
      <4> QED
        BY <1>1, <1>n, <3>1, <4>1
    <3>2. CASE posted'[i][2][1] = n
      BY <1>1, <1>n, <3>2
    <3> QED
      BY <1>3, <3>1, <3>2
  <2> QED
    BY <2>1, <2>2, <2>3, <2>4 DEF Numbered
<1> QED
  BY <1>10, <1>11

\* The channel_write callback takes up the first of the datagrams that wait.
LEMMA RunWriteKeepsOrder ==
  ASSUME Types, WritesInOrder, Numbered, RunWrite
  PROVE  WritesInOrder' /\ Numbered'
<1>1. /\ pc' = "write" /\ UNCHANGED <<wq, sent, op, count>> /\ cur' = Head(posted)[2]
      /\ Running("write") /\ posted \in Seq(LambdaType)
  BY TypeFacts DEF RunWrite
<1>2. posted # <<>> /\ posted' = Tail(posted) /\ posted[1][1] = "write"
  BY <1>1, RunningFacts
<1>3. Head(posted) = posted[1] /\ 1 \in 1 .. Len(posted) /\ Len(posted) \in Nat
  BY <1>1, <1>2
<1>w. 1 \in PostedWrites /\ cur'[1] = posted[1][2][1] /\ cur'[1] \in Waiting
  BY <1>1, <1>2, <1>3 DEF PostedWrites, Waiting
<1>4. \A i \in PostedWrites' :
        i + 1 \in PostedWrites /\ posted'[i] = posted[i + 1] /\ i \in Nat /\ 1 < i + 1
  <2>1. \A i \in 1 .. Len(posted') : i + 1 \in 1 .. Len(posted) /\ posted'[i] = posted[i + 1]
    BY <1>1, <1>2
  <2> QED
    BY <2>1 DEF PostedWrites
<1>5. Waiting' \subseteq Waiting
  BY <1>4 DEF Waiting
<1>6. Queued' = Queued /\ Calling' \subseteq Waiting
  BY <1>1, <1>w DEF Queued, Calling
<1>7. Before(Calling', Waiting')
  <2> SUFFICES ASSUME NEW i \in PostedWrites' PROVE cur'[1] < posted'[i][2][1]
    BY DEF Before, Calling, Waiting
  <2> QED
    BY <1>w, <1>4 DEF WritesInOrder
<1>8. Before({sent'} \cup Queued', Calling' \cup Waiting')
  BY <1>1, <1>5, <1>6 DEF WritesInOrder, Before
<1>9. \A i, j \in PostedWrites' : i < j => posted'[i][2][1] < posted'[j][2][1]
  <2> SUFFICES ASSUME NEW i \in PostedWrites', NEW j \in PostedWrites', i < j
               PROVE  posted'[i][2][1] < posted'[j][2][1]
    OBVIOUS
  <2>1. i + 1 \in PostedWrites /\ j + 1 \in PostedWrites /\ i + 1 < j + 1
    BY <1>4
  <2> QED
    BY <1>4, <2>1 DEF WritesInOrder
<1>10. WritesInOrder'
  <2>1. op'["write"] # "none" => wq' # <<>> /\ Head(wq')[1] = sent'
    BY <1>1 DEF WritesInOrder
  <2>2. op'["write"] = "none" => Before({sent'}, Queued')
    BY <1>1, <1>6 DEF WritesInOrder
  <2>3. \A i, j \in 1 .. Len(wq') : i < j => wq'[i][1] < wq'[j][1]
    BY <1>1 DEF WritesInOrder
  <2> QED
    BY <1>7, <1>8, <1>9, <2>1, <2>2, <2>3 DEF WritesInOrder, Before
<1>11. Numbered'
  <2>1. \A i \in PostedWrites' : 1 <= posted'[i][2][1] /\ posted'[i][2][1] <= count'["write"]
    BY <1>1, <1>4 DEF Numbered
  <2>2. cur'[1] <= count'["write"] /\ cur'[1] # 0
    BY <1>1, <1>w DEF Numbered
  <2> QED
    BY <1>1, <2>1, <2>2 DEF Numbered
<1> QED
  BY <1>10, <1>11

\* write_streambuf queues the datagram of the channel_write callback behind the others.
LEMMA WriteReturnKeepsOrder ==
  ASSUME Types, WritesInOrder, Numbered, WritesKept(0) \/ WritesKept(1),
         NEW thrown \in BOOLEAN, NEW serialized \in BOOLEAN, WriteReturn(thrown, serialized)
  PROVE  WritesInOrder' /\ Numbered'
<1>t. /\ wq \in Seq(Datagrams) /\ cur \in Datagrams /\ cur[1] \in Nat /\ sent \in Nat
      /\ op \in OpType /\ count["write"] \in Nat /\ Len(wq) \in Nat
  BY TypeFacts, DatagramFacts
<1>1. /\ pc = "write" /\ pc' = "idle" /\ cur'[1] = 0 /\ cur[1] # 0
      /\ Calling = {cur[1]} /\ Calling' = {}
  <2>1. pc = "write" /\ pc' = "idle" /\ cur' = NoDatagram
    BY DEF WriteReturn, At, NothingMore
  <2>2. cur'[1] = 0 /\ cur[1] # 0
    BY <2>1 DEF Numbered, NoDatagram
  <2> QED
    BY <2>1, <2>2 DEF Calling
<1>2. count'["write"] = count["write"]
  BY ThrowsKeepsCount DEF WriteReturn
<1>3. PICK d \in {0, 1} : WritesKept(d)
  OBVIOUS
<1>4. /\ Waiting' \subseteq Waiting
      /\ \A i, j \in PostedWrites' : i < j => posted'[i][2][1] < posted'[j][2][1]
      /\ \A i \in PostedWrites' : 1 <= posted'[i][2][1] /\ posted'[i][2][1] <= count'["write"]
  BY <1>2, <1>3, PostedKept
<1>5. Before({sent} \cup Queued \cup {cur[1]}, Waiting') /\ Before({sent} \cup Queued, {cur[1]})
  BY <1>1, <1>4 DEF WritesInOrder, Before
<1>6. CASE serialized /\ Sendable
  <2>0. /\ wq' = Append(wq, cur) /\ sent' = (IF wq = <<>> THEN cur[1] ELSE sent)
        /\ op' = (IF wq = <<>> THEN Pending(op, "write") ELSE op)
    BY <1>6 DEF WriteReturn, NothingMore
  <2>1. /\ wq' \in Seq(Datagrams) /\ Len(wq') = Len(wq) + 1
        /\ wq'[Len(wq) + 1] = cur /\ \A i \in 1 .. Len(wq) : wq'[i] = wq[i]
    BY <1>t, <2>0
  <2>2. Queued' = Queued \cup {cur[1]}
    BY <1>t, <2>1 DEF Queued
  <2>3. \A i \in 1 .. Len(wq) : wq[i][1] < cur[1]
    BY <1>5 DEF Before, Queued
  <2>4. ASSUME NEW i \in 1 .. Len(wq'), NEW j \in 1 .. Len(wq'), i < j
        PROVE  wq'[i][1] < wq'[j][1]
    <3>1. CASE j = Len(wq) + 1
      <4>1. i \in 1 .. Len(wq)
        BY <1>t, <2>1, <2>4, <3>1
      <4> QED
        BY <2>1, <2>3, <3>1, <4>1
    <3>2. CASE j \in 1 .. Len(wq)
      <4>1. i \in 1 .. Len(wq)
        BY <1>t, <2>1, <2>4, <3>2
      <4> QED
        BY <2>1, <2>4, <3>2, <4>1 DEF WritesInOrder
    <3> QED
      BY <1>t, <2>1, <3>1, <3>2
  <2>5. \A i \in 1 .. Len(wq') : wq'[i][1] <= count'["write"]
    <3> TAKE i \in 1 .. Len(wq')
    <3>1. CASE i \in 1 .. Len(wq)
      BY <1>2, <2>1, <3>1 DEF Numbered
    <3>2. CASE i = Len(wq) + 1
      BY <1>2, <2>1, <3>2 DEF Numbered
    <3> QED
      BY <1>t, <2>1, <3>1, <3>2
  <2>6. CASE wq = <<>>
    <3>1. op'["write"] = "pending" /\ sent' = cur[1]
      BY <1>t, <2>0, <2>6, OpNames, PendingFacts
    <3>2. wq' # <<>> /\ Head(wq')[1] = cur[1]
      <4>1. Len(wq) = 0 /\ Len(wq') = 1 /\ wq'[1] = cur
        BY <1>t, <2>1, <2>6
      <4>3. wq' # <<>>
        <5> SUFFICES ASSUME wq' = <<>> PROVE FALSE
          OBVIOUS
        <5>1. Len(wq') = 0
          OBVIOUS
        <5> QED
          BY <4>1, <5>1
      <4>n. wq' \in Seq(Datagrams) /\ wq' # <<>>
        BY <2>1, <4>3
      <4>h. Head(wq') = wq'[1]
        BY <4>n
      <4>2. wq' # <<>> /\ Head(wq') = cur
        BY <4>1, <4>n, <4>h
      <4> QED
        BY <4>2
    <3>3. Before({sent'} \cup Queued', Calling' \cup Waiting') /\ Before(Calling', Waiting')
      BY <1>1, <1>5, <2>2, <3>1 DEF Before
    <3>4. WritesInOrder'
      BY <1>4, <2>4, <3>1, <3>2, <3>3 DEF WritesInOrder, Before
    <3>5. sent' <= count'["write"] /\ cur'[1] <= count'["write"]
      BY <1>t, <1>1, <1>2, <3>1 DEF Numbered
    <3> QED
      BY <1>1, <1>4, <2>5, <3>4, <3>5 DEF Numbered
  <2>7. CASE wq # <<>>
    <3>1. op' = op /\ sent' = sent
      BY <2>0, <2>7
    <3>h. wq' # <<>> /\ Head(wq') = Head(wq)
      <4>1. 1 \in 1 .. Len(wq) /\ Head(wq) = wq[1]
        BY <1>t, <2>7
      <4>2. wq' # <<>> /\ Head(wq') = wq'[1]
        BY <1>t, <2>1
      <4> QED
        BY <2>1, <4>1, <4>2
    <3>2. op'["write"] # "none" => wq' # <<>> /\ Head(wq')[1] = sent'
      BY <3>1, <3>h DEF WritesInOrder
    <3>3. op'["write"] = "none" => Before({sent'}, Queued')
      BY <1>5, <2>2, <3>1 DEF WritesInOrder, Before
    <3>4. Before({sent'} \cup Queued', Calling' \cup Waiting') /\ Before(Calling', Waiting')
      BY <1>1, <1>5, <2>2, <3>1 DEF Before
    <3>5. WritesInOrder'
      BY <1>4, <2>4, <3>2, <3>3, <3>4 DEF WritesInOrder, Before
    <3>6. sent' <= count'["write"] /\ cur'[1] <= count'["write"]
      BY <1>t, <1>1, <1>2, <3>1 DEF Numbered
    <3> QED
      BY <1>1, <1>4, <2>5, <3>5, <3>6 DEF Numbered
  <2> QED
    BY <2>6, <2>7
<1>7. CASE ~(serialized /\ Sendable)
  <2>1. UNCHANGED <<wq, sent, op>>
    BY <1>7 DEF WriteReturn, NothingMore
  <2>2. Queued' = Queued
    BY <2>1 DEF Queued
  <2>3. op'["write"] # "none" => wq' # <<>> /\ Head(wq')[1] = sent'
    BY <2>1 DEF WritesInOrder
  <2>4. op'["write"] = "none" => Before({sent'}, Queued')
    BY <2>1, <2>2 DEF WritesInOrder
  <2>5. Before({sent'} \cup Queued', Calling' \cup Waiting') /\ Before(Calling', Waiting')
    BY <1>1, <1>5, <2>1, <2>2 DEF Before
  <2>6. \A i, j \in 1 .. Len(wq') : i < j => wq'[i][1] < wq'[j][1]
    BY <2>1 DEF WritesInOrder
  <2>7. WritesInOrder'
    BY <1>4, <2>3, <2>4, <2>5, <2>6 DEF WritesInOrder, Before
  <2>8. sent' <= count'["write"] /\ cur'[1] <= count'["write"]
    BY <1>t, <1>1, <1>2, <2>1 DEF Numbered
  <2> QED
    BY <1>1, <1>2, <1>4, <2>1, <2>7, <2>8 DEF Numbered
<1> QED
  BY <1>6, <1>7

\* write_complete removes the datagram that was sent.
LEMMA WriteCompleteKeepsOrder ==
  ASSUME Types, WritesInOrder, Numbered, WritesKept(0) \/ WritesKept(1), WriteComplete
  PROVE  WritesInOrder' /\ Numbered'
<1>t. wq \in Seq(Datagrams) /\ sent \in Nat /\ op \in OpType /\ ctx \in CtxType
  BY TypeFacts
<1>1. /\ pc = "idle" /\ op["write"] # "none" /\ wq' = Tail(wq) /\ UNCHANGED <<sent, cur, count>>
  BY DEF WriteComplete, RemoveSentData, Completing, Completed, StrandFree
<1>2. op'["write"] = "none" /\ pc' # "write"
  <2> DEFINE x == Cleared(ctx, "write")
             o == Done("write")
  <2>1. x \in CtxType /\ o \in OpType /\ o["write"] = "none"
    BY <1>t, OpNames, ClearedFacts, DoneFacts
  <2> HIDE DEF x, o
  <2>2. (op' = o /\ pc' = "written") \/ HandleReqClose(x, o)
    BY DEF WriteComplete, x, o
  <2> QED
    BY <2>1, <2>2, OpNames, EndFacts DEF Ended, Closed, NothingMore
<1>3. PICK d \in {0, 1} : WritesKept(d)
  OBVIOUS
<1>4. /\ Waiting' \subseteq Waiting
      /\ \A i, j \in PostedWrites' : i < j => posted'[i][2][1] < posted'[j][2][1]
      /\ \A i \in PostedWrites' : 1 <= posted'[i][2][1] /\ posted'[i][2][1] <= count'["write"]
  BY <1>1, <1>3, PostedKept
<1>5. wq # <<>> /\ Head(wq) = wq[1] /\ wq[1][1] = sent /\ 1 \in 1 .. Len(wq)
  <2>1. wq # <<>> /\ Head(wq)[1] = sent
    BY <1>1 DEF WritesInOrder
  <2>2. Head(wq) = wq[1] /\ 1 \in 1 .. Len(wq)
    BY <1>t, <2>1
  <2> QED
    BY <2>1, <2>2
<1>6. \A i \in 1 .. Len(wq') :
        i + 1 \in 1 .. Len(wq) /\ wq'[i] = wq[i + 1] /\ i \in Nat /\ 1 < i + 1
  BY <1>t, <1>1, <1>5
<1>7. Queued' \subseteq Queued
  BY <1>6 DEF Queued
<1>8. Before({sent'}, Queued')
  <2> SUFFICES ASSUME NEW i \in 1 .. Len(wq') PROVE sent < wq'[i][1]
    BY <1>1 DEF Before, Queued
  <2> QED
    BY <1>5, <1>6 DEF WritesInOrder
<1>9. ASSUME NEW i \in 1 .. Len(wq'), NEW j \in 1 .. Len(wq'), i < j PROVE wq'[i][1] < wq'[j][1]
  <2>1. i + 1 \in 1 .. Len(wq) /\ j + 1 \in 1 .. Len(wq) /\ i + 1 < j + 1
    BY <1>6, <1>9
  <2> QED
    BY <1>6, <2>1 DEF WritesInOrder
<1>10. Calling' = Calling
  BY <1>1 DEF Calling
<1>11. Before({sent'} \cup Queued', Calling' \cup Waiting') /\ Before(Calling', Waiting')
  BY <1>1, <1>4, <1>7, <1>10 DEF WritesInOrder, Before
<1>12. WritesInOrder'
  BY <1>2, <1>4, <1>8, <1>9, <1>11 DEF WritesInOrder, Before
<1>13. \A i \in 1 .. Len(wq') : wq'[i][1] <= count'["write"]
  BY <1>1, <1>6 DEF Numbered
<1>14. cur'[1] # 0 <=> pc' = "write"
  BY <1>1, <1>2 DEF Numbered
<1> QED
  BY <1>1, <1>4, <1>12, <1>13, <1>14 DEF Numbered

\* call_channel_written sends the first of the datagrams that are queued.
LEMMA WrittenReturnKeepsOrder ==
  ASSUME Types, WritesInOrder, Numbered, WritesKept(0) \/ WritesKept(1),
         NEW thrown \in BOOLEAN, WrittenReturn(thrown)
  PROVE  WritesInOrder' /\ Numbered'
<1>t. wq \in Seq(Datagrams) /\ sent \in Nat /\ op \in OpType /\ ctx \in CtxType
  BY TypeFacts
<1>1. pc = "written" /\ UNCHANGED <<wq, cur>> /\ count'["write"] = count["write"]
  BY ThrowsKeepsCount DEF WrittenReturn, At
<1>2. CASE Sendable /\ wq # <<>>
  <2>0. sent' = Head(wq)[1] /\ op' = Pending(op, "write") /\ pc' = "idle"
    BY <1>2 DEF WrittenReturn, NothingMore
  <2>p. PICK d \in {0, 1} : WritesKept(d)
    OBVIOUS
  <2>1. /\ Waiting' \subseteq Waiting
        /\ \A i, j \in PostedWrites' : i < j => posted'[i][2][1] < posted'[j][2][1]
        /\ \A i \in PostedWrites' : 1 <= posted'[i][2][1] /\ posted'[i][2][1] <= count'["write"]
    BY <1>1, <2>p, PostedKept
  <2>2. op'["write"] = "pending"
    BY <1>t, <2>0, OpNames, PendingFacts
  <2>3. Queued' = Queued /\ Calling' = Calling
    BY <1>1 DEF Queued, Calling
  <2>4. 1 \in 1 .. Len(wq) /\ sent' = wq[1][1] /\ sent' \in Queued
    <3>1. 1 \in 1 .. Len(wq) /\ Head(wq) = wq[1]
      BY <1>t, <1>2
    <3> QED
      BY <2>0, <3>1 DEF Queued
  <2>5. Before({sent'} \cup Queued', Calling' \cup Waiting') /\ Before(Calling', Waiting')
    BY <2>1, <2>3, <2>4 DEF WritesInOrder, Before
  <2>6. wq' # <<>> /\ Head(wq')[1] = sent'
    BY <1>1, <1>2, <2>0
  <2>7. \A i, j \in 1 .. Len(wq') : i < j => wq'[i][1] < wq'[j][1]
    BY <1>1 DEF WritesInOrder
  <2>8. WritesInOrder'
    BY <2>1, <2>2, <2>5, <2>6, <2>7 DEF WritesInOrder, Before
  <2>9. sent' <= count'["write"]
    BY <1>1, <2>4 DEF Numbered
  <2> QED
    BY <1>1, <2>0, <2>1, <2>8, <2>9 DEF Numbered
<1>3. CASE ~(Sendable /\ wq # <<>>)
  <2>1. sent' = sent /\ HandleReqClose(ctx, op)
    BY <1>3 DEF WrittenReturn
  <2>2. QuietWrite
    BY <1>t, <1>1, <2>1, OpNames, EndFacts DEF Ended, Closed, NothingMore, QuietWrite
  <2> QED
    BY <2>2, QuietKeepsOrder
<1> QED
  BY <1>2, <1>3

\* Every step keeps the datagrams in order.
LEMMA OrderStep ==
  ASSUME Types, WritesInOrder, Numbered, [Next]_vars
  PROVE  WritesInOrder' /\ Numbered'
<1>1. CASE \E addressed \in BOOLEAN : WriteChannel(addressed)
  BY <1>1, WriteChannelKeepsOrder
<1>2. CASE ~\E addressed \in BOOLEAN : WriteChannel(addressed)
  <2>1. WritesKept(0) \/ WritesKept(1)
    BY <1>2, WritesStayPosted
  <2>2. CASE RunWrite
    BY <2>2, RunWriteKeepsOrder
  <2>3. CASE WriteComplete
    BY <2>1, <2>3, WriteCompleteKeepsOrder
  <2>4. CASE \E thrown \in BOOLEAN : WrittenReturn(thrown)
    BY <2>1, <2>4, WrittenReturnKeepsOrder
  <2>5. CASE \E thrown, serialized \in BOOLEAN : WriteReturn(thrown, serialized)
    BY <2>1, <2>5, WriteReturnKeepsOrder
  <2> QED
    BY <1>2, <2>1, <2>2, <2>3, <2>4, <2>5, QuietSteps, QuietKeepsOrder
<1> QED
  BY <1>1, <1>2

\* write_streambuf, write_complete and call_channel_written of a UDP channel: the head of
\* the queue is the datagram in flight, and datagrams leave in the order of the write
\* calls, none of them twice, whatever fails or is closed meanwhile.
THEOREM WritesStayInOrder == Spec => []WritesInOrder
<1>1. Init => WritesInOrder /\ Numbered
  <2> SUFFICES ASSUME Init PROVE WritesInOrder /\ Numbered
    OBVIOUS
  <2>1. wq = <<>> /\ Len(wq) = 0 /\ sent = 0 /\ pc = "idle" /\ op["write"] = "none"
    BY OpNames DEF Init
  <2>c. cur[1] = 0
    BY DEF Init, NoDatagram
  <2>2. Len(posted) = 1 /\ posted[1][1] = "created"
    BY DEF Init, Lambda
  <2>3. Queued = {} /\ Calling = {} /\ PostedWrites = {}
    BY <2>1, <2>c, <2>2 DEF Queued, Calling, PostedWrites
  <2>4. Waiting = {}
    BY <2>3 DEF Waiting
  <2>5. count["write"] = 0
    BY DEF Init, Limit
  <2> QED
    BY <2>1, <2>c, <2>3, <2>4, <2>5 DEF WritesInOrder, Numbered, Before
<1>2. IInv /\ (WritesInOrder /\ Numbered) /\ [Next]_vars => (WritesInOrder /\ Numbered)'
  BY OrderStep DEF IInv
<1> QED
  BY <1>1, <1>2, Invariance, PTL DEF Spec

-----------------------------------------------------------------------------
(* Nothing is forgotten.                                                    *)

\* What _task_in_progress records is outstanding, or datagrams are queued.
TasksAreReal == \A t \in ctx.tasks : op[t] # "none" \/ (t = "write" /\ wq # <<>>)

ClosePosted == \E i \in 1 .. Len(posted) : posted[i][1] = "close"

\* Something will come back to a channel that is to be closed.
CloseIsHeld ==
  \/ ClosePosted \/ \E c \in Closers : closer[c] = "post"
  \/ op["read"] # "none" \/ op["write"] # "none" \/ "write" \in ctx.tasks \/ pc = "read"

\* A connected channel reads, is called or is to be closed.
ConnectedHeld ==
  phase = "connected" =>
    /\ ctx.stat \in {CONNECTED, REQ_CLOSE}
    /\ ctx.stat = CONNECTED => op["read"] # "none" \/ pc \in {"connected", "read"}
    /\ ctx.stat = REQ_CLOSE => CloseIsHeld

\* A disconnected channel leaves the map with its last callback.
LeavesMap == phase = "disconnected" /\ ctx.inMap => pc = "disconnected"

Anchored == proc = "running" => ConnectedHeld /\ LeavesMap

\* A service that has stopped does not run again.
LEMMA StillRunning ==
  ASSUME [Next]_vars, proc' = "running"
  PROVE  proc = "running"
<1>1. ASSUME NEW a \in BOOLEAN, WriteChannel(a) PROVE proc = "running"
  BY <1>1 DEF WriteChannel, restVars
<1>2. CASE FireUserEvent
  BY <1>2 DEF FireUserEvent, restVars
<1>3. CASE CallbackClose
  BY <1>3 DEF CallbackClose, restVars
<1>4. CASE StopService
  BY <1>4 DEF StopService
<1>5. ASSUME NEW c \in Closers, Close(c) PROVE proc = "running"
  BY <1>5 DEF Close, restVars
<1>6. CASE RunCreated
  BY <1>6 DEF RunCreated, Running, StrandFree
<1>7. CASE RunConnect
  BY <1>7 DEF RunConnect, Running, StrandFree
<1>8. CASE RunWrite
  BY <1>8 DEF RunWrite, Running, StrandFree
<1>9. CASE RunClose
  BY <1>9 DEF RunClose, Running, StrandFree
<1>10. ASSUME NEW name \in {"exception", "event"}, RunPlain(name) PROVE proc = "running"
  BY <1>10 DEF RunPlain, Running, StrandFree
<1>11. CASE ResolveComplete
  BY <1>11 DEF ResolveComplete, restVars
<1>12. CASE ConnectComplete
  BY <1>12 DEF ConnectComplete, restVars
<1>13. CASE ReadComplete
  BY <1>13 DEF ReadComplete, restVars
<1>14. CASE ReadFailed
  BY <1>14 DEF ReadFailed, restVars
<1>15. CASE WriteComplete
  BY <1>15 DEF WriteComplete, restVars
<1>16. CASE BoundTest
  BY <1>16 DEF BoundTest, restVars
<1>17. CASE BoundSet
  BY <1>17 DEF BoundSet, restVars
<1>18. CASE ConnectedSet
  BY <1>18 DEF ConnectedSet, restVars
<1>19. ASSUME NEW thrown \in BOOLEAN, CreatedReturn(thrown) PROVE proc = "running"
  BY <1>19 DEF CreatedReturn, At
<1>20. ASSUME NEW thrown \in BOOLEAN, BoundReturn(thrown) PROVE proc = "running"
  BY <1>20 DEF BoundReturn, restVars
<1>21. ASSUME NEW thrown \in BOOLEAN, ConnectedReturn(thrown) PROVE proc = "running"
  BY <1>21 DEF ConnectedReturn, restVars
<1>22. ASSUME NEW thrown \in BOOLEAN, ReadReturn(thrown) PROVE proc = "running"
  BY <1>22 DEF ReadReturn, restVars
<1>23. ASSUME NEW thrown \in BOOLEAN, WrittenReturn(thrown) PROVE proc = "running"
  BY <1>23 DEF WrittenReturn, restVars
<1>24. ASSUME NEW thrown \in BOOLEAN, DisconnectedReturn(thrown) PROVE proc = "running"
  BY <1>24 DEF DisconnectedReturn, restVars
<1>25. ASSUME NEW thrown \in BOOLEAN, PlainReturn(thrown) PROVE proc = "running"
  BY <1>25 DEF PlainReturn, restVars
<1>26. ASSUME NEW thrown \in BOOLEAN, NEW serialized \in BOOLEAN, WriteReturn(thrown, serialized)
       PROVE  proc = "running"
  BY <1>26 DEF WriteReturn, restVars
<1>27. ASSUME NEW o \in Ops, NetComplete(o) PROVE proc = "running"
  BY <1>27 DEF NetComplete, restVars
<1>28. CASE UNCHANGED vars
  BY <1>28 DEF vars
<1> QED
  BY <1>1, <1>2, <1>3, <1>4, <1>5, <1>6, <1>7, <1>8, <1>9, <1>10, <1>11, <1>12, <1>13,
     <1>14, <1>15, <1>16, <1>17, <1>18, <1>19, <1>20, <1>21, <1>22, <1>23, <1>24, <1>25,
     <1>26, <1>27, <1>28
  DEF Next, StrandServes, StrandGoesOn, RunPosted

\* Starting an operation ends no other.
LEMMA PendingOthers ==
  ASSUME NEW o \in OpType, NEW p \in Ops
  PROVE  /\ Pending(o, p)[p] = "pending"
         /\ \A r \in Ops : r # p => Pending(o, p)[r] = o[r]
         /\ \A r \in Ops : o[r] # "none" => Pending(o, p)[r] # "none"
<1>1. Pending(o, p)[p] = "pending" /\ \A r \in Ops : r # p => Pending(o, p)[r] = o[r]
  BY PendingFacts
<1>2. ASSUME NEW r \in Ops, o[r] # "none" PROVE Pending(o, p)[r] # "none"
  <2>1. CASE r = p
    BY <1>1, <2>1
  <2>2. CASE r # p
    BY <1>1, <1>2, <2>2
  <2> QED
    BY <2>1, <2>2
<1> QED
  BY <1>1, <1>2

\* _task_in_progress is cleared when what it stands for is over.
LEMMA RealStep ==
  ASSUME Types, SendingQueued, TasksAreReal, [Next]_vars
  PROVE  TasksAreReal'
<1>t. ctx \in CtxType /\ op \in OpType /\ wq \in Seq(Datagrams) /\ ctx.tasks \subseteq Ops
  BY TypeFacts DEF Ops
<1>g. ASSUME NEW d, \A s \in ctx'.tasks : s # d => s \in ctx.tasks,
             \A p \in Ops : p # d /\ op[p] # "none" => op'[p] # "none",
             d = "write" \/ wq' = wq,
             d \in ctx'.tasks => op'[d] # "none" \/ (d = "write" /\ wq' # <<>>)
      PROVE  TasksAreReal'
  <2> SUFFICES ASSUME NEW s \in ctx'.tasks
               PROVE  op'[s] # "none" \/ (s = "write" /\ wq' # <<>>)
    BY DEF TasksAreReal
  <2>1. CASE s = d
    BY <1>g, <2>1
  <2>2. CASE s # d
    <3>1. s \in ctx.tasks /\ s \in Ops
      BY <1>t, <1>g, <2>2
    <3>2. op[s] # "none" \/ (s = "write" /\ wq # <<>>)
      BY <3>1 DEF TasksAreReal
    <3> QED
      BY <1>g, <2>2, <3>1, <3>2
  <2> QED
    BY <2>1, <2>2
<1>q. ASSUME ctx'.tasks = ctx.tasks, wq' = wq, \A p \in Ops : op[p] # "none" => op'[p] # "none"
      PROVE  TasksAreReal'
  <2> DEFINE d == "nothing"
  <2>1. d \notin Ops
    BY DEF Ops
  <2> HIDE DEF d
  <2>2. d \notin ctx'.tasks
    BY <1>t, <1>q, <2>1
  <2> QED
    BY <1>g, <1>q, <2>2
<1>e. ASSUME NEW x, NEW o, Ended(x, o)
      PROVE  ctx'.tasks = x.tasks /\ \A p \in Ops : op'[p] = "none" <=> o[p] = "none"
  BY <1>e DEF Ended, Closed, NothingMore
<1>r. ASSUME ctx' = Start(ctx, "read"), op' = Pending(op, "read"), wq' = wq PROVE TasksAreReal'
  <2>1. /\ ctx'.tasks = ctx.tasks \cup {"read"} /\ op'["read"] = "pending"
        /\ \A p \in Ops : p # "read" => op'[p] = op[p]
    BY <1>t, <1>r, OpNames, StartFacts, PendingOthers
  <2> QED
    BY <1>g, <1>r, <2>1
<1>1. ASSUME NEW a \in BOOLEAN, WriteChannel(a) PROVE TasksAreReal'
  <2>1. ctx' = ctx /\ op' = op /\ wq' = wq
    BY <1>1 DEF WriteChannel, dataVars
  <2> QED
    BY <1>q, <2>1
<1>2. CASE FireUserEvent
  <2>1. ctx' = ctx /\ op' = op /\ wq' = wq
    BY <1>2 DEF FireUserEvent, dataVars
  <2> QED
    BY <1>q, <2>1
<1>3. CASE CallbackClose
  <2>1. ctx'.tasks = ctx.tasks /\ op' = op /\ wq' = wq
    BY <1>t, <1>3, CloseStored DEF CallbackClose, dataVars
  <2> QED
    BY <1>q, <2>1
<1>4. CASE StopService
  <2>1. ctx'.tasks = ctx.tasks /\ wq' = wq
    BY <1>t, <1>4, ClosedAndErased DEF StopService, dataVars
  <2>2. op' = op \/ op' = AbortOps(op)
    BY <1>4 DEF StopService
  <2> QED
    BY <1>t, <1>q, <2>1, <2>2, AbortOpsFacts
<1>5. ASSUME NEW c \in Closers, Close(c) PROVE TasksAreReal'
  <2>1. ctx'.tasks = ctx.tasks /\ op' = op /\ wq' = wq
    BY <1>t, <1>5, CloseStored DEF Close, CloserSet, dataVars
  <2> QED
    BY <1>q, <2>1
<1>6. CASE RunCreated
  <2>1. ctx' = ctx /\ op' = op /\ wq' = wq
    BY <1>6 DEF RunCreated, dataVars
  <2> QED
    BY <1>q, <2>1
<1>7. CASE RunConnect
  <2>1. ctx'.tasks = ctx.tasks /\ wq' = wq /\ op' = Pending(op, "connect")
    BY <1>t, <1>7, SocketReopened DEF RunConnect, dataVars
  <2>2. op'["connect"] = "pending" /\ \A p \in Ops : p # "connect" => op'[p] = op[p]
    BY <1>t, <2>1, OpNames, PendingOthers
  <2>3. \A p \in Ops : op[p] # "none" => op'[p] # "none"
    BY <1>t, <2>1, OpNames, PendingOthers
  <2> QED
    BY <1>q, <2>1, <2>3
<1>8. CASE RunWrite
  <2>1. ctx' = ctx /\ op' = op /\ wq' = wq
    BY <1>8 DEF RunWrite, dataVars
  <2> QED
    BY <1>q, <2>1
<1>9. CASE RunClose
  <2>1. wq' = wq
    BY <1>9 DEF RunClose, dataVars
  <2>2. CASE (op' = op \/ op' = AbortOps(op)) /\ ctx' = ctx
    BY <1>t, <1>q, <2>1, <2>2, AbortOpsFacts
  <2>3. CASE Ended(ctx, op)
    BY <1>e, <1>q, <2>1, <2>3
  <2> QED
    BY <1>t, <1>9, <2>2, <2>3, EndFacts DEF RunClose
<1>10. ASSUME NEW name \in {"exception", "event"}, RunPlain(name) PROVE TasksAreReal'
  <2>1. ctx' = ctx /\ op' = op /\ wq' = wq
    BY <1>10 DEF RunPlain, dataVars
  <2> QED
    BY <1>q, <2>1
<1>11. CASE ResolveComplete
  <2> DEFINE o == Done("resolve")
  <2>1. o \in OpType /\ wq' = wq /\ \A p \in Ops : p # "resolve" => o[p] = op[p]
    BY <1>t, <1>11, OpNames, DoneFacts DEF ResolveComplete, dataVars
  <2>2. "resolve" \notin ctx.tasks
    BY TypeFacts
  <2>3. CASE ctx'.tasks = ctx.tasks /\ op' = o
    BY <1>g, <2>1, <2>2, <2>3
  <2>4. CASE ctx'.tasks = ctx.tasks \cup {"connect"} /\ op' = Pending(o, "connect")
    <3> HIDE DEF o
    <3>1. op'["connect"] = "pending" /\ \A p \in Ops : p # "connect" => op'[p] = o[p]
      BY <2>1, <2>4, OpNames, PendingOthers
    <3> SUFFICES ASSUME NEW s \in ctx'.tasks
                 PROVE  op'[s] # "none" \/ (s = "write" /\ wq' # <<>>)
      BY DEF TasksAreReal
    <3>2. CASE s = "connect"
      BY <3>1, <3>2
    <3>3. CASE s # "connect"
      <4>1. s \in ctx.tasks /\ s \in Ops /\ s # "resolve"
        BY <1>t, <2>2, <2>4, <3>3
      <4> QED
        BY <2>1, <3>1, <3>3, <4>1 DEF TasksAreReal
    <3> QED
      BY <3>2, <3>3
  <2>5. op["resolve"] = "ok" => ctx'.tasks = ctx.tasks \cup {"connect"}
    <3>1. Start(ctx, "connect") \in CtxType /\ Start(ctx, "connect").tasks = ctx.tasks \cup {"connect"}
      BY <1>t, OpNames, StartFacts
    <3>2. op["resolve"] = "ok" => ctx' = [Start(ctx, "connect") EXCEPT !.socket = "open"]
      BY <1>11 DEF ResolveComplete, NothingMore
    <3> QED
      BY <3>1, <3>2, SocketReopened
  <2>6. op["resolve"] # "ok" => ctx'.tasks = ctx.tasks
    BY <1>t, <1>11, Erased DEF ResolveComplete, NothingMore
  <2> QED
    BY <1>11, <2>3, <2>4, <2>5, <2>6 DEF ResolveComplete, NothingMore
<1>12. CASE ConnectComplete
  <2> DEFINE x == Cleared(ctx, "connect")
  <2>1. x \in CtxType /\ x.tasks = ctx.tasks \ {"connect"}
    BY <1>t, ClearedFacts
  <2>2. op' = Done("connect") /\ wq' = wq
    BY <1>12 DEF ConnectComplete, dataVars
  <2>3. \A p \in Ops : p # "connect" => op'[p] = op[p]
    BY <1>t, <2>2, OpNames, DoneFacts
  <2> HIDE DEF x
  <2>4. ctx' = x \/ ctx' = [x EXCEPT !.inMap = FALSE]
    BY <1>12 DEF ConnectComplete, x
  <2>5. ctx'.tasks = ctx.tasks \ {"connect"}
    BY <2>1, <2>4, Erased
  <2> QED
    BY <1>g, <2>2, <2>3, <2>5
<1>13. CASE ReadComplete
  <2>1. ctx'.tasks = ctx.tasks \ {"read"} /\ wq' = wq
    BY <1>t, <1>13, ClearedFacts DEF ReadComplete
  <2>2. \A p \in Ops : p # "read" => op'[p] = op[p]
    BY <1>t, <1>13, OpNames, DoneFacts DEF ReadComplete
  <2> QED
    BY <1>g, <2>1, <2>2
<1>14. CASE ReadFailed
  <2> DEFINE x == Cleared(ctx, "read")
             o == Done("read")
  <2>1. x \in CtxType /\ x.tasks = ctx.tasks \ {"read"} /\ x.stat \in CREATED .. CLOSED
    BY <1>t, TypeFacts, ClearedFacts
  <2>2. o \in OpType /\ \A p \in Ops : p # "read" => o[p] = op[p]
    BY <1>t, OpNames, DoneFacts
  <2>w. wq' = wq
    BY <1>14 DEF ReadFailed, dataVars
  <2> HIDE DEF x, o
  <2>3. CASE ctx.connected
    <3> DEFINE v == IF x.stat < DISCONNECTED THEN DISCONNECTED ELSE x.stat
    <3>1. v \in CREATED .. CLOSED
      BY <2>1
    <3>2. ctx' = [x EXCEPT !.connected = FALSE, !.stat = v] /\ op' = o
      BY <1>14, <2>3 DEF ReadFailed, x, o
    <3> HIDE DEF v
    <3> DEFINE u == FALSE
    <3>4. x \in CtxType /\ ctx' = [x EXCEPT !.connected = u, !.stat = v]
      BY <2>1, <3>2
    <3> HIDE DEF u
    <3>3. ctx'.tasks = x.tasks
      BY <3>1, <3>4 DEF CtxType
    <3> QED
      BY <1>g, <2>1, <2>2, <2>w, <3>2, <3>3
  <2>4. CASE ~ctx.connected
    <3>1. Release(x, o)
      BY <1>14, <2>4 DEF ReadFailed, x, o
    <3>2. ctx'.tasks = x.tasks /\ \A p \in Ops : op'[p] = "none" <=> o[p] = "none"
      BY <2>1, <2>2, <3>1, ReleaseFacts
    <3> QED
      BY <1>g, <2>1, <2>2, <2>w, <3>2
  <2> QED
    BY <2>3, <2>4
<1>15. CASE WriteComplete
  <2> DEFINE x == Cleared(ctx, "write")
             o == Done("write")
  <2>1. x \in CtxType /\ x.tasks = ctx.tasks \ {"write"}
    BY <1>t, ClearedFacts
  <2>2. o \in OpType /\ \A p \in Ops : p # "write" => o[p] = op[p]
    BY <1>t, OpNames, DoneFacts
  <2> HIDE DEF x, o
  <2>3. (ctx' = x /\ op' = o) \/ HandleReqClose(x, o)
    BY <1>15 DEF WriteComplete, x, o
  <2>4. ctx'.tasks = x.tasks /\ \A p \in Ops : op'[p] = "none" <=> o[p] = "none"
    BY <1>e, <2>1, <2>2, <2>3, EndFacts
  <2> QED
    BY <1>g, <2>1, <2>2, <2>4
<1>16. CASE BoundTest
  <2>1. ctx' = ctx /\ wq' = wq /\ (op' = op \/ op' = Pending(op, "resolve"))
    BY <1>16 DEF BoundTest, StartConnect, dataVars
  <2>2. \A p \in Ops : op[p] # "none" => op'[p] # "none"
    BY <1>t, <2>1, OpNames, PendingOthers
  <2> QED
    BY <1>q, <2>1, <2>2
<1>17. CASE BoundSet
  <2>1. ctx'.tasks = ctx.tasks /\ op' = op /\ wq' = wq
    BY <1>t, <1>17, BoundStored DEF BoundSet, dataVars
  <2> QED
    BY <1>q, <2>1
<1>18. CASE ConnectedSet
  <2>1. ctx'.tasks = ctx.tasks /\ op' = op /\ wq' = wq
    BY <1>t, <1>18, ConnectedStored DEF ConnectedSet, dataVars
  <2> QED
    BY <1>q, <2>1
<1>19. ASSUME NEW thrown \in BOOLEAN, CreatedReturn(thrown) PROVE TasksAreReal'
  <2>1. ctx'.tasks = ctx.tasks /\ op' = op /\ wq' = wq
    BY <1>t, <1>19, OpenStored DEF CreatedReturn, dataVars
  <2> QED
    BY <1>q, <2>1
<1>20. ASSUME NEW thrown \in BOOLEAN, BoundReturn(thrown) PROVE TasksAreReal'
  <2>1. wq' = wq
    BY <1>20 DEF BoundReturn, dataVars
  <2>2. CASE ctx' = ctx /\ (op' = op \/ op' = Pending(op, "resolve"))
    <3>1. \A p \in Ops : op[p] # "none" => op'[p] # "none"
      BY <1>t, <2>2, OpNames, PendingOthers
    <3> QED
      BY <1>q, <2>1, <2>2, <3>1
  <2>3. CASE ctx' = Start(ctx, "read") /\ op' = Pending(op, "read")
    BY <1>r, <2>1, <2>3
  <2> QED
    BY <1>20, <2>2, <2>3 DEF BoundReturn, NothingMore
<1>21. ASSUME NEW thrown \in BOOLEAN, ConnectedReturn(thrown) PROVE TasksAreReal'
  <2>1. wq' = wq
    BY <1>21 DEF ConnectedReturn, dataVars
  <2>2. (ctx' = Start(ctx, "read") /\ op' = Pending(op, "read")) \/ Ended(ctx, op)
    BY <1>21, ReadOrCloseFacts DEF ConnectedReturn
  <2> QED
    BY <1>e, <1>q, <1>r, <2>1, <2>2
<1>22. ASSUME NEW thrown \in BOOLEAN, ReadReturn(thrown) PROVE TasksAreReal'
  <2>1. wq' = wq
    BY <1>22 DEF ReadReturn, dataVars
  <2>2. (ctx' = Start(ctx, "read") /\ op' = Pending(op, "read")) \/ Ended(ctx, op)
    BY <1>22, ReadOrCloseFacts DEF ReadReturn
  <2> QED
    BY <1>e, <1>q, <1>r, <2>1, <2>2
<1>23. ASSUME NEW thrown \in BOOLEAN, WrittenReturn(thrown) PROVE TasksAreReal'
  <2>1. CASE Sendable /\ wq # <<>>
    <3>1. ctx' = Start(ctx, "write") /\ op' = Pending(op, "write")
      BY <1>23, <2>1 DEF WrittenReturn, NothingMore
    <3>2. /\ ctx'.tasks = ctx.tasks \cup {"write"} /\ op'["write"] = "pending"
          /\ \A p \in Ops : p # "write" => op'[p] = op[p]
      BY <1>t, <3>1, OpNames, StartFacts, PendingOthers
    <3> QED
      BY <1>g, <3>2
  <2>2. CASE ~(Sendable /\ wq # <<>>)
    <3>1. Ended(ctx, op) /\ wq' = wq
      BY <1>t, <1>23, <2>2, EndFacts DEF WrittenReturn
    <3> QED
      BY <1>e, <1>q, <3>1
  <2> QED
    BY <2>1, <2>2
<1>24. ASSUME NEW thrown \in BOOLEAN, DisconnectedReturn(thrown) PROVE TasksAreReal'
  <2>1. ctx'.tasks = ctx.tasks /\ \A p \in Ops : op'[p] = "none" <=> op[p] = "none"
    BY <1>t, <1>24, ReleaseFacts DEF DisconnectedReturn
  <2>2. wq' = wq
    BY <1>24 DEF DisconnectedReturn, dataVars
  <2> QED
    BY <1>q, <2>1, <2>2
<1>25. ASSUME NEW thrown \in BOOLEAN, PlainReturn(thrown) PROVE TasksAreReal'
  <2>1. ctx' = ctx /\ op' = op /\ wq' = wq
    BY <1>25 DEF PlainReturn, NothingMore, dataVars
  <2> QED
    BY <1>q, <2>1
<1>26. ASSUME NEW thrown \in BOOLEAN, NEW serialized \in BOOLEAN, WriteReturn(thrown, serialized)
       PROVE  TasksAreReal'
  <2>1. CASE serialized /\ Sendable
    <3>1. ctx' = Start(ctx, "write") /\ wq' = Append(wq, cur)
          /\ (op' = op \/ op' = Pending(op, "write"))
      BY <1>26, <2>1 DEF WriteReturn, NothingMore
    <3>2. wq' # <<>>
      <4>1. wq' = Append(wq, cur) /\ cur \in Datagrams
        BY <3>1, TypeFacts
      <4> QED
        BY <1>t, <4>1
    <3>3. ctx'.tasks = ctx.tasks \cup {"write"} /\ \A p \in Ops : p # "write" => op'[p] = op[p]
      BY <1>t, <3>1, OpNames, StartFacts, PendingOthers
    <3> QED
      BY <1>g, <3>2, <3>3
  <2>2. CASE ~(serialized /\ Sendable)
    BY <1>q, <1>26, <2>2 DEF WriteReturn, NothingMore
  <2> QED
    BY <2>1, <2>2
<1>27. ASSUME NEW o \in Ops, NetComplete(o) PROVE TasksAreReal'
  <2>1. \A p \in Ops : op'[p] = "none" <=> op[p] = "none"
    BY <1>t, <1>27 DEF NetComplete, OpType
  <2> QED
    BY <1>q, <1>27, <2>1 DEF NetComplete, dataVars
<1>28. CASE UNCHANGED vars
  <2>1. ctx' = ctx /\ op' = op /\ wq' = wq
    BY <1>28 DEF vars
  <2> QED
    BY <1>q, <2>1
<1> QED
  BY <1>1, <1>2, <1>3, <1>4, <1>5, <1>6, <1>7, <1>8, <1>9, <1>10, <1>11, <1>12, <1>13,
     <1>14, <1>15, <1>16, <1>17, <1>18, <1>19, <1>20, <1>21, <1>22, <1>23, <1>24, <1>25,
     <1>26, <1>27, <1>28
  DEF Next, StrandServes, StrandGoesOn, RunPosted

\* A close that is posted stays posted until it runs.
LEMMA CloseStaysPosted ==
  ASSUME Types, [Next]_vars, ClosePosted, ~RunClose
  PROVE  ClosePosted'
<1>1. PICK i \in 1 .. Len(posted) : posted[i][1] = "close"
  BY DEF ClosePosted
<1>2. CASE \E N : Posts(0, N)
  BY <1>1, <1>2 DEF Posts, ClosePosted
<1>3. CASE RunPosted /\ posted # <<>> /\ Posts(1, {})
  <2>1. PICK name \in Lambdas \ {"close"} : Running(name)
    BY <1>3 DEF RunPosted, RunCreated, RunConnect, RunWrite, RunPlain, Lambdas
  <2>2. posted[1][1] # "close"
    BY <2>1, RunningFacts
  <2>3. i > 1
    BY <1>1, <2>2
  <2> QED
    BY <1>1, <1>3, <2>3, ZenonT(40) DEF Posts, ClosePosted
<1> QED
  BY <1>2, <1>3, PostingSteps DEF Posting

\* What fire_channel_close posts is posted.
LEMMA CloseGetsPosted ==
  ASSUME Types, posted' = Append(posted, Lambda("close"))
  PROVE  ClosePosted'
<1> DEFINE l == Lambda("close")
<1>1. posted \in Seq(LambdaType) /\ posted' = Append(posted, l) /\ l \in LambdaType /\ l[1] = "close"
  BY TypeFacts, LambdaIsTyped DEF Lambdas
<1> HIDE DEF l
<1>2. Len(posted) + 1 \in 1 .. Len(posted') /\ posted'[Len(posted) + 1] = l
  BY <1>1
<1> QED
  BY <1>1, <1>2 DEF ClosePosted

\* A connected channel that is busy has a read or a write outstanding, or queued datagrams.
LEMMA BusyIsHeld ==
  ASSUME Types, Core, TasksAreReal, NEW t \in ctx.tasks, phase = "connected"
  PROVE  \/ t = "read" /\ op["read"] # "none"
         \/ t = "write" /\ (op["write"] # "none" \/ wq # <<>>)
<1>1. op["connect"] = "none"
  BY DEF Core, SetupOnce, Connecting
<1>2. t \in {"connect", "read", "write"}
  BY TypeFacts
<1> QED
  BY <1>1, <1>2 DEF TasksAreReal

\* A step that leaves a channel waiting for what it was waiting for.
AnchorKept ==
  /\ phase' = phase /\ ctx'.stat = ctx.stat /\ ctx'.inMap = ctx.inMap
  /\ pc' = pc \/ pc \in {"idle", "write", "exception", "event"}
  /\ \A p \in {"read", "write"} : op[p] # "none" => op'[p] # "none"
  /\ "write" \in ctx.tasks => "write" \in ctx'.tasks
  /\ ClosePosted => ClosePosted'
  /\ \A c \in Closers : closer[c] = "post" => closer'[c] = "post" \/ ClosePosted'

\* Such a step keeps the channel anchored.
LEMMA AnchorStays ==
  ASSUME ConnectedHeld, LeavesMap, AnchorKept
  PROVE  ConnectedHeld' /\ LeavesMap'
<1>1. LeavesMap'
  BY DEF AnchorKept, LeavesMap
<1>2. op["read"] # "none" => op'["read"] # "none"
  BY DEF AnchorKept
<1>3. op["write"] # "none" => op'["write"] # "none"
  BY DEF AnchorKept
<1>4. pc = "read" => pc' = "read"
  BY DEF AnchorKept
<1>5. CloseIsHeld => CloseIsHeld'
  BY <1>2, <1>3, <1>4 DEF AnchorKept, CloseIsHeld
<1>6. ConnectedHeld'
  BY <1>2, <1>5 DEF AnchorKept, ConnectedHeld
<1> QED
  BY <1>1, <1>6

\* handle_req_close closes the channel, or leaves it to what is still outstanding.
LEMMA EndHeld ==
  ASSUME Types, Core, ConnectedHeld, LeavesMap, pc # "disconnected",
         NEW x \in CtxType, NEW o \in OpType, Ended(x, o),
         x.stat = ctx.stat, x.connected = ctx.connected, x.inMap = ctx.inMap,
         phase = "connected" /\ ctx.stat = CONNECTED => o["read"] # "none",
         phase = "connected" /\ x.tasks # {} =>
           o["read"] # "none" \/ o["write"] # "none" \/ "write" \in x.tasks
  PROVE  ConnectedHeld' /\ LeavesMap'
<1>m. phase = "disconnected" => ~ctx.inMap
  BY DEF LeavesMap
<1>1. CASE NothingMore(x, o) /\ ~(x.stat = REQ_CLOSE /\ x.tasks = {})
  <2>1. phase' = phase /\ ctx'.stat = ctx.stat /\ ctx'.inMap = ctx.inMap /\ op' = o /\ ctx' = x
    BY <1>1 DEF NothingMore
  <2>2. LeavesMap'
    BY <1>m, <2>1 DEF LeavesMap
  <2>3. phase = "connected" /\ ctx.stat = REQ_CLOSE => CloseIsHeld'
    BY <1>1, <2>1 DEF CloseIsHeld
  <2>4. ConnectedHeld'
    BY <2>1, <2>3 DEF ConnectedHeld
  <2> QED
    BY <2>2, <2>4
<1>2. CASE Closed(x, o)
  <2>1. CASE x.connected /\ pc' = "disconnected" /\ phase' = "disconnected"
    BY <2>1 DEF ConnectedHeld, LeavesMap
  <2>2. CASE ~x.connected /\ phase' = phase
    <3>1. phase' # "connected" /\ ctx'.inMap = ctx.inMap
      BY <1>2, <2>2 DEF Closed, Core, StatPhase
    <3> QED
      BY <1>m, <2>2, <3>1 DEF ConnectedHeld, LeavesMap
  <2> QED
    BY <1>2, <2>1, <2>2 DEF Closed
<1> QED
  BY <1>1, <1>2 DEF Ended

\* Every step leaves a connected channel waiting for something, and a disconnected one
\* on its way out of the map.
LEMMA AnchoredStep ==
  ASSUME Types, Core, TasksAreReal, Anchored, [Next]_vars
  PROVE  Anchored'
<1> DEFINE Goal == ConnectedHeld' /\ LeavesMap'
<1> SUFFICES ASSUME proc' = "running" PROVE Goal
  BY DEF Anchored
<1>t. /\ ctx \in CtxType /\ op \in OpType /\ wq \in Seq(Datagrams) /\ ctx.stat \in 0 .. 7
      /\ closer \in [Closers -> {"lookup", "test", "set", "post", "done"}]
  BY TypeFacts DEF Types, TypeOK
<1>u. ConnectedHeld /\ LeavesMap
  BY StillRunning DEF Anchored
<1>c. ClosePosted => ClosePosted' \/ RunClose
  BY CloseStaysPosted
<1>k. AnchorKept => Goal
  BY <1>u, AnchorStays
<1>n. phase' \notin {"connected", "disconnected"} => Goal
  BY DEF ConnectedHeld, LeavesMap
<1>d. phase' = "disconnected" /\ (ctx'.inMap => pc' = "disconnected") => Goal
  BY DEF ConnectedHeld, LeavesMap
<1>v. phase' = "connected" /\ ctx'.stat = CONNECTED /\ pc' = "connected" => Goal
  BY DEF ConnectedHeld, LeavesMap
<1>p. /\ pc \in {"created", "opened", "binding", "bound", "connecting"} => phase \in {"created", "bound"}
      /\ op["resolve"] # "none" \/ op["connect"] # "none" => phase \in {"created", "bound"}
      /\ op["read"] # "none" => phase \in {"bound", "connected"}
      /\ pc = "disconnected" => phase = "disconnected"
      /\ ctx.connected <=> phase = "connected"
  BY DEF Core, SetupOnce, Connecting, ReadPhase, StatPhase
<1>r. ASSUME ctx' = Start(ctx, "read"), op' = Pending(op, "read"), phase' = phase, pc # "disconnected",
             ctx.stat # REQ_CLOSE
      PROVE  Goal
  <2>1. op'["read"] = "pending" /\ ctx'.stat = ctx.stat /\ ctx'.inMap = ctx.inMap
    BY <1>t, <1>r, OpNames, StartFacts, PendingFacts
  <2> QED
    BY <1>u, <1>r, <2>1 DEF ConnectedHeld, LeavesMap
<1>e. ASSUME pc # "disconnected", Ended(ctx, op), wq' = wq,
             phase = "connected" /\ ctx.stat = CONNECTED => op["read"] # "none"
      PROVE  Goal
  <2>1. phase = "connected" /\ ctx.tasks # {} =>
          op["read"] # "none" \/ op["write"] # "none" \/ "write" \in ctx.tasks
    <3> SUFFICES ASSUME phase = "connected", NEW s \in ctx.tasks
                 PROVE  op["read"] # "none" \/ op["write"] # "none" \/ "write" \in ctx.tasks
      OBVIOUS
    <3> QED
      BY <1>e, BusyIsHeld
  <2> QED
    BY <1>t, <1>u, <1>e, <2>1, EndHeld
<1> HIDE DEF Goal
<1>f. ASSUME RunClose PROVE Goal
  <2>1. pc = "idle" /\ wq' = wq
    BY <1>f DEF RunClose, Running, StrandFree, dataVars
  <2>2. CASE ctx.stat = REQ_CLOSE /\ ctx.tasks # {}
    <3>1. op' = AbortOps(op) /\ ctx' = ctx /\ pc' = pc /\ phase' = phase
      BY <1>f, <2>2 DEF RunClose
    <3>2. \A p \in Ops : op'[p] = "none" <=> op[p] = "none"
      BY <1>t, <3>1, AbortOpsFacts
    <3>3. ASSUME phase = "connected" PROVE CloseIsHeld'
      <4>1. PICK s \in ctx.tasks : TRUE
        BY <2>2
      <4>2. op["read"] # "none" \/ op["write"] # "none" \/ "write" \in ctx'.tasks
        BY <3>1, <3>3, <4>1, BusyIsHeld
      <4> QED
        BY <2>1, <3>2, <4>2, OpNames DEF CloseIsHeld
    <3> QED
      BY <1>u, <2>2, <3>1, <3>3 DEF Goal, ConnectedHeld, LeavesMap
  <2>3. CASE ~(ctx.stat = REQ_CLOSE /\ ctx.tasks # {})
    <3>1. Ended(ctx, op)
      BY <1>t, <1>f, <2>3, EndFacts DEF RunClose
    <3>2. phase = "connected" /\ ctx.stat = CONNECTED => op["read"] # "none"
      BY <1>u, <2>1 DEF ConnectedHeld
    <3> QED
      BY <1>e, <2>1, <3>1, <3>2
  <2> QED
    BY <2>2, <2>3
<1>h. ASSUME ~RunClose PROVE Goal
  <2>1. ASSUME NEW a \in BOOLEAN, WriteChannel(a) PROVE Goal
    <3>1. phase' = phase /\ ctx'.stat = ctx.stat /\ ctx'.inMap = ctx.inMap
      BY <1>t, <2>1 DEF WriteChannel
    <3>2. \A p \in {"read", "write"} : op[p] # "none" => op'[p] # "none"
      BY <1>t, <2>1 DEF WriteChannel
    <3>3. ("write" \in ctx.tasks => "write" \in ctx'.tasks) /\ closer' = closer
      BY <2>1 DEF WriteChannel, dataVars, restVars
    <3>4. pc' = pc \/ pc \in {"idle", "write", "exception", "event"}
      BY <2>1 DEF WriteChannel, Running, StrandFree
    <3> QED
      BY <1>c, <1>k, <1>h, <3>1, <3>2, <3>3, <3>4 DEF AnchorKept
  <2>2. CASE FireUserEvent
    <3>1. phase' = phase /\ ctx'.stat = ctx.stat /\ ctx'.inMap = ctx.inMap
      BY <1>t, <2>2 DEF FireUserEvent
    <3>2. \A p \in {"read", "write"} : op[p] # "none" => op'[p] # "none"
      BY <1>t, <2>2 DEF FireUserEvent
    <3>3. ("write" \in ctx.tasks => "write" \in ctx'.tasks) /\ closer' = closer
      BY <2>2 DEF FireUserEvent, dataVars, restVars
    <3>4. pc' = pc \/ pc \in {"idle", "write", "exception", "event"}
      BY <2>2 DEF FireUserEvent, Running, StrandFree
    <3> QED
      BY <1>c, <1>k, <1>h, <3>1, <3>2, <3>3, <3>4 DEF AnchorKept
  <2>3. CASE CallbackClose
    <3>1. ClosePosted'
      BY <2>3, CloseGetsPosted DEF CallbackClose
    <3>2. ctx'.stat = REQ_CLOSE /\ ctx'.inMap = ctx.inMap /\ phase' = phase /\ pc' = pc
      BY <1>t, <2>3, CloseStored DEF CallbackClose
    <3> QED
      BY <1>u, <3>1, <3>2 DEF Goal, ConnectedHeld, LeavesMap, CloseIsHeld
  <2>4. CASE StopService
    BY <2>4 DEF StopService
  <2>5. ASSUME NEW c \in Closers, Close(c) PROVE Goal
    <3>1. phase' = phase /\ pc' = pc /\ op' = op /\ wq' = wq
      BY <2>5 DEF Close, dataVars
    <3>2. CASE /\ closer[c] \in {"lookup", "test"} /\ ctx' = ctx
               /\ \E p \in {"test", "set", "done"} : closer' = [closer EXCEPT ![c] = p]
      <4>1. \A b \in Closers : closer[b] = "post" => closer'[b] = "post"
        BY <1>t, <3>2
      <4> QED
        BY <1>c, <1>k, <1>h, <3>1, <3>2, <4>1 DEF AnchorKept
    <3>3. CASE CloserSet(c)
      <4>1. closer'[c] = "post"
        BY <1>t, <3>3 DEF CloserSet, Moves
      <4>2. ctx'.stat = REQ_CLOSE /\ ctx'.inMap = ctx.inMap
        BY <1>t, <3>3, CloseStored DEF CloserSet
      <4> QED
        BY <1>u, <3>1, <4>1, <4>2 DEF Goal, ConnectedHeld, LeavesMap, CloseIsHeld
    <3>4. CASE posted' = Append(posted, Lambda("close")) /\ ctx' = ctx
      <4>1. ClosePosted'
        BY <3>4, CloseGetsPosted
      <4> QED
        BY <1>k, <3>1, <3>4, <4>1 DEF AnchorKept
    <3> QED
      BY <2>5, <3>2, <3>3, <3>4 DEF Close, Moves
  <2>6. CASE RunCreated
    BY <1>n, <2>6 DEF RunCreated
  <2>7. CASE RunConnect
    <3>1. phase' = phase /\ ctx'.stat = ctx.stat /\ ctx'.inMap = ctx.inMap /\ ctx'.tasks = ctx.tasks
      BY <1>t, <2>7, SocketReopened DEF RunConnect
    <3>2. \A p \in Ops : op[p] # "none" => op'[p] # "none"
      BY <1>t, <2>7, OpNames, PendingOthers DEF RunConnect
    <3>3. wq' = wq /\ closer' = closer /\ pc' = pc
      BY <2>7 DEF RunConnect, dataVars, restVars
    <3> QED
      BY <1>c, <1>k, <1>h, <3>1, <3>2, <3>3, OpNames DEF AnchorKept
  <2>8. CASE RunWrite
    <3>1. phase' = phase /\ ctx'.stat = ctx.stat /\ ctx'.inMap = ctx.inMap
      BY <1>t, <2>8 DEF RunWrite
    <3>2. \A p \in {"read", "write"} : op[p] # "none" => op'[p] # "none"
      BY <1>t, <2>8 DEF RunWrite
    <3>3. ("write" \in ctx.tasks => "write" \in ctx'.tasks) /\ closer' = closer
      BY <2>8 DEF RunWrite, dataVars, restVars
    <3>4. pc' = pc \/ pc \in {"idle", "write", "exception", "event"}
      BY <2>8 DEF RunWrite, Running, StrandFree
    <3> QED
      BY <1>c, <1>k, <1>h, <3>1, <3>2, <3>3, <3>4 DEF AnchorKept
  <2>9. CASE RunClose
    BY <1>h, <2>9
  <2>10. ASSUME NEW name \in {"exception", "event"}, RunPlain(name) PROVE Goal
    <3>1. phase' = phase /\ ctx'.stat = ctx.stat /\ ctx'.inMap = ctx.inMap
      BY <1>t, <2>10 DEF RunPlain
    <3>2. \A p \in {"read", "write"} : op[p] # "none" => op'[p] # "none"
      BY <1>t, <2>10 DEF RunPlain
    <3>3. ("write" \in ctx.tasks => "write" \in ctx'.tasks) /\ closer' = closer
      BY <2>10 DEF RunPlain, dataVars, restVars
    <3>4. pc' = pc \/ pc \in {"idle", "write", "exception", "event"}
      BY <2>10 DEF RunPlain, Running, StrandFree
    <3> QED
      BY <1>c, <1>k, <1>h, <3>1, <3>2, <3>3, <3>4 DEF AnchorKept
  <2>11. CASE ResolveComplete
    BY <1>n, <1>p, <2>11 DEF ResolveComplete, Completing, Completed, NothingMore
  <2>12. CASE ConnectComplete
    BY <1>n, <1>p, <2>12 DEF ConnectComplete, Completing, Completed
  <2>13. CASE ReadComplete
    <3>1. op["read"] # "none" /\ pc' = "read" /\ phase' = phase
      BY <2>13 DEF ReadComplete, Completing, Completed
    <3>2. ctx'.stat = ctx.stat
      BY <1>t, <2>13, ClearedFacts DEF ReadComplete
    <3> QED
      BY <1>u, <1>p, <3>1, <3>2 DEF Goal, ConnectedHeld, LeavesMap, CloseIsHeld
  <2>14. CASE ReadFailed
    <3>1. CASE ctx.connected
      BY <1>d, <2>14, <3>1 DEF ReadFailed
    <3>2. CASE ~ctx.connected
      <4> DEFINE x == Cleared(ctx, "read")
                 o == Done("read")
      <4>1. x \in CtxType /\ o \in OpType
        BY <1>t, OpNames, ClearedFacts, DoneFacts
      <4>2. Release(x, o)
        BY <2>14, <3>2 DEF ReadFailed
      <4> HIDE DEF x, o
      <4>3. ctx'.inMap = FALSE /\ phase' = phase
        BY <4>1, <4>2, ReleaseFacts
      <4> QED
        BY <1>p, <3>2, <4>3 DEF Goal, ConnectedHeld, LeavesMap
    <3> QED
      BY <3>1, <3>2
  <2>15. CASE WriteComplete
    <3>1. pc = "idle"
      BY <2>15 DEF WriteComplete, Completing, StrandFree
    <3>r. phase = "connected" /\ ctx.stat = CONNECTED => op["read"] # "none"
      BY <1>u, <3>1 DEF ConnectedHeld
    <3> DEFINE x == Cleared(ctx, "write")
               o == Done("write")
    <3>x. /\ x \in CtxType /\ x.tasks = ctx.tasks \ {"write"} /\ x.stat = ctx.stat
          /\ x.connected = ctx.connected /\ x.inMap = ctx.inMap
      BY <1>t, ClearedFacts
    <3>o. o \in OpType /\ o["read"] = op["read"]
      BY <1>t, OpNames, DoneFacts
    <3> HIDE DEF x, o
    <3>2. CASE op["write"] = "ok" /\ Sendable
      <4>1. ctx' = x /\ op' = o /\ phase' = phase
        BY <2>15, <3>2 DEF WriteComplete, x, o
      <4> QED
        BY <1>u, <3>1, <3>r, <3>x, <3>o, <3>2, <4>1 DEF Goal, ConnectedHeld, LeavesMap, Sendable
    <3>3. CASE ~(op["write"] = "ok" /\ Sendable)
      <4>1. Ended(x, o)
        BY <2>15, <3>3, <3>x, <3>o, EndFacts DEF WriteComplete, x, o
      <4>2. phase = "connected" /\ x.tasks # {} => o["read"] # "none"
        <5> SUFFICES ASSUME phase = "connected", NEW s \in x.tasks PROVE o["read"] # "none"
          OBVIOUS
        <5>1. s \in ctx.tasks /\ s # "write"
          BY <3>x
        <5> QED
          BY <3>o, <5>1, BusyIsHeld
      <4> QED
        BY <1>u, <3>1, <3>r, <3>x, <3>o, <4>1, <4>2, EndHeld DEF Goal
    <3> QED
      BY <3>2, <3>3
  <2>16. CASE BoundTest
    BY <1>n, <1>p, <2>16 DEF BoundTest, At
  <2>17. CASE BoundSet
    BY <1>n, <2>17 DEF BoundSet
  <2>18. CASE ConnectedSet
    <3>1. ctx'.stat = CONNECTED
      BY <1>t, <2>18, ConnectedStored DEF ConnectedSet
    <3> QED
      BY <1>v, <2>18, <3>1 DEF ConnectedSet
  <2>19. ASSUME NEW thrown \in BOOLEAN, CreatedReturn(thrown) PROVE Goal
    BY <1>n, <1>p, <2>19 DEF CreatedReturn, At
  <2>20. ASSUME NEW thrown \in BOOLEAN, BoundReturn(thrown) PROVE Goal
    BY <1>n, <1>p, <2>20 DEF BoundReturn, At, NothingMore
  <2>21. ASSUME NEW thrown \in BOOLEAN, ConnectedReturn(thrown) PROVE Goal
    <3>1. wq' = wq /\ pc \in {"connected", "read"} /\ ReadOrClose({CONNECTED})
      BY <2>21 DEF ConnectedReturn, At, dataVars
    <3>2. CASE ctx.stat \in {CONNECTED}
      <4>1. ctx' = Start(ctx, "read") /\ op' = Pending(op, "read") /\ phase' = phase
        BY <3>1, <3>2, ReadOrCloseFacts
      <4> QED
        BY <1>r, <3>1, <3>2, <4>1
    <3>3. CASE ctx.stat \notin {CONNECTED}
      <4>1. Ended(ctx, op)
        BY <3>1, <3>3, ReadOrCloseFacts
      <4> QED
        BY <1>e, <3>1, <3>3, <4>1
    <3> QED
      BY <3>2, <3>3
  <2>22. ASSUME NEW thrown \in BOOLEAN, ReadReturn(thrown) PROVE Goal
    <3>1. wq' = wq /\ pc \in {"connected", "read"} /\ ReadOrClose({BOUND, CONNECTED})
      BY <2>22 DEF ReadReturn, At, dataVars
    <3>2. CASE ctx.stat \in {BOUND, CONNECTED}
      <4>1. ctx' = Start(ctx, "read") /\ op' = Pending(op, "read") /\ phase' = phase
        BY <3>1, <3>2, ReadOrCloseFacts
      <4> QED
        BY <1>r, <3>1, <3>2, <4>1
    <3>3. CASE ctx.stat \notin {BOUND, CONNECTED}
      <4>1. Ended(ctx, op)
        BY <3>1, <3>3, ReadOrCloseFacts
      <4> QED
        BY <1>e, <3>1, <3>3, <4>1
    <3> QED
      BY <3>2, <3>3
  <2>23. ASSUME NEW thrown \in BOOLEAN, WrittenReturn(thrown) PROVE Goal
    <3>1. pc = "written" /\ wq' = wq
      BY <2>23 DEF WrittenReturn, At
    <3>r. phase = "connected" /\ ctx.stat = CONNECTED => op["read"] # "none"
      BY <1>u, <3>1 DEF ConnectedHeld
    <3>2. CASE Sendable /\ wq # <<>>
      <4>1. ctx' = Start(ctx, "write") /\ op' = Pending(op, "write") /\ phase' = phase
        BY <2>23, <3>2 DEF WrittenReturn, NothingMore
      <4>2. ctx'.stat = ctx.stat /\ ctx'.inMap = ctx.inMap /\ op'["read"] = op["read"]
        BY <1>t, <4>1, OpNames, StartFacts, PendingOthers
      <4> QED
        BY <1>u, <3>1, <3>r, <3>2, <4>1, <4>2 DEF Goal, ConnectedHeld, LeavesMap, Sendable
    <3>3. CASE ~(Sendable /\ wq # <<>>)
      <4>1. Ended(ctx, op)
        BY <1>t, <2>23, <3>3, EndFacts DEF WrittenReturn
      <4> QED
        BY <1>e, <3>1, <3>r, <4>1
    <3> QED
      BY <3>2, <3>3
  <2>24. ASSUME NEW thrown \in BOOLEAN, DisconnectedReturn(thrown) PROVE Goal
    <3>1. ctx'.inMap = FALSE /\ phase' = phase /\ pc = "disconnected"
      BY <1>t, <2>24, ReleaseFacts DEF DisconnectedReturn, At
    <3> QED
      BY <1>d, <1>p, <3>1
  <2>25. ASSUME NEW thrown \in BOOLEAN, PlainReturn(thrown) PROVE Goal
    <3>1. phase' = phase /\ ctx'.stat = ctx.stat /\ ctx'.inMap = ctx.inMap
      BY <1>t, <2>25 DEF PlainReturn, NothingMore
    <3>2. \A p \in {"read", "write"} : op[p] # "none" => op'[p] # "none"
      BY <1>t, <2>25 DEF PlainReturn, NothingMore
    <3>3. ("write" \in ctx.tasks => "write" \in ctx'.tasks) /\ closer' = closer
      BY <2>25 DEF PlainReturn, NothingMore, dataVars, restVars
    <3>4. pc' = pc \/ pc \in {"idle", "write", "exception", "event"}
      BY <2>25 DEF PlainReturn, NothingMore, Running, StrandFree
    <3> QED
      BY <1>c, <1>k, <1>h, <3>1, <3>2, <3>3, <3>4 DEF AnchorKept
  <2>26. ASSUME NEW thrown \in BOOLEAN, NEW serialized \in BOOLEAN, WriteReturn(thrown, serialized)
         PROVE  Goal
    <3>1. pc = "write" /\ phase' = phase /\ closer' = closer
      BY <2>26 DEF WriteReturn, At, NothingMore, restVars
    <3>2. CASE serialized /\ Sendable
      <4>1. /\ ctx' = Start(ctx, "write") /\ wq' = Append(wq, cur)
            /\ op' = op \/ op' = Pending(op, "write")
        BY <2>26, <3>2 DEF WriteReturn, NothingMore
      <4>2. \A p \in Ops : op[p] # "none" => op'[p] # "none"
        BY <1>t, <4>1, OpNames, PendingOthers
      <4>3. "write" \in ctx'.tasks
        BY <1>t, <4>1, OpNames, StartFacts
      <4>4. ctx'.stat = ctx.stat /\ ctx'.inMap = ctx.inMap
        BY <1>t, <4>1, OpNames, StartFacts
      <4> QED
        BY <1>c, <1>k, <1>h, <3>1, <4>2, <4>3, <4>4, OpNames DEF AnchorKept
    <3>3. CASE ~(serialized /\ Sendable)
      <4>1. ctx' = ctx /\ op' = op /\ wq' = wq
        BY <2>26, <3>3 DEF WriteReturn, NothingMore
      <4> QED
        BY <1>c, <1>k, <1>h, <3>1, <4>1 DEF AnchorKept
    <3> QED
      BY <3>2, <3>3
  <2>27. ASSUME NEW o \in Ops, NetComplete(o) PROVE Goal
    <3>1. \A p \in Ops : op[p] # "none" => op'[p] # "none"
      BY <1>t, <2>27 DEF NetComplete, OpType
    <3>2. ctx' = ctx /\ phase' = phase /\ wq' = wq /\ closer' = closer /\ pc' = pc
      BY <2>27 DEF NetComplete, dataVars, restVars
    <3> QED
      BY <1>c, <1>k, <1>h, <3>1, <3>2, OpNames DEF AnchorKept
  <2>28. CASE UNCHANGED vars
    <3>1. phase' = phase /\ ctx'.stat = ctx.stat /\ ctx'.inMap = ctx.inMap
      BY <1>t, <2>28 DEF vars
    <3>2. \A p \in {"read", "write"} : op[p] # "none" => op'[p] # "none"
      BY <1>t, <2>28 DEF vars
    <3>3. ("write" \in ctx.tasks => "write" \in ctx'.tasks) /\ closer' = closer
      BY <2>28 DEF vars, dataVars, restVars
    <3>4. pc' = pc \/ pc \in {"idle", "write", "exception", "event"}
      BY <2>28 DEF vars, Running, StrandFree
    <3> QED
      BY <1>c, <1>k, <1>h, <3>1, <3>2, <3>3, <3>4 DEF AnchorKept
  <2> QED
    BY <2>1, <2>2, <2>3, <2>4, <2>5, <2>6, <2>7, <2>8, <2>9, <2>10, <2>11, <2>12, <2>13,
       <2>14, <2>15, <2>16, <2>17, <2>18, <2>19, <2>20, <2>21, <2>22, <2>23, <2>24, <2>25,
       <2>26, <2>27, <2>28
    DEF Next, StrandServes, StrandGoesOn, RunPosted
<1> QED
  BY <1>f, <1>h

\* When nothing of a UDP channel that was connected is left to run, the channel is out of
\* the map, unless a failed send left datagrams queued.
THEOREM NoChannelIsForgotten == Spec => []NoForgottenChannel
<1>1. Init => TasksAreReal /\ Anchored
  BY DEF Init, TasksAreReal, Anchored, ConnectedHeld, LeavesMap
<1>2. IInv /\ (TasksAreReal /\ Anchored) /\ [Next]_vars => (TasksAreReal /\ Anchored)'
  BY RealStep, AnchoredStep DEF IInv
<1>3. IInv /\ Anchored => NoForgottenChannel
  <2> SUFFICES ASSUME IInv, Anchored, Quiescent, ctx.inMap, phase \in {"connected", "disconnected"}
               PROVE  Orphaned
    BY DEF NoForgottenChannel
  <2>1. /\ proc = "running" /\ pc = "idle" /\ posted = <<>>
        /\ \A o \in Ops : op[o] = "none"
        /\ \A c \in Closers : closer[c] = "done"
    BY DEF Quiescent, StrandFree
  <2>2. ConnectedHeld /\ LeavesMap
    BY <2>1 DEF Anchored
  <2>3. phase = "connected"
    BY <2>1, <2>2 DEF LeavesMap
  <2>4. op["read"] = "none" /\ op["write"] = "none"
    BY <2>1, OpNames
  <2>5. CloseIsHeld
    BY <2>1, <2>2, <2>3, <2>4 DEF ConnectedHeld
  <2>6. ~ClosePosted
    BY <2>1 DEF ClosePosted
  <2>7. "write" \in ctx.tasks
    BY <2>1, <2>4, <2>5, <2>6 DEF CloseIsHeld
  <2> QED
    BY <2>4, <2>7 DEF Orphaned
<1> QED
  BY <1>1, <1>2, <1>3, Invariance, PTL DEF Spec
=============================================================================
