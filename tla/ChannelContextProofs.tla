------------------------- MODULE ChannelContextProofs -------------------------
(***************************************************************************)
(* Proofs about ChannelContext, for every set of kinds, every set of       *)
(* closers and every bound.                                                *)
(*                                                                         *)
(* The invariants that the runs check are not inductive by themselves.     *)
(* IInv adds what ties stat to the phase that the handlers see, and that   *)
(* the steps which set a channel up (the created callback, the connect     *)
(* lambda, resolve, connect and handshake) are never outstanding together. *)
(***************************************************************************)
EXTENDS ChannelContext, TLAPS

Live == {"connected", "disconnected"}

\* stat against the phase of the channel; OPEN, STARTED and BOUND are not states
\* of a TCP channel.
StatPhase ==
  /\ connected <=> phase = "connected"
  /\ stat \notin {OPEN, STARTED, BOUND}
  /\ stat = CREATED => phase \in {"new", "created"}
  /\ stat = CONNECTED => phase = "connected"
  /\ stat \in {REQ_CLOSE, DISCONNECTED} => phase \in Live
  /\ \A c \in Closers : closer[c] = "set" => phase \in Live

\* What is outstanding in which phase.
OpsPhase ==
  /\ op["read"] # "none" => phase = "connected"
  /\ shut > 0 => phase \in Live /\ stat >= REQ_CLOSE
  /\ pc = "disconnected" => phase = "disconnected"
  /\ pc = "created" => phase = "created"
  /\ \A o \in {"resolve", "connect", "handshake"} : op[o] # "none" => phase = "created"

IsConnect(i) == posted[i][1] = "do_connect"
ConnectPosted == \E i \in 1 .. Len(posted) : IsConnect(i)

\* The steps that set the channel up exclude each other.
SetupOnce ==
  /\ \A i \in 1 .. Len(posted) : posted[i][1] = "created" => i = 1 /\ phase = "new"
  /\ \A i, j \in 1 .. Len(posted) : IsConnect(i) /\ IsConnect(j) => i = j
  /\ ConnectPosted => /\ phase = "created" /\ pc # "created" /\ ~Server
                      /\ "connect" \in tasks
  /\ \A o \in {"resolve", "connect", "handshake"} :
       op[o] # "none" => /\ pc # "created" /\ ~ConnectPosted
                         /\ o # "handshake" => ~Server
                         /\ \A q \in {"resolve", "connect", "handshake"} \ {o} : op[q] = "none"

\* Where the channel can be found and its socket is open.
Reachable ==
  proc = "running" =>
    /\ connected => inMap /\ socket = "open"
    /\ Server /\ phase \in {"new", "created"} => inMap /\ socket = "open"
    /\ op["handshake"] # "none" => inMap /\ socket = "open"
    /\ op["connect"] # "none" => socket = "open"

\* write_complete pops a queue that is not empty.
QueueHead == op["write"] # "none" => wq # <<>>

IInv ==
  /\ TypeOK /\ QueueHead
  /\ TasksCoverOps /\ NoneBesidesShutdown
  /\ StatPhase /\ OpsPhase /\ SetupOnce /\ Reachable

USE DEF CREATED, OPEN, STARTED, BOUND, CONNECTED, REQ_CLOSE, DISCONNECTED, CLOSED

-------------------------------------------------------------------------------
(* What the pieces of the handlers do to the types.                         *)

OpType == [Ops -> OpStates]
LambdaType == Lambdas \X Nat

\* the part of TypeOK that the pieces of the handlers change
HandlerTypeOK ==
  /\ stat \in Stats /\ connected \in BOOLEAN
  /\ phase \in {"new", "created", "connected", "disconnected"}
  /\ socket \in {"none", "open", "closed"} /\ op \in OpType
  /\ shut \in Nat /\ issued \in Nat
  /\ pc \in {"idle"} \cup Callbacks

\* Aborting operations leaves alone which of them are outstanding.
LEMMA AbortOpsFacts ==
  ASSUME NEW o \in OpType
  PROVE  /\ AbortOps(o) \in OpType
         /\ \A p \in Ops : AbortOps(o)[p] = "none" <=> o[p] = "none"
BY DEF AbortOps, OpType, Ops, OpStates, Completed

\* Recording the new state of one operation keeps the type of op.
LEMMA OpUpdate ==
  ASSUME NEW o \in OpType, NEW p \in Ops, NEW r \in OpStates
  PROVE  [o EXCEPT ![p] = r] \in OpType
BY DEF OpType

\* fire_exception_caught posts a lambda.
LEMMA ReportType ==
  ASSUME NEW q \in Seq(LambdaType), NEW b \in BOOLEAN
  PROVE  Report(b, q) \in Seq(LambdaType)
BY DEF Report, Lambda, LambdaType, Lambdas

\* A callback that throws uses up one of MaxThrows.
LEMMA ThrowsType ==
  ASSUME TypeOK, NEW thrown \in BOOLEAN, Throws(thrown)
  PROVE  count' \in [{"write", "event", "throw"} -> Nat]
BY DEF Throws, TypeOK

\* shutdown_complete up to its callback keeps the types.
LEMMA ShutdownHandlerType ==
  ASSUME TypeOK, NEW o \in OpType, ShutdownHandler(o), shut' \in Nat, issued' \in Nat
  PROVE  HandlerTypeOK'
<1>1. op' \in OpType
  BY AbortOpsFacts DEF ShutdownHandler, CloseSocket
<1>2. connected' \in BOOLEAN
  BY DEF ShutdownHandler, EnterDisconnected, TypeOK
<1>3. stat' \in Stats /\ socket' \in {"none", "open", "closed"}
  BY DEF ShutdownHandler, CloseSocket, Stats
<1>4. /\ phase' \in {"new", "created", "connected", "disconnected"}
      /\ pc' \in {"idle"} \cup Callbacks
  BY DEF ShutdownHandler, EnterDisconnected, TypeOK, Callbacks
<1> QED
  BY <1>1, <1>2, <1>3, <1>4 DEF HandlerTypeOK

\* close_gracefully keeps the types.
LEMMA CloseGracefullyType ==
  ASSUME TypeOK, NEW o \in OpType, CloseGracefully(o)
  PROVE  HandlerTypeOK'
<1>1. CASE ~Ssl
  BY <1>1, ShutdownHandlerType DEF CloseGracefully, TypeOK
<1>2. CASE Ssl
  BY <1>2 DEF CloseGracefully, TypeOK, HandlerTypeOK, Stats
<1> QED
  BY <1>1, <1>2

\* A handler that ends without closing keeps the types.
LEMMA NothingMoreType ==
  ASSUME TypeOK, NEW o \in OpType, NothingMore(o)
  PROVE  HandlerTypeOK'
BY DEF NothingMore, TypeOK, HandlerTypeOK, OpType

\* handle_req_close keeps the types.
LEMMA HandleReqCloseType ==
  ASSUME TypeOK, NEW t, NEW o \in OpType, HandleReqClose(t, o)
  PROVE  HandlerTypeOK'
BY CloseGracefullyType, NothingMoreType DEF HandleReqClose

\* The end of call_channel_disconnected keeps the types.
LEMMA ReleaseChannelType ==
  ASSUME TypeOK, NEW o \in OpType, ReleaseChannel(o)
  PROVE  /\ stat' \in Stats /\ socket' \in {"none", "open", "closed"}
         /\ op' \in OpType /\ issued' \in Nat
<1>1. op' \in OpType
  BY AbortOpsFacts DEF ReleaseChannel, CloseImmediately, CloseSocket
<1> QED
  BY <1>1 DEF ReleaseChannel, CloseImmediately, CloseSocket, TypeOK, Stats

\* call_channel_connected keeps the types.
LEMMA CallChannelConnectedType ==
  ASSUME TypeOK, CallChannelConnected
  PROVE  /\ stat' \in Stats /\ connected' \in BOOLEAN
         /\ phase' \in {"new", "created", "connected", "disconnected"}
         /\ pc' \in {"idle"} \cup Callbacks
<1>1. CASE stat < CONNECTED
  BY <1>1 DEF CallChannelConnected, Stats, Callbacks
<1>2. CASE ~(stat < CONNECTED)
  BY <1>2 DEF CallChannelConnected, lifeVars, TypeOK
<1> QED
  BY <1>1, <1>2

\* A channel starts in a state that satisfies IInv.
LEMMA InitIInv == Init => IInv
<1> SUFFICES ASSUME Init PROVE IInv
  OBVIOUS
<1>1. posted \in Seq(Lambdas \X Nat) /\ Len(posted) = 1 /\ posted[1][1] = "created"
  BY DEF Init, Lambda, Lambdas
<1>2. kind \in AllKinds /\ inMap \in BOOLEAN /\ socket \in {"none", "open", "closed"}
  BY KindsAssumption DEF Init, Server
<1>b. connected \in BOOLEAN
  BY DEF Init
<1>s. /\ stat \in Stats /\ tasks \in SUBSET Tasks /\ op \in [Ops -> OpStates]
      /\ shut \in Nat /\ issued \in Nat /\ wq \in Seq(Nat) /\ sent \in Nat /\ cur \in Nat
      /\ count \in [{"write", "event", "throw"} -> Nat]
      /\ closer \in [Closers -> {"lookup", "test", "set", "post", "done"}]
  BY DEF Init, Ops, OpStates, Stats, Tasks
<1>3. TypeOK
  BY <1>1, <1>2, <1>b, <1>s DEF Init, TypeOK
<1>4. QueueHead /\ TasksCoverOps /\ NoneBesidesShutdown
  BY DEF Init, QueueHead, TasksCoverOps, NoneBesidesShutdown, Tasks, Ops
<1>5. StatPhase /\ OpsPhase
  BY DEF Init, StatPhase, OpsPhase, Ops
<1>6. SetupOnce
  BY <1>1 DEF Init, SetupOnce, IsConnect, ConnectPosted, Ops
<1>7. Reachable
  BY DEF Init, Reachable, Ops, Server
<1> QED
  BY <1>3, <1>4, <1>5, <1>6, <1>7 DEF IInv

\* Every step keeps the types.
LEMMA TypeStep == IInv /\ [Next]_vars => TypeOK'
<1> SUFFICES ASSUME IInv, [Next]_vars PROVE TypeOK'
  OBVIOUS
<1> USE DEF wqVars, sockVars, lifeVars
<1>t. TypeOK /\ op \in OpType /\ posted \in Seq(LambdaType)
  BY DEF IInv, TypeOK, OpType, LambdaType
<1>1. CASE WriteChannel
  BY <1>t, <1>1 DEF WriteChannel, TypeOK, Lambdas
<1>2. CASE FireUserEvent
  BY <1>t, <1>2 DEF FireUserEvent, TypeOK, Lambda, Lambdas
<1>3. CASE CallbackClose
  BY <1>t, <1>3 DEF CallbackClose, TypeOK, Lambda, Lambdas, Stats
<1>4. CASE StopService
  <2>1. op' \in OpType
    BY <1>t, <1>4, AbortOpsFacts DEF StopService, CloseImmediately, CloseSocket
  <2>2. stat' \in Stats /\ socket' \in {"none", "open", "closed"}
    BY <1>t, <1>4 DEF StopService, CloseImmediately, CloseSocket, TypeOK, Stats
  <2>3. issued' \in Nat
    BY <1>t, <1>4 DEF StopService, CloseImmediately, TypeOK
  <2>4. inMap' \in BOOLEAN
    BY <1>4 DEF StopService
  <2> QED
    BY <1>t, <1>4, <2>1, <2>2, <2>3, <2>4 DEF StopService, TypeOK, OpType
<1>5. ASSUME NEW c \in Closers, CloserLookup(c) PROVE TypeOK'
  BY <1>t, <1>5 DEF CloserLookup, TypeOK, Lambda, Lambdas, Stats
<1>6. ASSUME NEW c \in Closers, CloserTest(c) PROVE TypeOK'
  BY <1>t, <1>6 DEF CloserTest, TypeOK, Lambda, Lambdas, Stats
<1>7. ASSUME NEW c \in Closers, CloserSet(c) PROVE TypeOK'
  BY <1>t, <1>7 DEF CloserSet, TypeOK, Lambda, Lambdas, Stats
<1>8. ASSUME NEW c \in Closers, CloserPost(c) PROVE TypeOK'
  BY <1>t, <1>8 DEF CloserPost, TypeOK, Lambda, Lambdas, Stats
<1>9. CASE RunCreated
  BY <1>t, <1>9 DEF RunCreated, Running, TypeOK, Callbacks
<1>10. CASE RunDoConnect
  <2>1. op' \in OpType
    BY <1>t, <1>10, OpUpdate DEF RunDoConnect, Ops, OpStates
  <2> QED
    BY <1>t, <1>10, <2>1 DEF RunDoConnect, Running, TypeOK, OpType
<1>11. CASE RunWrite
  <2>1. Head(posted) \in LambdaType
    BY <1>t, <1>11 DEF RunWrite, Running
  <2> QED
    BY <1>t, <1>11, <2>1 DEF RunWrite, Running, TypeOK, Callbacks, LambdaType
<1>12. CASE RunClose
  <2>1. HandlerTypeOK'
    <3>1. CASE ~CloseWanted
      BY <1>t, <1>12, <3>1, NothingMoreType DEF RunClose, CancelWanted
    <3>2. CASE CloseWanted /\ ~Busy(tasks)
      BY <1>t, <1>12, <3>2, CloseGracefullyType DEF RunClose, CancelWanted
    <3>3. CASE CancelWanted
      BY <1>t, <1>12, <3>3, AbortOpsFacts DEF RunClose, CancelWanted, TypeOK, HandlerTypeOK
    <3> QED
      BY <3>1, <3>2, <3>3 DEF CancelWanted
  <2>2. proc' \in {"running", "stopped", "terminated"}
    BY <1>t, <1>12 DEF RunClose, TypeOK
  <2> QED
    BY <1>t, <1>12, <2>1, <2>2 DEF RunClose, Running, TypeOK, HandlerTypeOK, OpType
<1>13. ASSUME NEW name \in {"exception", "event"}, RunPlain(name) PROVE TypeOK'
  BY <1>t, <1>13 DEF RunPlain, Running, TypeOK, Callbacks
<1>14. ASSUME NEW thrown \in BOOLEAN, CreatedReturn(thrown) PROVE TypeOK'
  <2>1. count' \in [{"write", "event", "throw"} -> Nat]
    BY <1>t, <1>14, ThrowsType DEF CreatedReturn
  <2>2. posted' \in Seq(LambdaType)
    <3>1. Report(thrown, posted) \in Seq(LambdaType)
      BY <1>t, ReportType
    <3>2. Lambda("do_connect") \in LambdaType
      BY DEF Lambda, LambdaType, Lambdas
    <3> QED
      BY <1>14, <3>1, <3>2 DEF CreatedReturn
  <2>3. op' \in OpType
    BY <1>t, <1>14, OpUpdate DEF CreatedReturn, Ops, OpStates
  <2>4. tasks' \in SUBSET Tasks
    BY <1>t, <1>14 DEF CreatedReturn, TypeOK, Tasks
  <2>5. /\ stat' \in Stats /\ connected' \in BOOLEAN
        /\ phase' \in {"new", "created", "connected", "disconnected"}
        /\ pc' \in {"idle"} \cup Callbacks
    <3>1. CASE CallChannelConnected
      BY <1>t, <3>1, CallChannelConnectedType
    <3>2. CASE pc' = "idle" /\ UNCHANGED lifeVars
      BY <1>t, <3>2 DEF TypeOK
    <3> QED
      BY <1>14, <3>1, <3>2 DEF CreatedReturn
  <2> QED
    BY <1>t, <1>14, <2>1, <2>2, <2>3, <2>4, <2>5 DEF CreatedReturn, TypeOK, OpType, LambdaType
<1>15. ASSUME NEW thrown \in BOOLEAN, ConnectedReturn(thrown) PROVE TypeOK'
  <2>1. count' \in [{"write", "event", "throw"} -> Nat]
    BY <1>t, <1>15, ThrowsType DEF ConnectedReturn
  <2>2. posted' \in Seq(LambdaType)
    BY <1>t, <1>15, ReportType DEF ConnectedReturn
  <2>3. HandlerTypeOK'
    <3>1. [op EXCEPT !["read"] = "pending"] \in OpType
      BY <1>t, OpUpdate DEF Ops, OpStates
    <3> QED
      BY <1>t, <1>15, <3>1, NothingMoreType, HandleReqCloseType DEF ConnectedReturn
  <2>4. tasks' \in SUBSET Tasks
    BY <1>t, <1>15 DEF ConnectedReturn, TypeOK, Tasks
  <2>5. sent' \in Nat
    BY <1>t, <1>15 DEF ConnectedReturn, TypeOK
  <2> QED
    BY <1>t, <1>15, <2>1, <2>2, <2>3, <2>4, <2>5
    DEF ConnectedReturn, TypeOK, HandlerTypeOK, OpType, LambdaType
<1>16. ASSUME NEW thrown \in BOOLEAN, ReadBufEmpty(thrown) PROVE TypeOK'
  <2>1. count' \in [{"write", "event", "throw"} -> Nat]
    BY <1>t, <1>16, ThrowsType DEF ReadBufEmpty
  <2>2. posted' \in Seq(LambdaType)
    BY <1>t, <1>16, ReportType DEF ReadBufEmpty
  <2> QED
    BY <1>t, <1>16, <2>1, <2>2 DEF ReadBufEmpty, TypeOK, Callbacks, LambdaType
<1>17. ASSUME NEW thrown \in BOOLEAN, ReadReturn(thrown) PROVE TypeOK'
  <2>1. count' \in [{"write", "event", "throw"} -> Nat]
    BY <1>t, <1>17, ThrowsType DEF ReadReturn
  <2>2. posted' \in Seq(LambdaType)
    BY <1>t, <1>17, ReportType DEF ReadReturn
  <2>3. HandlerTypeOK'
    <3>1. [op EXCEPT !["read"] = "pending"] \in OpType
      BY <1>t, OpUpdate DEF Ops, OpStates
    <3> QED
      BY <1>t, <1>17, <3>1, NothingMoreType, HandleReqCloseType DEF ReadReturn
  <2>4. tasks' \in SUBSET Tasks
    BY <1>t, <1>17 DEF ReadReturn, TypeOK, Tasks
  <2>5. sent' \in Nat
    BY <1>t, <1>17 DEF ReadReturn, TypeOK
  <2> QED
    BY <1>t, <1>17, <2>1, <2>2, <2>3, <2>4, <2>5
    DEF ReadReturn, TypeOK, HandlerTypeOK, OpType, LambdaType
<1>18. ASSUME NEW thrown \in BOOLEAN, WrittenReturn(thrown) PROVE TypeOK'
  <2>1. count' \in [{"write", "event", "throw"} -> Nat]
    BY <1>t, <1>18, ThrowsType DEF WrittenReturn
  <2>2. posted' \in Seq(LambdaType)
    BY <1>t, <1>18, ReportType DEF WrittenReturn
  <2>3. HandlerTypeOK'
    <3>1. [op EXCEPT !["write"] = "pending"] \in OpType
      BY <1>t, OpUpdate DEF Ops, OpStates
    <3> QED
      BY <1>t, <1>18, <3>1, NothingMoreType, HandleReqCloseType DEF WrittenReturn
  <2>4. tasks' \in SUBSET Tasks
    BY <1>t, <1>18 DEF WrittenReturn, TypeOK, Tasks
  <2>5. sent' \in Nat
    BY <1>t, <1>18 DEF WrittenReturn, TypeOK
  <2> QED
    BY <1>t, <1>18, <2>1, <2>2, <2>3, <2>4, <2>5
    DEF WrittenReturn, TypeOK, HandlerTypeOK, OpType, LambdaType
<1>19. ASSUME NEW thrown \in BOOLEAN, DisconnectedReturn(thrown) PROVE TypeOK'
  <2>1. count' \in [{"write", "event", "throw"} -> Nat]
    BY <1>t, <1>19, ThrowsType DEF DisconnectedReturn
  <2>2. posted' \in Seq(LambdaType)
    BY <1>t, <1>19, ReportType DEF DisconnectedReturn
  <2>3. /\ stat' \in Stats /\ socket' \in {"none", "open", "closed"}
        /\ op' \in OpType /\ issued' \in Nat
    BY <1>t, <1>19, ReleaseChannelType DEF DisconnectedReturn
  <2> QED
    BY <1>t, <1>19, <2>1, <2>2, <2>3
    DEF DisconnectedReturn, ReleaseChannel, TypeOK, OpType, LambdaType
<1>20. ASSUME NEW thrown \in BOOLEAN, PlainReturn(thrown) PROVE TypeOK'
  <2>1. count' \in [{"write", "event", "throw"} -> Nat]
    BY <1>t, <1>20, ThrowsType DEF PlainReturn
  <2>2. posted' \in Seq(LambdaType)
    BY <1>t, <1>20, ReportType DEF PlainReturn
  <2> QED
    BY <1>t, <1>20, <2>1, <2>2 DEF PlainReturn, TypeOK, LambdaType
<1>21. ASSUME NEW thrown \in BOOLEAN, NEW serialized \in BOOLEAN, WriteReturn(thrown, serialized) PROVE TypeOK'
  <2>1. count' \in [{"write", "event", "throw"} -> Nat]
    BY <1>t, <1>21, ThrowsType DEF WriteReturn
  <2>2. posted' \in Seq(LambdaType)
    <3>1. Report(thrown, posted) \in Seq(LambdaType)
      BY <1>t, ReportType
    <3>2. Report(TRUE, Report(thrown, posted)) \in Seq(LambdaType)
      BY <3>1, ReportType
    <3> QED
      BY <1>21, <3>1, <3>2 DEF WriteReturn
  <2>3. op' \in OpType
    BY <1>t, <1>21, OpUpdate DEF WriteReturn, Ops, OpStates
  <2>4. tasks' \in SUBSET Tasks
    BY <1>t, <1>21 DEF WriteReturn, TypeOK, Tasks
  <2>5. wq' \in Seq(Nat)
    <3>1. wq' = Append(wq, cur) \/ wq' = wq
      BY <1>21, Zenon DEF WriteReturn
    <3>2. wq \in Seq(Nat) /\ cur \in Nat
      BY <1>t DEF TypeOK
    <3> QED
      BY <3>1, <3>2
  <2>6. sent' \in Nat
    BY <1>t, <1>21 DEF WriteReturn, TypeOK
  <2> QED
    BY <1>t, <1>21, <2>1, <2>2, <2>3, <2>4, <2>5, <2>6 DEF WriteReturn, TypeOK, OpType, LambdaType
<1>22. CASE ReadAgain
  <2>1. count' \in [{"write", "event", "throw"} -> Nat]
    BY <1>t, <1>22, ThrowsType DEF ReadAgain
  <2>2. posted' \in Seq(LambdaType)
    BY <1>t, <1>22, ReportType DEF ReadAgain
  <2> QED
    BY <1>t, <1>22, <2>1, <2>2 DEF ReadAgain, TypeOK, LambdaType
<1>23. ASSUME NEW o \in Ops, NetComplete(o) PROVE TypeOK'
  <2>1. PICK r \in Outcomes(o) : op' = [op EXCEPT ![o] = r]
    BY <1>23 DEF NetComplete
  <2>2. r \in OpStates
    BY DEF Outcomes, OpStates, Completed
  <2>3. op' \in OpType
    BY <1>t, <2>1, <2>2, OpUpdate
  <2> QED
    BY <1>t, <1>23, <2>3 DEF NetComplete, TypeOK, OpType
<1>24. CASE ResolveComplete
  <2>1. op' \in OpType
    BY <1>t, <1>24 DEF ResolveComplete, OpType, Ops, OpStates
  <2>2. posted' \in Seq(LambdaType)
    BY <1>t, <1>24, ReportType DEF ResolveComplete
  <2> QED
    BY <1>t, <1>24, <2>1, <2>2 DEF ResolveComplete, TypeOK, OpType, LambdaType, Cleared, Tasks
<1>25. CASE ConnectComplete
  <2>l. /\ stat' \in Stats /\ connected' \in BOOLEAN
        /\ phase' \in {"new", "created", "connected", "disconnected"}
        /\ pc' \in {"idle"} \cup Callbacks
    <3>1. CASE CallChannelConnected
      BY <1>t, <3>1, CallChannelConnectedType
    <3>2. CASE UNCHANGED <<lifeVars, pc>>
      BY <1>t, <3>2 DEF TypeOK
    <3> QED
      BY <1>25, <3>1, <3>2 DEF ConnectComplete
  <2>1. op' \in OpType
    BY <1>t, <1>25 DEF ConnectComplete, OpType, Ops, OpStates
  <2> QED
    BY <2>l, <1>t, <1>25, <2>1 DEF ConnectComplete, TypeOK, OpType, LambdaType, Cleared, Tasks
<1>26. CASE ConnectFailed
  <2>1. op' \in OpType
    BY <1>t, <1>26 DEF ConnectFailed, OpType, Ops, OpStates
  <2>2. posted' \in Seq(LambdaType)
    BY <1>t, <1>26, ReportType DEF ConnectFailed
  <2> QED
    BY <1>t, <1>26, <2>1, <2>2 DEF ConnectFailed, TypeOK, OpType, LambdaType, Cleared, Tasks
<1>27. CASE ConnectNotInserted
  <2>1. op' \in OpType
    <3>1. [op EXCEPT !["connect"] = "none"] \in OpType
      BY <1>t, OpUpdate DEF Ops, OpStates
    <3> QED
      BY <3>1, <1>27, AbortOpsFacts DEF ConnectNotInserted, CloseImmediately, CloseSocket
  <2>2. posted' \in Seq(LambdaType)
    BY <1>t, <1>27, ReportType DEF ConnectNotInserted
  <2>3. issued' \in Nat /\ socket' = "closed" /\ stat' \in Stats /\ tasks' \in SUBSET Tasks
    BY <1>t, <1>27 DEF ConnectNotInserted, CloseImmediately, CloseSocket, TypeOK, Stats, Cleared
  <2> QED
    BY <1>t, <1>27, <2>1, <2>2, <2>3 DEF ConnectNotInserted, TypeOK,
       OpType, LambdaType, Cleared, Stats, Tasks
<1>28. CASE HandshakeComplete
  <2>l. /\ stat' \in Stats /\ connected' \in BOOLEAN
        /\ phase' \in {"new", "created", "connected", "disconnected"}
        /\ pc' \in {"idle"} \cup Callbacks
    <3>1. CASE CallChannelConnected
      BY <1>t, <3>1, CallChannelConnectedType
    <3>2. CASE UNCHANGED <<lifeVars, pc>>
      BY <1>t, <3>2 DEF TypeOK
    <3> QED
      BY <1>28, <3>1, <3>2 DEF HandshakeComplete
  <2>1. op' \in OpType
    BY <1>t, <1>28 DEF HandshakeComplete, OpType, Ops, OpStates
  <2>2. posted' \in Seq(LambdaType)
    BY <1>t, <1>28, ReportType DEF HandshakeComplete
  <2> QED
    BY <2>l, <1>t, <1>28, <2>1, <2>2
    DEF HandshakeComplete, TypeOK, OpType, LambdaType, Cleared, Tasks
<1>29. CASE ReadComplete
  <2>1. op' \in OpType
    BY <1>t, <1>29 DEF ReadComplete, OpType, Ops, OpStates
  <2> QED
    BY <1>t, <1>29, <2>1 DEF ReadComplete, TypeOK, OpType, LambdaType, Cleared, Tasks, Callbacks
<1>30. CASE ReadFailed
  <2>1. [op EXCEPT !["read"] = "none"] \in OpType
    BY <1>t, OpUpdate DEF Ops, OpStates
  <2>2. /\ stat' \in Stats /\ socket' \in {"none", "open", "closed"}
        /\ op' \in OpType /\ issued' \in Nat
    <3>1. CASE connected
      <4>1. stat' \in Stats
        BY <1>t, <1>30, <3>1 DEF ReadFailed, TypeOK, Stats
      <4> QED
        BY <1>t, <1>30, <2>1, <3>1, <4>1 DEF ReadFailed, TypeOK
    <3>2. CASE ~connected
      BY <1>t, <1>30, <2>1, <3>2, ReleaseChannelType DEF ReadFailed
    <3> QED
      BY <3>1, <3>2
  <2>3. posted' \in Seq(LambdaType)
    BY <1>t, <1>30, ReportType DEF ReadFailed
  <2> QED
    BY <1>t, <1>30, <2>2, <2>3 DEF ReadFailed, EnterDisconnected, ReleaseChannel, TypeOK,
       OpType, LambdaType, Cleared, Callbacks, Tasks
<1>31. CASE WriteComplete
  <2>1. [op EXCEPT !["write"] = "none"] \in OpType
    BY <1>t, OpUpdate DEF Ops, OpStates
  <2>2. HandlerTypeOK'
    <3>1. CASE op["write"] = "ok" /\ MayCallWritten
      BY <1>t, <1>31, <2>1, <3>1 DEF WriteComplete, TypeOK, HandlerTypeOK, Callbacks
    <3>2. CASE ~(op["write"] = "ok" /\ MayCallWritten)
      BY <1>t, <1>31, <2>1, <3>2, HandleReqCloseType DEF WriteComplete
    <3> QED
      BY <3>1, <3>2
  <2>3. posted' \in Seq(LambdaType)
    BY <1>t, <1>31, ReportType DEF WriteComplete
  <2>4. wq' \in Seq(Nat) /\ sent' \in Nat
    <3>1. wq # <<>>
      BY <1>31 DEF IInv, QueueHead, WriteComplete, Completing, Completed
    <3> QED
      BY <1>t, <1>31, <3>1 DEF WriteComplete, RemoveSentData, TypeOK
  <2> QED
    BY <1>t, <1>31, <2>2, <2>3, <2>4 DEF WriteComplete, TypeOK, HandlerTypeOK, OpType,
       LambdaType, Cleared, Tasks
<1>32. CASE ShutdownComplete
  <2>1. HandlerTypeOK'
    BY <1>t, <1>32, ShutdownHandlerType DEF ShutdownComplete, TypeOK
  <2> QED
    BY <1>t, <1>32, <2>1 DEF ShutdownComplete, TypeOK, HandlerTypeOK, OpType
<1>33. CASE UNCHANGED vars
  BY <1>t, <1>33 DEF vars, TypeOK
<1> QED
  BY <1>1, <1>2, <1>3, <1>4, <1>5, <1>6, <1>7, <1>8, <1>9, <1>10, <1>11, <1>12, <1>13, <1>14,
      <1>15, <1>16, <1>17, <1>18, <1>19, <1>20, <1>21, <1>22, <1>23, <1>24, <1>25, <1>26, <1>27, <1>28, <1>29, <1>30, <1>31, <1>32, <1>33
  DEF Next, RunPosted, CallbackReturn, ConnectDone, ReadDone, Close

-------------------------------------------------------------------------------
(* What the pieces of the handlers do.                                      *)

\* The channel is closed, or is being shut down; o says what was outstanding.
ClosedBy(o) ==
  /\ stat' = CLOSED
  /\ \A p \in Ops : op'[p] = "none" <=> o[p] = "none"
  /\ shut' = shut \/ shut' = shut + 1
  /\ \/ /\ pc' = "idle" /\ UNCHANGED <<connected, phase>>
        /\ connected = FALSE \/ UNCHANGED socket
     \/ /\ connected = TRUE /\ connected' = FALSE
        /\ phase' = "disconnected" /\ pc' = "disconnected"

\* shutdown_complete closes, and calls channel_disconnected if that is due.
LEMMA ShutdownHandlerFacts ==
  ASSUME TypeOK, NEW o \in OpType, ShutdownHandler(o), UNCHANGED shut
  PROVE  ClosedBy(o)
<1>1. \A p \in Ops : op'[p] = "none" <=> o[p] = "none"
  BY AbortOpsFacts DEF ShutdownHandler, CloseSocket
<1>2. CASE connected
  BY <1>1, <1>2 DEF ShutdownHandler, EnterDisconnected, ClosedBy, TypeOK
<1>3. CASE ~connected
  BY <1>1, <1>3 DEF ShutdownHandler, ClosedBy, TypeOK
<1> QED
  BY <1>2, <1>3

\* close_gracefully closes at once, or starts the shutdown of the SSL stream.
LEMMA CloseGracefullyFacts ==
  ASSUME TypeOK, NEW o \in OpType, CloseGracefully(o)
  PROVE  ClosedBy(o)
<1>1. CASE ~Ssl
  BY <1>1, ShutdownHandlerFacts DEF CloseGracefully
<1>2. CASE Ssl
  BY <1>2 DEF CloseGracefully, ClosedBy
<1> QED
  BY <1>1, <1>2

\* A handler that ends in handle_req_close closes the channel only when a close
\* was asked for and nothing is outstanding.
LEMMA HandleReqCloseFacts ==
  ASSUME TypeOK, NEW t, NEW o \in OpType, HandleReqClose(t, o)
  PROVE  NothingMore(o) \/ (stat = REQ_CLOSE /\ t = {} /\ ClosedBy(o))
BY CloseGracefullyFacts DEF HandleReqClose, CloseWanted, Busy

\* What the lambda of fire_channel_close does: nothing, close, or cancel.
LEMMA RunCloseFacts ==
  ASSUME TypeOK, RunClose
  PROVE  \/ NothingMore(op) /\ UNCHANGED proc
         \/ stat = REQ_CLOSE /\ tasks = {} /\ ClosedBy(op) /\ UNCHANGED proc
         \/ /\ \A p \in Ops : op'[p] = "none" <=> op[p] = "none"
            /\ UNCHANGED <<stat, connected, phase, socket, shut, issued, pc>>
            /\ proc' = proc \/ proc' = "terminated"
<1>1. op \in OpType
  BY DEF TypeOK, OpType
<1>2. CASE ~CloseWanted
  BY <1>2 DEF RunClose, CancelWanted
<1>3. CASE CloseWanted /\ ~Busy(tasks)
  BY <1>1, <1>3, CloseGracefullyFacts DEF RunClose, CancelWanted, CloseWanted, Busy
<1>4. CASE CancelWanted
  BY <1>1, <1>4, AbortOpsFacts DEF RunClose, CancelWanted, lifeVars
<1> QED
  BY <1>2, <1>3, <1>4 DEF CancelWanted

\* stat and the phase still agree after the pieces that end a handler.
LEMMA NothingMorePhase ==
  ASSUME StatPhase, NEW o, NothingMore(o), UNCHANGED closer
  PROVE  StatPhase'
BY DEF StatPhase, NothingMore

\* Closing a channel in REQ_CLOSE keeps stat and the phase in agreement.
LEMMA ClosedByPhase ==
  ASSUME TypeOK, StatPhase, stat = REQ_CLOSE, NEW o, ClosedBy(o), UNCHANGED closer
  PROVE  StatPhase'
<1>1. connected \in BOOLEAN /\ phase \in Live
  BY DEF TypeOK, StatPhase
<1>2. stat' = CLOSED /\ closer' = closer
  BY DEF ClosedBy
<1>3. CASE UNCHANGED <<connected, phase>>
  BY <1>1, <1>2, <1>3 DEF StatPhase
<1>4. CASE connected' = FALSE /\ phase' = "disconnected"
  BY <1>1, <1>2, <1>4 DEF StatPhase, Live
<1> QED
  BY <1>3, <1>4 DEF ClosedBy

\* Closing a channel on which nothing is outstanding keeps OpsPhase.
LEMMA ClosedByOps ==
  ASSUME TypeOK, StatPhase, OpsPhase, stat = REQ_CLOSE,
         NEW o \in OpType, \A p \in Tasks : o[p] = "none", o["resolve"] = op["resolve"],
         ClosedBy(o)
  PROVE  OpsPhase'
<1>1. phase \in Live
  BY DEF StatPhase
<1>2. \A p \in Ops : op'[p] = "none"
  BY <1>1 DEF ClosedBy, OpsPhase, Ops, Tasks, Live
<1>3. stat' = CLOSED /\ phase' \in Live
  BY <1>1 DEF ClosedBy, Live
<1>4. pc' = "idle" \/ (pc' = "disconnected" /\ phase' = "disconnected")
  BY DEF ClosedBy
<1> QED
  BY <1>2, <1>3, <1>4 DEF OpsPhase, Ops

\* Running the first lambda of the strand's queue.
LEMMA RunningFacts ==
  ASSUME TypeOK, NEW name, Running(name)
  PROVE  /\ proc = "running" /\ pc = "idle"
         /\ 1 \in 1 .. Len(posted) /\ posted[1][1] = name
         /\ \A i \in 1 .. Len(posted') : i + 1 \in 1 .. Len(posted) /\ posted'[i] = posted[i + 1]
<1>1. posted \in Seq(LambdaType) /\ posted # <<>> /\ posted' = Tail(posted)
  BY DEF Running, TypeOK, LambdaType
<1>2. proc = "running" /\ pc = "idle" /\ Head(posted)[1] = name
  BY DEF Running, StrandFree
<1> QED
  BY <1>1, <1>2

\* No lambda that sets the channel up is added to the queue.
NoSetupPosted ==
  \A i \in 1 .. Len(posted') :
    posted'[i][1] \in {"created", "do_connect"} => i \in 1 .. Len(posted) /\ posted'[i] = posted[i]

\* fire_exception_caught only appends to the queue of the strand.
LEMMA ReportFacts ==
  ASSUME NEW q \in Seq(LambdaType), NEW b \in BOOLEAN
  PROVE  \A i \in 1 .. Len(Report(b, q)) :
           Report(b, q)[i][1] = "exception" \/ (i \in 1 .. Len(q) /\ Report(b, q)[i] = q[i])
<1>1. CASE b = TRUE
  <2>1. Lambda("exception") \in LambdaType /\ Lambda("exception")[1] = "exception"
    BY DEF Lambda, LambdaType, Lambdas
  <2>2. Report(b, q) = Append(q, Lambda("exception"))
    BY <1>1 DEF Report
  <2> QED
    BY <2>1, <2>2
<1>2. CASE b = FALSE
  BY <1>2 DEF Report
<1> QED
  BY <1>1, <1>2

\* An exception lambda is not a step of the set-up.
LEMMA ReportIsNoSetup ==
  ASSUME TypeOK, NEW b \in BOOLEAN, posted' = Report(b, posted)
  PROVE  NoSetupPosted
<1>1. posted \in Seq(LambdaType)
  BY DEF TypeOK, LambdaType
<1>2. \A i \in 1 .. Len(posted') :
        posted'[i][1] = "exception" \/ (i \in 1 .. Len(posted) /\ posted'[i] = posted[i])
  BY <1>1, ReportFacts
<1> QED
  BY <1>2 DEF NoSetupPosted

\* Nor are the lambdas of write, close and user events.
LEMMA AppendIsNoSetup ==
  ASSUME TypeOK, NEW l \in LambdaType, l[1] \notin {"created", "do_connect"},
         posted' = Append(posted, l)
  PROVE  NoSetupPosted
BY DEF NoSetupPosted, TypeOK, LambdaType

SetupOps == {"resolve", "connect", "handshake"}

\* Steps that post no set-up lambda and start no set-up operation keep SetupOnce.
LEMMA SetupKept ==
  ASSUME SetupOnce, NoSetupPosted, UNCHANGED kind,
         phase' = phase \/ (phase # "new" /\ ~ConnectPosted),
         pc' = pc \/ pc' # "created",
         ConnectPosted => ("connect" \in tasks => "connect" \in tasks'),
         \A o \in SetupOps : op'[o] # "none" => op[o] # "none"
  PROVE  SetupOnce'
<1>1. \A i \in 1 .. Len(posted') : posted'[i][1] = "created" => i = 1 /\ phase' = "new"
  BY DEF SetupOnce, NoSetupPosted
<1>2. \A i, j \in 1 .. Len(posted') : IsConnect(i)' /\ IsConnect(j)' => i = j
  BY DEF SetupOnce, NoSetupPosted, IsConnect
<1>3. ConnectPosted' => ConnectPosted
  BY DEF NoSetupPosted, ConnectPosted, IsConnect
<1>4. ConnectPosted' => /\ phase' = "created" /\ pc' # "created" /\ ~Server'
                        /\ "connect" \in tasks'
  BY <1>3 DEF SetupOnce, Server
<1>5. \A o \in SetupOps : op'[o] # "none" =>
         /\ pc' # "created" /\ ~ConnectPosted'
         /\ o # "handshake" => ~Server'
         /\ \A q \in SetupOps \ {o} : op'[q] = "none"
  BY <1>3 DEF SetupOnce, Server, SetupOps
<1> QED
  BY <1>1, <1>2, <1>4, <1>5 DEF SetupOnce, SetupOps

\* A lambda other than the first one of the channel leaves the queue.
LEMMA SetupRun ==
  ASSUME TypeOK, SetupOnce, NEW name, Running(name), name # "do_connect",
         UNCHANGED <<kind, tasks>>,
         phase' = phase \/ (phase # "new" /\ ~ConnectPosted),
         pc' # "created",
         \A o \in SetupOps : op'[o] # "none" => op[o] # "none"
  PROVE  SetupOnce'
<1>r. \A i \in 1 .. Len(posted') : i + 1 \in 1 .. Len(posted) /\ posted'[i] = posted[i + 1]
  BY RunningFacts
<1>1. \A i \in 1 .. Len(posted') : posted'[i][1] # "created"
  BY <1>r DEF SetupOnce
<1>2. \A i, j \in 1 .. Len(posted') : IsConnect(i)' /\ IsConnect(j)' => i = j
  BY <1>r DEF SetupOnce, IsConnect
<1>3. ConnectPosted' => ConnectPosted
  BY <1>r DEF ConnectPosted, IsConnect
<1>4. ConnectPosted' => /\ phase' = "created" /\ pc' # "created" /\ ~Server'
                        /\ "connect" \in tasks'
  BY <1>3 DEF SetupOnce, Server
<1>5. \A o \in SetupOps : op'[o] # "none" =>
         /\ pc' # "created" /\ ~ConnectPosted'
         /\ o # "handshake" => ~Server'
         /\ \A q \in SetupOps \ {o} : op'[q] = "none"
  BY <1>3 DEF SetupOnce, Server, SetupOps
<1> QED
  BY <1>1, <1>2, <1>4, <1>5 DEF SetupOnce, SetupOps

\* Of a channel that is not connected any more nothing is required.
LEMMA ReachableGone ==
  ASSUME phase' \in Live, connected' = FALSE, \A o \in SetupOps : op'[o] = "none"
  PROVE  Reachable'
BY DEF Reachable, Live, SetupOps

\* A step that changes neither the map nor the socket keeps Reachable.
LEMMA ReachableKept ==
  ASSUME Reachable, UNCHANGED <<kind, connected, phase, socket, inMap>>,
         proc' = "running" => proc = "running",
         \A o \in SetupOps : op'[o] # "none" => op[o] # "none"
  PROVE  Reachable'
BY DEF Reachable, Server, SetupOps

\* Closing a channel in REQ_CLOSE keeps Reachable.
LEMMA ReachableClosedBy ==
  ASSUME TypeOK, Reachable, StatPhase, OpsPhase, stat = REQ_CLOSE,
         NEW o \in OpType, \A p \in SetupOps : o[p] = op[p], ClosedBy(o),
         UNCHANGED <<kind, inMap, proc>>
  PROVE  Reachable'
<1>1. phase \in Live /\ \A p \in SetupOps : op'[p] = "none"
  BY DEF StatPhase, OpsPhase, ClosedBy, SetupOps, Ops, Live
<1>2. CASE connected = TRUE /\ UNCHANGED <<connected, phase, socket>>
  BY <1>1, <1>2 DEF Reachable, Server, SetupOps
<1>3. CASE connected' = FALSE /\ phase' \in Live
  BY <1>1, <1>3, ReachableGone
<1>4. connected \in BOOLEAN
  BY DEF TypeOK
<1> QED
  BY <1>1, <1>2, <1>3, <1>4 DEF ClosedBy, Live

\* write_complete finds a buffer to pop.
LEMMA QueueStep == IInv /\ [Next]_vars => QueueHead'
<1> SUFFICES ASSUME IInv, [Next]_vars PROVE QueueHead'
  OBVIOUS
<1> USE DEF wqVars, sockVars, lifeVars
<1>t. TypeOK /\ op \in OpType /\ QueueHead
  BY DEF IInv, TypeOK, OpType
<1>1. CASE WriteChannel
  BY <1>t, <1>1 DEF WriteChannel, QueueHead, OpType, Ops
<1>2. CASE FireUserEvent
  BY <1>t, <1>2 DEF FireUserEvent, Lambda, QueueHead, OpType, Ops
<1>3. CASE CallbackClose
  BY <1>t, <1>3
  DEF CallbackClose, Closable, Lambda, QueueHead, OpType, Ops
<1>4. CASE StopService
  BY <1>t, <1>4, AbortOpsFacts
  DEF StopService, CloseImmediately, CloseSocket, QueueHead, OpType, Ops
<1>5. ASSUME NEW c \in Closers, CloserLookup(c) PROVE QueueHead'
  BY <1>t, <1>5 DEF CloserLookup, QueueHead, OpType, Ops
<1>6. ASSUME NEW c \in Closers, CloserTest(c) PROVE QueueHead'
  BY <1>t, <1>6 DEF CloserTest, Closable, QueueHead, OpType, Ops
<1>7. ASSUME NEW c \in Closers, CloserSet(c) PROVE QueueHead'
  BY <1>t, <1>7 DEF CloserSet, QueueHead, OpType, Ops
<1>8. ASSUME NEW c \in Closers, CloserPost(c) PROVE QueueHead'
  BY <1>t, <1>8 DEF CloserPost, Lambda, QueueHead, OpType, Ops
<1>9. CASE RunCreated
  BY <1>t, <1>9
  DEF RunCreated, Running, StrandFree, QueueHead, OpType, Ops
<1>10. CASE RunDoConnect
  BY <1>t, <1>10
  DEF RunDoConnect, Running, StrandFree, QueueHead, OpType, Ops
<1>11. CASE RunWrite
  BY <1>t, <1>11
  DEF RunWrite, Running, StrandFree, QueueHead, OpType, Ops
<1>12. CASE RunClose
  BY <1>t, <1>12, RunCloseFacts DEF RunClose, NothingMore, ClosedBy, QueueHead, OpType, Ops
<1>13. ASSUME NEW name \in {"exception", "event"}, RunPlain(name) PROVE QueueHead'
  BY <1>t, <1>13
  DEF RunPlain, Running, StrandFree, QueueHead, OpType, Ops
<1>14. ASSUME NEW thrown \in BOOLEAN, CreatedReturn(thrown) PROVE QueueHead'
  BY <1>t, <1>14
  DEF CreatedReturn, CallChannelConnected, QueueHead, OpType, Ops
<1>15. ASSUME NEW thrown \in BOOLEAN, ConnectedReturn(thrown) PROVE QueueHead'
  BY <1>t, <1>15, HandleReqCloseFacts
  DEF ConnectedReturn, NothingMore, ClosedBy, QueueHead, OpType, Ops
<1>16. ASSUME NEW thrown \in BOOLEAN, ReadBufEmpty(thrown) PROVE QueueHead'
  BY <1>t, <1>16 DEF ReadBufEmpty, QueueHead, OpType, Ops
<1>17. ASSUME NEW thrown \in BOOLEAN, ReadReturn(thrown) PROVE QueueHead'
  BY <1>t, <1>17, HandleReqCloseFacts
  DEF ReadReturn, NothingMore, ClosedBy, QueueHead, OpType, Ops
<1>18. ASSUME NEW thrown \in BOOLEAN, WrittenReturn(thrown) PROVE QueueHead'
  BY <1>t, <1>18, HandleReqCloseFacts
  DEF WrittenReturn, Sendable, NothingMore, ClosedBy, QueueHead, OpType, Ops
<1>19. ASSUME NEW thrown \in BOOLEAN, DisconnectedReturn(thrown) PROVE QueueHead'
  BY <1>t, <1>19, AbortOpsFacts
  DEF DisconnectedReturn, ReleaseChannel, CloseImmediately, CloseSocket, QueueHead, OpType, Ops
<1>20. ASSUME NEW thrown \in BOOLEAN, PlainReturn(thrown) PROVE QueueHead'
  BY <1>t, <1>20 DEF PlainReturn, QueueHead, OpType, Ops
<1>21. ASSUME NEW thrown \in BOOLEAN, NEW serialized \in BOOLEAN, WriteReturn(thrown, serialized) PROVE QueueHead'
  <2>1. wq \in Seq(Nat) /\ cur \in Nat
    BY <1>t DEF TypeOK
  <2>2. Append(wq, cur) # <<>>
    BY <2>1
  <2> QED
    BY <1>t, <2>2, <1>21 DEF WriteReturn, QueueHead, wqVars
<1>22. CASE ReadAgain
  BY <1>t, <1>22 DEF ReadAgain, QueueHead, OpType, Ops
<1>23. ASSUME NEW o \in Ops, NetComplete(o) PROVE QueueHead'
  BY <1>t, <1>23 DEF NetComplete, QueueHead, OpType, Ops
<1>24. CASE ResolveComplete
  BY <1>t, <1>24
  DEF ResolveComplete, Completing, StrandFree, QueueHead, OpType, Ops
<1>25. CASE ConnectComplete
  BY <1>t, <1>25
  DEF ConnectComplete, Completing, CallChannelConnected, StrandFree, Cleared,
      QueueHead, OpType, Ops
<1>26. CASE ConnectFailed
  BY <1>t, <1>26
  DEF ConnectFailed, Completing, StrandFree, Cleared, QueueHead, OpType, Ops
<1>27. CASE ConnectNotInserted
  <2>1. [op EXCEPT !["connect"] = "none"] \in OpType
    BY <1>t, OpUpdate DEF Ops, OpStates
  <2> QED
    BY <1>t, <1>27, <2>1, AbortOpsFacts
    DEF ConnectNotInserted, CloseImmediately, CloseSocket, Completing, Completed, Cleared,
        QueueHead, OpType, Ops
<1>28. CASE HandshakeComplete
  BY <1>t, <1>28
  DEF HandshakeComplete, Completing, StrandFree, Cleared,
      CallChannelConnected, QueueHead, OpType, Ops
<1>29. CASE ReadComplete
  BY <1>t, <1>29
  DEF ReadComplete, Completing, StrandFree, Cleared, QueueHead, OpType, Ops
<1>30. CASE ReadFailed
  <2>1. [op EXCEPT !["read"] = "none"] \in OpType
    BY <1>t, OpUpdate DEF Ops, OpStates
  <2> QED
    BY <1>t, <1>30, <2>1, AbortOpsFacts, ZenonT(40)
    DEF ReadFailed, ReleaseChannel, EnterDisconnected, CloseImmediately, CloseSocket,
        Completing, Completed, Cleared, QueueHead, OpType, Ops
<1>31. CASE WriteComplete
  <2>1. [op EXCEPT !["write"] = "none"] \in OpType
    BY <1>t, OpUpdate DEF Ops, OpStates
  <2> QED
    BY <1>t, <1>31, <2>1, HandleReqCloseFacts
    DEF WriteComplete, RemoveSentData, NothingMore, ClosedBy, Completing, Completed, Cleared,
        QueueHead, OpType, Ops
<1>32. CASE ShutdownComplete
  BY <1>t, <1>32, AbortOpsFacts
  DEF ShutdownComplete, ShutdownHandler, CloseSocket, EnterDisconnected, QueueHead, OpType, Ops
<1>33. CASE UNCHANGED vars
  BY <1>t, <1>33 DEF vars, QueueHead, OpType, Ops
<1> QED
  BY <1>1, <1>2, <1>3, <1>4, <1>5, <1>6, <1>7, <1>8, <1>9, <1>10, <1>11,
     <1>12, <1>13, <1>14, <1>15, <1>16, <1>17, <1>18, <1>19, <1>20, <1>21,
     <1>22, <1>23, <1>24, <1>25, <1>26, <1>27, <1>28, <1>29, <1>30, <1>31,
     <1>32, <1>33
  DEF Next, RunPosted, CallbackReturn, ConnectDone, ReadDone, Close

\* An outstanding operation is in _task_in_progress.
LEMMA TasksStep == IInv /\ [Next]_vars => TasksCoverOps'
<1> SUFFICES ASSUME IInv, [Next]_vars PROVE TasksCoverOps'
  OBVIOUS
<1> USE DEF wqVars, sockVars, lifeVars
<1>t. TypeOK /\ op \in OpType /\ TasksCoverOps /\ SetupOnce
  BY DEF IInv, TypeOK, OpType
<1>1. CASE WriteChannel
  BY <1>t, <1>1 DEF WriteChannel, TasksCoverOps, Tasks, OpType, Ops
<1>2. CASE FireUserEvent
  BY <1>t, <1>2
  DEF FireUserEvent, Lambda, TasksCoverOps, Tasks, OpType, Ops
<1>3. CASE CallbackClose
  BY <1>t, <1>3
  DEF CallbackClose, Closable, Lambda, TasksCoverOps, Tasks, OpType, Ops
<1>4. CASE StopService
  BY <1>t, <1>4, AbortOpsFacts
  DEF StopService, CloseImmediately, CloseSocket, TasksCoverOps, Tasks, OpType, Ops
<1>5. ASSUME NEW c \in Closers, CloserLookup(c) PROVE TasksCoverOps'
  BY <1>t, <1>5 DEF CloserLookup, TasksCoverOps, Tasks, OpType, Ops
<1>6. ASSUME NEW c \in Closers, CloserTest(c) PROVE TasksCoverOps'
  BY <1>t, <1>6
  DEF CloserTest, Closable, TasksCoverOps, Tasks, OpType, Ops
<1>7. ASSUME NEW c \in Closers, CloserSet(c) PROVE TasksCoverOps'
  BY <1>t, <1>7 DEF CloserSet, TasksCoverOps, Tasks, OpType, Ops
<1>8. ASSUME NEW c \in Closers, CloserPost(c) PROVE TasksCoverOps'
  BY <1>t, <1>8
  DEF CloserPost, Lambda, TasksCoverOps, Tasks, OpType, Ops
<1>9. CASE RunCreated
  BY <1>t, <1>9
  DEF RunCreated, Running, StrandFree, TasksCoverOps, Tasks, OpType, Ops
<1>10. CASE RunDoConnect
  <2>1. "connect" \in tasks
    BY <1>t, <1>10, RunningFacts DEF RunDoConnect, SetupOnce, ConnectPosted, IsConnect
  <2> QED
    BY <1>t, <1>10, <2>1 DEF RunDoConnect, TasksCoverOps, Tasks, OpType, Ops
<1>11. CASE RunWrite
  BY <1>t, <1>11
  DEF RunWrite, Running, StrandFree, TasksCoverOps, Tasks, OpType, Ops
<1>12. CASE RunClose
  BY <1>t, <1>12, RunCloseFacts
  DEF RunClose, NothingMore, ClosedBy, TasksCoverOps, Tasks, OpType, Ops
<1>13. ASSUME NEW name \in {"exception", "event"}, RunPlain(name) PROVE TasksCoverOps'
  BY <1>t, <1>13
  DEF RunPlain, Running, StrandFree, TasksCoverOps, Tasks, OpType, Ops
<1>14. ASSUME NEW thrown \in BOOLEAN, CreatedReturn(thrown) PROVE TasksCoverOps'
  BY <1>t, <1>14
  DEF CreatedReturn, CallChannelConnected, TasksCoverOps, Tasks, OpType, Ops
<1>15. ASSUME NEW thrown \in BOOLEAN, ConnectedReturn(thrown) PROVE TasksCoverOps'
  BY <1>t, <1>15, HandleReqCloseFacts, ZenonT(40)
  DEF ConnectedReturn, NothingMore, ClosedBy, TasksCoverOps, Tasks, OpType, Ops
<1>16. ASSUME NEW thrown \in BOOLEAN, ReadBufEmpty(thrown) PROVE TasksCoverOps'
  BY <1>t, <1>16
  DEF ReadBufEmpty, TasksCoverOps, Tasks, OpType, Ops
<1>17. ASSUME NEW thrown \in BOOLEAN, ReadReturn(thrown) PROVE TasksCoverOps'
  BY <1>t, <1>17, HandleReqCloseFacts, ZenonT(40)
  DEF ReadReturn, NothingMore, ClosedBy, TasksCoverOps, Tasks, OpType, Ops
<1>18. ASSUME NEW thrown \in BOOLEAN, WrittenReturn(thrown) PROVE TasksCoverOps'
  BY <1>t, <1>18, HandleReqCloseFacts, ZenonT(40)
  DEF WrittenReturn, Sendable, NothingMore, ClosedBy, TasksCoverOps, Tasks, OpType, Ops
<1>19. ASSUME NEW thrown \in BOOLEAN, DisconnectedReturn(thrown) PROVE TasksCoverOps'
  BY <1>t, <1>19, AbortOpsFacts
  DEF DisconnectedReturn, ReleaseChannel, CloseImmediately, CloseSocket, TasksCoverOps,
      Tasks, OpType, Ops
<1>20. ASSUME NEW thrown \in BOOLEAN, PlainReturn(thrown) PROVE TasksCoverOps'
  BY <1>t, <1>20 DEF PlainReturn, TasksCoverOps, Tasks, OpType, Ops
<1>21. ASSUME NEW thrown \in BOOLEAN, NEW serialized \in BOOLEAN, WriteReturn(thrown, serialized) PROVE TasksCoverOps'
  BY <1>t, <1>21
  DEF WriteReturn, Sendable, TasksCoverOps, Tasks, OpType, Ops
<1>22. CASE ReadAgain
  BY <1>t, <1>22 DEF ReadAgain, TasksCoverOps, Tasks, OpType, Ops
<1>23. ASSUME NEW o \in Ops, NetComplete(o) PROVE TasksCoverOps'
  BY <1>t, <1>23 DEF NetComplete, TasksCoverOps, Tasks, OpType, Ops
<1>24. CASE ResolveComplete
  BY <1>t, <1>24
  DEF ResolveComplete, Completing, StrandFree, TasksCoverOps, Tasks, OpType,
      Ops
<1>25. CASE ConnectComplete
  BY <1>t, <1>25
  DEF ConnectComplete, Completing, CallChannelConnected, StrandFree, Cleared,
      TasksCoverOps, Tasks, OpType, Ops
<1>26. CASE ConnectFailed
  BY <1>t, <1>26
  DEF ConnectFailed, Completing, StrandFree, Cleared, TasksCoverOps, Tasks,
      OpType, Ops
<1>27. CASE ConnectNotInserted
  <2>1. [op EXCEPT !["connect"] = "none"] \in OpType
    BY <1>t, OpUpdate DEF Ops, OpStates
  <2> QED
    <3> DEFINE o == [op EXCEPT !["connect"] = "none"]
    <3>1. op' = AbortOps(o) /\ tasks' = tasks \ {"connect"}
      BY <1>27 DEF ConnectNotInserted, CloseImmediately, CloseSocket, Cleared
    <3>2. \A p \in Ops : o[p] # "none" => p # "connect" /\ op[p] # "none"
      BY <1>t DEF OpType
    <3> HIDE DEF o
    <3>3. \A p \in Ops : op'[p] # "none" => p # "connect" /\ op[p] # "none"
      BY <2>1, <3>1, <3>2, AbortOpsFacts DEF o
    <3> QED
      BY <1>t, <3>1, <3>3 DEF TasksCoverOps, Tasks, Ops
<1>28. CASE HandshakeComplete
  BY <1>t, <1>28
  DEF HandshakeComplete, Completing, StrandFree, Cleared,
      CallChannelConnected, TasksCoverOps, Tasks, OpType, Ops
<1>29. CASE ReadComplete
  BY <1>t, <1>29
  DEF ReadComplete, Completing, StrandFree, Cleared, TasksCoverOps, Tasks,
      OpType, Ops
<1>30. CASE ReadFailed
  <2>a. CASE connected
    BY <1>t, <1>30, <2>a
    DEF ReadFailed, EnterDisconnected, Completing, Cleared, TasksCoverOps, Tasks, OpType, Ops
  <2>b. CASE ~(connected)
    <3>1. [op EXCEPT !["read"] = "none"] \in OpType
      BY <1>t, OpUpdate DEF Ops, OpStates
    <3>2. \A p \in Ops : op'[p] = "none" <=> [op EXCEPT !["read"] = "none"][p] = "none"
      BY <1>30, <2>b, <3>1, AbortOpsFacts
      DEF ReadFailed, ReleaseChannel, CloseImmediately, CloseSocket
    <3> QED
      BY <1>t, <1>30, <2>b, <3>2
      DEF ReadFailed, ReleaseChannel, CloseImmediately, CloseSocket, Completing, Cleared,
          TasksCoverOps, Tasks, OpType, Ops
  <2> QED
    BY <2>a, <2>b
<1>31. CASE WriteComplete
  <2>1. [op EXCEPT !["write"] = "none"] \in OpType
    BY <1>t, OpUpdate DEF Ops, OpStates
  <2> QED
    BY <1>t, <1>31, <2>1, HandleReqCloseFacts, ZenonT(40)
    DEF WriteComplete, RemoveSentData, NothingMore, ClosedBy, Completing, Completed, Cleared,
        TasksCoverOps, Tasks, OpType, Ops
<1>32. CASE ShutdownComplete
  BY <1>t, <1>32, AbortOpsFacts
  DEF ShutdownComplete, ShutdownHandler, CloseSocket, EnterDisconnected, TasksCoverOps,
      Tasks, OpType, Ops
<1>33. CASE UNCHANGED vars
  BY <1>t, <1>33 DEF vars, TasksCoverOps, Tasks, OpType, Ops
<1> QED
  BY <1>1, <1>2, <1>3, <1>4, <1>5, <1>6, <1>7, <1>8, <1>9, <1>10, <1>11,
     <1>12, <1>13, <1>14, <1>15, <1>16, <1>17, <1>18, <1>19, <1>20, <1>21,
     <1>22, <1>23, <1>24, <1>25, <1>26, <1>27, <1>28, <1>29, <1>30, <1>31,
     <1>32, <1>33
  DEF Next, RunPosted, CallbackReturn, ConnectDone, ReadDone, Close

\* A shutdown is outstanding alone.
LEMMA ShutdownStep == IInv /\ [Next]_vars => NoneBesidesShutdown'
<1> SUFFICES ASSUME IInv, [Next]_vars PROVE NoneBesidesShutdown'
  OBVIOUS
<1> USE DEF wqVars, sockVars, lifeVars
<1>t. TypeOK /\ op \in OpType /\ TasksCoverOps /\ NoneBesidesShutdown /\ StatPhase /\ OpsPhase /\ SetupOnce
  BY DEF IInv, TypeOK, OpType
<1>1. CASE WriteChannel
  BY <1>t, <1>1
  DEF WriteChannel, NoneBesidesShutdown, TasksCoverOps, StatPhase, OpsPhase, Tasks,
      OpType, Ops, Live
<1>2. CASE FireUserEvent
  BY <1>t, <1>2
  DEF FireUserEvent, Lambda, NoneBesidesShutdown, TasksCoverOps, StatPhase,
      OpsPhase, Tasks, OpType, Ops, Live
<1>3. CASE CallbackClose
  BY <1>t, <1>3
  DEF CallbackClose, Closable, Lambda, NoneBesidesShutdown, TasksCoverOps,
      StatPhase, OpsPhase, Tasks, OpType, Ops, Live
<1>4. CASE StopService
  BY <1>t, <1>4, AbortOpsFacts
  DEF StopService, CloseImmediately, CloseSocket, NoneBesidesShutdown, TasksCoverOps, StatPhase,
      OpsPhase, Tasks, OpType, Ops, Live
<1>5. ASSUME NEW c \in Closers, CloserLookup(c) PROVE NoneBesidesShutdown'
  BY <1>t, <1>5
  DEF CloserLookup, NoneBesidesShutdown, TasksCoverOps, StatPhase, OpsPhase, Tasks,
      OpType, Ops, Live
<1>6. ASSUME NEW c \in Closers, CloserTest(c) PROVE NoneBesidesShutdown'
  BY <1>t, <1>6
  DEF CloserTest, Closable, NoneBesidesShutdown, TasksCoverOps, StatPhase,
      OpsPhase, Tasks, OpType, Ops, Live
<1>7. ASSUME NEW c \in Closers, CloserSet(c) PROVE NoneBesidesShutdown'
  BY <1>t, <1>7
  DEF CloserSet, NoneBesidesShutdown, TasksCoverOps, StatPhase, OpsPhase, Tasks,
      OpType, Ops, Live
<1>8. ASSUME NEW c \in Closers, CloserPost(c) PROVE NoneBesidesShutdown'
  BY <1>t, <1>8
  DEF CloserPost, Lambda, NoneBesidesShutdown, TasksCoverOps, StatPhase, OpsPhase,
      Tasks, OpType, Ops, Live
<1>9. CASE RunCreated
  BY <1>t, <1>9
  DEF RunCreated, Running, StrandFree, NoneBesidesShutdown, TasksCoverOps,
      StatPhase, OpsPhase, Tasks, OpType, Ops, Live
<1>10. CASE RunDoConnect
  <2>1. phase = "created"
    BY <1>t, <1>10, RunningFacts DEF RunDoConnect, SetupOnce, ConnectPosted, IsConnect
  <2>2. ~(shut > 0)
    BY <1>t, <2>1 DEF OpsPhase, Live
  <2> QED
    BY <1>10, <2>2 DEF RunDoConnect, NoneBesidesShutdown
<1>11. CASE RunWrite
  BY <1>t, <1>11
  DEF RunWrite, Running, StrandFree, NoneBesidesShutdown, TasksCoverOps, StatPhase,
      OpsPhase, Tasks, OpType, Ops, Live
<1>12. CASE RunClose
  BY <1>t, <1>12, RunCloseFacts
  DEF RunClose, NothingMore, ClosedBy, NoneBesidesShutdown, TasksCoverOps, StatPhase, OpsPhase,
      Tasks, OpType, Ops, Live
<1>13. ASSUME NEW name \in {"exception", "event"}, RunPlain(name) PROVE NoneBesidesShutdown'
  BY <1>t, <1>13
  DEF RunPlain, Running, StrandFree, NoneBesidesShutdown, TasksCoverOps, StatPhase,
      OpsPhase, Tasks, OpType, Ops, Live
<1>14. ASSUME NEW thrown \in BOOLEAN, CreatedReturn(thrown) PROVE NoneBesidesShutdown'
  BY <1>t, <1>14
  DEF CreatedReturn, CallChannelConnected, NoneBesidesShutdown, TasksCoverOps,
      StatPhase, OpsPhase, Tasks, OpType, Ops, Live
<1>15. ASSUME NEW thrown \in BOOLEAN, ConnectedReturn(thrown) PROVE NoneBesidesShutdown'
  <2>a. CASE stat = CONNECTED
    <3>1. ~(shut > 0)
      BY <1>t, <2>a DEF OpsPhase
    <3> QED
      BY <1>t, <1>15, <2>a, <3>1 DEF ConnectedReturn, NothingMore, NoneBesidesShutdown
  <2>b. CASE ~(stat = CONNECTED)
    BY <1>t, <1>15, <2>b, HandleReqCloseFacts
    DEF ConnectedReturn, NothingMore, ClosedBy, NoneBesidesShutdown, TasksCoverOps, Tasks, Ops
  <2> QED
    BY <2>a, <2>b
<1>16. ASSUME NEW thrown \in BOOLEAN, ReadBufEmpty(thrown) PROVE NoneBesidesShutdown'
  BY <1>t, <1>16
  DEF ReadBufEmpty, NoneBesidesShutdown, TasksCoverOps, StatPhase, OpsPhase, Tasks,
      OpType, Ops, Live
<1>17. ASSUME NEW thrown \in BOOLEAN, ReadReturn(thrown) PROVE NoneBesidesShutdown'
  <2>a. CASE stat = CONNECTED
    <3>1. ~(shut > 0)
      BY <1>t, <2>a DEF OpsPhase
    <3> QED
      BY <1>t, <1>17, <2>a, <3>1 DEF ReadReturn, NothingMore, NoneBesidesShutdown
  <2>b. CASE ~(stat = CONNECTED)
    BY <1>t, <1>17, <2>b, HandleReqCloseFacts
    DEF ReadReturn, NothingMore, ClosedBy, NoneBesidesShutdown, TasksCoverOps, Tasks, Ops
  <2> QED
    BY <2>a, <2>b
<1>18. ASSUME NEW thrown \in BOOLEAN, WrittenReturn(thrown) PROVE NoneBesidesShutdown'
  <2>a. CASE Sendable /\ wq # <<>>
    <3>1. ~(shut > 0)
      BY <1>t, <2>a DEF OpsPhase, Sendable
    <3> QED
      BY <1>t, <1>18, <2>a, <3>1 DEF WrittenReturn, NothingMore, NoneBesidesShutdown
  <2>b. CASE ~(Sendable /\ wq # <<>>)
    BY <1>t, <1>18, <2>b, HandleReqCloseFacts
    DEF WrittenReturn, NothingMore, ClosedBy, NoneBesidesShutdown, TasksCoverOps, Tasks, Ops
  <2> QED
    BY <2>a, <2>b
<1>19. ASSUME NEW thrown \in BOOLEAN, DisconnectedReturn(thrown) PROVE NoneBesidesShutdown'
  BY <1>t, <1>19, AbortOpsFacts
  DEF DisconnectedReturn, ReleaseChannel, CloseImmediately, CloseSocket, NoneBesidesShutdown,
      TasksCoverOps, StatPhase, OpsPhase, Tasks, OpType, Ops, Live
<1>20. ASSUME NEW thrown \in BOOLEAN, PlainReturn(thrown) PROVE NoneBesidesShutdown'
  BY <1>t, <1>20
  DEF PlainReturn, NoneBesidesShutdown, TasksCoverOps, StatPhase, OpsPhase, Tasks,
      OpType, Ops, Live
<1>21. ASSUME NEW thrown \in BOOLEAN, NEW serialized \in BOOLEAN, WriteReturn(thrown, serialized) PROVE NoneBesidesShutdown'
  <2>a. CASE Sendable
    <3>1. ~(shut > 0)
      BY <1>t, <2>a DEF OpsPhase, Sendable
    <3> QED
      BY <1>t, <1>21, <2>a, <3>1 DEF WriteReturn, NoneBesidesShutdown
  <2>b. CASE ~(Sendable)
    BY <1>t, <1>21, <2>b DEF WriteReturn, NoneBesidesShutdown
  <2> QED
    BY <2>a, <2>b
<1>22. CASE ReadAgain
  BY <1>t, <1>22
  DEF ReadAgain, NoneBesidesShutdown, TasksCoverOps, StatPhase, OpsPhase, Tasks,
      OpType, Ops, Live
<1>23. ASSUME NEW o \in Ops, NetComplete(o) PROVE NoneBesidesShutdown'
  BY <1>t, <1>23
  DEF NetComplete, NoneBesidesShutdown, TasksCoverOps, StatPhase, OpsPhase, Tasks,
      OpType, Ops, Live
<1>24. CASE ResolveComplete
  BY <1>t, <1>24
  DEF ResolveComplete, Completing, StrandFree, NoneBesidesShutdown, TasksCoverOps,
      StatPhase, OpsPhase, Tasks, OpType, Ops, Live
<1>25. CASE ConnectComplete
  BY <1>t, <1>25
  DEF ConnectComplete, Completing, CallChannelConnected, StrandFree, Cleared,
      NoneBesidesShutdown, TasksCoverOps, StatPhase, OpsPhase, Tasks, OpType, Ops,
      Live
<1>26. CASE ConnectFailed
  BY <1>t, <1>26
  DEF ConnectFailed, Completing, StrandFree, Cleared, NoneBesidesShutdown,
      TasksCoverOps, StatPhase, OpsPhase, Tasks, OpType, Ops, Live
<1>27. CASE ConnectNotInserted
  <2>1. [op EXCEPT !["connect"] = "none"] \in OpType
    BY <1>t, OpUpdate DEF Ops, OpStates
  <2> QED
    BY <1>t, <1>27, <2>1, AbortOpsFacts
    DEF ConnectNotInserted, CloseImmediately, CloseSocket, Completing, Completed, Cleared,
        NoneBesidesShutdown, TasksCoverOps, StatPhase, OpsPhase, Tasks, OpType, Ops, Live
<1>28. CASE HandshakeComplete
  BY <1>t, <1>28
  DEF HandshakeComplete, Completing, StrandFree, Cleared,
      CallChannelConnected, NoneBesidesShutdown, TasksCoverOps, StatPhase,
      OpsPhase, Tasks, OpType, Ops, Live
<1>29. CASE ReadComplete
  BY <1>t, <1>29
  DEF ReadComplete, Completing, StrandFree, Cleared, NoneBesidesShutdown,
      TasksCoverOps, StatPhase, OpsPhase, Tasks, OpType, Ops, Live
<1>30. CASE ReadFailed
  <2>1. [op EXCEPT !["read"] = "none"] \in OpType
    BY <1>t, OpUpdate DEF Ops, OpStates
  <2> QED
    BY <1>t, <1>30, <2>1, AbortOpsFacts
    DEF ReadFailed, ReleaseChannel, EnterDisconnected, CloseImmediately, CloseSocket,
        Completing, Completed, Cleared, NoneBesidesShutdown, TasksCoverOps, StatPhase, OpsPhase, Tasks, OpType, Ops, Live
<1>31. CASE WriteComplete
  <2>1. [op EXCEPT !["write"] = "none"] \in OpType
    BY <1>t, OpUpdate DEF Ops, OpStates
  <2>2. ~(shut > 0)
    BY <1>t, <1>31 DEF WriteComplete, Completing, Completed, NoneBesidesShutdown, Tasks
  <2>a. CASE op["write"] = "ok" /\ MayCallWritten
    BY <1>31, <2>2, <2>a DEF WriteComplete, NoneBesidesShutdown
  <2>b. CASE ~(op["write"] = "ok" /\ MayCallWritten)
    <3>1. CASE NothingMore([op EXCEPT !["write"] = "none"])
      BY <2>2, <3>1 DEF NothingMore, NoneBesidesShutdown
    <3>2. CASE Cleared("write") = {} /\ ClosedBy([op EXCEPT !["write"] = "none"])
      BY <1>t, <3>2 DEF ClosedBy, NoneBesidesShutdown, TasksCoverOps, Cleared, Tasks, Ops, OpType
    <3> QED
      BY <1>t, <1>31, <2>1, <2>b, <3>1, <3>2, HandleReqCloseFacts DEF WriteComplete
  <2> QED
    BY <2>a, <2>b
<1>32. CASE ShutdownComplete
  BY <1>t, <1>32, AbortOpsFacts
  DEF ShutdownComplete, ShutdownHandler, CloseSocket, EnterDisconnected, NoneBesidesShutdown,
      TasksCoverOps, StatPhase, OpsPhase, Tasks, OpType, Ops, Live
<1>33. CASE UNCHANGED vars
  BY <1>t, <1>33 DEF vars, NoneBesidesShutdown, TasksCoverOps, StatPhase, OpsPhase,
                     Tasks, OpType, Ops, Live
<1> QED
  BY <1>1, <1>2, <1>3, <1>4, <1>5, <1>6, <1>7, <1>8, <1>9, <1>10, <1>11,
     <1>12, <1>13, <1>14, <1>15, <1>16, <1>17, <1>18, <1>19, <1>20, <1>21,
     <1>22, <1>23, <1>24, <1>25, <1>26, <1>27, <1>28, <1>29, <1>30, <1>31,
     <1>32, <1>33
  DEF Next, RunPosted, CallbackReturn, ConnectDone, ReadDone, Close

\* stat and the phase agree.
LEMMA StatStep == IInv /\ [Next]_vars => StatPhase'
<1> SUFFICES ASSUME IInv, [Next]_vars PROVE StatPhase'
  OBVIOUS
<1> USE DEF wqVars, sockVars, lifeVars
<1>t. TypeOK /\ op \in OpType /\ StatPhase /\ OpsPhase /\ SetupOnce
  BY DEF IInv, TypeOK, OpType
<1>n. stat \in Nat /\ stat \in 0 .. 7 /\ shut \in Nat /\ connected \in BOOLEAN
  BY DEF IInv, TypeOK, Stats
<1>1. CASE WriteChannel
  BY <1>t, <1>n, <1>1 DEF WriteChannel, StatPhase, OpsPhase, Ops, Live
<1>2. CASE FireUserEvent
  BY <1>t, <1>n, <1>2
  DEF FireUserEvent, Lambda, StatPhase, OpsPhase, Ops, Live
<1>3. CASE CallbackClose
  BY <1>t, <1>n, <1>3
  DEF CallbackClose, Closable, Lambda, StatPhase, OpsPhase, Ops, Live
<1>4. CASE StopService
  BY <1>t, <1>n, <1>4, AbortOpsFacts
  DEF StopService, CloseImmediately, CloseSocket, StatPhase, OpsPhase, Ops, Live
<1>5. ASSUME NEW c \in Closers, CloserLookup(c) PROVE StatPhase'
  BY <1>t, <1>n, <1>5 DEF CloserLookup, StatPhase, OpsPhase, Ops, Live
<1>6. ASSUME NEW c \in Closers, CloserTest(c) PROVE StatPhase'
  BY <1>t, <1>n, <1>6
  DEF CloserTest, Closable, StatPhase, OpsPhase, Ops, Live
<1>7. ASSUME NEW c \in Closers, CloserSet(c) PROVE StatPhase'
  BY <1>t, <1>n, <1>7 DEF CloserSet, StatPhase, OpsPhase, Ops, Live
<1>8. ASSUME NEW c \in Closers, CloserPost(c) PROVE StatPhase'
  BY <1>t, <1>n, <1>8
  DEF CloserPost, Lambda, StatPhase, OpsPhase, Ops, Live
<1>9. CASE RunCreated
  <2>1. phase = "new"
    BY <1>t, <1>n, <1>9, RunningFacts DEF RunCreated, SetupOnce
  <2> QED
    BY <1>t, <1>n, <1>9, <2>1 DEF RunCreated, StatPhase, Live
<1>10. CASE RunDoConnect
  BY <1>t, <1>n, <1>10
  DEF RunDoConnect, Running, StrandFree, StatPhase, OpsPhase, Ops, Live
<1>11. CASE RunWrite
  BY <1>t, <1>n, <1>11
  DEF RunWrite, Running, StrandFree, StatPhase, OpsPhase, Ops, Live
<1>12. CASE RunClose
  <2>1. CASE NothingMore(op)
    BY <1>t, <1>n, <1>12, <2>1, NothingMorePhase DEF RunClose
  <2>2. CASE stat = REQ_CLOSE /\ ClosedBy(op)
    BY <1>t, <1>n, <1>12, <2>2, ClosedByPhase DEF RunClose
  <2>3. CASE UNCHANGED <<stat, connected, phase>>
    BY <1>t, <1>n, <1>12, <2>3 DEF RunClose, StatPhase
  <2> QED
    BY <1>t, <1>n, <1>12, <2>1, <2>2, <2>3, RunCloseFacts
<1>13. ASSUME NEW name \in {"exception", "event"}, RunPlain(name) PROVE StatPhase'
  BY <1>t, <1>n, <1>13
  DEF RunPlain, Running, StrandFree, StatPhase, OpsPhase, Ops, Live
<1>14. ASSUME NEW thrown \in BOOLEAN, CreatedReturn(thrown) PROVE StatPhase'
  BY <1>t, <1>n, <1>14
  DEF CreatedReturn, CallChannelConnected, StatPhase, OpsPhase, Ops, Live
<1>15. ASSUME NEW thrown \in BOOLEAN, ConnectedReturn(thrown) PROVE StatPhase'
  <2>a. CASE stat = CONNECTED
    BY <1>t, <1>n, <1>15, <2>a, NothingMorePhase DEF ConnectedReturn
  <2>b. CASE ~(stat = CONNECTED)
    <3>1. NothingMore(op) \/ (stat = REQ_CLOSE /\ ClosedBy(op))
      BY <1>t, <1>n, <1>15, <2>b, HandleReqCloseFacts DEF ConnectedReturn
    <3> QED
      BY <1>t, <1>n, <1>15, <3>1, NothingMorePhase, ClosedByPhase DEF ConnectedReturn
  <2> QED
    BY <2>a, <2>b
<1>16. ASSUME NEW thrown \in BOOLEAN, ReadBufEmpty(thrown) PROVE StatPhase'
  BY <1>t, <1>n, <1>16 DEF ReadBufEmpty, StatPhase, OpsPhase, Ops, Live
<1>17. ASSUME NEW thrown \in BOOLEAN, ReadReturn(thrown) PROVE StatPhase'
  <2>a. CASE stat = CONNECTED
    BY <1>t, <1>n, <1>17, <2>a, NothingMorePhase DEF ReadReturn
  <2>b. CASE ~(stat = CONNECTED)
    <3>1. NothingMore(op) \/ (stat = REQ_CLOSE /\ ClosedBy(op))
      BY <1>t, <1>n, <1>17, <2>b, HandleReqCloseFacts DEF ReadReturn
    <3> QED
      BY <1>t, <1>n, <1>17, <3>1, NothingMorePhase, ClosedByPhase DEF ReadReturn
  <2> QED
    BY <2>a, <2>b
<1>18. ASSUME NEW thrown \in BOOLEAN, WrittenReturn(thrown) PROVE StatPhase'
  <2>a. CASE Sendable /\ wq # <<>>
    BY <1>t, <1>n, <1>18, <2>a, NothingMorePhase DEF WrittenReturn
  <2>b. CASE ~(Sendable /\ wq # <<>>)
    <3>1. NothingMore(op) \/ (stat = REQ_CLOSE /\ ClosedBy(op))
      BY <1>t, <1>n, <1>18, <2>b, HandleReqCloseFacts DEF WrittenReturn
    <3> QED
      BY <1>t, <1>n, <1>18, <3>1, NothingMorePhase, ClosedByPhase DEF WrittenReturn
  <2> QED
    BY <2>a, <2>b
<1>19. ASSUME NEW thrown \in BOOLEAN, DisconnectedReturn(thrown) PROVE StatPhase'
  BY <1>t, <1>n, <1>19, AbortOpsFacts
  DEF DisconnectedReturn, ReleaseChannel, CloseImmediately, CloseSocket, StatPhase, OpsPhase,
      Ops, Live
<1>20. ASSUME NEW thrown \in BOOLEAN, PlainReturn(thrown) PROVE StatPhase'
  BY <1>t, <1>n, <1>20 DEF PlainReturn, StatPhase, OpsPhase, Ops, Live
<1>21. ASSUME NEW thrown \in BOOLEAN, NEW serialized \in BOOLEAN, WriteReturn(thrown, serialized) PROVE StatPhase'
  BY <1>t, <1>n, <1>21
  DEF WriteReturn, Sendable, StatPhase, OpsPhase, Ops, Live
<1>22. CASE ReadAgain
  BY <1>t, <1>n, <1>22 DEF ReadAgain, StatPhase, OpsPhase, Ops, Live
<1>23. ASSUME NEW o \in Ops, NetComplete(o) PROVE StatPhase'
  BY <1>t, <1>n, <1>23 DEF NetComplete, StatPhase, OpsPhase, Ops, Live
<1>24. CASE ResolveComplete
  BY <1>t, <1>n, <1>24
  DEF ResolveComplete, Completing, StrandFree, StatPhase, OpsPhase, Ops, Live
<1>25. CASE ConnectComplete
  BY <1>t, <1>n, <1>25
  DEF ConnectComplete, Completing, CallChannelConnected, StrandFree, Cleared,
      StatPhase, OpsPhase, Ops, Live
<1>26. CASE ConnectFailed
  BY <1>t, <1>n, <1>26
  DEF ConnectFailed, Completing, StrandFree, Cleared, StatPhase, OpsPhase,
      Ops, Live
<1>27. CASE ConnectNotInserted
  <2>1. [op EXCEPT !["connect"] = "none"] \in OpType
    BY <1>t, <1>n, OpUpdate DEF Ops, OpStates
  <2> QED
    BY <1>t, <1>n, <1>27, <2>1, AbortOpsFacts
    DEF ConnectNotInserted, CloseImmediately, CloseSocket, Completing, Completed, Cleared,
        StatPhase, OpsPhase, Ops, Live
<1>28. CASE HandshakeComplete
  <2>1. phase = "created"
    BY <1>t, <1>n, <1>28 DEF HandshakeComplete, Completing, Completed, OpsPhase
  <2>a. CASE op["handshake"] = "ok"
    BY <1>t, <1>n, <1>28, <2>1, <2>a DEF HandshakeComplete, CallChannelConnected, StatPhase, Live
  <2>b. CASE op["handshake"] # "ok"
    BY <1>t, <1>n, <1>28, <2>b DEF HandshakeComplete, StatPhase
  <2> QED
    BY <2>a, <2>b
<1>29. CASE ReadComplete
  BY <1>t, <1>n, <1>29
  DEF ReadComplete, Completing, StrandFree, Cleared, StatPhase, OpsPhase,
      Ops, Live
<1>30. CASE ReadFailed
  <2>1. [op EXCEPT !["read"] = "none"] \in OpType
    BY <1>t, <1>n, OpUpdate DEF Ops, OpStates
  <2> QED
    BY <1>t, <1>n, <1>30, <2>1, AbortOpsFacts
    DEF ReadFailed, ReleaseChannel, EnterDisconnected, CloseImmediately, CloseSocket,
        Completing, Completed, Cleared, StatPhase, OpsPhase, Ops, Live
<1>31. CASE WriteComplete
  <2>1. [op EXCEPT !["write"] = "none"] \in OpType
    BY <1>t, <1>n, OpUpdate DEF Ops, OpStates
  <2>2. CASE NothingMore([op EXCEPT !["write"] = "none"])
    BY <1>t, <1>n, <1>31, <2>2, NothingMorePhase DEF WriteComplete
  <2>3. CASE stat = REQ_CLOSE /\ ClosedBy([op EXCEPT !["write"] = "none"])
    BY <1>t, <1>n, <1>31, <2>3, ClosedByPhase DEF WriteComplete
  <2>4. CASE UNCHANGED lifeVars
    BY <1>t, <1>n, <1>31, <2>4 DEF WriteComplete, StatPhase
  <2> QED
    BY <1>t, <1>n, <1>31, <2>1, <2>2, <2>3, <2>4, HandleReqCloseFacts DEF WriteComplete
<1>32. CASE ShutdownComplete
  BY <1>t, <1>n, <1>32, AbortOpsFacts
  DEF ShutdownComplete, ShutdownHandler, CloseSocket, EnterDisconnected, StatPhase, OpsPhase,
      Ops, Live
<1>33. CASE UNCHANGED vars
  BY <1>t, <1>n, <1>33 DEF vars, StatPhase, OpsPhase, Ops, Live
<1> QED
  BY <1>1, <1>2, <1>3, <1>4, <1>5, <1>6, <1>7, <1>8, <1>9, <1>10, <1>11,
     <1>12, <1>13, <1>14, <1>15, <1>16, <1>17, <1>18, <1>19, <1>20, <1>21,
     <1>22, <1>23, <1>24, <1>25, <1>26, <1>27, <1>28, <1>29, <1>30, <1>31,
     <1>32, <1>33
  DEF Next, RunPosted, CallbackReturn, ConnectDone, ReadDone, Close

\* Operations belong to their phase.
LEMMA OpsStep == IInv /\ [Next]_vars => OpsPhase'
<1> SUFFICES ASSUME IInv, [Next]_vars PROVE OpsPhase'
  OBVIOUS
<1> USE DEF wqVars, sockVars, lifeVars
<1>t. TypeOK /\ op \in OpType /\ TasksCoverOps /\ NoneBesidesShutdown /\ StatPhase /\ OpsPhase /\ SetupOnce
  BY DEF IInv, TypeOK, OpType
<1>n. stat \in Nat /\ stat \in 0 .. 7 /\ shut \in Nat /\ connected \in BOOLEAN
  BY DEF IInv, TypeOK, Stats
<1>1. CASE WriteChannel
  BY <1>t, <1>n, <1>1
  DEF WriteChannel, StatPhase, OpsPhase, OpType, Ops, Live
<1>2. CASE FireUserEvent
  BY <1>t, <1>n, <1>2
  DEF FireUserEvent, Lambda, StatPhase, OpsPhase, OpType, Ops, Live
<1>3. CASE CallbackClose
  BY <1>t, <1>n, <1>3
  DEF CallbackClose, Closable, Lambda, StatPhase, OpsPhase, OpType, Ops, Live
<1>4. CASE StopService
  BY <1>t, <1>n, <1>4, AbortOpsFacts
  DEF StopService, CloseImmediately, CloseSocket, StatPhase, OpsPhase, OpType, Ops, Live
<1>5. ASSUME NEW c \in Closers, CloserLookup(c) PROVE OpsPhase'
  BY <1>t, <1>n, <1>5
  DEF CloserLookup, StatPhase, OpsPhase, OpType, Ops, Live
<1>6. ASSUME NEW c \in Closers, CloserTest(c) PROVE OpsPhase'
  BY <1>t, <1>n, <1>6
  DEF CloserTest, Closable, StatPhase, OpsPhase, OpType, Ops, Live
<1>7. ASSUME NEW c \in Closers, CloserSet(c) PROVE OpsPhase'
  BY <1>t, <1>n, <1>7
  DEF CloserSet, StatPhase, OpsPhase, OpType, Ops, Live
<1>8. ASSUME NEW c \in Closers, CloserPost(c) PROVE OpsPhase'
  BY <1>t, <1>n, <1>8
  DEF CloserPost, Lambda, StatPhase, OpsPhase, OpType, Ops, Live
<1>9. CASE RunCreated
  <2>1. phase = "new"
    BY <1>t, <1>n, <1>9, RunningFacts DEF RunCreated, SetupOnce
  <2> QED
    BY <1>t, <1>n, <1>9, <2>1 DEF RunCreated, OpsPhase, Live, Ops
<1>10. CASE RunDoConnect
  <2>1. phase = "created"
    BY <1>t, <1>n, <1>10, RunningFacts DEF RunDoConnect, SetupOnce, ConnectPosted, IsConnect
  <2> QED
    BY <1>t, <1>n, <1>10, <2>1 DEF RunDoConnect, OpsPhase, OpType, Ops
<1>11. CASE RunWrite
  BY <1>t, <1>n, <1>11
  DEF RunWrite, Running, StrandFree, StatPhase, OpsPhase, OpType, Ops, Live
<1>12. CASE RunClose
  <2>1. CASE NothingMore(op)
    BY <1>t, <1>n, <2>1 DEF NothingMore, OpsPhase
  <2>2. CASE stat = REQ_CLOSE /\ tasks = {} /\ ClosedBy(op)
    BY <1>t, <1>n, <2>2, ClosedByOps DEF TasksCoverOps
  <2>3. CASE /\ \A p \in Ops : op'[p] = "none" <=> op[p] = "none"
             /\ UNCHANGED <<stat, phase, shut, pc>>
    BY <1>t, <1>n, <2>3 DEF OpsPhase, Ops
  <2> QED
    BY <1>t, <1>n, <1>12, <2>1, <2>2, <2>3, RunCloseFacts
<1>13. ASSUME NEW name \in {"exception", "event"}, RunPlain(name) PROVE OpsPhase'
  BY <1>t, <1>n, <1>13
  DEF RunPlain, Running, StrandFree, StatPhase, OpsPhase, OpType, Ops, Live
<1>14. ASSUME NEW thrown \in BOOLEAN, CreatedReturn(thrown) PROVE OpsPhase'
  <2>1. phase = "created" /\ ~(shut > 0)
    BY <1>t, <1>n, <1>14 DEF CreatedReturn, OpsPhase, Live
  <2>2. \A o \in Ops : op[o] = "none" \/ o = "write"
    BY <1>t, <1>n, <1>14, <2>1 DEF CreatedReturn, OpsPhase, SetupOnce, Ops
  <2>a. CASE CallChannelConnected /\ UNCHANGED op
    BY <1>14, <2>1, <2>2, <2>a DEF CreatedReturn, CallChannelConnected, OpsPhase, Ops
  <2>b. CASE pc' = "idle" /\ UNCHANGED lifeVars
    BY <1>t, <1>n, <1>14, <2>1, <2>2, <2>b DEF CreatedReturn, OpsPhase, OpType, Ops
  <2> QED
    BY <1>14, <2>a, <2>b DEF CreatedReturn
<1>15. ASSUME NEW thrown \in BOOLEAN, ConnectedReturn(thrown) PROVE OpsPhase'
  <2>a. CASE stat = CONNECTED
    BY <1>t, <1>n, <1>15, <2>a
    DEF ConnectedReturn, NothingMore, OpsPhase, StatPhase, OpType, Ops, Live
  <2>b. CASE ~(stat = CONNECTED)
    <3>1. NothingMore(op) \/ (stat = REQ_CLOSE /\ tasks = {} /\ ClosedBy(op))
      BY <1>t, <1>n, <1>15, <2>b, HandleReqCloseFacts DEF ConnectedReturn
    <3>2. CASE NothingMore(op)
      BY <1>t, <1>n, <3>2 DEF NothingMore, OpsPhase
    <3>3. CASE stat = REQ_CLOSE /\ tasks = {} /\ ClosedBy(op)
      BY <1>t, <1>n, <3>3, ClosedByOps DEF TasksCoverOps
    <3> QED
      BY <3>1, <3>2, <3>3
  <2> QED
    BY <2>a, <2>b
<1>16. ASSUME NEW thrown \in BOOLEAN, ReadBufEmpty(thrown) PROVE OpsPhase'
  BY <1>t, <1>n, <1>16
  DEF ReadBufEmpty, StatPhase, OpsPhase, OpType, Ops, Live
<1>17. ASSUME NEW thrown \in BOOLEAN, ReadReturn(thrown) PROVE OpsPhase'
  <2>a. CASE stat = CONNECTED
    BY <1>t, <1>n, <1>17, <2>a DEF ReadReturn, NothingMore, OpsPhase, StatPhase, OpType, Ops, Live
  <2>b. CASE ~(stat = CONNECTED)
    <3>1. NothingMore(op) \/ (stat = REQ_CLOSE /\ tasks = {} /\ ClosedBy(op))
      BY <1>t, <1>n, <1>17, <2>b, HandleReqCloseFacts DEF ReadReturn
    <3>2. CASE NothingMore(op)
      BY <1>t, <1>n, <3>2 DEF NothingMore, OpsPhase
    <3>3. CASE stat = REQ_CLOSE /\ tasks = {} /\ ClosedBy(op)
      BY <1>t, <1>n, <3>3, ClosedByOps DEF TasksCoverOps
    <3> QED
      BY <3>1, <3>2, <3>3
  <2> QED
    BY <2>a, <2>b
<1>18. ASSUME NEW thrown \in BOOLEAN, WrittenReturn(thrown) PROVE OpsPhase'
  <2>a. CASE Sendable /\ wq # <<>>
    BY <1>t, <1>n, <1>18, <2>a DEF WrittenReturn, NothingMore, OpsPhase, OpType, Ops
  <2>b. CASE ~(Sendable /\ wq # <<>>)
    <3>1. NothingMore(op) \/ (stat = REQ_CLOSE /\ tasks = {} /\ ClosedBy(op))
      BY <1>t, <1>n, <1>18, <2>b, HandleReqCloseFacts DEF WrittenReturn
    <3>2. CASE NothingMore(op)
      BY <1>t, <1>n, <3>2 DEF NothingMore, OpsPhase
    <3>3. CASE stat = REQ_CLOSE /\ tasks = {} /\ ClosedBy(op)
      BY <1>t, <1>n, <3>3, ClosedByOps DEF TasksCoverOps
    <3> QED
      BY <3>1, <3>2, <3>3
  <2> QED
    BY <2>a, <2>b
<1>19. ASSUME NEW thrown \in BOOLEAN, DisconnectedReturn(thrown) PROVE OpsPhase'
  BY <1>t, <1>n, <1>19, AbortOpsFacts
  DEF DisconnectedReturn, ReleaseChannel, CloseImmediately, CloseSocket, StatPhase, OpsPhase,
      OpType, Ops, Live
<1>20. ASSUME NEW thrown \in BOOLEAN, PlainReturn(thrown) PROVE OpsPhase'
  BY <1>t, <1>n, <1>20
  DEF PlainReturn, StatPhase, OpsPhase, OpType, Ops, Live
<1>21. ASSUME NEW thrown \in BOOLEAN, NEW serialized \in BOOLEAN, WriteReturn(thrown, serialized) PROVE OpsPhase'
  BY <1>t, <1>n, <1>21
  DEF WriteReturn, Sendable, StatPhase, OpsPhase, OpType, Ops, Live
<1>22. CASE ReadAgain
  BY <1>t, <1>n, <1>22
  DEF ReadAgain, StatPhase, OpsPhase, OpType, Ops, Live
<1>23. ASSUME NEW o \in Ops, NetComplete(o) PROVE OpsPhase'
  BY <1>t, <1>n, <1>23
  DEF NetComplete, StatPhase, OpsPhase, OpType, Ops, Live
<1>24. CASE ResolveComplete
  BY <1>t, <1>n, <1>24
  DEF ResolveComplete, Completing, StrandFree, StatPhase, OpsPhase, OpType,
      Ops, Live
<1>25. CASE ConnectComplete
  <2>1. phase = "created" /\ ~(shut > 0)
    BY <1>t, <1>n, <1>25 DEF ConnectComplete, Completing, Completed, OpsPhase, Live
  <2>2. \A o \in Ops : op[o] = "none" \/ o \in {"connect", "write"}
    BY <1>t, <1>n, <1>25, <2>1
    DEF ConnectComplete, Completing, Completed, OpsPhase, SetupOnce, Ops
  <2>a. CASE Ssl
    BY <1>t, <1>n, <1>25, <2>1, <2>2, <2>a
    DEF ConnectComplete, Completing, StrandFree, OpsPhase, OpType, Ops
  <2>b. CASE ~Ssl
    BY <1>t, <1>n, <1>25, <2>1, <2>2, <2>b
    DEF ConnectComplete, CallChannelConnected, OpsPhase, OpType, Ops
  <2> QED
    BY <2>a, <2>b
<1>26. CASE ConnectFailed
  BY <1>t, <1>n, <1>26
  DEF ConnectFailed, Completing, StrandFree, Cleared, StatPhase, OpsPhase,
      OpType, Ops, Live
<1>27. CASE ConnectNotInserted
  <2>1. [op EXCEPT !["connect"] = "none"] \in OpType
    BY <1>t, <1>n, OpUpdate DEF Ops, OpStates
  <2> QED
    BY <1>t, <1>n, <1>27, <2>1, AbortOpsFacts
    DEF ConnectNotInserted, CloseImmediately, CloseSocket, Completing, Completed, Cleared,
        StatPhase, OpsPhase, OpType, Ops, Live
<1>28. CASE HandshakeComplete
  <2>1. phase = "created" /\ ~(shut > 0)
    BY <1>t, <1>n, <1>28 DEF HandshakeComplete, Completing, Completed, OpsPhase, Live
  <2>2. \A o \in Ops : op[o] = "none" \/ o \in {"handshake", "write"}
    BY <1>t, <1>n, <1>28, <2>1
    DEF HandshakeComplete, Completing, Completed, OpsPhase, SetupOnce, Ops
  <2>3. \A o \in Ops : op'[o] = "none" \/ o = "write"
    BY <1>t, <1>n, <1>28, <2>2 DEF HandshakeComplete, OpType, Ops
  <2>a. CASE op["handshake"] = "ok"
    BY <1>28, <2>1, <2>3, <2>a DEF HandshakeComplete, CallChannelConnected, OpsPhase, Ops
  <2>b. CASE op["handshake"] # "ok"
    BY <1>t, <1>n, <1>28, <2>1, <2>3, <2>b DEF HandshakeComplete, OpsPhase, Ops
  <2> QED
    BY <2>a, <2>b
<1>29. CASE ReadComplete
  BY <1>t, <1>n, <1>29
  DEF ReadComplete, Completing, StrandFree, Cleared, StatPhase, OpsPhase,
      OpType, Ops, Live
<1>30. CASE ReadFailed
  <2>1. [op EXCEPT !["read"] = "none"] \in OpType
    BY <1>t, <1>n, OpUpdate DEF Ops, OpStates
  <2> QED
    BY <1>t, <1>n, <1>30, <2>1, AbortOpsFacts
    DEF ReadFailed, ReleaseChannel, EnterDisconnected, CloseImmediately, CloseSocket,
        Completing, Completed, Cleared, StatPhase, OpsPhase, OpType, Ops, Live
<1>31. CASE WriteComplete
  <2> DEFINE o == [op EXCEPT !["write"] = "none"]
  <2>1. o \in OpType /\ o["resolve"] = op["resolve"]
    BY <1>t, <1>n, OpUpdate DEF Ops, OpStates, OpType
  <2>2. CASE NothingMore(o) \/ (op' = o /\ pc' = "written" /\ UNCHANGED <<stat, phase, shut>>)
    BY <1>t, <1>n, <2>2 DEF NothingMore, OpsPhase, OpType, Ops
  <2>3. CASE stat = REQ_CLOSE /\ Cleared("write") = {} /\ ClosedBy(o)
    <3>1. \A p \in Tasks : o[p] = "none"
      BY <1>t, <1>n, <2>3 DEF Cleared, TasksCoverOps, Tasks, OpType, Ops
    <3> QED
      BY <1>t, <1>n, <2>1, <2>3, <3>1, ClosedByOps
  <2> QED
    BY <1>t, <1>n, <1>31, <2>1, <2>2, <2>3, HandleReqCloseFacts DEF WriteComplete
<1>32. CASE ShutdownComplete
  <2>1. phase \in Live /\ \A o \in Ops : op[o] = "none"
    BY <1>t, <1>n, <1>32 DEF ShutdownComplete, NoneBesidesShutdown, OpsPhase, Ops, Tasks, Live
  <2>2. \A o \in Ops : op'[o] = "none"
    BY <1>t, <1>n, <1>32, <2>1, AbortOpsFacts DEF ShutdownComplete, ShutdownHandler, CloseSocket
  <2>3. /\ stat' = CLOSED /\ phase' \in Live
        /\ pc' = "idle" \/ (pc' = "disconnected" /\ phase' = "disconnected")
    BY <1>32, <2>1 DEF ShutdownComplete, ShutdownHandler, EnterDisconnected, Live
  <2> QED
    BY <2>2, <2>3 DEF OpsPhase, Ops
<1>33. CASE UNCHANGED vars
  BY <1>t, <1>n, <1>33 DEF vars, StatPhase, OpsPhase, OpType, Ops, Live
<1> QED
  BY <1>1, <1>2, <1>3, <1>4, <1>5, <1>6, <1>7, <1>8, <1>9, <1>10, <1>11,
     <1>12, <1>13, <1>14, <1>15, <1>16, <1>17, <1>18, <1>19, <1>20, <1>21,
     <1>22, <1>23, <1>24, <1>25, <1>26, <1>27, <1>28, <1>29, <1>30, <1>31,
     <1>32, <1>33
  DEF Next, RunPosted, CallbackReturn, ConnectDone, ReadDone, Close

\* The steps of the set-up exclude each other.
LEMMA SetupStep == IInv /\ [Next]_vars => SetupOnce'
<1> SUFFICES ASSUME IInv, [Next]_vars PROVE SetupOnce'
  OBVIOUS
<1> USE DEF wqVars, sockVars, lifeVars
<1>t. TypeOK /\ op \in OpType /\ StatPhase /\ OpsPhase /\ SetupOnce
  BY DEF IInv, TypeOK, OpType
<1>n. stat \in Nat /\ stat \in 0 .. 7 /\ shut \in Nat /\ connected \in BOOLEAN
  BY DEF IInv, TypeOK, Stats
<1>1. CASE WriteChannel
  <2>1. NoSetupPosted
    <3>1. <<"write", count["write"] + 1>> \in LambdaType /\ <<"write", count["write"] + 1>>[1] \notin {"created", "do_connect"}
      BY <1>t, <1>n DEF Lambda, LambdaType, Lambdas, TypeOK
    <3> QED
      BY <1>t, <1>n, <1>1, <3>1, AppendIsNoSetup DEF WriteChannel
  <2> QED
    BY <1>t, <1>n, <1>1, <2>1, SetupKept DEF WriteChannel, SetupOps
<1>2. CASE FireUserEvent
  <2>1. NoSetupPosted
    <3>1. Lambda("event") \in LambdaType /\ Lambda("event")[1] \notin {"created", "do_connect"}
      BY <1>t, <1>n DEF Lambda, LambdaType, Lambdas, TypeOK
    <3> QED
      BY <1>t, <1>n, <1>2, <3>1, AppendIsNoSetup DEF FireUserEvent
  <2> QED
    BY <1>t, <1>n, <1>2, <2>1, SetupKept DEF FireUserEvent, SetupOps
<1>3. CASE CallbackClose
  <2>1. NoSetupPosted
    <3>1. Lambda("close") \in LambdaType /\ Lambda("close")[1] \notin {"created", "do_connect"}
      BY <1>t, <1>n DEF Lambda, LambdaType, Lambdas, TypeOK
    <3> QED
      BY <1>t, <1>n, <1>3, <3>1, AppendIsNoSetup DEF CallbackClose
  <2> QED
    BY <1>t, <1>n, <1>3, <2>1, SetupKept DEF CallbackClose, SetupOps
<1>4. CASE StopService
  <2>1. NoSetupPosted
    BY <1>4 DEF StopService, NoSetupPosted
  <2>2. \A o \in SetupOps : op'[o] # "none" => op[o] # "none"
    BY <1>t, <1>n, <1>4, AbortOpsFacts
    DEF StopService, CloseImmediately, CloseSocket, SetupOps, Ops
  <2> QED
    BY <1>t, <1>n, <1>4, <2>1, <2>2, SetupKept DEF StopService
<1>5. ASSUME NEW c \in Closers, CloserLookup(c) PROVE SetupOnce'
  <2>1. NoSetupPosted
    BY <1>5 DEF CloserLookup, NoSetupPosted
  <2> QED
    BY <1>t, <1>n, <1>5, <2>1, SetupKept DEF CloserLookup, SetupOps
<1>6. ASSUME NEW c \in Closers, CloserTest(c) PROVE SetupOnce'
  <2>1. NoSetupPosted
    BY <1>6 DEF CloserTest, NoSetupPosted
  <2> QED
    BY <1>t, <1>n, <1>6, <2>1, SetupKept DEF CloserTest, SetupOps
<1>7. ASSUME NEW c \in Closers, CloserSet(c) PROVE SetupOnce'
  <2>1. NoSetupPosted
    BY <1>7 DEF CloserSet, NoSetupPosted
  <2> QED
    BY <1>t, <1>n, <1>7, <2>1, SetupKept DEF CloserSet, SetupOps
<1>8. ASSUME NEW c \in Closers, CloserPost(c) PROVE SetupOnce'
  <2>1. NoSetupPosted
    <3>1. Lambda("close") \in LambdaType /\ Lambda("close")[1] \notin {"created", "do_connect"}
      BY <1>t, <1>n DEF Lambda, LambdaType, Lambdas, TypeOK
    <3> QED
      BY <1>t, <1>n, <1>8, <3>1, AppendIsNoSetup DEF CloserPost
  <2> QED
    BY <1>t, <1>n, <1>8, <2>1, SetupKept DEF CloserPost, SetupOps
<1>9. CASE RunCreated
  <2>1. phase = "new"
    BY <1>t, <1>n, <1>9, RunningFacts DEF RunCreated, SetupOnce
  <2>2. ~ConnectPosted /\ \A o \in SetupOps : op[o] = "none"
    BY <1>t, <1>n, <2>1 DEF SetupOnce, OpsPhase, SetupOps
  <2>3. \A i \in 1 .. Len(posted') : i + 1 \in 1 .. Len(posted) /\ posted'[i] = posted[i + 1]
    BY <1>t, <1>n, <1>9, RunningFacts DEF RunCreated
  <2>4. \A i \in 1 .. Len(posted') : posted'[i][1] # "created" /\ ~IsConnect(i)'
    BY <1>t, <1>n, <2>2, <2>3 DEF SetupOnce, ConnectPosted, IsConnect
  <2> QED
    BY <1>9, <2>2, <2>4 DEF RunCreated, SetupOnce, SetupOps, ConnectPosted
<1>10. CASE RunDoConnect
  <2>1. posted[1][1] = "do_connect" /\ 1 \in 1 .. Len(posted)
    BY <1>t, <1>n, <1>10, RunningFacts DEF RunDoConnect
  <2>2. /\ pc = "idle"
        /\ \A i \in 1 .. Len(posted') : i + 1 \in 1 .. Len(posted) /\ posted'[i] = posted[i + 1]
    BY <1>t, <1>n, <1>10, RunningFacts DEF RunDoConnect
  <2>3. ConnectPosted
    BY <2>1 DEF ConnectPosted, IsConnect
  <2>4. \A i \in 1 .. Len(posted') : posted'[i][1] # "created" /\ ~IsConnect(i)'
    BY <1>t, <1>n, <2>1, <2>2 DEF SetupOnce, IsConnect
  <2>5. ~Server' /\ \A o \in SetupOps \ {"connect"} : op'[o] = "none"
    BY <1>t, <1>n, <1>10, <2>3 DEF RunDoConnect, SetupOnce, SetupOps, Server, OpType
  <2>6. pc' = "idle"
    BY <1>10, <2>2 DEF RunDoConnect
  <2> QED
    BY <2>4, <2>5, <2>6 DEF SetupOnce, SetupOps, ConnectPosted
<1>11. CASE RunWrite
  <2>1. \A o \in SetupOps : op'[o] # "none" => op[o] # "none"
    BY <1>t, <1>n, <1>11 DEF RunWrite, SetupOps
  <2> QED
    BY <1>t, <1>n, <1>11, <2>1, SetupRun DEF RunWrite
<1>12. CASE RunClose
  <2>1. \A o \in SetupOps : op'[o] # "none" => op[o] # "none"
    BY <1>t, <1>n, <1>12, RunCloseFacts DEF NothingMore, ClosedBy, SetupOps, Ops
  <2>2. pc' # "created"
    BY <1>t, <1>n, <1>12, RunCloseFacts, RunningFacts DEF RunClose, NothingMore, ClosedBy
  <2>3. phase' = phase \/ (phase # "new" /\ ~ConnectPosted)
    BY <1>t, <1>n, <1>12, RunCloseFacts DEF NothingMore, ClosedBy, StatPhase, SetupOnce
  <2> QED
    BY <1>t, <1>n, <1>12, <2>1, <2>2, <2>3, SetupRun DEF RunClose
<1>13. ASSUME NEW name \in {"exception", "event"}, RunPlain(name) PROVE SetupOnce'
  <2>1. \A o \in SetupOps : op'[o] # "none" => op[o] # "none"
    BY <1>t, <1>n, <1>13 DEF RunPlain, SetupOps
  <2> QED
    BY <1>t, <1>n, <1>13, <2>1, SetupRun DEF RunPlain
<1>14. ASSUME NEW thrown \in BOOLEAN, CreatedReturn(thrown) PROVE SetupOnce'
  <2>1. phase = "created" /\ ~ConnectPosted /\ \A o \in SetupOps : op[o] = "none"
    BY <1>t, <1>n, <1>14 DEF CreatedReturn, OpsPhase, SetupOnce, SetupOps
  <2>2. pc' # "created"
    BY <1>14 DEF CreatedReturn, CallChannelConnected
  <2>3. posted \in Seq(LambdaType) /\ Report(thrown, posted) \in Seq(LambdaType)
    BY <1>t, <1>n, ReportType DEF TypeOK, LambdaType
  <2>4. \A i \in 1 .. Len(Report(thrown, posted)) :
           Report(thrown, posted)[i][1] \notin {"created", "do_connect"}
    <3>1. \A i \in 1 .. Len(posted) : posted[i][1] \notin {"created", "do_connect"}
      BY <1>t, <1>n, <2>1 DEF SetupOnce, ConnectPosted, IsConnect
    <3> QED
      BY <2>3, <3>1, ReportFacts
  <2>a. CASE posted' = Report(thrown, posted)
    <3>1. \A i \in 1 .. Len(posted') : posted'[i][1] # "created" /\ ~IsConnect(i)'
      BY <2>4, <2>a DEF IsConnect
    <3>2. \A o \in SetupOps : op'[o] # "none" =>
            /\ o # "handshake" => ~Server'
            /\ \A q \in SetupOps \ {o} : op'[q] = "none"
      BY <1>t, <1>n, <1>14, <2>1 DEF CreatedReturn, SetupOps, Server, OpType, Ops
    <3> QED
      BY <2>2, <3>1, <3>2 DEF SetupOnce, SetupOps, ConnectPosted
  <2>b. CASE /\ ~Server /\ tasks' = tasks \cup {"connect"}
             /\ posted' = Append(Report(thrown, posted), Lambda("do_connect"))
             /\ pc' = "idle" /\ UNCHANGED <<lifeVars, op>>
    <3>1. Lambda("do_connect") \in LambdaType /\ Lambda("do_connect")[1] = "do_connect"
      BY DEF Lambda, LambdaType, Lambdas
    <3>2. \A i \in 1 .. Len(posted') : /\ posted'[i][1] # "created"
                                       /\ IsConnect(i)' => i = Len(posted')
      BY <2>3, <2>4, <2>b, <3>1 DEF IsConnect
    <3>3. \A i, j \in 1 .. Len(posted') : IsConnect(i)' /\ IsConnect(j)' => i = j
      BY <3>2
    <3>4. phase' = "created" /\ ~Server' /\ \A o \in SetupOps : op'[o] = "none"
      BY <1>14, <2>1, <2>b DEF CreatedReturn, Server
    <3> QED
      BY <2>2, <2>b, <3>2, <3>3, <3>4 DEF SetupOnce, SetupOps, ConnectPosted
  <2> QED
    BY <1>14, <2>a, <2>b DEF CreatedReturn
<1>15. ASSUME NEW thrown \in BOOLEAN, ConnectedReturn(thrown) PROVE SetupOnce'
  <2>1. NoSetupPosted
    BY <1>t, <1>n, <1>15, ReportIsNoSetup DEF ConnectedReturn
  <2>2. \A o \in SetupOps : op'[o] # "none" => op[o] # "none"
    BY <1>t, <1>n, <1>15, HandleReqCloseFacts
    DEF ConnectedReturn, NothingMore, ClosedBy, SetupOps, Ops, OpType
  <2>3. phase' = phase \/ (phase # "new" /\ ~ConnectPosted)
    BY <1>t, <1>n, <1>15, HandleReqCloseFacts
    DEF ConnectedReturn, NothingMore, ClosedBy, StatPhase, SetupOnce
  <2>4. pc' # "created"
    BY <1>t, <1>n, <1>15, HandleReqCloseFacts DEF ConnectedReturn, NothingMore, ClosedBy
  <2>5. "connect" \in tasks => "connect" \in tasks'
    BY <1>15 DEF ConnectedReturn
  <2>6. UNCHANGED kind
    BY <1>15 DEF ConnectedReturn
  <2> QED
    BY <1>t, <1>n, <2>1, <2>2, <2>3, <2>4, <2>5, <2>6, SetupKept
<1>16. ASSUME NEW thrown \in BOOLEAN, ReadBufEmpty(thrown) PROVE SetupOnce'
  <2>1. NoSetupPosted
    BY <1>t, <1>n, <1>16, ReportIsNoSetup DEF ReadBufEmpty
  <2> QED
    BY <1>t, <1>n, <1>16, <2>1, SetupKept DEF ReadBufEmpty, SetupOps
<1>17. ASSUME NEW thrown \in BOOLEAN, ReadReturn(thrown) PROVE SetupOnce'
  <2>1. NoSetupPosted
    BY <1>t, <1>n, <1>17, ReportIsNoSetup DEF ReadReturn
  <2>2. \A o \in SetupOps : op'[o] # "none" => op[o] # "none"
    BY <1>t, <1>n, <1>17, HandleReqCloseFacts
    DEF ReadReturn, NothingMore, ClosedBy, SetupOps, Ops, OpType
  <2>3. phase' = phase \/ (phase # "new" /\ ~ConnectPosted)
    BY <1>t, <1>n, <1>17, HandleReqCloseFacts
    DEF ReadReturn, NothingMore, ClosedBy, StatPhase, SetupOnce
  <2>4. pc' # "created"
    BY <1>t, <1>n, <1>17, HandleReqCloseFacts DEF ReadReturn, NothingMore, ClosedBy
  <2>5. "connect" \in tasks => "connect" \in tasks'
    BY <1>17 DEF ReadReturn
  <2>6. UNCHANGED kind
    BY <1>17 DEF ReadReturn
  <2> QED
    BY <1>t, <1>n, <2>1, <2>2, <2>3, <2>4, <2>5, <2>6, SetupKept
<1>18. ASSUME NEW thrown \in BOOLEAN, WrittenReturn(thrown) PROVE SetupOnce'
  <2>1. NoSetupPosted
    BY <1>t, <1>n, <1>18, ReportIsNoSetup DEF WrittenReturn
  <2>2. \A o \in SetupOps : op'[o] # "none" => op[o] # "none"
    BY <1>t, <1>n, <1>18, HandleReqCloseFacts
    DEF WrittenReturn, NothingMore, ClosedBy, SetupOps, Ops, OpType
  <2>3. phase' = phase \/ (phase # "new" /\ ~ConnectPosted)
    BY <1>t, <1>n, <1>18, HandleReqCloseFacts
    DEF WrittenReturn, NothingMore, ClosedBy, StatPhase, SetupOnce
  <2>4. pc' # "created"
    BY <1>t, <1>n, <1>18, HandleReqCloseFacts DEF WrittenReturn, NothingMore, ClosedBy
  <2>5. "connect" \in tasks => "connect" \in tasks'
    BY <1>18 DEF WrittenReturn
  <2>6. UNCHANGED kind
    BY <1>18 DEF WrittenReturn
  <2> QED
    BY <1>t, <1>n, <2>1, <2>2, <2>3, <2>4, <2>5, <2>6, SetupKept
<1>19. ASSUME NEW thrown \in BOOLEAN, DisconnectedReturn(thrown) PROVE SetupOnce'
  <2>1. NoSetupPosted
    BY <1>t, <1>n, <1>19, ReportIsNoSetup DEF DisconnectedReturn
  <2>2. \A o \in SetupOps : op'[o] # "none" => op[o] # "none"
    BY <1>t, <1>n, <1>19, AbortOpsFacts
    DEF DisconnectedReturn, ReleaseChannel, CloseImmediately, CloseSocket, SetupOps, Ops
  <2> QED
    BY <1>t, <1>n, <1>19, <2>1, <2>2, SetupKept DEF DisconnectedReturn, ReleaseChannel
<1>20. ASSUME NEW thrown \in BOOLEAN, PlainReturn(thrown) PROVE SetupOnce'
  <2>1. NoSetupPosted
    BY <1>t, <1>n, <1>20, ReportIsNoSetup DEF PlainReturn
  <2> QED
    BY <1>t, <1>n, <1>20, <2>1, SetupKept DEF PlainReturn, SetupOps
<1>21. ASSUME NEW thrown \in BOOLEAN, NEW serialized \in BOOLEAN, WriteReturn(thrown, serialized) PROVE SetupOnce'
  <2>1. NoSetupPosted
    <3>1. posted \in Seq(LambdaType) /\ Report(thrown, posted) \in Seq(LambdaType)
      BY <1>t, <1>n, ReportType DEF TypeOK, LambdaType
    <3>2. CASE posted' = Report(thrown, posted)
      BY <1>t, <1>n, <3>2, ReportIsNoSetup
    <3>3. CASE posted' = Report(TRUE, Report(thrown, posted))
      <4>1. \A i \in 1 .. Len(posted') : posted'[i][1] = "exception" \/
              (i \in 1 .. Len(Report(thrown, posted)) /\ posted'[i] = Report(thrown, posted)[i])
        BY <3>1, <3>3, ReportFacts
      <4>2. \A i \in 1 .. Len(Report(thrown, posted)) :
              Report(thrown, posted)[i][1] = "exception" \/
              (i \in 1 .. Len(posted) /\ Report(thrown, posted)[i] = posted[i])
        BY <3>1, ReportFacts
      <4> QED
        BY <4>1, <4>2 DEF NoSetupPosted
    <3> QED
      BY <1>21, <3>2, <3>3 DEF WriteReturn
  <2>2. \A o \in SetupOps : op'[o] # "none" => op[o] # "none"
    BY <1>t, <1>n, <1>21 DEF WriteReturn, SetupOps, OpType, Ops
  <2> QED
    BY <1>t, <1>n, <1>21, <2>1, <2>2, SetupKept DEF WriteReturn
<1>22. CASE ReadAgain
  <2>1. NoSetupPosted
    BY <1>t, <1>n, <1>22, ReportIsNoSetup DEF ReadAgain
  <2> QED
    BY <1>t, <1>n, <1>22, <2>1, SetupKept DEF ReadAgain, SetupOps
<1>23. ASSUME NEW o \in Ops, NetComplete(o) PROVE SetupOnce'
  <2>1. NoSetupPosted
    BY <1>23 DEF NetComplete, NoSetupPosted
  <2>2. \A p \in SetupOps : op'[p] # "none" => op[p] # "none"
    BY <1>t, <1>n, <1>23 DEF NetComplete, SetupOps, OpType, Ops
  <2> QED
    BY <1>t, <1>n, <1>23, <2>1, <2>2, SetupKept DEF NetComplete
<1>24. CASE ResolveComplete
  <2>1. /\ op["resolve"] # "none" /\ ~Server /\ ~ConnectPosted /\ pc # "created"
        /\ op["connect"] = "none" /\ op["handshake"] = "none"
    BY <1>t, <1>n, <1>24 DEF ResolveComplete, Completing, Completed, SetupOnce
  <2>2. NoSetupPosted
    <3>1. CASE op["resolve"] = "ok"
      BY <1>24, <3>1 DEF ResolveComplete, NoSetupPosted
    <3>2. CASE op["resolve"] # "ok"
      BY <1>t, <1>n, <1>24, <3>2, ReportIsNoSetup DEF ResolveComplete
    <3> QED
      BY <3>1, <3>2
  <2>3. \A i \in 1 .. Len(posted') : ~IsConnect(i)'
    BY <2>1, <2>2 DEF NoSetupPosted, ConnectPosted, IsConnect
  <2>4. \A i \in 1 .. Len(posted') : posted'[i][1] = "created" => i = 1 /\ phase' = "new"
    BY <1>t, <1>n, <1>24, <2>2 DEF ResolveComplete, NoSetupPosted, SetupOnce
  <2>5. op'["resolve"] = "none" /\ op'["handshake"] = "none"
    BY <1>t, <1>n, <1>24, <2>1 DEF ResolveComplete, OpType, Ops
  <2>6. ~Server' /\ pc' # "created"
    BY <1>24, <2>1 DEF ResolveComplete, Server
  <2> QED
    BY <2>3, <2>4, <2>5, <2>6 DEF SetupOnce, ConnectPosted
<1>25. CASE ConnectComplete
  <2>1. /\ ~ConnectPosted /\ pc = "idle" /\ phase = "created"
        /\ op["resolve"] = "none" /\ op["handshake"] = "none"
    BY <1>t, <1>n, <1>25
    DEF ConnectComplete, Completing, StrandFree, Completed, SetupOnce, OpsPhase
  <2>2. \A i \in 1 .. Len(posted') : posted'[i][1] # "created" /\ ~IsConnect(i)'
    BY <1>t, <1>n, <1>25, <2>1 DEF ConnectComplete, SetupOnce, ConnectPosted, IsConnect
  <2>3. op'["resolve"] = "none" /\ op'["connect"] = "none"
    BY <1>t, <1>n, <1>25, <2>1 DEF ConnectComplete, OpType, Ops
  <2>4. pc' # "created"
    BY <1>25, <2>1 DEF ConnectComplete, CallChannelConnected
  <2> QED
    BY <2>2, <2>3, <2>4 DEF SetupOnce, ConnectPosted
<1>26. CASE ConnectFailed
  <2>1. NoSetupPosted
    BY <1>t, <1>n, <1>26, ReportIsNoSetup DEF ConnectFailed
  <2>2. ~ConnectPosted
    BY <1>t, <1>n, <1>26 DEF ConnectFailed, Completing, Completed, SetupOnce
  <2>3. \A o \in SetupOps : op'[o] # "none" => op[o] # "none"
    BY <1>t, <1>n, <1>26 DEF ConnectFailed, SetupOps, OpType, Ops
  <2> QED
    BY <1>t, <1>n, <1>26, <2>1, <2>2, <2>3, SetupKept DEF ConnectFailed
<1>27. CASE ConnectNotInserted
  <2>1. NoSetupPosted
    BY <1>t, <1>n, <1>27, ReportIsNoSetup DEF ConnectNotInserted
  <2>2. ~ConnectPosted
    BY <1>t, <1>n, <1>27 DEF ConnectNotInserted, Completing, Completed, SetupOnce
  <2>3. [op EXCEPT !["connect"] = "none"] \in OpType
    BY <1>t, <1>n, OpUpdate DEF Ops, OpStates
  <2>4. \A o \in SetupOps : op'[o] # "none" => op[o] # "none"
    <3>1. \A p \in Ops : op'[p] = "none" <=> [op EXCEPT !["connect"] = "none"][p] = "none"
      BY <1>27, <2>3, AbortOpsFacts DEF ConnectNotInserted, CloseImmediately, CloseSocket
    <3> QED
      BY <1>t, <1>n, <3>1 DEF SetupOps, OpType, Ops
  <2> QED
    BY <1>t, <1>n, <1>27, <2>1, <2>2, <2>4, SetupKept DEF ConnectNotInserted
<1>28. CASE HandshakeComplete
  <2>1. ~ConnectPosted /\ pc = "idle" /\ phase = "created"
    BY <1>t, <1>n, <1>28
    DEF HandshakeComplete, Completing, StrandFree, Completed, SetupOnce, OpsPhase
  <2>2. NoSetupPosted
    <3>1. CASE op["handshake"] = "ok"
      BY <1>28, <3>1 DEF HandshakeComplete, NoSetupPosted
    <3>2. CASE op["handshake"] # "ok"
      BY <1>t, <1>n, <1>28, <3>2, ReportIsNoSetup DEF HandshakeComplete
    <3> QED
      BY <3>1, <3>2
  <2>3. pc' # "created"
    BY <1>28, <2>1 DEF HandshakeComplete, CallChannelConnected
  <2>4. \A o \in SetupOps : op'[o] # "none" => op[o] # "none"
    BY <1>t, <1>n, <1>28 DEF HandshakeComplete, SetupOps, OpType, Ops
  <2> QED
    BY <1>t, <1>n, <1>28, <2>1, <2>2, <2>3, <2>4, SetupKept DEF HandshakeComplete
<1>29. CASE ReadComplete
  <2>1. NoSetupPosted
    BY <1>29 DEF ReadComplete, NoSetupPosted
  <2>2. \A p \in SetupOps : op'[p] # "none" => op[p] # "none"
    BY <1>t, <1>n, <1>29 DEF ReadComplete, SetupOps, OpType, Ops
  <2> QED
    BY <1>t, <1>n, <1>29, <2>1, <2>2, SetupKept DEF ReadComplete, Cleared
<1>30. CASE ReadFailed
  <2>1. NoSetupPosted
    BY <1>t, <1>n, <1>30, ReportIsNoSetup DEF ReadFailed
  <2>2. phase = "connected" /\ ~ConnectPosted
    BY <1>t, <1>n, <1>30 DEF ReadFailed, Completing, Completed, OpsPhase, SetupOnce
  <2>3. [op EXCEPT !["read"] = "none"] \in OpType
    BY <1>t, <1>n, OpUpdate DEF Ops, OpStates
  <2>4. \A o \in SetupOps : op'[o] # "none" => op[o] # "none"
    <3>1. \A p \in Ops : op'[p] = "none" <=> [op EXCEPT !["read"] = "none"][p] = "none"
      BY <1>30, <2>3, AbortOpsFacts DEF ReadFailed, ReleaseChannel, CloseImmediately, CloseSocket
    <3> QED
      BY <1>t, <1>n, <3>1 DEF SetupOps, OpType, Ops
  <2>5. pc' # "created"
    BY <1>30 DEF ReadFailed, EnterDisconnected, ReleaseChannel
  <2> QED
    BY <1>t, <1>n, <1>30, <2>1, <2>2, <2>4, <2>5, SetupKept DEF ReadFailed
<1>31. CASE WriteComplete
  <2> DEFINE o == [op EXCEPT !["write"] = "none"]
  <2>1. NoSetupPosted
    <3>1. CASE op["write"] = "ok" /\ MayCallWritten
      BY <1>31, <3>1 DEF WriteComplete, NoSetupPosted
    <3>2. CASE ~(op["write"] = "ok" /\ MayCallWritten)
      BY <1>t, <1>n, <1>31, <3>2, ReportIsNoSetup DEF WriteComplete
    <3> QED
      BY <3>1, <3>2
  <2>2. o \in OpType /\ \A p \in SetupOps : o[p] = op[p]
    BY <1>t, <1>n, OpUpdate DEF Ops, OpStates, SetupOps, OpType
  <2>3. \/ NothingMore(o)
        \/ op' = o /\ pc' = "written" /\ UNCHANGED phase
        \/ stat = REQ_CLOSE /\ ClosedBy(o)
    BY <1>t, <1>n, <1>31, <2>2, HandleReqCloseFacts DEF WriteComplete
  <2>4. \A p \in SetupOps : op'[p] # "none" => op[p] # "none"
    BY <2>2, <2>3 DEF NothingMore, ClosedBy, SetupOps, Ops
  <2>5. pc' # "created"
    BY <2>3 DEF NothingMore, ClosedBy
  <2>6. phase' = phase \/ (phase # "new" /\ ~ConnectPosted)
    BY <1>t, <1>n, <2>3 DEF NothingMore, ClosedBy, StatPhase, SetupOnce
  <2>7. UNCHANGED kind /\ ("connect" \in tasks => "connect" \in tasks')
    BY <1>31 DEF WriteComplete, Cleared
  <2> QED
    BY <1>t, <1>n, <2>1, <2>4, <2>5, <2>6, <2>7, SetupKept
<1>32. CASE ShutdownComplete
  <2>1. NoSetupPosted
    BY <1>32 DEF ShutdownComplete, NoSetupPosted
  <2>2. phase \in Live /\ ~ConnectPosted
    BY <1>t, <1>n, <1>32 DEF ShutdownComplete, OpsPhase, SetupOnce, Live
  <2>3. \A o \in SetupOps : op'[o] # "none" => op[o] # "none"
    BY <1>t, <1>n, <1>32, AbortOpsFacts
    DEF ShutdownComplete, ShutdownHandler, CloseSocket, SetupOps, Ops
  <2>4. pc' # "created"
    BY <1>32 DEF ShutdownComplete, ShutdownHandler, EnterDisconnected
  <2> QED
    BY <1>t, <1>n, <1>32, <2>1, <2>2, <2>3, <2>4, SetupKept DEF ShutdownComplete, Live
<1>33. CASE UNCHANGED vars
  <2>1. NoSetupPosted
    BY <1>33 DEF vars, NoSetupPosted
  <2> QED
    BY <1>t, <1>33, <2>1, SetupKept DEF vars, SetupOps
<1> QED
  BY <1>1, <1>2, <1>3, <1>4, <1>5, <1>6, <1>7, <1>8, <1>9, <1>10, <1>11,
     <1>12, <1>13, <1>14, <1>15, <1>16, <1>17, <1>18, <1>19, <1>20, <1>21,
     <1>22, <1>23, <1>24, <1>25, <1>26, <1>27, <1>28, <1>29, <1>30, <1>31,
     <1>32, <1>33
  DEF Next, RunPosted, CallbackReturn, ConnectDone, ReadDone, Close

\* A connected channel is in the map and its socket is open.
LEMMA ReachableStep == IInv /\ [Next]_vars => Reachable'
<1> SUFFICES ASSUME IInv, [Next]_vars PROVE Reachable'
  OBVIOUS
<1> USE DEF wqVars, sockVars, lifeVars
<1>t. TypeOK /\ op \in OpType /\ NoneBesidesShutdown /\ StatPhase /\ OpsPhase /\ SetupOnce /\ Reachable
  BY DEF IInv, TypeOK, OpType
<1>n. stat \in Nat /\ stat \in 0 .. 7 /\ shut \in Nat /\ connected \in BOOLEAN
  BY DEF IInv, TypeOK, Stats
<1>1. CASE WriteChannel
  BY <1>t, <1>n, <1>1, ReachableKept DEF WriteChannel, SetupOps
<1>2. CASE FireUserEvent
  BY <1>t, <1>n, <1>2, ReachableKept DEF FireUserEvent, SetupOps
<1>3. CASE CallbackClose
  BY <1>t, <1>n, <1>3, ReachableKept DEF CallbackClose, SetupOps
<1>4. CASE StopService
  BY <1>t, <1>n, <1>4 DEF StopService, Reachable
<1>5. ASSUME NEW c \in Closers, CloserLookup(c) PROVE Reachable'
  BY <1>t, <1>n, <1>5, ReachableKept DEF CloserLookup, SetupOps
<1>6. ASSUME NEW c \in Closers, CloserTest(c) PROVE Reachable'
  BY <1>t, <1>n, <1>6, ReachableKept DEF CloserTest, SetupOps
<1>7. ASSUME NEW c \in Closers, CloserSet(c) PROVE Reachable'
  BY <1>t, <1>n, <1>7, ReachableKept DEF CloserSet, SetupOps
<1>8. ASSUME NEW c \in Closers, CloserPost(c) PROVE Reachable'
  BY <1>t, <1>n, <1>8, ReachableKept DEF CloserPost, SetupOps
<1>9. CASE RunCreated
  <2>1. phase = "new"
    BY <1>t, <1>n, <1>9, RunningFacts DEF RunCreated, SetupOnce
  <2> QED
    BY <1>t, <1>n, <1>9, <2>1 DEF RunCreated, Reachable, Server
<1>10. CASE RunDoConnect
  <2>1. ~Server' /\ op["handshake"] = "none"
    <3>1. ConnectPosted
      BY <1>t, <1>n, <1>10, RunningFacts DEF RunDoConnect, ConnectPosted, IsConnect
    <3> QED
      BY <1>t, <1>n, <1>10, <3>1 DEF RunDoConnect, SetupOnce, Server
  <2> QED
    BY <1>t, <1>n, <1>10, <2>1 DEF RunDoConnect, Reachable, OpType, Ops
<1>11. CASE RunWrite
  BY <1>t, <1>n, <1>11, ReachableKept DEF RunWrite, SetupOps
<1>12. CASE RunClose
  <2>1. CASE NothingMore(op) /\ UNCHANGED proc
    BY <1>t, <1>n, <1>12, <2>1, ReachableKept DEF RunClose, NothingMore
  <2>2. CASE stat = REQ_CLOSE /\ ClosedBy(op) /\ UNCHANGED proc
    BY <1>t, <1>n, <1>12, <2>2, ReachableClosedBy DEF RunClose
  <2>3. CASE /\ \A p \in Ops : op'[p] = "none" <=> op[p] = "none"
             /\ UNCHANGED <<connected, phase, socket>>
             /\ proc' = proc \/ proc' = "terminated"
    BY <1>t, <1>n, <1>12, <2>3, ReachableKept DEF RunClose, SetupOps, Ops
  <2> QED
    BY <1>t, <1>n, <1>12, <2>1, <2>2, <2>3, RunCloseFacts
<1>13. ASSUME NEW name \in {"exception", "event"}, RunPlain(name) PROVE Reachable'
  BY <1>t, <1>n, <1>13, ReachableKept DEF RunPlain, SetupOps
<1>14. ASSUME NEW thrown \in BOOLEAN, CreatedReturn(thrown) PROVE Reachable'
  <2>1. phase = "created" /\ \A o \in SetupOps : op[o] = "none"
    BY <1>t, <1>n, <1>14 DEF CreatedReturn, OpsPhase, SetupOnce, SetupOps
  <2>2. proc = "running" /\ UNCHANGED <<kind, socket, inMap, proc>>
    BY <1>14 DEF CreatedReturn
  <2>3. connected = FALSE
    BY <1>t, <1>n, <2>1 DEF StatPhase
  <2>a. CASE Server
    <3>1. inMap /\ socket = "open"
      BY <1>t, <1>n, <2>1, <2>2, <2>a DEF Reachable
    <3>2. op'["connect"] = "none"
      BY <1>t, <1>n, <1>14, <2>1, <2>a DEF CreatedReturn, Server, SetupOps, OpType, Ops
    <3> QED
      BY <2>2, <3>1, <3>2 DEF Reachable
  <2>b. CASE ~Server
    <3>1. /\ connected' = FALSE /\ ~Server'
          /\ op'["handshake"] = "none" /\ op'["connect"] = "none"
      BY <1>t, <1>n, <1>14, <2>1, <2>2, <2>3, <2>b
      DEF CreatedReturn, Server, SetupOps, OpType, Ops
    <3> QED
      BY <3>1 DEF Reachable
  <2> QED
    BY <2>a, <2>b
<1>15. ASSUME NEW thrown \in BOOLEAN, ConnectedReturn(thrown) PROVE Reachable'
  <2>a. CASE stat = CONNECTED
    <3>1. \A o \in SetupOps : op'[o] # "none" => op[o] # "none"
      BY <1>t, <1>n, <1>15, <2>a DEF ConnectedReturn, NothingMore, SetupOps, OpType, Ops
    <3> QED
      BY <1>t, <1>n, <1>15, <2>a, <3>1, ReachableKept DEF ConnectedReturn, NothingMore
  <2>b. CASE ~(stat = CONNECTED)
    <3>1. NothingMore(op) \/ (stat = REQ_CLOSE /\ ClosedBy(op))
      BY <1>t, <1>n, <1>15, <2>b, HandleReqCloseFacts DEF ConnectedReturn
    <3>2. CASE NothingMore(op)
      BY <1>t, <1>n, <1>15, <3>2, ReachableKept DEF ConnectedReturn, NothingMore
    <3>3. CASE stat = REQ_CLOSE /\ ClosedBy(op)
      BY <1>t, <1>n, <1>15, <3>3, ReachableClosedBy DEF ConnectedReturn
    <3> QED
      BY <3>1, <3>2, <3>3
  <2> QED
    BY <2>a, <2>b
<1>16. ASSUME NEW thrown \in BOOLEAN, ReadBufEmpty(thrown) PROVE Reachable'
  BY <1>t, <1>n, <1>16, ReachableKept DEF ReadBufEmpty, SetupOps
<1>17. ASSUME NEW thrown \in BOOLEAN, ReadReturn(thrown) PROVE Reachable'
  <2>a. CASE stat = CONNECTED
    <3>1. \A o \in SetupOps : op'[o] # "none" => op[o] # "none"
      BY <1>t, <1>n, <1>17, <2>a DEF ReadReturn, NothingMore, SetupOps, OpType, Ops
    <3> QED
      BY <1>t, <1>n, <1>17, <2>a, <3>1, ReachableKept DEF ReadReturn, NothingMore
  <2>b. CASE ~(stat = CONNECTED)
    <3>1. NothingMore(op) \/ (stat = REQ_CLOSE /\ ClosedBy(op))
      BY <1>t, <1>n, <1>17, <2>b, HandleReqCloseFacts DEF ReadReturn
    <3>2. CASE NothingMore(op)
      BY <1>t, <1>n, <1>17, <3>2, ReachableKept DEF ReadReturn, NothingMore
    <3>3. CASE stat = REQ_CLOSE /\ ClosedBy(op)
      BY <1>t, <1>n, <1>17, <3>3, ReachableClosedBy DEF ReadReturn
    <3> QED
      BY <3>1, <3>2, <3>3
  <2> QED
    BY <2>a, <2>b
<1>18. ASSUME NEW thrown \in BOOLEAN, WrittenReturn(thrown) PROVE Reachable'
  <2>a. CASE Sendable /\ wq # <<>>
    <3>1. \A o \in SetupOps : op'[o] # "none" => op[o] # "none"
      BY <1>t, <1>n, <1>18, <2>a DEF WrittenReturn, NothingMore, SetupOps, OpType, Ops
    <3> QED
      BY <1>t, <1>n, <1>18, <2>a, <3>1, ReachableKept DEF WrittenReturn, NothingMore
  <2>b. CASE ~(Sendable /\ wq # <<>>)
    <3>1. NothingMore(op) \/ (stat = REQ_CLOSE /\ ClosedBy(op))
      BY <1>t, <1>n, <1>18, <2>b, HandleReqCloseFacts DEF WrittenReturn
    <3>2. CASE NothingMore(op)
      BY <1>t, <1>n, <1>18, <3>2, ReachableKept DEF WrittenReturn, NothingMore
    <3>3. CASE stat = REQ_CLOSE /\ ClosedBy(op)
      BY <1>t, <1>n, <1>18, <3>3, ReachableClosedBy DEF WrittenReturn
    <3> QED
      BY <3>1, <3>2, <3>3
  <2> QED
    BY <2>a, <2>b
<1>19. ASSUME NEW thrown \in BOOLEAN, DisconnectedReturn(thrown) PROVE Reachable'
  <2>1. phase = "disconnected" /\ \A o \in SetupOps : op[o] = "none"
    BY <1>t, <1>n, <1>19 DEF DisconnectedReturn, OpsPhase, SetupOps
  <2>2. \A o \in SetupOps : op'[o] = "none"
    BY <1>t, <1>n, <1>19, <2>1, AbortOpsFacts
    DEF DisconnectedReturn, ReleaseChannel, CloseImmediately, CloseSocket, SetupOps, Ops
  <2>3. connected' = FALSE /\ phase' \in Live
    BY <1>t, <1>n, <1>19, <2>1 DEF DisconnectedReturn, StatPhase, Live
  <2> QED
    BY <2>2, <2>3, ReachableGone
<1>20. ASSUME NEW thrown \in BOOLEAN, PlainReturn(thrown) PROVE Reachable'
  BY <1>t, <1>n, <1>20, ReachableKept DEF PlainReturn, SetupOps
<1>21. ASSUME NEW thrown \in BOOLEAN, NEW serialized \in BOOLEAN, WriteReturn(thrown, serialized) PROVE Reachable'
  <2>1. \A p \in SetupOps : op'[p] # "none" => op[p] # "none"
    BY <1>t, <1>n, <1>21 DEF WriteReturn, SetupOps, OpType, Ops
  <2> QED
    BY <1>t, <1>n, <1>21, <2>1, ReachableKept DEF WriteReturn
<1>22. CASE ReadAgain
  BY <1>t, <1>n, <1>22, ReachableKept DEF ReadAgain, SetupOps
<1>23. ASSUME NEW o \in Ops, NetComplete(o) PROVE Reachable'
  <2>1. \A p \in SetupOps : op'[p] # "none" => op[p] # "none"
    BY <1>t, <1>n, <1>23 DEF NetComplete, SetupOps, OpType, Ops
  <2> QED
    BY <1>t, <1>n, <1>23, <2>1, ReachableKept DEF NetComplete
<1>24. CASE ResolveComplete
  <2>1. phase = "created" /\ ~Server /\ op["handshake"] = "none" /\ op["connect"] = "none"
    BY <1>t, <1>n, <1>24 DEF ResolveComplete, Completing, Completed, OpsPhase, SetupOnce
  <2>2. connected = FALSE
    BY <1>t, <1>n, <2>1 DEF StatPhase
  <2>3. connected' = FALSE /\ ~Server' /\ op'["handshake"] = "none"
    BY <1>t, <1>n, <1>24, <2>1, <2>2 DEF ResolveComplete, Server, OpType, Ops
  <2>4. op'["connect"] # "none" => socket' = "open"
    BY <1>t, <1>n, <1>24, <2>1 DEF ResolveComplete, OpType, Ops
  <2> QED
    BY <2>3, <2>4 DEF Reachable
<1>25. CASE ConnectComplete
  <2>1. inMap' /\ socket' = "open"
    BY <1>t, <1>n, <1>25 DEF ConnectComplete, Completing, Completed, StrandFree, Reachable
  <2> QED
    BY <2>1 DEF Reachable
<1>26. CASE ConnectFailed
  <2>1. \A p \in SetupOps : op'[p] # "none" => op[p] # "none"
    BY <1>t, <1>n, <1>26 DEF ConnectFailed, SetupOps, OpType, Ops
  <2> QED
    BY <1>t, <1>n, <1>26, <2>1, ReachableKept DEF ConnectFailed
<1>27. CASE ConnectNotInserted
  <2>1. phase = "created" /\ ~Server /\ op["handshake"] = "none"
    BY <1>t, <1>n, <1>27 DEF ConnectNotInserted, Completing, Completed, OpsPhase, SetupOnce
  <2>2. connected' = FALSE /\ ~Server'
    BY <1>t, <1>n, <1>27, <2>1 DEF ConnectNotInserted, StatPhase, Server
  <2>3. [op EXCEPT !["connect"] = "none"] \in OpType
    BY <1>t, <1>n, OpUpdate DEF Ops, OpStates
  <2>4. \A p \in Ops : op'[p] = "none" <=> [op EXCEPT !["connect"] = "none"][p] = "none"
    BY <1>27, <2>3, AbortOpsFacts DEF ConnectNotInserted, CloseImmediately, CloseSocket
  <2>5. op'["handshake"] = "none" /\ op'["connect"] = "none"
    BY <1>t, <1>n, <2>1, <2>4 DEF OpType, Ops
  <2> QED
    BY <2>2, <2>5 DEF Reachable
<1>28. CASE HandshakeComplete
  <2>1. inMap' /\ socket' = "open"
    BY <1>t, <1>n, <1>28 DEF HandshakeComplete, Completing, Completed, StrandFree, Reachable
  <2> QED
    BY <2>1 DEF Reachable
<1>29. CASE ReadComplete
  <2>1. \A p \in SetupOps : op'[p] # "none" => op[p] # "none"
    BY <1>t, <1>n, <1>29 DEF ReadComplete, SetupOps, OpType, Ops
  <2> QED
    BY <1>t, <1>n, <1>29, <2>1, ReachableKept DEF ReadComplete
<1>30. CASE ReadFailed
  <2>1. phase = "connected" /\ connected
    BY <1>t, <1>n, <1>30 DEF ReadFailed, Completing, Completed, OpsPhase, StatPhase
  <2>2. phase' \in Live /\ connected' = FALSE
    BY <1>30, <2>1 DEF ReadFailed, EnterDisconnected, Live
  <2>3. \A o \in SetupOps : op'[o] = "none"
    BY <1>t, <1>n, <1>30, <2>1 DEF ReadFailed, OpsPhase, SetupOps, OpType, Ops
  <2> QED
    BY <2>2, <2>3, ReachableGone
<1>31. CASE WriteComplete
  <2> DEFINE o == [op EXCEPT !["write"] = "none"]
  <2>1. o \in OpType /\ \A p \in SetupOps : o[p] = op[p]
    BY <1>t, <1>n, OpUpdate DEF Ops, OpStates, SetupOps, OpType
  <2>2. UNCHANGED <<kind, inMap, proc>>
    BY <1>31 DEF WriteComplete
  <2>3. CASE op' = o /\ UNCHANGED <<connected, phase, socket>>
    BY <1>t, <1>n, <2>1, <2>2, <2>3, ReachableKept
  <2>4. CASE stat = REQ_CLOSE /\ ClosedBy(o)
    BY <1>t, <1>n, <2>1, <2>2, <2>4, ReachableClosedBy
  <2> QED
    BY <1>t, <1>n, <1>31, <2>1, <2>3, <2>4, HandleReqCloseFacts DEF WriteComplete, NothingMore
<1>32. CASE ShutdownComplete
  <2>1. phase \in Live /\ \A o \in SetupOps : op[o] = "none"
    BY <1>t, <1>n, <1>32 DEF ShutdownComplete, OpsPhase, SetupOps, Live
  <2>2. \A o \in SetupOps : op'[o] = "none"
    BY <1>t, <1>n, <1>32, <2>1, AbortOpsFacts
    DEF ShutdownComplete, ShutdownHandler, CloseSocket, SetupOps, Ops
  <2>3. connected' = FALSE /\ phase' \in Live
    <3>1. CASE connected
      BY <1>32, <3>1 DEF ShutdownComplete, ShutdownHandler, EnterDisconnected, Live
    <3>2. CASE connected = FALSE
      BY <1>32, <2>1, <3>2 DEF ShutdownComplete, ShutdownHandler, EnterDisconnected
    <3> QED
      BY <1>n, <3>1, <3>2
  <2> QED
    BY <2>2, <2>3, ReachableGone
<1>33. CASE UNCHANGED vars
  BY <1>t, <1>n, <1>33 DEF vars, Reachable, Server
<1> QED
  BY <1>1, <1>2, <1>3, <1>4, <1>5, <1>6, <1>7, <1>8, <1>9, <1>10, <1>11,
     <1>12, <1>13, <1>14, <1>15, <1>16, <1>17, <1>18, <1>19, <1>20, <1>21,
     <1>22, <1>23, <1>24, <1>25, <1>26, <1>27, <1>28, <1>29, <1>30, <1>31,
     <1>32, <1>33
  DEF Next, RunPosted, CallbackReturn, ConnectDone, ReadDone, Close

\* Every step is a step of ChannelCallbacks, or is not visible there.
LEMMA CallbackStep == IInv /\ [Next]_vars => [CB!Next]_(CB!vars)
<1> SUFFICES ASSUME IInv, [Next]_vars PROVE [CB!Next]_(CB!vars)
  OBVIOUS
<1> USE DEF wqVars, sockVars, lifeVars
<1>t. TypeOK /\ op \in OpType /\ StatPhase /\ OpsPhase /\ SetupOnce
  BY DEF IInv, TypeOK, OpType
<1>1. CASE WriteChannel
  BY <1>1 DEF WriteChannel, CB!vars
<1>2. CASE FireUserEvent
  BY <1>2 DEF FireUserEvent, CB!vars
<1>3. CASE CallbackClose
  BY <1>3 DEF CallbackClose, CB!vars
<1>4. CASE StopService
  BY <1>4 DEF StopService, CB!vars
<1>5. ASSUME NEW c \in Closers, CloserLookup(c) PROVE [CB!Next]_(CB!vars)
  BY <1>5 DEF CloserLookup, CB!vars
<1>6. ASSUME NEW c \in Closers, CloserTest(c) PROVE [CB!Next]_(CB!vars)
  BY <1>6 DEF CloserTest, CB!vars
<1>7. ASSUME NEW c \in Closers, CloserSet(c) PROVE [CB!Next]_(CB!vars)
  BY <1>7 DEF CloserSet, CB!vars
<1>8. ASSUME NEW c \in Closers, CloserPost(c) PROVE [CB!Next]_(CB!vars)
  BY <1>8 DEF CloserPost, CB!vars
<1>9. CASE RunCreated
  <2>1. phase = "new"
    BY <1>t, <1>9, RunningFacts DEF RunCreated, SetupOnce
  <2> QED
    BY <1>9, <2>1 DEF RunCreated, CB!Next, CB!Created
<1>10. CASE RunDoConnect
  BY <1>10 DEF RunDoConnect, CB!vars
<1>11. CASE RunWrite
  BY <1>11, <1>t, RunningFacts DEF RunWrite, CB!Next, CB!Free, CB!FreeCallbacks
<1>12. CASE RunClose
  <2>1. pc = "idle"
    BY <1>t, <1>12, RunningFacts DEF RunClose
  <2>2. CASE pc' = "idle" /\ UNCHANGED phase
    BY <2>1, <2>2 DEF CB!vars
  <2>3. CASE ClosedBy(op)
    BY <1>t, <2>1, <2>3 DEF ClosedBy, StatPhase, CB!vars, CB!Next, CB!Disconnected
  <2> QED
    BY <1>t, <1>12, <2>1, <2>2, <2>3, RunCloseFacts DEF NothingMore
<1>13. ASSUME NEW name \in {"exception", "event"}, RunPlain(name) PROVE [CB!Next]_(CB!vars)
  BY <1>13, <1>t, RunningFacts DEF RunPlain, CB!Next, CB!Free, CB!FreeCallbacks
<1>14. ASSUME NEW thrown \in BOOLEAN, CreatedReturn(thrown) PROVE [CB!Next]_(CB!vars)
  <2>1. phase = "created" /\ pc = "created"
    BY <1>t, <1>14 DEF CreatedReturn, OpsPhase
  <2> QED
    BY <1>14, <2>1 DEF CreatedReturn, CallChannelConnected, CB!Next, CB!Connected, CB!Return
<1>15. ASSUME NEW thrown \in BOOLEAN, ConnectedReturn(thrown) PROVE [CB!Next]_(CB!vars)
  <2>1. NothingMore(op) \/ (stat = REQ_CLOSE /\ ClosedBy(op)) \/ (pc' = "idle" /\ UNCHANGED phase)
    BY <1>t, <1>15, HandleReqCloseFacts DEF ConnectedReturn, NothingMore
  <2>2. pc # "idle"
    BY <1>15 DEF ConnectedReturn
  <2> QED
    BY <1>t, <2>1, <2>2 DEF NothingMore, ClosedBy, StatPhase, CB!Next, CB!Return, CB!Disconnected
<1>16. ASSUME NEW thrown \in BOOLEAN, ReadBufEmpty(thrown) PROVE [CB!Next]_(CB!vars)
  BY <1>t, <1>16 DEF ReadBufEmpty, StatPhase, CB!Next, CB!Data, CB!DataCallbacks
<1>17. ASSUME NEW thrown \in BOOLEAN, ReadReturn(thrown) PROVE [CB!Next]_(CB!vars)
  <2>1. NothingMore(op) \/ (stat = REQ_CLOSE /\ ClosedBy(op)) \/ (pc' = "idle" /\ UNCHANGED phase)
    BY <1>t, <1>17, HandleReqCloseFacts DEF ReadReturn, NothingMore
  <2>2. pc # "idle"
    BY <1>17 DEF ReadReturn
  <2> QED
    BY <1>t, <2>1, <2>2 DEF NothingMore, ClosedBy, StatPhase, CB!Next, CB!Return, CB!Disconnected
<1>18. ASSUME NEW thrown \in BOOLEAN, WrittenReturn(thrown) PROVE [CB!Next]_(CB!vars)
  <2>1. NothingMore(op) \/ (stat = REQ_CLOSE /\ ClosedBy(op)) \/ (pc' = "idle" /\ UNCHANGED phase)
    BY <1>t, <1>18, HandleReqCloseFacts DEF WrittenReturn, NothingMore
  <2>2. pc # "idle"
    BY <1>18 DEF WrittenReturn
  <2> QED
    BY <1>t, <2>1, <2>2 DEF NothingMore, ClosedBy, StatPhase, CB!Next, CB!Return, CB!Disconnected
<1>19. ASSUME NEW thrown \in BOOLEAN, DisconnectedReturn(thrown) PROVE [CB!Next]_(CB!vars)
  BY <1>t, <1>19 DEF DisconnectedReturn, CB!Next, CB!Return, ReleaseChannel
<1>20. ASSUME NEW thrown \in BOOLEAN, PlainReturn(thrown) PROVE [CB!Next]_(CB!vars)
  BY <1>t, <1>20 DEF PlainReturn, CB!Next, CB!Return
<1>21. ASSUME NEW thrown \in BOOLEAN, NEW serialized \in BOOLEAN, WriteReturn(thrown, serialized) PROVE [CB!Next]_(CB!vars)
  BY <1>t, <1>21 DEF WriteReturn, CB!Next, CB!Return
<1>22. CASE ReadAgain
  BY <1>22 DEF ReadAgain, CB!vars
<1>23. ASSUME NEW o \in Ops, NetComplete(o) PROVE [CB!Next]_(CB!vars)
  BY <1>23 DEF NetComplete, CB!vars
<1>24. CASE ResolveComplete
  BY <1>24 DEF ResolveComplete, CB!vars
<1>25. CASE ConnectComplete
  <2>1. phase = "created"
    BY <1>t, <1>25 DEF ConnectComplete, Completing, Completed, OpsPhase
  <2> QED
    BY <1>25, <2>1 DEF ConnectComplete, CallChannelConnected, Completing, StrandFree,
                      CB!vars, CB!Next, CB!Connected
<1>26. CASE ConnectFailed
  BY <1>26 DEF ConnectFailed, CB!vars
<1>27. CASE ConnectNotInserted
  BY <1>27 DEF ConnectNotInserted, CB!vars
<1>28. CASE HandshakeComplete
  <2>1. phase = "created"
    BY <1>t, <1>28 DEF HandshakeComplete, Completing, Completed, OpsPhase
  <2> QED
    BY <1>28, <2>1 DEF HandshakeComplete, CallChannelConnected, Completing, StrandFree,
                      CB!vars, CB!Next, CB!Connected
<1>29. CASE ReadComplete
  BY <1>t, <1>29
  DEF ReadComplete, Completing, Completed, OpsPhase, CB!Next, CB!Data, CB!DataCallbacks
<1>30. CASE ReadFailed
  <2>1. phase = "connected" /\ connected
    BY <1>t, <1>30 DEF ReadFailed, Completing, Completed, OpsPhase, StatPhase
  <2> QED
    BY <1>30, <2>1 DEF ReadFailed, EnterDisconnected, CB!Next, CB!Disconnected
<1>31. CASE WriteComplete
  <2> DEFINE o == [op EXCEPT !["write"] = "none"]
  <2>1. o \in OpType /\ pc = "idle"
    BY <1>t, <1>31, OpUpdate DEF WriteComplete, Completing, StrandFree, Ops, OpStates
  <2>2. CASE op["write"] = "ok" /\ MayCallWritten
    BY <1>t, <1>31, <2>2
    DEF WriteComplete, MayCallWritten, StatPhase, CB!Next, CB!Data, CB!DataCallbacks
  <2>3. CASE NothingMore(o)
    BY <2>1, <2>3 DEF NothingMore, CB!vars
  <2>4. CASE ClosedBy(o)
    BY <1>t, <2>1, <2>4 DEF ClosedBy, StatPhase, CB!vars, CB!Next, CB!Disconnected
  <2> QED
    BY <1>t, <1>31, <2>1, <2>2, <2>3, <2>4, HandleReqCloseFacts DEF WriteComplete
<1>32. CASE ShutdownComplete
  <2>1. pc = "idle"
    BY <1>32 DEF ShutdownComplete, StrandFree
  <2>a. CASE connected
    BY <1>t, <1>32, <2>a DEF ShutdownComplete, ShutdownHandler, EnterDisconnected, StatPhase,
                           CB!Next, CB!Disconnected
  <2>b. CASE ~connected
    BY <1>32, <2>1, <2>b DEF ShutdownComplete, ShutdownHandler, CB!vars
  <2> QED
    BY <2>a, <2>b
<1>33. CASE UNCHANGED vars
  BY <1>t, <1>33 DEF vars, CB!vars
<1> QED
  BY <1>1, <1>2, <1>3, <1>4, <1>5, <1>6, <1>7, <1>8, <1>9, <1>10, <1>11,
     <1>12, <1>13, <1>14, <1>15, <1>16, <1>17, <1>18, <1>19, <1>20, <1>21,
     <1>22, <1>23, <1>24, <1>25, <1>26, <1>27, <1>28, <1>29, <1>30, <1>31,
     <1>32, <1>33
  DEF Next, RunPosted, CallbackReturn, ConnectDone, ReadDone, Close

-------------------------------------------------------------------------------
(* The theorems.                                                            *)

\* IInv is an inductive invariant: whatever the closers, the peer, the stop of
\* the service and throwing callbacks do, and in whatever order.
THEOREM Inductive == Spec => []IInv
<1>1. Init => IInv
  BY InitIInv
<1>2. IInv /\ [Next]_vars => IInv'
  BY TypeStep, QueueStep, TasksStep, ShutdownStep, StatStep, OpsStep, SetupStep, ReachableStep
  DEF IInv
<1> QED
  BY <1>1, <1>2, PTL DEF Spec

\* Every variable of the channel keeps its type, for any closers and any number of
\* writes, user events and exceptions.  It needs QueueHead: write_complete pops
\* _write_buf_queue without a test.
THEOREM TypeCorrect == Spec => []TypeOK
<1>1. IInv => TypeOK
  BY DEF IInv
<1> QED
  BY <1>1, Inductive, PTL

\* is_channel_busy() never answers "idle" while a connect, handshake, read or
\* write is outstanding.
THEOREM TasksCoverOpsHolds == Spec => []TasksCoverOps
<1>1. IInv => TasksCoverOps
  BY DEF IInv
<1> QED
  BY <1>1, Inductive, PTL

\* A channel between channel_connected and channel_disconnected is in
\* _channel_contexts and its socket is open.
THEOREM ConnectedIsReachableHolds == Spec => []ConnectedIsReachable
<1>1. IInv => ConnectedIsReachable
  BY DEF IInv, Reachable, ConnectedIsReachable
<1> QED
  BY <1>1, Inductive, PTL

\* The callbacks of the pipeline come in the order of ChannelCallbacks.
THEOREM CallbackOrderHolds == Spec => CallbackOrder
<1>1. Init => CB!Init
  BY DEF Init, CB!Init
<1>2. IInv /\ [Next]_vars => [CB!Next]_(CB!vars)
  BY CallbackStep
<1> QED
  BY <1>1, <1>2, Inductive, PTL DEF Spec, CallbackOrder, CB!Spec

-----------------------------------------------------------------------------
(* The order of the writes, and what becomes of a channel that is closed.   *)

\* The buffers are numbered by write_channel, and only the channel_write callback
\* works on one.
Numbered ==
  /\ cur # 0 <=> pc = "write"
  /\ sent <= count["write"] /\ cur <= count["write"]
  /\ \A i \in 1 .. Len(wq) : wq[i] <= count["write"]
  /\ \A i \in PostedWrites : 1 <= posted[i][2] /\ posted[i][2] <= count["write"]

\* A channel that is closed before it was connected is not set up any further.
SetupOver ==
  proc = "running" /\ stat = CLOSED /\ phase \in {"new", "created"} =>
    /\ phase = "created" /\ pc # "created" /\ ~ConnectPosted
    /\ \A o \in SetupOps : op[o] = "none"

\* As long as no other thread has stored REQ_CLOSE, a channel is shut down by the
\* step that closes it.
ShutOnce ==
  NoLateStore =>
    /\ proc # "terminated"
    /\ phase = "disconnected" => stat >= DISCONNECTED
    /\ proc = "running" => issued <= 1 /\ (stat # CLOSED => issued = 0)

ClosePosted == \E i \in 1 .. Len(posted) : posted[i][1] = "close"

\* A task of _task_in_progress stands for something that is to come, or for buffers
\* that are queued.
IsReal(t) == op[t] # "none" \/ (t = "connect" /\ ConnectPosted) \/ (t = "write" /\ wq # <<>>)
TasksAreReal == \A t \in tasks : IsReal(t)

\* A close that was asked for has someone to carry it out.
CloseIsHeld ==
  \/ ClosePosted \/ (\E c \in Closers : closer[c] = "post")
  \/ shut > 0 \/ (\E t \in Tasks : op[t] # "none") \/ "write" \in tasks
  \/ pc \in {"connected", "read", "rdbuf_empty", "written"}

\* What a channel in the map is waiting for: its first lambda, ...
FirstLambda == phase = "new" => posted # <<>> /\ posted[1][1] = "created"

\* ... the end of its set-up, ...
SetupHeld ==
  phase \in {"new", "created"} /\ inMap /\ ~Ssl => Server /\ (phase = "created" => pc = "created")

\* ... a read or its close, ...
ConnectedHeld ==
  phase = "connected" =>
    /\ stat \in {CONNECTED, REQ_CLOSE, CLOSED}
    /\ stat = CONNECTED => op["read"] # "none" \/ pc \in {"connected", "read", "rdbuf_empty"}
    /\ stat = REQ_CLOSE => CloseIsHeld
    /\ stat = CLOSED => shut > 0

\* ... or the end of the disconnected callback.
LeavesMap == phase = "disconnected" /\ inMap => pc = "disconnected"

Anchored == proc = "running" => FirstLambda /\ SetupHeld /\ ConnectedHeld /\ LeavesMap

-------------------------------------------------------------------------------
(* How a handler ends.                                                      *)

\* close_gracefully of a channel with the operations o: at once, or by a shutdown of
\* the SSL stream.
Graceful(o) ==
  /\ stat' = CLOSED
  /\ \A p \in Ops : op'[p] = "none" <=> o[p] = "none"
  /\ \/ /\ connected /\ phase' = "disconnected" /\ pc' = "disconnected"
        /\ UNCHANGED <<shut, issued>>
     \/ /\ ~connected /\ pc' = "idle" /\ UNCHANGED <<connected, phase, shut, issued>>
     \/ /\ socket = "open" /\ pc' = "idle" /\ UNCHANGED <<connected, phase>>
        /\ shut' = shut + 1 /\ issued' = issued + 1
     \/ /\ socket # "open" /\ pc' = "idle" /\ UNCHANGED <<connected, phase, shut, issued>>

\* close_gracefully does what Graceful says.
LEMMA GracefulFacts ==
  ASSUME TypeOK, NEW o \in OpType, CloseGracefully(o)
  PROVE  Graceful(o)
<1>1. CASE ~Ssl
  <2>1. \A p \in Ops : op'[p] = "none" <=> o[p] = "none"
    BY <1>1, AbortOpsFacts DEF CloseGracefully, ShutdownHandler, CloseSocket
  <2>2. stat' = CLOSED /\ UNCHANGED <<shut, issued>>
    BY <1>1 DEF CloseGracefully, ShutdownHandler
  <2>3. CASE connected
    BY <1>1, <2>1, <2>2, <2>3 DEF CloseGracefully, ShutdownHandler, EnterDisconnected, Graceful
  <2>4. CASE ~connected
    BY <1>1, <2>1, <2>2, <2>4 DEF CloseGracefully, ShutdownHandler, Graceful
  <2> QED
    BY <2>3, <2>4
<1>2. CASE Ssl /\ socket = "open"
  BY <1>2 DEF CloseGracefully, Graceful
<1>3. CASE Ssl /\ socket # "open"
  BY <1>3 DEF CloseGracefully, Graceful
<1> QED
  BY <1>1, <1>2, <1>3

\* The end of a handler: nothing, or the close that was asked for.
Ended(t, o) == NothingMore(o) \/ (stat = REQ_CLOSE /\ t = {} /\ Graceful(o))

\* handle_req_close leaves a close undone only while the channel is busy.
LEMMA EndFacts ==
  ASSUME TypeOK, NEW t, NEW o \in OpType, HandleReqClose(t, o)
  PROVE  Ended(t, o) /\ (NothingMore(o) => ~(stat = REQ_CLOSE /\ t = {}) \/ Graceful(o))
<1>1. CASE CloseWanted /\ ~Busy(t)
  BY <1>1, GracefulFacts DEF HandleReqClose, CloseWanted, Busy, Ended
<1>2. CASE ~(CloseWanted /\ ~Busy(t))
  BY <1>2 DEF HandleReqClose, CloseWanted, Busy, Ended
<1> QED
  BY <1>1, <1>2

\* The end of the callbacks that read on or close.
ReadsOn ==
  /\ stat = CONNECTED /\ tasks' = tasks \cup {"read"}
  /\ op' = [op EXCEPT !["read"] = "pending"] /\ pc' = "idle"
  /\ UNCHANGED <<stat, connected, phase, socket, shut, issued>>

Goes ==
  \/ ReadsOn
  \/ /\ stat # CONNECTED /\ tasks' = tasks /\ Ended(tasks, op)
     /\ NothingMore(op) => ~(stat = REQ_CLOSE /\ tasks = {}) \/ Graceful(op)

\* call_channel_connected and call_channel_read after their callbacks.
LEMMA ConnectedReturnFacts ==
  ASSUME TypeOK, NEW thrown, ConnectedReturn(thrown) \/ ReadReturn(thrown)
  PROVE  /\ Goes /\ proc = "running" /\ pc \in {"connected", "read", "rdbuf_empty"}
         /\ posted' = Report(thrown, posted) /\ Throws(thrown)
         /\ UNCHANGED <<kind, wq, sent, cur, inMap, proc, closer>>
<1>1. /\ proc = "running" /\ pc \in {"connected", "read", "rdbuf_empty"}
      /\ posted' = Report(thrown, posted) /\ Throws(thrown)
      /\ UNCHANGED <<kind, wq, sent, cur, inMap, proc, closer>>
  BY DEF ConnectedReturn, ReadReturn, wqVars
<1>2. op \in OpType
  BY DEF TypeOK, OpType
<1>3. CASE stat = CONNECTED
  BY <1>1, <1>3 DEF ConnectedReturn, ReadReturn, NothingMore, Goes, ReadsOn
<1>4. CASE stat # CONNECTED
  <2>1. HandleReqClose(tasks, op) /\ tasks' = tasks
    BY <1>4 DEF ConnectedReturn, ReadReturn
  <2> QED
    BY <1>1, <1>2, <1>4, <2>1, EndFacts DEF Goes
<1> QED
  BY <1>3, <1>4

\* call_channel_written after its callback.
LEMMA WrittenReturnFacts ==
  ASSUME TypeOK, NEW thrown, WrittenReturn(thrown)
  PROVE  /\ proc = "running" /\ pc = "written"
         /\ posted' = Report(thrown, posted) /\ Throws(thrown)
         /\ UNCHANGED <<kind, wq, cur, inMap, proc, closer>>
         /\ \/ /\ wq # <<>> /\ stat \in {BOUND, CONNECTED} /\ sent' = Head(wq) /\ pc' = "idle"
               /\ tasks' = tasks \cup {"write"} /\ op' = [op EXCEPT !["write"] = "pending"]
               /\ UNCHANGED <<stat, connected, phase, socket, shut, issued>>
            \/ /\ tasks' = tasks /\ sent' = sent /\ Ended(tasks, op)
               /\ NothingMore(op) => ~(stat = REQ_CLOSE /\ tasks = {}) \/ Graceful(op)
<1>1. /\ proc = "running" /\ pc = "written"
      /\ posted' = Report(thrown, posted) /\ Throws(thrown)
      /\ UNCHANGED <<kind, wq, cur, inMap, proc, closer>>
  BY DEF WrittenReturn
<1>2. op \in OpType
  BY DEF TypeOK, OpType
<1>3. CASE Sendable /\ wq # <<>>
  BY <1>1, <1>3 DEF WrittenReturn, NothingMore, Sendable
<1>4. CASE ~(Sendable /\ wq # <<>>)
  <2>1. HandleReqClose(tasks, op) /\ tasks' = tasks /\ sent' = sent
    BY <1>4 DEF WrittenReturn
  <2> QED
    BY <1>1, <1>2, <2>1, EndFacts
<1> QED
  BY <1>3, <1>4

\* write_complete.
LEMMA WriteCompleteFacts ==
  ASSUME TypeOK, WriteComplete
  PROVE  LET o == [op EXCEPT !["write"] = "none"]
             t == tasks \ {"write"}
         IN  /\ proc = "running" /\ pc = "idle" /\ op["write"] # "none" /\ o \in OpType
             /\ wq' = Tail(wq) /\ tasks' = t
             /\ UNCHANGED <<kind, sent, cur, inMap, proc, count, closer>>
             /\ \E b \in BOOLEAN : posted' = Report(b, posted)
             /\ \/ /\ op' = o /\ pc' = "written"
                   /\ UNCHANGED <<stat, connected, phase, socket, shut, issued>>
                \/ /\ Ended(t, o)
                   /\ NothingMore(o) => ~(stat = REQ_CLOSE /\ t = {}) \/ Graceful(o)
<1> DEFINE o == [op EXCEPT !["write"] = "none"]
           t == tasks \ {"write"}
<1>1. /\ proc = "running" /\ pc = "idle" /\ op["write"] # "none"
      /\ wq' = Tail(wq) /\ tasks' = t
      /\ UNCHANGED <<kind, sent, cur, inMap, proc, count, closer>>
  BY DEF WriteComplete, Completing, Completed, StrandFree, Cleared, RemoveSentData
<1>2. o \in OpType
  BY OpUpdate DEF TypeOK, OpType, Ops, OpStates
<1>3. CASE op["write"] = "ok" /\ MayCallWritten
  <2>1. posted' = Report(FALSE, posted)
    BY <1>3 DEF WriteComplete, Report
  <2>2. op' = o /\ pc' = "written" /\ UNCHANGED <<stat, connected, phase, socket, shut, issued>>
    BY <1>3 DEF WriteComplete, lifeVars
  <2> QED
    BY <1>1, <1>2, <2>1, <2>2
<1>4. CASE ~(op["write"] = "ok" /\ MayCallWritten)
  <2>1. HandleReqClose(t, o) /\ posted' = Report(op["write"] # "ok", posted)
    BY <1>4 DEF WriteComplete, Cleared
  <2>2. (op["write"] # "ok") \in BOOLEAN
    OBVIOUS
  <2> HIDE DEF o, t
  <2>3. Ended(t, o) /\ (NothingMore(o) => ~(stat = REQ_CLOSE /\ t = {}) \/ Graceful(o))
    BY <1>2, <2>1, EndFacts
  <2>4. \E b \in BOOLEAN : posted' = Report(b, posted)
    BY <2>1, <2>2
  <2> QED
    BY <1>1, <1>2, <2>3, <2>4 DEF o, t
<1> QED
  BY <1>3, <1>4

\* The lambda of fire_channel_close.
LEMMA CloseLambdaFacts ==
  ASSUME TypeOK, RunClose
  PROVE  /\ Running("close") /\ UNCHANGED <<kind, tasks, wq, sent, cur, inMap, count, closer>>
         /\ \/ stat # REQ_CLOSE /\ NothingMore(op) /\ proc' = proc
            \/ stat = REQ_CLOSE /\ tasks = {} /\ Graceful(op) /\ proc' = proc
            \/ /\ stat = REQ_CLOSE /\ tasks # {}
               /\ \A p \in Ops : op'[p] = "none" <=> op[p] = "none"
               /\ UNCHANGED <<stat, connected, phase, socket, shut, issued, pc>>
               /\ proc' = proc \/ (proc' = "terminated" /\ socket # "open")
<1>1. op \in OpType
  BY DEF TypeOK, OpType
<1>2. Running("close") /\ UNCHANGED <<kind, tasks, wq, sent, cur, inMap, count, closer>>
  BY DEF RunClose, wqVars
<1>3. CASE ~CloseWanted
  BY <1>2, <1>3 DEF RunClose, CancelWanted, CloseWanted
<1>4. CASE CloseWanted /\ ~Busy(tasks)
  BY <1>1, <1>2, <1>4, GracefulFacts DEF RunClose, CancelWanted, CloseWanted, Busy
<1>5. CASE CancelWanted
  BY <1>1, <1>2, <1>5, AbortOpsFacts DEF RunClose, CancelWanted, CloseWanted, Busy, lifeVars
<1> QED
  BY <1>3, <1>4, <1>5 DEF CancelWanted

-------------------------------------------------------------------------------
(* stat.                                                                    *)

\* Only the store of another thread takes stat back.
LEMMA StatRises == IInv /\ [Next]_vars => [stat' < stat => \E c \in Closers : CloserSet(c)]_vars
<1> SUFFICES ASSUME IInv, [Next]_vars, ~\E c \in Closers : CloserSet(c) PROVE ~(stat' < stat)
  OBVIOUS
<1> USE DEF wqVars, sockVars, lifeVars
<1>t. TypeOK /\ op \in OpType /\ stat \in 0 .. 7
  BY DEF IInv, TypeOK, OpType, Stats
<1>1. CASE WriteChannel
  BY <1>t, <1>1
  DEF WriteChannel
<1>2. CASE FireUserEvent
  BY <1>t, <1>2
  DEF FireUserEvent
<1>3. CASE CallbackClose
  BY <1>t, <1>3
  DEF CallbackClose, Closable
<1>4. CASE StopService
  BY <1>t, <1>4, AbortOpsFacts
  DEF StopService, CloseImmediately, CloseSocket
<1>5. ASSUME NEW c \in Closers, CloserLookup(c) PROVE ~(stat' < stat)
  BY <1>t, <1>5
  DEF CloserLookup
<1>6. ASSUME NEW c \in Closers, CloserTest(c) PROVE ~(stat' < stat)
  BY <1>t, <1>6
  DEF CloserTest, Closable
<1>7. ASSUME NEW c \in Closers, CloserSet(c) PROVE ~(stat' < stat)
  BY <1>7
<1>8. ASSUME NEW c \in Closers, CloserPost(c) PROVE ~(stat' < stat)
  BY <1>t, <1>8
  DEF CloserPost
<1>9. CASE RunCreated
  BY <1>t, <1>9
  DEF RunCreated, Running, StrandFree
<1>10. CASE RunDoConnect
  BY <1>t, <1>10
  DEF RunDoConnect, Running, StrandFree
<1>11. CASE RunWrite
  BY <1>t, <1>11
  DEF RunWrite, Running, StrandFree
<1>12. CASE RunClose
  BY <1>t, <1>12, CloseLambdaFacts DEF Graceful, NothingMore
<1>13. ASSUME NEW name \in {"exception", "event"}, RunPlain(name) PROVE ~(stat' < stat)
  BY <1>t, <1>13
  DEF RunPlain, Running, StrandFree
<1>14. ASSUME NEW thrown \in BOOLEAN, CreatedReturn(thrown) PROVE ~(stat' < stat)
  BY <1>t, <1>14
  DEF CreatedReturn, CallChannelConnected
<1>15. ASSUME NEW thrown \in BOOLEAN, ConnectedReturn(thrown) PROVE ~(stat' < stat)
  BY <1>t, <1>15, ConnectedReturnFacts DEF Goes, ReadsOn, Ended, Graceful, NothingMore
<1>16. ASSUME NEW thrown \in BOOLEAN, ReadBufEmpty(thrown) PROVE ~(stat' < stat)
  BY <1>t, <1>16
  DEF ReadBufEmpty
<1>17. ASSUME NEW thrown \in BOOLEAN, ReadReturn(thrown) PROVE ~(stat' < stat)
  BY <1>t, <1>17, ConnectedReturnFacts DEF Goes, ReadsOn, Ended, Graceful, NothingMore
<1>18. ASSUME NEW thrown \in BOOLEAN, WrittenReturn(thrown) PROVE ~(stat' < stat)
  BY <1>t, <1>18, WrittenReturnFacts DEF Ended, Graceful, NothingMore
<1>19. ASSUME NEW thrown \in BOOLEAN, DisconnectedReturn(thrown) PROVE ~(stat' < stat)
  BY <1>t, <1>19, AbortOpsFacts
  DEF DisconnectedReturn, ReleaseChannel, CloseImmediately, CloseSocket
<1>20. ASSUME NEW thrown \in BOOLEAN, PlainReturn(thrown) PROVE ~(stat' < stat)
  BY <1>t, <1>20
  DEF PlainReturn
<1>21. ASSUME NEW thrown \in BOOLEAN, NEW serialized \in BOOLEAN, WriteReturn(thrown, serialized)
      PROVE  ~(stat' < stat)
  BY <1>t, <1>21
  DEF WriteReturn, Sendable
<1>22. CASE ReadAgain
  BY <1>t, <1>22
  DEF ReadAgain
<1>23. ASSUME NEW o \in Ops, NetComplete(o) PROVE ~(stat' < stat)
  BY <1>t, <1>23
  DEF NetComplete, Outcomes
<1>24. CASE ResolveComplete
  BY <1>t, <1>24
  DEF ResolveComplete, Completing, StrandFree
<1>25. CASE ConnectComplete
  BY <1>t, <1>25
  DEF ConnectComplete, Completing, CallChannelConnected, StrandFree, Cleared
<1>26. CASE ConnectFailed
  BY <1>t, <1>26
  DEF ConnectFailed, Completing, StrandFree, Cleared
<1>27. CASE ConnectNotInserted
  <2>1. [op EXCEPT !["connect"] = "none"] \in OpType
    BY <1>t, OpUpdate DEF Ops, OpStates
  <2> QED
    BY <1>t, <1>27, <2>1, AbortOpsFacts
    DEF ConnectNotInserted, CloseImmediately, CloseSocket, Completing, Completed,
        StrandFree, Cleared
<1>28. CASE HandshakeComplete
  <2>1. stat' = stat \/ CallChannelConnected
    BY <1>28 DEF HandshakeComplete
  <2> QED
    BY <1>t, <2>1 DEF CallChannelConnected
<1>29. CASE ReadComplete
  BY <1>t, <1>29
  DEF ReadComplete, Completing, StrandFree, Cleared
<1>30. CASE ReadFailed
  <2>1. [op EXCEPT !["read"] = "none"] \in OpType
    BY <1>t, OpUpdate DEF Ops, OpStates
  <2> QED
    BY <1>t, <1>30, <2>1, AbortOpsFacts
    DEF ReadFailed, ReleaseChannel, EnterDisconnected, CloseImmediately, CloseSocket,
        Completing, Completed, StrandFree, Cleared
<1>31. CASE WriteComplete
  BY <1>t, <1>31, WriteCompleteFacts DEF Ended, Graceful, NothingMore
<1>32. CASE ShutdownComplete
  BY <1>t, <1>32, AbortOpsFacts
  DEF ShutdownComplete, ShutdownHandler, CloseSocket, EnterDisconnected, StrandFree
<1>33. CASE UNCHANGED vars
  BY <1>t, <1>33
  DEF vars
<1> QED
  BY <1>1, <1>2, <1>3, <1>4, <1>5, <1>6, <1>7, <1>8, <1>9, <1>10, <1>11, <1>12, <1>13,
     <1>14, <1>15, <1>16, <1>17, <1>18, <1>19, <1>20, <1>21, <1>22, <1>23, <1>24, <1>25,
     <1>26, <1>27, <1>28, <1>29, <1>30, <1>31, <1>32, <1>33
  DEF Next, RunPosted, CallbackReturn, ConnectDone, ReadDone, Close

\* channel_context_base.h: whatever closes a channel, its state only moves forward,
\* but for the store of REQ_CLOSE that fire_channel_close makes in another thread.
THEOREM StateOnlyRises == Spec => OnlyLateStoreReverses
<1>1. Spec => []IInv
  BY Inductive
<1> QED
  BY <1>1, StatRises, PTL DEF Spec, OnlyLateStoreReverses

-------------------------------------------------------------------------------
(* The order of the writes.                                                 *)

\* The lambdas of write_channel are still posted as they were, or moved up by d.
WritesKept(d) ==
  \A i \in 1 .. Len(posted') :
    posted'[i][1] = "write" => i + d \in 1 .. Len(posted) /\ posted'[i] = posted[i + d]

\* A step that has nothing to do with the buffers.
QuietWrite ==
  /\ UNCHANGED <<wq, sent, cur>> /\ count'["write"] = count["write"]
  /\ op'["write"] = "none" <=> op["write"] = "none"
  /\ pc' = "write" <=> pc = "write"
  /\ WritesKept(0) \/ WritesKept(1)

\* A step that posts nothing keeps the writes.
LEMMA UnchangedKeepsWrites ==
  ASSUME TypeOK, posted' = posted PROVE WritesKept(0)
BY DEF WritesKept, TypeOK

\* So does one that posts an exception, ...
LEMMA ReportKeepsWrites ==
  ASSUME TypeOK, NEW b \in BOOLEAN, posted' = Report(b, posted) PROVE WritesKept(0)
<1>1. posted \in Seq(LambdaType)
  BY DEF TypeOK, LambdaType
<1>2. \A i \in 1 .. Len(posted') :
        posted'[i][1] = "exception" \/ (i \in 1 .. Len(posted) /\ posted'[i] = posted[i])
  BY <1>1, ReportFacts
<1> QED
  BY <1>2 DEF WritesKept

\* ... or a lambda that is not a write, ...
LEMMA AppendKeepsWrites ==
  ASSUME TypeOK, NEW q \in Seq(LambdaType), NEW b \in BOOLEAN, q = Report(b, posted),
         NEW name \in Lambdas \ {"write"}, posted' = Append(q, Lambda(name))
  PROVE  WritesKept(0)
<1>1. posted \in Seq(LambdaType)
  BY DEF TypeOK, LambdaType
<1>2. \A i \in 1 .. Len(q) :
        q[i][1] = "exception" \/ (i \in 1 .. Len(posted) /\ q[i] = posted[i])
  BY <1>1, ReportFacts
<1>3. Lambda(name) \in LambdaType /\ Lambda(name)[1] # "write"
  BY DEF Lambda, LambdaType
<1>4. \A i \in 1 .. Len(posted') :
        posted'[i][1] # "write" \/ (i \in 1 .. Len(q) /\ posted'[i] = q[i])
  BY <1>3
<1> QED
  BY <1>2, <1>4 DEF WritesKept

\* (without a throw nothing is posted)
LEMMA NoReport ==
  ASSUME TypeOK PROVE Report(FALSE, posted) = posted /\ posted \in Seq(LambdaType)
BY DEF Report, TypeOK, LambdaType

\* ... and running a lambda moves the others up.
LEMMA RunningKeepsWrites ==
  ASSUME TypeOK, NEW name, Running(name) PROVE WritesKept(1)
BY RunningFacts DEF WritesKept

\* A callback that throws hands over no buffer.
LEMMA ThrowsKeepsCount ==
  ASSUME TypeOK, NEW thrown \in BOOLEAN, Throws(thrown) PROVE count'["write"] = count["write"]
BY DEF Throws, TypeOK

\* read_complete with an error: a channel that reads is connected.
LEMMA ReadFailedFacts ==
  ASSUME IInv, ReadFailed
  PROVE  /\ proc = "running" /\ pc = "idle" /\ phase = "connected"
         /\ op' = [op EXCEPT !["read"] = "none"] /\ tasks' = tasks \ {"read"}
         /\ \E b \in BOOLEAN : posted' = Report(b, posted)
         /\ stat' = (IF stat < DISCONNECTED THEN DISCONNECTED ELSE stat)
         /\ connected' = FALSE /\ phase' = "disconnected" /\ pc' = "disconnected"
         /\ UNCHANGED <<kind, socket, shut, issued, wq, sent, cur, inMap, proc, count, closer>>
<1>1. op["read"] # "none" /\ proc = "running" /\ pc = "idle"
  BY DEF ReadFailed, Completing, Completed, StrandFree
<1>2. phase = "connected" /\ connected
  BY <1>1 DEF IInv, OpsPhase, StatPhase
<1>3. posted' = Report(op["read"] = "failed", posted) /\ (op["read"] = "failed") \in BOOLEAN
  BY DEF ReadFailed
<1>4. \E b \in BOOLEAN : posted' = Report(b, posted)
  BY <1>3
<1> QED
  BY <1>1, <1>2, <1>4 DEF ReadFailed, EnterDisconnected, Cleared, wqVars

\* Every step of the channel is quiet or works on a buffer.
LEMMA WriteSteps ==
  ASSUME IInv, [Next]_vars, ~WriteChannel, ~RunWrite, ~WriteComplete,
         ~\E thrown \in BOOLEAN : WrittenReturn(thrown),
         ~\E thrown, serialized \in BOOLEAN : WriteReturn(thrown, serialized)
  PROVE  QuietWrite
<1> USE DEF wqVars, sockVars, lifeVars
<1>t. TypeOK /\ op \in OpType /\ Ops = {"resolve", "connect", "handshake", "read", "write"}
  BY DEF IInv, TypeOK, OpType, Ops
<1>2. CASE FireUserEvent
  <2>1. posted' = Append(posted, Lambda("event")) /\ "event" \in Lambdas \ {"write"}
    BY <1>t, <1>2 DEF FireUserEvent, Lambdas
  <2>2. WritesKept(0)
    BY <1>t, <2>1, NoReport, AppendKeepsWrites
  <2> QED
    BY <1>t, <1>2, <2>2 DEF FireUserEvent, QuietWrite, TypeOK
<1>3. CASE CallbackClose
  <2>1. posted' = Append(posted, Lambda("close")) /\ "close" \in Lambdas \ {"write"}
    BY <1>t, <1>3 DEF CallbackClose, Lambdas
  <2>2. WritesKept(0)
    BY <1>t, <2>1, NoReport, AppendKeepsWrites
  <2> QED
    BY <1>t, <1>3, <2>2 DEF CallbackClose, QuietWrite, TypeOK
<1>4. CASE StopService
  BY <1>t, <1>4, AbortOpsFacts, UnchangedKeepsWrites
  DEF StopService, CloseImmediately, CloseSocket, QuietWrite, OpType
<1>5. ASSUME NEW c \in Closers, CloserLookup(c) PROVE QuietWrite
  BY <1>t, <1>5, UnchangedKeepsWrites
  DEF CloserLookup, QuietWrite, OpType
<1>6. ASSUME NEW c \in Closers, CloserTest(c) PROVE QuietWrite
  BY <1>t, <1>6, UnchangedKeepsWrites
  DEF CloserTest, Closable, QuietWrite, OpType
<1>7. ASSUME NEW c \in Closers, CloserSet(c) PROVE QuietWrite
  BY <1>t, <1>7, UnchangedKeepsWrites
  DEF CloserSet, QuietWrite, OpType
<1>8. ASSUME NEW c \in Closers, CloserPost(c) PROVE QuietWrite
  <2>1. posted' = Append(posted, Lambda("close")) /\ "close" \in Lambdas \ {"write"}
    BY <1>t, <1>8 DEF CloserPost, Lambdas
  <2>2. WritesKept(0)
    BY <1>t, <2>1, NoReport, AppendKeepsWrites
  <2> QED
    BY <1>t, <1>8, <2>2 DEF CloserPost, QuietWrite, TypeOK
<1>9. CASE RunCreated
  BY <1>t, <1>9, RunningKeepsWrites
  DEF RunCreated, Running, StrandFree, QuietWrite, OpType
<1>10. CASE RunDoConnect
  BY <1>t, <1>10, RunningKeepsWrites
  DEF RunDoConnect, Running, StrandFree, QuietWrite, OpType
<1>12. CASE RunClose
  BY <1>t, <1>12, CloseLambdaFacts, RunningKeepsWrites, RunningFacts
  DEF QuietWrite, Graceful, NothingMore
<1>13. ASSUME NEW name \in {"exception", "event"}, RunPlain(name) PROVE QuietWrite
  BY <1>t, <1>13, RunningKeepsWrites
  DEF RunPlain, Running, StrandFree, QuietWrite, OpType
<1>14. ASSUME NEW thrown \in BOOLEAN, CreatedReturn(thrown) PROVE QuietWrite
  <2>1. count'["write"] = count["write"]
    BY <1>t, <1>14, ThrowsKeepsCount DEF CreatedReturn
  <2>2. op'["write"] = "none" <=> op["write"] = "none"
    BY <1>t, <1>14 DEF CreatedReturn, OpType
  <2>3. WritesKept(0)
    <3>1. CASE posted' = Report(thrown, posted)
      BY <1>t, <3>1, ReportKeepsWrites
    <3>2. CASE posted' = Append(Report(thrown, posted), Lambda("do_connect"))
      <4>1. "do_connect" \in Lambdas \ {"write"} /\ Report(thrown, posted) \in Seq(LambdaType)
        BY <1>t, <1>14, NoReport, ReportType DEF Lambdas
      <4> QED
        BY <1>t, <1>14, <3>2, <4>1, AppendKeepsWrites
    <3> QED
      BY <1>14, <3>1, <3>2 DEF CreatedReturn
  <2> QED
    BY <1>14, <2>1, <2>2, <2>3 DEF CreatedReturn, CallChannelConnected, QuietWrite
<1>15. ASSUME NEW thrown \in BOOLEAN, ConnectedReturn(thrown) PROVE QuietWrite
  <2>1. WritesKept(0) /\ count'["write"] = count["write"]
    BY <1>t, <1>15, ConnectedReturnFacts, ReportKeepsWrites, ThrowsKeepsCount
  <2>2. op'["write"] = "none" <=> op["write"] = "none"
    BY <1>t, <1>15, ConnectedReturnFacts DEF Goes, ReadsOn, Ended, Graceful, NothingMore, OpType
  <2> QED
    BY <1>t, <1>15, <2>1, <2>2, ConnectedReturnFacts
    DEF QuietWrite, Goes, ReadsOn, Ended, Graceful, NothingMore
<1>16. ASSUME NEW thrown \in BOOLEAN, ReadBufEmpty(thrown) PROVE QuietWrite
  BY <1>t, <1>16, ReportKeepsWrites, ThrowsKeepsCount DEF ReadBufEmpty, QuietWrite
<1>17. ASSUME NEW thrown \in BOOLEAN, ReadReturn(thrown) PROVE QuietWrite
  <2>1. WritesKept(0) /\ count'["write"] = count["write"]
    BY <1>t, <1>17, ConnectedReturnFacts, ReportKeepsWrites, ThrowsKeepsCount
  <2>2. op'["write"] = "none" <=> op["write"] = "none"
    BY <1>t, <1>17, ConnectedReturnFacts DEF Goes, ReadsOn, Ended, Graceful, NothingMore, OpType
  <2> QED
    BY <1>t, <1>17, <2>1, <2>2, ConnectedReturnFacts
    DEF QuietWrite, Goes, ReadsOn, Ended, Graceful, NothingMore
<1>19. ASSUME NEW thrown \in BOOLEAN, DisconnectedReturn(thrown) PROVE QuietWrite
  <2>1. WritesKept(0) /\ count'["write"] = count["write"]
    BY <1>t, <1>19, ReportKeepsWrites, ThrowsKeepsCount DEF DisconnectedReturn
  <2>2. op'["write"] = "none" <=> op["write"] = "none"
    BY <1>t, <1>19, AbortOpsFacts
    DEF DisconnectedReturn, ReleaseChannel, CloseImmediately, CloseSocket
  <2> QED
    BY <1>19, <2>1, <2>2 DEF DisconnectedReturn, ReleaseChannel, QuietWrite
<1>20. ASSUME NEW thrown \in BOOLEAN, PlainReturn(thrown) PROVE QuietWrite
  BY <1>t, <1>20, ReportKeepsWrites, ThrowsKeepsCount DEF PlainReturn, QuietWrite
<1>22. CASE ReadAgain
  BY <1>t, <1>22, ReportKeepsWrites, ThrowsKeepsCount DEF ReadAgain, QuietWrite
<1>23. ASSUME NEW o \in Ops, NetComplete(o) PROVE QuietWrite
  BY <1>t, <1>23, UnchangedKeepsWrites
  DEF NetComplete, Outcomes, QuietWrite, OpType
<1>24. CASE ResolveComplete
  <2>1. WritesKept(0)
    BY <1>t, <1>24, ReportKeepsWrites, UnchangedKeepsWrites DEF ResolveComplete
  <2>2. op'["write"] = "none" <=> op["write"] = "none"
    BY <1>t, <1>24 DEF ResolveComplete, OpType
  <2> QED
    BY <1>24, <2>1, <2>2
    DEF ResolveComplete, Completing, StrandFree, CallChannelConnected, QuietWrite
<1>25. CASE ConnectComplete
  BY <1>t, <1>25, UnchangedKeepsWrites
  DEF ConnectComplete, Completing, CallChannelConnected, StrandFree, Cleared, QuietWrite,
      OpType
<1>26. CASE ConnectFailed
  <2>1. WritesKept(0)
    BY <1>t, <1>26, ReportKeepsWrites, UnchangedKeepsWrites DEF ConnectFailed
  <2>2. op'["write"] = "none" <=> op["write"] = "none"
    BY <1>t, <1>26 DEF ConnectFailed, OpType
  <2> QED
    BY <1>26, <2>1, <2>2
    DEF ConnectFailed, Completing, StrandFree, CallChannelConnected, QuietWrite
<1>27. CASE ConnectNotInserted
  <2>1. WritesKept(0)
    BY <1>t, <1>27, ReportKeepsWrites DEF ConnectNotInserted
  <2>2. [op EXCEPT !["connect"] = "none"] \in OpType
    BY <1>t, OpUpdate DEF OpStates
  <2>3. op'["write"] = "none" <=> op["write"] = "none"
    BY <1>t, <1>27, <2>2, AbortOpsFacts
    DEF ConnectNotInserted, CloseImmediately, CloseSocket, OpType
  <2> QED
    BY <1>27, <2>1, <2>3 DEF ConnectNotInserted, Completing, StrandFree, QuietWrite
<1>28. CASE HandshakeComplete
  <2>1. WritesKept(0)
    BY <1>t, <1>28, ReportKeepsWrites, UnchangedKeepsWrites DEF HandshakeComplete
  <2>2. op'["write"] = "none" <=> op["write"] = "none"
    BY <1>t, <1>28 DEF HandshakeComplete, OpType
  <2> QED
    BY <1>28, <2>1, <2>2
    DEF HandshakeComplete, Completing, StrandFree, CallChannelConnected, QuietWrite
<1>29. CASE ReadComplete
  BY <1>t, <1>29, UnchangedKeepsWrites
  DEF ReadComplete, Completing, StrandFree, Cleared, QuietWrite, OpType
<1>30. CASE ReadFailed
  BY <1>t, <1>30, ReadFailedFacts, ReportKeepsWrites DEF QuietWrite, OpType
<1>32. CASE ShutdownComplete
  BY <1>t, <1>32, AbortOpsFacts, UnchangedKeepsWrites
  DEF ShutdownComplete, ShutdownHandler, CloseSocket, EnterDisconnected, StrandFree,
      QuietWrite, OpType
<1>33. CASE UNCHANGED vars
  BY <1>t, <1>33, UnchangedKeepsWrites
  DEF vars, QuietWrite, OpType
<1> QED
  BY <1>2, <1>3, <1>4, <1>5, <1>6, <1>7, <1>8, <1>9, <1>10, <1>12, <1>13, <1>14, <1>15,
     <1>16, <1>17, <1>19, <1>20, <1>22, <1>23, <1>24, <1>25, <1>26, <1>27, <1>28, <1>29,
     <1>30, <1>32, <1>33
  DEF Next, RunPosted, CallbackReturn, ConnectDone, ReadDone, Close

\* The lambdas of write_channel that are kept are kept in order.
LEMMA PostedKept ==
  ASSUME TypeOK, WritesInOrder, Numbered, NEW d \in {0, 1}, WritesKept(d),
         count'["write"] = count["write"]
  PROVE  /\ Waiting' \subseteq Waiting
         /\ \A i, j \in PostedWrites' : i < j => posted'[i][2] < posted'[j][2]
         /\ \A i \in PostedWrites' : 1 <= posted'[i][2] /\ posted'[i][2] <= count'["write"]
<1>1. \A i \in PostedWrites' : i + d \in PostedWrites /\ posted'[i] = posted[i + d] /\ i \in Nat
  BY DEF WritesKept, PostedWrites
<1>2. Waiting' \subseteq Waiting
  BY <1>1 DEF Waiting
<1>3. ASSUME NEW i \in PostedWrites', NEW j \in PostedWrites', i < j
      PROVE  posted'[i][2] < posted'[j][2]
  <2>1. i + d \in PostedWrites /\ j + d \in PostedWrites /\ i + d < j + d
    BY <1>1, <1>3
  <2> QED
    BY <1>1, <2>1 DEF WritesInOrder
<1>4. \A i \in PostedWrites' : 1 <= posted'[i][2] /\ posted'[i][2] <= count'["write"]
  BY <1>1 DEF Numbered
<1> QED
  BY <1>2, <1>3, <1>4

\* A quiet step keeps the order.
LEMMA QuietKeepsOrder ==
  ASSUME TypeOK, WritesInOrder, Numbered, QuietWrite
  PROVE  WritesInOrder' /\ Numbered'
<1>1. PICK d \in {0, 1} : WritesKept(d)
  BY DEF QuietWrite
<1>2. /\ Waiting' \subseteq Waiting
      /\ \A i, j \in PostedWrites' : i < j => posted'[i][2] < posted'[j][2]
      /\ \A i \in PostedWrites' : 1 <= posted'[i][2] /\ posted'[i][2] <= count'["write"]
  BY <1>1, PostedKept DEF QuietWrite
<1>4. Queued' = Queued /\ Calling' = Calling
  BY DEF QuietWrite, Queued, Calling
<1>6. WritesInOrder'
  <2>1. op'["write"] # "none" => wq' # <<>> /\ Head(wq') = sent'
    BY DEF QuietWrite, WritesInOrder
  <2>2. op'["write"] = "none" => Before({sent'}, Queued')
    BY <1>4 DEF QuietWrite, WritesInOrder
  <2>3. \A i, j \in 1 .. Len(wq') : i < j => wq'[i] < wq'[j]
    BY DEF QuietWrite, WritesInOrder
  <2>4. Before({sent'} \cup Queued', Calling' \cup Waiting') /\ Before(Calling', Waiting')
    BY <1>2, <1>4 DEF QuietWrite, WritesInOrder, Before
  <2> QED
    BY <1>2, <2>1, <2>2, <2>3, <2>4 DEF WritesInOrder, Before
<1>7. Numbered'
  <2>1. cur' # 0 <=> pc' = "write"
    BY DEF QuietWrite, Numbered
  <2> QED
    BY <1>2, <2>1 DEF QuietWrite, Numbered
<1> QED
  BY <1>6, <1>7

\* write_channel numbers its buffer after all the others.
LEMMA WriteChannelKeepsOrder ==
  ASSUME TypeOK, WritesInOrder, Numbered, WriteChannel
  PROVE  WritesInOrder' /\ Numbered'
<1> DEFINE n == count["write"] + 1
<1>1. /\ n \in Nat /\ count'["write"] = n /\ posted' = Append(posted, <<"write", n>>)
      /\ UNCHANGED <<wq, sent, cur, op, pc>> /\ <<"write", n>> \in LambdaType
      /\ posted \in Seq(LambdaType) /\ count["write"] \in Nat /\ n = count["write"] + 1
  BY DEF WriteChannel, TypeOK, wqVars, sockVars, LambdaType, Lambdas
<1>t. sent \in Nat /\ cur \in Nat /\ wq \in Seq(Nat)
  BY DEF TypeOK
<1>n. n \in Nat /\ 1 <= n /\ count'["write"] = n
  BY <1>1
<1> HIDE DEF n
<1>2. \A i \in 1 .. Len(posted') :
        \/ i \in 1 .. Len(posted) /\ posted'[i] = posted[i]
        \/ i = Len(posted) + 1 /\ posted'[i] = <<"write", n>>
  BY <1>1
<1>3. \A i \in PostedWrites' :
        \/ i \in PostedWrites /\ posted'[i] = posted[i]
        \/ i = Len(posted) + 1 /\ posted'[i][2] = n
  BY <1>2 DEF PostedWrites
<1>4. \A i \in PostedWrites :
        i <= Len(posted) /\ posted[i][2] \in Nat /\ posted[i][2] < n /\ i \in Nat
  <2> TAKE i \in PostedWrites
  <2>1. posted[i] \in Lambdas \X Nat /\ i <= Len(posted) /\ i \in Nat
    BY <1>1 DEF PostedWrites, LambdaType
  <2> QED
    BY <1>1, <2>1 DEF Numbered
<1>l. Len(posted) \in Nat
  BY <1>1
<1>5. \A i, j \in PostedWrites' : i < j => posted'[i][2] < posted'[j][2]
  <2> SUFFICES ASSUME NEW i \in PostedWrites', NEW j \in PostedWrites', i < j
               PROVE  posted'[i][2] < posted'[j][2]
    OBVIOUS
  <2>1. CASE j \in PostedWrites /\ posted'[j] = posted[j]
    BY <1>3, <1>4, <1>l, <2>1 DEF WritesInOrder
  <2>2. CASE j = Len(posted) + 1 /\ posted'[j][2] = n
    <3>1. i \in PostedWrites /\ posted'[i] = posted[i]
      BY <1>3, <1>l, <2>2
    <3> QED
      BY <1>4, <2>2, <3>1
  <2> QED
    BY <1>3, <2>1, <2>2
<1>6. Waiting' \subseteq Waiting \cup {n}
  BY <1>3 DEF Waiting
<1>7. Queued' = Queued /\ Calling' = Calling
  BY <1>1 DEF Queued, Calling
<1>8. \A a \in {sent} \cup Queued \cup Calling : a \in Nat /\ a < n
  <2>1. sent < n /\ cur < n
    BY <1>1, <1>t DEF Numbered
  <2>2. ASSUME NEW i \in 1 .. Len(wq) PROVE wq[i] \in Nat /\ wq[i] < n
    <3>1. wq[i] \in Nat /\ wq[i] <= count["write"]
      BY <1>t DEF Numbered
    <3> QED
      BY <1>1, <3>1
  <2> QED
    BY <1>t, <2>1, <2>2 DEF Queued, Calling
<1>9. Before({sent'} \cup Queued', Calling' \cup Waiting') /\ Before(Calling', Waiting')
  BY <1>1, <1>6, <1>7, <1>8 DEF WritesInOrder, Before
<1>10. WritesInOrder'
  <2>1. op'["write"] # "none" => wq' # <<>> /\ Head(wq') = sent'
    BY <1>1 DEF WritesInOrder
  <2>2. op'["write"] = "none" => Before({sent'}, Queued')
    BY <1>1, <1>7 DEF WritesInOrder
  <2>3. \A i, j \in 1 .. Len(wq') : i < j => wq'[i] < wq'[j]
    BY <1>1 DEF WritesInOrder
  <2> QED
    BY <1>5, <1>9, <2>1, <2>2, <2>3 DEF WritesInOrder, Before
<1>11. Numbered'
  <2>1. cur' # 0 <=> pc' = "write"
    BY <1>1 DEF Numbered
  <2>2. sent' <= count'["write"] /\ cur' <= count'["write"]
    BY <1>1, <1>t DEF Numbered
  <2>3. \A i \in 1 .. Len(wq') : wq'[i] <= count'["write"]
    <3> SUFFICES ASSUME NEW i \in 1 .. Len(wq) PROVE wq[i] <= n
      BY <1>1
    <3>1. wq[i] \in Nat /\ wq[i] <= count["write"]
      BY <1>t DEF Numbered
    <3> QED
      BY <1>1, <3>1
  <2>4. \A i \in PostedWrites' : 1 <= posted'[i][2] /\ posted'[i][2] <= count'["write"]
    <3> TAKE i \in PostedWrites'
    <3>1. CASE i \in PostedWrites /\ posted'[i] = posted[i]
      <4>1. posted[i][2] \in Nat /\ posted[i][2] < n /\ 1 <= posted[i][2]
        BY <1>4, <3>1 DEF Numbered
      <4> QED
        BY <1>n, <3>1, <4>1
    <3>2. CASE posted'[i][2] = n
      BY <1>n, <3>2
    <3> QED
      BY <1>3, <3>1, <3>2
  <2> QED
    BY <2>1, <2>2, <2>3, <2>4 DEF Numbered
<1> QED
  BY <1>10, <1>11

\* The channel_write callback takes up the first of the buffers that wait.
LEMMA RunWriteKeepsOrder ==
  ASSUME TypeOK, WritesInOrder, Numbered, RunWrite
  PROVE  WritesInOrder' /\ Numbered'
<1>1. /\ pc = "idle" /\ pc' = "write" /\ UNCHANGED <<wq, sent, op, count>>
      /\ posted \in Seq(LambdaType) /\ posted # <<>> /\ posted' = Tail(posted)
      /\ Head(posted)[1] = "write" /\ cur' = Head(posted)[2]
  BY DEF RunWrite, Running, StrandFree, TypeOK, LambdaType, wqVars, sockVars
<1>2. Head(posted) = posted[1] /\ 1 \in 1 .. Len(posted) /\ Len(posted) \in Nat
  BY <1>1
<1>3. 1 \in PostedWrites /\ cur' = posted[1][2] /\ cur' \in Waiting
  BY <1>1, <1>2 DEF PostedWrites, Waiting
<1>4. \A i \in PostedWrites' :
        i + 1 \in PostedWrites /\ posted'[i] = posted[i + 1] /\ i \in Nat /\ 1 < i + 1
  BY <1>1 DEF PostedWrites
<1>5. Waiting' \subseteq Waiting
  BY <1>4 DEF Waiting
<1>6. Queued' = Queued /\ Calling' \subseteq Waiting
  BY <1>1, <1>3 DEF Queued, Calling
<1>7. Before(Calling', Waiting')
  <2> SUFFICES ASSUME NEW i \in PostedWrites' PROVE cur' < posted'[i][2]
    BY DEF Before, Calling, Waiting
  <2> QED
    BY <1>3, <1>4 DEF WritesInOrder
<1>8. Before({sent'} \cup Queued', Calling' \cup Waiting')
  BY <1>1, <1>5, <1>6 DEF WritesInOrder, Before
<1>9. \A i, j \in PostedWrites' : i < j => posted'[i][2] < posted'[j][2]
  <2> SUFFICES ASSUME NEW i \in PostedWrites', NEW j \in PostedWrites', i < j
               PROVE  posted'[i][2] < posted'[j][2]
    OBVIOUS
  <2>1. i + 1 \in PostedWrites /\ j + 1 \in PostedWrites /\ i + 1 < j + 1
    BY <1>4
  <2> QED
    BY <1>4, <2>1 DEF WritesInOrder
<1>10. WritesInOrder'
  <2>1. op'["write"] # "none" => wq' # <<>> /\ Head(wq') = sent'
    BY <1>1 DEF WritesInOrder
  <2>2. op'["write"] = "none" => Before({sent'}, Queued')
    BY <1>1, <1>6 DEF WritesInOrder
  <2>3. \A i, j \in 1 .. Len(wq') : i < j => wq'[i] < wq'[j]
    BY <1>1 DEF WritesInOrder
  <2> QED
    BY <1>7, <1>8, <1>9, <2>1, <2>2, <2>3 DEF WritesInOrder, Before
<1>11. Numbered'
  <2>1. \A i \in PostedWrites' : 1 <= posted'[i][2] /\ posted'[i][2] <= count'["write"]
    BY <1>1, <1>4 DEF Numbered
  <2>2. cur' <= count'["write"] /\ cur' # 0
    BY <1>1, <1>3 DEF Numbered
  <2> QED
    BY <1>1, <2>1, <2>2 DEF Numbered
<1> QED
  BY <1>10, <1>11

\* write_streambuf queues the buffer of the channel_write callback behind the others.
LEMMA WriteReturnKeepsOrder ==
  ASSUME TypeOK, WritesInOrder, Numbered, NEW thrown \in BOOLEAN, NEW serialized \in BOOLEAN,
         WriteReturn(thrown, serialized)
  PROVE  WritesInOrder' /\ Numbered'
<1>t. /\ posted \in Seq(LambdaType) /\ wq \in Seq(Nat) /\ cur \in Nat /\ sent \in Nat
      /\ op \in OpType /\ "write" \in Ops /\ count["write"] \in Nat
  BY DEF TypeOK, OpType, Ops, LambdaType
<1>1. pc = "write" /\ pc' = "idle" /\ cur' = 0 /\ cur # 0 /\ Calling = {cur} /\ Calling' = {}
  BY DEF WriteReturn, Numbered, Calling
<1>2. count'["write"] = count["write"]
  BY ThrowsKeepsCount DEF WriteReturn
<1>3. WritesKept(0)
  <2>1. CASE posted' = Report(thrown, posted)
    BY <2>1, ReportKeepsWrites
  <2>2. CASE posted' = Report(TRUE, Report(thrown, posted))
    <3>1. Report(thrown, posted) \in Seq(LambdaType) /\ "exception" \in Lambdas \ {"write"}
      BY <1>t, ReportType DEF Lambdas
    <3>2. posted' = Append(Report(thrown, posted), Lambda("exception"))
      BY <2>2 DEF Report
    <3> QED
      BY <3>1, <3>2, AppendKeepsWrites
  <2> QED
    BY <2>1, <2>2 DEF WriteReturn
<1>4. /\ Waiting' \subseteq Waiting
      /\ \A i, j \in PostedWrites' : i < j => posted'[i][2] < posted'[j][2]
      /\ \A i \in PostedWrites' : 1 <= posted'[i][2] /\ posted'[i][2] <= count'["write"]
  BY <1>2, <1>3, PostedKept
<1>5. Before({sent} \cup Queued \cup {cur}, Waiting') /\ Before({sent} \cup Queued, {cur})
  BY <1>1, <1>4 DEF WritesInOrder, Before
<1>6. CASE serialized /\ Sendable
  <2>1. /\ wq' = Append(wq, cur) /\ wq' \in Seq(Nat) /\ Len(wq') = Len(wq) + 1 /\ Len(wq) \in Nat
        /\ wq'[Len(wq) + 1] = cur /\ \A i \in 1 .. Len(wq) : wq'[i] = wq[i]
    <3>1. wq' = Append(wq, cur)
      BY <1>6 DEF WriteReturn
    <3> QED
      BY <1>t, <3>1
  <2>2. Queued' = Queued \cup {cur}
    BY <2>1 DEF Queued
  <2>3. \A i \in 1 .. Len(wq) : wq[i] < cur
    BY <1>5 DEF Before, Queued
  <2>4. ASSUME NEW i \in 1 .. Len(wq'), NEW j \in 1 .. Len(wq'), i < j PROVE wq'[i] < wq'[j]
    <3>1. CASE j = Len(wq) + 1
      BY <2>1, <2>3, <2>4, <3>1
    <3>2. CASE j \in 1 .. Len(wq)
      BY <2>1, <2>4, <3>2 DEF WritesInOrder
    <3> QED
      BY <2>1, <3>1, <3>2
  <2>5. \A i \in 1 .. Len(wq') : wq'[i] <= count'["write"]
    BY <1>2, <2>1 DEF Numbered
  <2>6. CASE Len(wq') = 1
    <3>1. op'["write"] = "pending" /\ sent' = cur
      BY <1>t, <1>6, <2>6 DEF WriteReturn, OpType
    <3>2. wq' # <<>> /\ Head(wq') = cur
      BY <2>1, <2>6
    <3>3. Before({sent'} \cup Queued', Calling' \cup Waiting') /\ Before(Calling', Waiting')
      BY <1>1, <1>5, <2>2, <3>1 DEF Before
    <3>4. WritesInOrder'
      BY <1>4, <2>4, <3>1, <3>2, <3>3 DEF WritesInOrder, Before
    <3>5. sent' <= count'["write"] /\ cur' <= count'["write"]
      BY <1>t, <1>1, <1>2, <3>1 DEF Numbered
    <3> QED
      BY <1>1, <1>4, <2>5, <3>4, <3>5 DEF Numbered
  <2>7. CASE Len(wq') # 1
    <3>1. op'["write"] = op["write"] /\ sent' = sent
      BY <1>6, <2>7 DEF WriteReturn
    <3>2. op'["write"] # "none" => wq' # <<>> /\ Head(wq') = sent'
      BY <1>t, <2>1, <2>7, <3>1 DEF WritesInOrder
    <3>3. op'["write"] = "none" => Before({sent'}, Queued')
      BY <1>5, <2>2, <3>1 DEF WritesInOrder, Before
    <3>4. Before({sent'} \cup Queued', Calling' \cup Waiting') /\ Before(Calling', Waiting')
      BY <1>1, <1>5, <2>2, <3>1 DEF Before
    <3>5. WritesInOrder'
      BY <1>4, <2>4, <3>2, <3>3, <3>4 DEF WritesInOrder, Before
    <3>6. sent' <= count'["write"] /\ cur' <= count'["write"]
      BY <1>t, <1>1, <1>2, <3>1 DEF Numbered
    <3> QED
      BY <1>1, <1>4, <2>5, <3>5, <3>6 DEF Numbered
  <2> QED
    BY <2>6, <2>7
<1>7. CASE ~(serialized /\ Sendable)
  <2>1. UNCHANGED <<wq, sent, op>>
    BY <1>7 DEF WriteReturn, wqVars
  <2>2. Queued' = Queued
    BY <2>1 DEF Queued
  <2>3. op'["write"] # "none" => wq' # <<>> /\ Head(wq') = sent'
    BY <2>1 DEF WritesInOrder
  <2>4. op'["write"] = "none" => Before({sent'}, Queued')
    BY <2>1, <2>2 DEF WritesInOrder
  <2>5. Before({sent'} \cup Queued', Calling' \cup Waiting') /\ Before(Calling', Waiting')
    BY <1>1, <1>5, <2>1, <2>2 DEF Before
  <2>6. \A i, j \in 1 .. Len(wq') : i < j => wq'[i] < wq'[j]
    BY <2>1 DEF WritesInOrder
  <2>7. WritesInOrder'
    BY <1>4, <2>3, <2>4, <2>5, <2>6 DEF WritesInOrder, Before
  <2>8. sent' <= count'["write"] /\ cur' <= count'["write"]
    BY <1>t, <1>1, <1>2, <2>1 DEF Numbered
  <2> QED
    BY <1>1, <1>2, <1>4, <2>1, <2>7, <2>8 DEF Numbered
<1> QED
  BY <1>6, <1>7

\* write_complete removes the buffer that was sent.
LEMMA WriteCompleteKeepsOrder ==
  ASSUME TypeOK, WritesInOrder, Numbered, WriteComplete
  PROVE  WritesInOrder' /\ Numbered'
<1>t. wq \in Seq(Nat) /\ sent \in Nat /\ op \in OpType /\ "write" \in Ops
  BY DEF TypeOK, OpType, Ops
<1>1. /\ pc = "idle" /\ op["write"] # "none" /\ wq' = Tail(wq) /\ UNCHANGED <<sent, cur, count>>
      /\ \E b \in BOOLEAN : posted' = Report(b, posted)
  BY WriteCompleteFacts
<1>2. op'["write"] = "none" /\ pc' # "write"
  BY <1>t, WriteCompleteFacts DEF Ended, Graceful, NothingMore, OpType
<1>3. WritesKept(0)
  BY <1>1, ReportKeepsWrites
<1>4. /\ Waiting' \subseteq Waiting
      /\ \A i, j \in PostedWrites' : i < j => posted'[i][2] < posted'[j][2]
      /\ \A i \in PostedWrites' : 1 <= posted'[i][2] /\ posted'[i][2] <= count'["write"]
  BY <1>1, <1>3, PostedKept
<1>5. wq # <<>> /\ wq[1] = sent
  BY <1>t, <1>1 DEF WritesInOrder
<1>6. \A i \in 1 .. Len(wq') :
        i + 1 \in 1 .. Len(wq) /\ wq'[i] = wq[i + 1] /\ i \in Nat /\ 1 < i + 1
  BY <1>t, <1>1, <1>5
<1>7. Queued' \subseteq Queued
  BY <1>6 DEF Queued
<1>8. Before({sent'}, Queued')
  <2> SUFFICES ASSUME NEW i \in 1 .. Len(wq') PROVE sent < wq'[i]
    BY <1>1 DEF Before, Queued
  <2>1. 1 \in 1 .. Len(wq)
    BY <1>t, <1>5
  <2> QED
    BY <1>5, <1>6, <2>1 DEF WritesInOrder
<1>9. ASSUME NEW i \in 1 .. Len(wq'), NEW j \in 1 .. Len(wq'), i < j PROVE wq'[i] < wq'[j]
  <2>1. i + 1 \in 1 .. Len(wq) /\ j + 1 \in 1 .. Len(wq) /\ i + 1 < j + 1
    BY <1>6, <1>9
  <2> QED
    BY <1>6, <2>1 DEF WritesInOrder
<1>10. Calling' = Calling
  BY <1>1 DEF Calling
<1>11. Before({sent'} \cup Queued', Calling' \cup Waiting') /\ Before(Calling', Waiting')
  BY <1>1, <1>4, <1>7, <1>10 DEF WritesInOrder, Before
<1>12. WritesInOrder'
  BY <1>2, <1>4, <1>8, <1>9, <1>11 DEF WritesInOrder, Before
<1>13. \A i \in 1 .. Len(wq') : wq'[i] <= count'["write"]
  BY <1>1, <1>6 DEF Numbered
<1>14. cur' # 0 <=> pc' = "write"
  BY <1>1, <1>2 DEF Numbered
<1> QED
  BY <1>1, <1>4, <1>12, <1>13, <1>14 DEF Numbered

\* call_channel_written sends the first of the buffers that are queued.
LEMMA WrittenReturnKeepsOrder ==
  ASSUME TypeOK, WritesInOrder, Numbered, NEW thrown \in BOOLEAN, WrittenReturn(thrown)
  PROVE  WritesInOrder' /\ Numbered'
<1>t. wq \in Seq(Nat) /\ sent \in Nat /\ op \in OpType /\ "write" \in Ops
  BY DEF TypeOK, OpType, Ops
<1>1. pc = "written" /\ UNCHANGED <<wq, cur>> /\ count'["write"] = count["write"] /\ WritesKept(0)
  BY WrittenReturnFacts, ThrowsKeepsCount, ReportKeepsWrites
<1>2. CASE /\ wq # <<>> /\ sent' = Head(wq) /\ pc' = "idle"
           /\ op' = [op EXCEPT !["write"] = "pending"]
  <2>1. /\ Waiting' \subseteq Waiting
        /\ \A i, j \in PostedWrites' : i < j => posted'[i][2] < posted'[j][2]
        /\ \A i \in PostedWrites' : 1 <= posted'[i][2] /\ posted'[i][2] <= count'["write"]
    BY <1>1, PostedKept
  <2>2. op'["write"] = "pending"
    BY <1>t, <1>2 DEF OpType
  <2>3. Queued' = Queued /\ Calling' = Calling
    BY <1>1 DEF Queued, Calling
  <2>4. 1 \in 1 .. Len(wq) /\ sent' = wq[1] /\ sent' \in Queued
    BY <1>t, <1>2 DEF Queued
  <2>5. Before({sent'} \cup Queued', Calling' \cup Waiting') /\ Before(Calling', Waiting')
    BY <2>1, <2>3, <2>4 DEF WritesInOrder, Before
  <2>6. wq' # <<>> /\ Head(wq') = sent'
    BY <1>1, <1>2
  <2>7. \A i, j \in 1 .. Len(wq') : i < j => wq'[i] < wq'[j]
    BY <1>1 DEF WritesInOrder
  <2>8. WritesInOrder'
    BY <2>1, <2>2, <2>5, <2>6, <2>7 DEF WritesInOrder, Before
  <2>9. sent' <= count'["write"]
    BY <1>1, <2>4 DEF Numbered
  <2> QED
    BY <1>1, <1>2, <2>1, <2>8, <2>9 DEF Numbered
<1>3. CASE sent' = sent /\ Ended(tasks, op)
  <2>1. QuietWrite
    BY <1>t, <1>1, <1>3 DEF Ended, Graceful, NothingMore, QuietWrite
  <2> QED
    BY <2>1, QuietKeepsOrder
<1> QED
  BY <1>2, <1>3, WrittenReturnFacts

\* Every step keeps the order of the writes.
LEMMA OrderStep ==
  ASSUME IInv, WritesInOrder, Numbered, [Next]_vars
  PROVE  WritesInOrder' /\ Numbered'
<1>1. TypeOK
  BY DEF IInv
<1> QED
  BY <1>1, WriteSteps, QuietKeepsOrder, WriteChannelKeepsOrder, RunWriteKeepsOrder,
     WriteReturnKeepsOrder, WriteCompleteKeepsOrder, WrittenReturnKeepsOrder

\* channel_context.h, write_streambuf, write_complete and call_channel_written: the head
\* of the queue is the buffer in flight, and buffers go out in the order of the write()
\* calls, whatever fails or is closed meanwhile.
THEOREM WritesStayInOrder == Spec => []WritesInOrder
<1>1. Init => WritesInOrder /\ Numbered
  <2> SUFFICES ASSUME Init PROVE WritesInOrder /\ Numbered
    OBVIOUS
  <2>1. wq = <<>> /\ Len(wq) = 0 /\ cur = 0 /\ sent = 0 /\ pc = "idle" /\ op["write"] = "none"
    BY DEF Init, Ops
  <2>2. Len(posted) = 1 /\ posted[1][1] = "created"
    BY DEF Init, Lambda
  <2>3. Queued = {} /\ Calling = {} /\ PostedWrites = {}
    BY <2>1, <2>2 DEF Queued, Calling, PostedWrites
  <2>4. Waiting = {} /\ count["write"] = 0
    BY <2>3 DEF Waiting, Init
  <2> QED
    BY <2>1, <2>3, <2>4 DEF WritesInOrder, Numbered, Before
<1>2. Spec => []IInv
  BY Inductive
<1>3. IInv /\ (WritesInOrder /\ Numbered) /\ [Next]_vars => (WritesInOrder /\ Numbered)'
  BY OrderStep
<1> QED
  BY <1>1, <1>2, <1>3, PTL DEF Spec

-------------------------------------------------------------------------------
(* Closing a channel once.                                                  *)

\* Only the closers move on in close_channel.
LEMMA ClosersMove ==
  ASSUME [Next]_vars, ~\E c \in Closers : Close(c)
  PROVE  closer' = closer
<1>1. CASE WriteChannel
  BY <1>1 DEF WriteChannel
<1>2. CASE FireUserEvent
  BY <1>2 DEF FireUserEvent
<1>3. CASE CallbackClose
  BY <1>3 DEF CallbackClose
<1>4. CASE StopService
  BY <1>4 DEF StopService
<1>9. CASE RunCreated
  BY <1>9 DEF RunCreated
<1>10. CASE RunDoConnect
  BY <1>10 DEF RunDoConnect
<1>11. CASE RunWrite
  BY <1>11 DEF RunWrite
<1>12. CASE RunClose
  BY <1>12 DEF RunClose
<1>13. ASSUME NEW name \in {"exception", "event"}, RunPlain(name) PROVE closer' = closer
  BY <1>13 DEF RunPlain
<1>14. ASSUME NEW thrown \in BOOLEAN, CreatedReturn(thrown) PROVE closer' = closer
  BY <1>14 DEF CreatedReturn
<1>15. ASSUME NEW thrown \in BOOLEAN, ConnectedReturn(thrown) PROVE closer' = closer
  BY <1>15 DEF ConnectedReturn
<1>16. ASSUME NEW thrown \in BOOLEAN, ReadBufEmpty(thrown) PROVE closer' = closer
  BY <1>16 DEF ReadBufEmpty
<1>17. ASSUME NEW thrown \in BOOLEAN, ReadReturn(thrown) PROVE closer' = closer
  BY <1>17 DEF ReadReturn
<1>18. ASSUME NEW thrown \in BOOLEAN, WrittenReturn(thrown) PROVE closer' = closer
  BY <1>18 DEF WrittenReturn
<1>19. ASSUME NEW thrown \in BOOLEAN, DisconnectedReturn(thrown) PROVE closer' = closer
  BY <1>19 DEF DisconnectedReturn
<1>20. ASSUME NEW thrown \in BOOLEAN, PlainReturn(thrown) PROVE closer' = closer
  BY <1>20 DEF PlainReturn
<1>21. ASSUME NEW thrown \in BOOLEAN, NEW serialized \in BOOLEAN, WriteReturn(thrown, serialized)
      PROVE  closer' = closer
  BY <1>21 DEF WriteReturn
<1>22. CASE ReadAgain
  BY <1>22 DEF ReadAgain
<1>23. ASSUME NEW o \in Ops, NetComplete(o) PROVE closer' = closer
  BY <1>23 DEF NetComplete
<1>24. CASE ResolveComplete
  BY <1>24 DEF ResolveComplete
<1>25. CASE ConnectComplete
  BY <1>25 DEF ConnectComplete
<1>26. CASE ConnectFailed
  BY <1>26 DEF ConnectFailed
<1>27. CASE ConnectNotInserted
  BY <1>27 DEF ConnectNotInserted
<1>28. CASE HandshakeComplete
  BY <1>28 DEF HandshakeComplete
<1>29. CASE ReadComplete
  BY <1>29 DEF ReadComplete
<1>30. CASE ReadFailed
  BY <1>30 DEF ReadFailed
<1>31. CASE WriteComplete
  BY <1>31 DEF WriteComplete
<1>32. CASE ShutdownComplete
  BY <1>32 DEF ShutdownComplete
<1>33. CASE UNCHANGED vars
  BY <1>33 DEF vars
<1> QED
  BY <1>1, <1>2, <1>3, <1>4, <1>9, <1>10, <1>11, <1>12, <1>13, <1>14, <1>15, <1>16, <1>17,
     <1>18, <1>19, <1>20, <1>21, <1>22, <1>23, <1>24, <1>25, <1>26, <1>27, <1>28, <1>29,
     <1>30, <1>31, <1>32, <1>33
  DEF Next, RunPosted, CallbackReturn, ConnectDone, ReadDone

\* A closer that stored REQ_CLOSE, or gave up, does not begin again.
LEMMA NoLateStoreBefore ==
  ASSUME TypeOK, [Next]_vars, NoLateStore'
  PROVE  NoLateStore /\ ~\E c \in Closers : CloserSet(c)
<1>t. closer \in [Closers -> {"lookup", "test", "set", "post", "done"}]
  BY DEF TypeOK
<1>1. CASE \E c \in Closers : Close(c)
  <2>1. PICK c \in Closers : Close(c)
    BY <1>1
  <2>2. /\ closer[c] \in {"lookup", "test", "set", "post"}
        /\ closer' = [closer EXCEPT ![c] = closer'[c]]
    BY <1>t, <2>1 DEF Close, CloserLookup, CloserTest, CloserSet, CloserPost
  <2>3. closer[c] \in {"lookup", "test"} /\ ~CloserPost(c) /\ ~CloserSet(c)
    BY <1>t, <2>1 DEF Close, CloserLookup, CloserTest, CloserSet, CloserPost, NoLateStore
  <2>4. NoLateStore
    <3> SUFFICES ASSUME NEW d \in Closers PROVE closer[d] \in {"lookup", "test", "set"}
      BY DEF NoLateStore
    <3>1. d # c => closer'[d] = closer[d]
      BY <1>t, <2>2
    <3> QED
      BY <2>3, <3>1 DEF NoLateStore
  <2>5. ASSUME NEW d \in Closers, CloserSet(d) PROVE FALSE
    BY <1>t, <2>5 DEF CloserSet, NoLateStore
  <2> QED
    BY <2>4, <2>5
<1>2. CASE ~\E c \in Closers : Close(c)
  <2>1. closer' = closer
    BY <1>2, ClosersMove
  <2>2. ASSUME NEW d \in Closers, CloserSet(d) PROVE FALSE
    BY <1>2, <2>2 DEF Close
  <2> QED
    BY <2>1, <2>2 DEF NoLateStore
<1> QED
  BY <1>1, <1>2



\* The queue of the strand loses its first d lambdas and gains lambdas called N.
Posts(d, N) ==
  /\ \A i \in 1 .. Len(posted') :
       \/ i + d \in 1 .. Len(posted) /\ posted'[i] = posted[i + d]
       \/ posted'[i][1] \in N
  /\ \A i \in 1 .. Len(posted) : i > d => i - d \in 1 .. Len(posted') /\ posted'[i - d] = posted[i]

\* what handlers and closers post
Common == {"exception", "event", "close"}

\* A step that posts nothing ...
LEMMA PostsNothing ==
  ASSUME TypeOK, posted' = posted PROVE Posts(0, Common)
BY DEF Posts, TypeOK

\* ... an exception lambda, or none ...
LEMMA PostsReport ==
  ASSUME TypeOK, NEW q \in Seq(LambdaType), q = posted, NEW b \in BOOLEAN, posted' = Report(b, q)
  PROVE  Posts(0, {"exception"}) /\ Posts(0, Common)
<1>1. CASE b = TRUE
  <2>1. Lambda("exception") \in LambdaType /\ Lambda("exception")[1] = "exception"
    BY DEF Lambda, LambdaType, Lambdas
  <2>2. posted' = Append(posted, Lambda("exception"))
    BY <1>1 DEF Report
  <2> QED
    BY <2>1, <2>2 DEF Posts, Common
<1>2. CASE b = FALSE
  BY <1>2 DEF Report, Posts
<1> QED
  BY <1>1, <1>2

\* ... one lambda at the end of the queue.
LEMMA PostsOne ==
  ASSUME TypeOK, NEW l \in LambdaType, posted' = Append(posted, l) PROVE Posts(0, {l[1]})
BY DEF Posts, TypeOK, LambdaType

\* Two lambdas are posted one after the other.
LEMMA PostsTwo ==
  ASSUME TypeOK, NEW b \in BOOLEAN, NEW l \in LambdaType, posted' = Append(Report(b, posted), l)
  PROVE  Posts(0, {"exception", l[1]})
<1>1. posted \in Seq(LambdaType)
  BY DEF TypeOK, LambdaType
<1>2. CASE b = TRUE
  <2>1. Lambda("exception") \in LambdaType /\ Lambda("exception")[1] = "exception"
    BY DEF Lambda, LambdaType, Lambdas
  <2> DEFINE q == Append(posted, Lambda("exception"))
  <2>2. posted' = Append(q, l) /\ q = Append(posted, Lambda("exception"))
    BY <1>2 DEF Report
  <2>3. /\ q \in Seq(LambdaType) /\ Len(q) = Len(posted) + 1 /\ q[Len(posted) + 1][1] = "exception"
        /\ \A i \in 1 .. Len(posted) : q[i] = posted[i]
    BY <1>1, <2>1
  <2> HIDE DEF q
  <2>4. /\ Len(posted') = Len(q) + 1 /\ posted'[Len(q) + 1] = l
        /\ \A i \in 1 .. Len(q) : posted'[i] = q[i]
    BY <2>2, <2>3
  <2>5. Len(posted) \in Nat
    BY <1>1
  <2> QED
    BY <2>3, <2>4, <2>5 DEF Posts
<1>3. CASE b = FALSE
  <2>1. posted' = Append(posted, l)
    BY <1>3 DEF Report
  <2> QED
    BY <1>1, <2>1 DEF Posts
<1> QED
  BY <1>2, <1>3

\* Running a lambda takes it from the front of the queue.
LEMMA PostsRunning ==
  ASSUME TypeOK, NEW name, Running(name)
  PROVE  Posts(1, {}) /\ posted # <<>> /\ posted[1][1] = name
<1>1. posted \in Seq(LambdaType) /\ posted # <<>> /\ posted' = Tail(posted)
  BY DEF Running, TypeOK, LambdaType
<1>2. Posts(1, {})
  BY <1>1 DEF Posts
<1> QED
  BY <1>1, <1>2 DEF Running

\* How the queue of the strand changes.
Posting ==
  \/ Posts(0, Common)
  \/ WriteChannel /\ Posts(0, {"write"})
  \/ /\ \E thrown \in BOOLEAN : CreatedReturn(thrown)
     /\ Posts(0, {"exception", "do_connect"})
  \/ RunPosted /\ posted # <<>> /\ Posts(1, {})

\* Every step changes the queue in one of these ways.
LEMMA PostingSteps ==
  ASSUME TypeOK, [Next]_vars PROVE Posting
<1>t. TypeOK /\ posted \in Seq(LambdaType)
  BY DEF TypeOK, LambdaType
<1>1. CASE WriteChannel
  <2>1. <<"write", count["write"] + 1>> \in LambdaType
    BY <1>t DEF TypeOK, LambdaType, Lambdas
  <2>2. Posts(0, {"write"})
    BY <1>t, <1>1, <2>1, PostsOne DEF WriteChannel
  <2> QED
    BY <1>1, <2>2 DEF Posting
<1>2. CASE FireUserEvent
  <2>1. posted' = Append(posted, Lambda("event")) /\ Lambda("event") \in LambdaType
    BY <1>2 DEF FireUserEvent, Lambda, LambdaType, Lambdas
  <2>2. Posts(0, {"event"})
    BY <1>t, <2>1, PostsOne DEF Lambda
  <2> QED
    BY <2>2 DEF Posts, Common, Posting
<1>3. CASE CallbackClose
  <2>1. posted' = Append(posted, Lambda("close")) /\ Lambda("close") \in LambdaType
    BY <1>3 DEF CallbackClose, Lambda, LambdaType, Lambdas
  <2>2. Posts(0, {"close"})
    BY <1>t, <2>1, PostsOne DEF Lambda
  <2> QED
    BY <2>2 DEF Posts, Common, Posting
<1>4. CASE StopService
  BY <1>t, <1>4, PostsNothing DEF StopService, Posting
<1>5. ASSUME NEW c \in Closers, CloserLookup(c) PROVE Posting
  BY <1>t, <1>5, PostsNothing DEF CloserLookup, Posting
<1>6. ASSUME NEW c \in Closers, CloserTest(c) PROVE Posting
  BY <1>t, <1>6, PostsNothing DEF CloserTest, Posting
<1>7. ASSUME NEW c \in Closers, CloserSet(c) PROVE Posting
  BY <1>t, <1>7, PostsNothing DEF CloserSet, Posting
<1>8. ASSUME NEW c \in Closers, CloserPost(c) PROVE Posting
  <2>1. posted' = Append(posted, Lambda("close")) /\ Lambda("close") \in LambdaType
    BY <1>8 DEF CloserPost, Lambda, LambdaType, Lambdas
  <2>2. Posts(0, {"close"})
    BY <1>t, <2>1, PostsOne DEF Lambda
  <2> QED
    BY <2>2 DEF Posts, Common, Posting
<1>9. CASE RunCreated
  BY <1>t, <1>9, PostsRunning DEF RunCreated, RunPosted, Posting
<1>10. CASE RunDoConnect
  BY <1>t, <1>10, PostsRunning DEF RunDoConnect, RunPosted, Posting
<1>11. CASE RunWrite
  BY <1>t, <1>11, PostsRunning DEF RunWrite, RunPosted, Posting
<1>12. CASE RunClose
  BY <1>t, <1>12, PostsRunning DEF RunClose, RunPosted, Posting
<1>13. ASSUME NEW name \in {"exception", "event"}, RunPlain(name) PROVE Posting
  BY <1>t, <1>13, PostsRunning DEF RunPlain, RunPosted, Posting
<1>14. ASSUME NEW thrown \in BOOLEAN, CreatedReturn(thrown) PROVE Posting
  <2>1. CASE posted' = Report(thrown, posted)
    BY <1>t, <1>14, <2>1, PostsReport DEF Posting
  <2>2. CASE posted' = Append(Report(thrown, posted), Lambda("do_connect"))
    <3>1. Lambda("do_connect") \in LambdaType /\ Lambda("do_connect")[1] = "do_connect"
      BY DEF Lambda, LambdaType, Lambdas
    <3>2. Posts(0, {"exception", "do_connect"})
      BY <1>t, <1>14, <2>2, <3>1, PostsTwo
    <3> QED
      BY <1>14, <3>2 DEF Posting
  <2> QED
    BY <1>14, <2>1, <2>2 DEF CreatedReturn
<1>15. ASSUME NEW thrown \in BOOLEAN, ConnectedReturn(thrown) PROVE Posting
  BY <1>t, <1>15, PostsReport DEF ConnectedReturn, Posting
<1>16. ASSUME NEW thrown \in BOOLEAN, ReadBufEmpty(thrown) PROVE Posting
  BY <1>t, <1>16, PostsReport DEF ReadBufEmpty, Posting
<1>17. ASSUME NEW thrown \in BOOLEAN, ReadReturn(thrown) PROVE Posting
  BY <1>t, <1>17, PostsReport DEF ReadReturn, Posting
<1>18. ASSUME NEW thrown \in BOOLEAN, WrittenReturn(thrown) PROVE Posting
  BY <1>t, <1>18, PostsReport DEF WrittenReturn, Posting
<1>19. ASSUME NEW thrown \in BOOLEAN, DisconnectedReturn(thrown) PROVE Posting
  BY <1>t, <1>19, PostsReport DEF DisconnectedReturn, Posting
<1>20. ASSUME NEW thrown \in BOOLEAN, PlainReturn(thrown) PROVE Posting
  BY <1>t, <1>20, PostsReport DEF PlainReturn, Posting
<1>21. ASSUME NEW thrown \in BOOLEAN, NEW serialized \in BOOLEAN, WriteReturn(thrown, serialized)
      PROVE  Posting
  <2>1. CASE posted' = Report(thrown, posted)
    BY <1>t, <1>21, <2>1, PostsReport DEF Posting
  <2>2. CASE posted' = Report(TRUE, Report(thrown, posted))
    <3>1. posted' = Append(Report(thrown, posted), Lambda("exception"))
      BY <2>2 DEF Report
    <3>2. Lambda("exception") \in LambdaType /\ Lambda("exception")[1] = "exception"
      BY DEF Lambda, LambdaType, Lambdas
    <3>3. Posts(0, {"exception", "exception"})
      BY <1>t, <1>21, <3>1, <3>2, PostsTwo
    <3> QED
      BY <3>3 DEF Posts, Common, Posting
  <2> QED
    BY <1>21, <2>1, <2>2 DEF WriteReturn
<1>22. CASE ReadAgain
  BY <1>t, <1>22, PostsReport DEF ReadAgain, Posting
<1>23. ASSUME NEW o \in Ops, NetComplete(o) PROVE Posting
  BY <1>t, <1>23, PostsNothing DEF NetComplete, Posting
<1>24. CASE ResolveComplete
  BY <1>t, <1>24, PostsReport, PostsNothing DEF ResolveComplete, Posting
<1>25. CASE ConnectComplete
  BY <1>t, <1>25, PostsNothing DEF ConnectComplete, Posting
<1>26. CASE ConnectFailed
  BY <1>t, <1>26, PostsReport DEF ConnectFailed, Posting
<1>27. CASE ConnectNotInserted
  BY <1>t, <1>27, PostsReport DEF ConnectNotInserted, Posting
<1>28. CASE HandshakeComplete
  BY <1>t, <1>28, PostsReport, PostsNothing DEF HandshakeComplete, Posting
<1>29. CASE ReadComplete
  BY <1>t, <1>29, PostsNothing DEF ReadComplete, Posting
<1>30. CASE ReadFailed
  <2>1. posted' = Report(op["read"] = "failed", posted) /\ (op["read"] = "failed") \in BOOLEAN
    BY <1>30 DEF ReadFailed
  <2> QED
    BY <1>t, <2>1, PostsReport DEF Posting
<1>31. CASE WriteComplete
  BY <1>t, <1>31, WriteCompleteFacts, PostsReport DEF Posting
<1>32. CASE ShutdownComplete
  BY <1>t, <1>32, PostsNothing DEF ShutdownComplete, Posting
<1>33. CASE UNCHANGED vars
  BY <1>t, <1>33, PostsNothing DEF vars, Posting
<1> QED
  BY <1>1, <1>2, <1>3, <1>4, <1>5, <1>6, <1>7, <1>8, <1>9, <1>10, <1>11, <1>12, <1>13,
     <1>14, <1>15, <1>16, <1>17, <1>18, <1>19, <1>20, <1>21, <1>22, <1>23, <1>24, <1>25,
     <1>26, <1>27, <1>28, <1>29, <1>30, <1>31, <1>32, <1>33
  DEF Next, RunPosted, CallbackReturn, ConnectDone, ReadDone, Close

\* Only the lambda of connect posts do_connect.
LEMMA ConnectNotPosted ==
  ASSUME TypeOK, [Next]_vars, ConnectPosted', ~\E thrown \in BOOLEAN : CreatedReturn(thrown)
  PROVE  ConnectPosted
<1>1. PICK i \in 1 .. Len(posted') : posted'[i][1] = "do_connect"
  BY DEF ConnectPosted, IsConnect
<1>2. PICK d \in {0, 1} : i + d \in 1 .. Len(posted) /\ posted'[i] = posted[i + d]
  BY <1>1, PostingSteps DEF Posting, Posts, Common
<1> QED
  BY <1>1, <1>2 DEF ConnectPosted, IsConnect

\* Only its own lambda uses up a close that is posted.
LEMMA CloseStaysPosted ==
  ASSUME TypeOK, [Next]_vars, ClosePosted, ~RunClose
  PROVE  ClosePosted'
<1>1. PICK i \in 1 .. Len(posted) : posted[i][1] = "close"
  BY DEF ClosePosted
<1>2. CASE \E N : Posts(0, N)
  BY <1>1, <1>2 DEF Posts, ClosePosted
<1>3. CASE RunPosted /\ posted # <<>> /\ Posts(1, {})
  <2>1. \E name \in Lambdas \ {"close"} : Running(name)
    BY <1>3 DEF RunPosted, RunCreated, RunDoConnect, RunWrite, RunPlain, Lambdas
  <2>2. i > 1
    BY <1>1, <2>1, RunningFacts
  <2> QED
    <3>1. i - 1 \in 1 .. Len(posted') /\ posted'[i - 1] = posted[i]
      BY <1>1, <1>3, <2>2 DEF Posts
    <3> QED
      BY <1>1, <3>1 DEF ClosePosted
<1> QED
  BY <1>2, <1>3, PostingSteps DEF Posting

\* A channel that is closed before it was connected stays as it is.
LEMMA SetupOverStep ==
  ASSUME IInv, SetupOver, [Next]_vars
  PROVE  SetupOver'
<1> DEFINE Goal == /\ phase' = "created" /\ pc' # "created" /\ ~ConnectPosted'
                   /\ \A o \in SetupOps : op'[o] = "none"
<1> SUFFICES ASSUME proc' = "running", stat' = CLOSED, phase' \in {"new", "created"}
             PROVE  Goal
  BY DEF SetupOver
<1> USE DEF wqVars, sockVars, lifeVars
<1>t. /\ TypeOK /\ op \in OpType /\ stat \in 0 .. 7
      /\ SetupOps = {"resolve", "connect", "handshake"}
      /\ Ops = {"resolve", "connect", "handshake", "read", "write"}
  BY DEF IInv, TypeOK, OpType, Stats, Ops, SetupOps
<1>u. stat = CLOSED /\ proc = "running" /\ phase \in {"new", "created"} =>
        /\ phase = "created" /\ pc # "created" /\ ~ConnectPosted
        /\ \A o \in SetupOps : op[o] = "none"
  BY DEF SetupOver
<1>p. ConnectPosted' => ConnectPosted \/ \E thrown \in BOOLEAN : CreatedReturn(thrown)
  BY <1>t, ConnectNotPosted
<1>s. /\ stat \in {CONNECTED, REQ_CLOSE, DISCONNECTED} => phase \in Live
      /\ shut > 0 => phase \in Live
      /\ pc = "disconnected" => phase = "disconnected"
  BY DEF IInv, StatPhase, OpsPhase, Live
<1>q. \A thrown \in BOOLEAN : CreatedReturn(thrown) => pc = "created" /\ proc = "running"
  BY DEF CreatedReturn
<1> HIDE DEF Goal
<1>1. CASE WriteChannel
  BY <1>t, <1>u, <1>p, <1>q, <1>1 DEF WriteChannel, Goal, Running, StrandFree
<1>2. CASE FireUserEvent
  BY <1>t, <1>u, <1>p, <1>q, <1>2 DEF FireUserEvent, Goal, Running, StrandFree
<1>3. CASE CallbackClose
  BY <1>3 DEF CallbackClose
<1>4. CASE StopService
  BY <1>4 DEF StopService
<1>5. ASSUME NEW c \in Closers, CloserLookup(c) PROVE Goal
  BY <1>t, <1>u, <1>p, <1>q, <1>5 DEF CloserLookup, Goal, Running, StrandFree
<1>6. ASSUME NEW c \in Closers, CloserTest(c) PROVE Goal
  BY <1>t, <1>u, <1>p, <1>q, <1>6 DEF CloserTest, Goal, Running, StrandFree
<1>7. ASSUME NEW c \in Closers, CloserSet(c) PROVE Goal
  BY <1>7 DEF CloserSet
<1>8. ASSUME NEW c \in Closers, CloserPost(c) PROVE Goal
  BY <1>t, <1>u, <1>p, <1>q, <1>8 DEF CloserPost, Goal, Running, StrandFree
<1>9. CASE RunCreated
  <2>1. phase = "new" /\ stat = CLOSED /\ proc = "running"
    BY <1>t, <1>9, RunningFacts DEF RunCreated, IInv, SetupOnce
  <2> QED
    BY <1>u, <2>1
<1>10. CASE RunDoConnect
  <2>1. ConnectPosted /\ stat = CLOSED /\ proc = "running" /\ phase \in {"new", "created"}
    BY <1>t, <1>10, RunningFacts DEF RunDoConnect, ConnectPosted, IsConnect
  <2> QED
    BY <1>u, <2>1
<1>11. CASE RunWrite
  BY <1>t, <1>u, <1>p, <1>q, <1>11 DEF RunWrite, Goal, Running, StrandFree
<1>12. CASE RunClose
  <2>1. stat # REQ_CLOSE
    BY <1>t, <1>s, <1>12, CloseLambdaFacts DEF Graceful, Live
  <2>2. NothingMore(op) /\ proc' = proc
    BY <1>t, <1>12, <2>1, CloseLambdaFacts
  <2> QED
    BY <1>t, <1>u, <1>p, <1>q, <2>2 DEF NothingMore, Goal
<1>13. ASSUME NEW name \in {"exception", "event"}, RunPlain(name) PROVE Goal
  BY <1>t, <1>u, <1>p, <1>q, <1>13 DEF RunPlain, Goal, Running, StrandFree
<1>14. ASSUME NEW thrown \in BOOLEAN, CreatedReturn(thrown) PROVE Goal
  <2>1. pc = "created" /\ proc = "running" /\ phase = "created"
    BY <1>14 DEF CreatedReturn, IInv, OpsPhase
  <2>2. stat # CLOSED
    BY <1>u, <2>1
  <2> QED
    BY <2>2, <1>14 DEF CreatedReturn, CallChannelConnected
<1>15. ASSUME NEW thrown \in BOOLEAN, ConnectedReturn(thrown) PROVE Goal
  <2>1. NothingMore(op) /\ proc = "running"
    BY <1>t, <1>s, <1>15, ConnectedReturnFacts DEF Goes, ReadsOn, Ended, Graceful, Live
  <2> QED
    BY <1>t, <1>u, <1>p, <1>q, <2>1 DEF NothingMore, Goal
<1>16. ASSUME NEW thrown \in BOOLEAN, ReadBufEmpty(thrown) PROVE Goal
  BY <1>t, <1>u, <1>p, <1>q, <1>16 DEF ReadBufEmpty, Goal, Running, StrandFree
<1>17. ASSUME NEW thrown \in BOOLEAN, ReadReturn(thrown) PROVE Goal
  <2>1. NothingMore(op) /\ proc = "running"
    BY <1>t, <1>s, <1>17, ConnectedReturnFacts DEF Goes, ReadsOn, Ended, Graceful, Live
  <2> QED
    BY <1>t, <1>u, <1>p, <1>q, <2>1 DEF NothingMore, Goal
<1>18. ASSUME NEW thrown \in BOOLEAN, WrittenReturn(thrown) PROVE Goal
  <2>1. NothingMore(op) /\ proc = "running"
    BY <1>t, <1>s, <1>18, WrittenReturnFacts DEF Ended, Graceful, Live
  <2> QED
    BY <1>t, <1>u, <1>p, <1>q, <2>1 DEF NothingMore, Goal
<1>19. ASSUME NEW thrown \in BOOLEAN, DisconnectedReturn(thrown) PROVE Goal
  BY <1>s, <1>19 DEF DisconnectedReturn, Live
<1>20. ASSUME NEW thrown \in BOOLEAN, PlainReturn(thrown) PROVE Goal
  BY <1>t, <1>u, <1>p, <1>q, <1>20 DEF PlainReturn, Goal, Running, StrandFree
<1>21. ASSUME NEW thrown \in BOOLEAN, NEW serialized \in BOOLEAN, WriteReturn(thrown, serialized)
      PROVE  Goal
  <2>1. \A o \in SetupOps : op'[o] = op[o]
    BY <1>t, <1>21 DEF WriteReturn, OpType
  <2> QED
    BY <1>t, <1>u, <1>p, <1>q, <1>21, <2>1 DEF WriteReturn, Goal
<1>22. CASE ReadAgain
  BY <1>t, <1>u, <1>p, <1>q, <1>22 DEF ReadAgain, Goal, Running, StrandFree
<1>23. ASSUME NEW o \in Ops, NetComplete(o) PROVE Goal
  <2>1. op[o] = "pending" /\ \A p \in Ops : op'[p] = "none" <=> op[p] = "none"
    BY <1>t, <1>23 DEF NetComplete, Outcomes, OpType
  <2> QED
    BY <1>t, <1>u, <1>p, <1>q, <1>23, <2>1 DEF NetComplete, Goal
<1>24. CASE ResolveComplete
  <2>1. op["resolve"] # "none" /\ phase = "created" /\ proc = "running"
    BY <1>t, <1>24 DEF ResolveComplete, Completing, Completed, StrandFree, IInv, OpsPhase
  <2>2. stat # CLOSED
    BY <1>t, <1>u, <2>1
  <2> QED
    BY <2>2, <1>24 DEF ResolveComplete, CallChannelConnected
<1>25. CASE ConnectComplete
  <2>1. op["connect"] # "none" /\ phase = "created" /\ proc = "running"
    BY <1>t, <1>25 DEF ConnectComplete, Completing, Completed, StrandFree, IInv, OpsPhase
  <2>2. stat # CLOSED
    BY <1>t, <1>u, <2>1
  <2> QED
    BY <2>2, <1>25 DEF ConnectComplete, CallChannelConnected
<1>26. CASE ConnectFailed
  <2>1. op["connect"] # "none" /\ phase = "created" /\ proc = "running"
    BY <1>t, <1>26 DEF ConnectFailed, Completing, Completed, StrandFree, IInv, OpsPhase
  <2>2. stat # CLOSED
    BY <1>t, <1>u, <2>1
  <2> QED
    BY <2>2, <1>26 DEF ConnectFailed, CallChannelConnected
<1>27. CASE ConnectNotInserted
  <2>1. op["connect"] # "none" /\ phase = "created" /\ pc = "idle" /\ proc = "running"
    BY <1>t, <1>27 DEF ConnectNotInserted, Completing, Completed, StrandFree, IInv, OpsPhase
  <2>2. ~ConnectPosted /\ op["resolve"] = "none" /\ op["handshake"] = "none"
    BY <1>t, <2>1 DEF IInv, SetupOnce
  <2>3. [op EXCEPT !["connect"] = "none"] \in OpType
    BY <1>t, OpUpdate DEF OpStates
  <2>4. \A o \in SetupOps : op'[o] = "none"
    <3>1. op' = AbortOps([op EXCEPT !["connect"] = "none"])
      BY <1>27 DEF ConnectNotInserted, CloseImmediately, CloseSocket
    <3>2. \A o \in SetupOps : [op EXCEPT !["connect"] = "none"][o] = "none"
      BY <1>t, <2>2 DEF OpType
    <3> QED
      BY <1>t, <2>3, <3>1, <3>2, AbortOpsFacts
  <2> QED
    BY <1>p, <1>q, <1>27, <2>1, <2>2, <2>4 DEF ConnectNotInserted, Goal
<1>28. CASE HandshakeComplete
  <2>1. op["handshake"] # "none" /\ phase = "created" /\ proc = "running"
    BY <1>t, <1>28 DEF HandshakeComplete, Completing, Completed, StrandFree, IInv, OpsPhase
  <2>2. stat # CLOSED
    BY <1>t, <1>u, <2>1
  <2> QED
    BY <2>2, <1>28 DEF HandshakeComplete, CallChannelConnected
<1>29. CASE ReadComplete
  BY <1>t, <1>u, <1>p, <1>q, <1>29 DEF ReadComplete, Goal, Running, StrandFree
<1>30. CASE ReadFailed
  BY <1>30, ReadFailedFacts
<1>31. CASE WriteComplete
  <2>1. /\ UNCHANGED <<stat, phase>> /\ proc = "running" /\ pc' # "created"
        /\ \A o \in SetupOps : op'[o] = op[o]
    BY <1>t, <1>s, <1>31, WriteCompleteFacts DEF Ended, Graceful, NothingMore, Live, OpType
  <2> QED
    BY <1>t, <1>u, <1>p, <1>q, <2>1 DEF Goal
<1>32. CASE ShutdownComplete
  <2>1. phase \in Live
    BY <1>s, <1>32 DEF ShutdownComplete
  <2> QED
    BY <1>32, <2>1 DEF ShutdownComplete, ShutdownHandler, EnterDisconnected, Live
<1>33. CASE UNCHANGED vars
  BY <1>t, <1>u, <1>p, <1>q, <1>33 DEF vars, Goal
<1> QED
  BY <1>1, <1>2, <1>3, <1>4, <1>5, <1>6, <1>7, <1>8, <1>9, <1>10, <1>11, <1>12, <1>13,
     <1>14, <1>15, <1>16, <1>17, <1>18, <1>19, <1>20, <1>21, <1>22, <1>23, <1>24, <1>25,
     <1>26, <1>27, <1>28, <1>29, <1>30, <1>31, <1>32, <1>33
  DEF Next, RunPosted, CallbackReturn, ConnectDone, ReadDone, Close

\* The first shutdown of the SSL stream, or of the socket, is the last.
LEMMA ShutOnceStep ==
  ASSUME IInv, SetupOver, ShutOnce, [Next]_vars
  PROVE  ShutOnce'
<1> DEFINE Goal == /\ proc' # "terminated"
                   /\ phase' = "disconnected" => stat' >= DISCONNECTED
                   /\ proc' = "running" => issued' <= 1 /\ (stat' # CLOSED => issued' = 0)
<1> SUFFICES ASSUME NoLateStore' PROVE Goal
  BY DEF ShutOnce
<1> USE DEF wqVars, sockVars, lifeVars
<1>t. /\ TypeOK /\ op \in OpType /\ stat \in 0 .. 7 /\ issued \in Nat
      /\ Ops = {"resolve", "connect", "handshake", "read", "write"}
  BY DEF IInv, TypeOK, OpType, Stats, Ops
<1>n. NoLateStore /\ ~\E c \in Closers : CloserSet(c)
  BY <1>t, NoLateStoreBefore
<1>u. /\ proc # "terminated"
      /\ phase = "disconnected" => stat >= DISCONNECTED
      /\ proc = "running" => issued <= 1 /\ (stat # CLOSED => issued = 0)
  BY <1>n DEF ShutOnce
<1>s. /\ stat \in {CONNECTED, REQ_CLOSE} => phase = "connected"
      /\ stat \in {OPEN, STARTED, BOUND, CREATED} => phase # "disconnected"
      /\ shut > 0 => stat # CONNECTED
      /\ pc = "disconnected" => phase = "disconnected"
  BY <1>t, <1>u DEF IInv, StatPhase, OpsPhase, Live
<1>r. phase = "connected" /\ proc = "running" => socket = "open"
  BY DEF IInv, StatPhase, Reachable
<1> HIDE DEF Goal
<1>1. CASE WriteChannel
  BY <1>t, <1>u, <1>1 DEF WriteChannel, Goal
<1>2. CASE FireUserEvent
  BY <1>t, <1>u, <1>2 DEF FireUserEvent, Goal
<1>3. CASE CallbackClose
  BY <1>t, <1>u, <1>s, <1>3 DEF CallbackClose, Closable, Goal
<1>4. CASE StopService
  BY <1>t, <1>u, <1>4 DEF StopService, Goal
<1>5. ASSUME NEW c \in Closers, CloserLookup(c) PROVE Goal
  BY <1>t, <1>u, <1>5 DEF CloserLookup, Goal
<1>6. ASSUME NEW c \in Closers, CloserTest(c) PROVE Goal
  BY <1>t, <1>u, <1>6 DEF CloserTest, Goal
<1>7. ASSUME NEW c \in Closers, CloserSet(c) PROVE Goal
  BY <1>n, <1>7
<1>8. ASSUME NEW c \in Closers, CloserPost(c) PROVE Goal
  BY <1>t, <1>u, <1>8 DEF CloserPost, Goal
<1>9. CASE RunCreated
  BY <1>t, <1>u, <1>9 DEF RunCreated, Goal
<1>10. CASE RunDoConnect
  BY <1>t, <1>u, <1>10 DEF RunDoConnect, Goal
<1>11. CASE RunWrite
  BY <1>t, <1>u, <1>11 DEF RunWrite, Goal
<1>12. CASE RunClose
  <2>1. proc = "running"
    BY <1>t, <1>12, CloseLambdaFacts, RunningFacts
  <2>2. proc' = proc
    BY <1>t, <1>s, <1>r, <1>12, <2>1, CloseLambdaFacts
  <2> QED
    BY <1>t, <1>u, <1>12, <2>1, <2>2, CloseLambdaFacts DEF Graceful, NothingMore, Goal
<1>13. ASSUME NEW name \in {"exception", "event"}, RunPlain(name) PROVE Goal
  BY <1>t, <1>u, <1>13 DEF RunPlain, Goal
<1>14. ASSUME NEW thrown \in BOOLEAN, CreatedReturn(thrown) PROVE Goal
  <2>1. phase = "created" /\ proc = "running"
    BY <1>14 DEF CreatedReturn, IInv, OpsPhase
  <2> QED
    BY <1>t, <1>u, <1>14, <2>1 DEF CreatedReturn, CallChannelConnected, Goal
<1>15. ASSUME NEW thrown \in BOOLEAN, ConnectedReturn(thrown) PROVE Goal
  BY <1>t, <1>u, <1>15, ConnectedReturnFacts
  DEF Goes, ReadsOn, Ended, Graceful, NothingMore, Goal
<1>16. ASSUME NEW thrown \in BOOLEAN, ReadBufEmpty(thrown) PROVE Goal
  BY <1>t, <1>u, <1>16 DEF ReadBufEmpty, Goal
<1>17. ASSUME NEW thrown \in BOOLEAN, ReadReturn(thrown) PROVE Goal
  BY <1>t, <1>u, <1>17, ConnectedReturnFacts
  DEF Goes, ReadsOn, Ended, Graceful, NothingMore, Goal
<1>18. ASSUME NEW thrown \in BOOLEAN, WrittenReturn(thrown) PROVE Goal
  BY <1>t, <1>u, <1>18, WrittenReturnFacts DEF Ended, Graceful, NothingMore, Goal
<1>19. ASSUME NEW thrown \in BOOLEAN, DisconnectedReturn(thrown) PROVE Goal
  <2>1. CASE stat < CLOSED
    BY <1>t, <1>u, <1>19, <2>1 DEF DisconnectedReturn, ReleaseChannel, CloseImmediately, Goal
  <2>2. CASE ~(stat < CLOSED)
    BY <1>t, <1>u, <1>19, <2>2 DEF DisconnectedReturn, ReleaseChannel, Goal
  <2> QED
    BY <2>1, <2>2
<1>20. ASSUME NEW thrown \in BOOLEAN, PlainReturn(thrown) PROVE Goal
  BY <1>t, <1>u, <1>20 DEF PlainReturn, Goal
<1>21. ASSUME NEW thrown \in BOOLEAN, NEW serialized \in BOOLEAN, WriteReturn(thrown, serialized)
      PROVE  Goal
  BY <1>t, <1>u, <1>21 DEF WriteReturn, Goal
<1>22. CASE ReadAgain
  BY <1>t, <1>u, <1>22 DEF ReadAgain, Goal
<1>23. ASSUME NEW o \in Ops, NetComplete(o) PROVE Goal
  BY <1>t, <1>u, <1>23 DEF NetComplete, Goal
<1>24. CASE ResolveComplete
  BY <1>t, <1>u, <1>24 DEF ResolveComplete, Goal
<1>25. CASE ConnectComplete
  <2>1. proc = "running" /\ UNCHANGED <<issued, proc>>
    BY <1>25 DEF ConnectComplete, Completing, StrandFree
  <2>2. UNCHANGED <<stat, phase>> \/ CallChannelConnected
    BY <1>25 DEF ConnectComplete
  <2> QED
    BY <1>t, <1>u, <2>1, <2>2 DEF CallChannelConnected, Goal
<1>26. CASE ConnectFailed
  BY <1>t, <1>u, <1>26 DEF ConnectFailed, Goal
<1>27. CASE ConnectNotInserted
  <2>1. op["connect"] # "none" /\ phase = "created" /\ proc = "running"
    BY <1>t, <1>27 DEF ConnectNotInserted, Completing, Completed, StrandFree, IInv, OpsPhase
  <2>2. stat # CLOSED
    BY <1>t, <2>1 DEF SetupOver, SetupOps
  <2> QED
    BY <1>t, <1>u, <1>27, <2>1, <2>2 DEF ConnectNotInserted, CloseImmediately, Goal
<1>28. CASE HandshakeComplete
  <2>1. proc = "running" /\ UNCHANGED <<issued, proc>>
    BY <1>28 DEF HandshakeComplete, Completing, StrandFree
  <2>2. UNCHANGED <<stat, phase>> \/ CallChannelConnected
    BY <1>28 DEF HandshakeComplete
  <2> QED
    BY <1>t, <1>u, <2>1, <2>2 DEF CallChannelConnected, Goal
<1>29. CASE ReadComplete
  BY <1>t, <1>u, <1>29 DEF ReadComplete, Goal
<1>30. CASE ReadFailed
  BY <1>t, <1>u, <1>30, ReadFailedFacts DEF Goal
<1>31. CASE WriteComplete
  BY <1>t, <1>u, <1>31, WriteCompleteFacts DEF Ended, Graceful, NothingMore, Goal
<1>32. CASE ShutdownComplete
  BY <1>t, <1>u, <1>32
  DEF ShutdownComplete, ShutdownHandler, CloseSocket, EnterDisconnected, StrandFree, Goal
<1>33. CASE UNCHANGED vars
  BY <1>t, <1>u, <1>33 DEF vars, Goal
<1> QED
  BY <1>1, <1>2, <1>3, <1>4, <1>5, <1>6, <1>7, <1>8, <1>9, <1>10, <1>11, <1>12, <1>13,
     <1>14, <1>15, <1>16, <1>17, <1>18, <1>19, <1>20, <1>21, <1>22, <1>23, <1>24, <1>25,
     <1>26, <1>27, <1>28, <1>29, <1>30, <1>31, <1>32, <1>33
  DEF Next, RunPosted, CallbackReturn, ConnectDone, ReadDone, Close

\* channel_context.h and channel_context_base.h: unless another thread has closed the
\* channel, cancel_all is never called on a closed socket, and an SSL stream is shut down
\* at most once, whichever callbacks, completions and lambdas ask for it.
THEOREM ChannelsCloseOnce == Spec => []ClosedOnce
<1>1. Init => SetupOver /\ ShutOnce
  BY DEF Init, SetupOver, ShutOnce
<1>2. IInv /\ (SetupOver /\ ShutOnce) /\ [Next]_vars => (SetupOver /\ ShutOnce)'
  BY SetupOverStep, ShutOnceStep
<1>3. ShutOnce => ClosedOnce
  BY DEF ShutOnce, ClosedOnce
<1>4. Spec => []IInv
  BY Inductive
<1> QED
  BY <1>1, <1>2, <1>3, <1>4, PTL DEF Spec

-------------------------------------------------------------------------------
(* Nothing is forgotten.                                                    *)

\* A service that has stopped does not run again, and a channel is created once.
LEMMA LifeGoesOn ==
  ASSUME TypeOK, [Next]_vars
  PROVE  /\ proc' = "running" => proc = "running"
         /\ phase' = "new" => phase = "new" /\ ~RunCreated
         /\ phase' = "created" => phase = "created" \/ RunCreated
<1> USE DEF lifeVars
<1>1. CASE RunCreated
  BY <1>1, RunningFacts DEF RunCreated
<1>2. CASE ~RunCreated
  <2> DEFINE G == /\ proc' = "running" => proc = "running"
                  /\ phase' = "new" => phase = "new"
                  /\ phase' = "created" => phase = "created"
  <2>1. G
    <3>1. CASE WriteChannel
      BY <3>1 DEF WriteChannel
    <3>2. CASE FireUserEvent
      BY <3>2 DEF FireUserEvent
    <3>3. CASE CallbackClose
      BY <3>3 DEF CallbackClose
    <3>4. CASE StopService
      BY <3>4 DEF StopService
    <3>5. ASSUME NEW c \in Closers, CloserLookup(c) PROVE G
      BY <3>5 DEF CloserLookup
    <3>6. ASSUME NEW c \in Closers, CloserTest(c) PROVE G
      BY <3>6 DEF CloserTest
    <3>7. ASSUME NEW c \in Closers, CloserSet(c) PROVE G
      BY <3>7 DEF CloserSet
    <3>8. ASSUME NEW c \in Closers, CloserPost(c) PROVE G
      BY <3>8 DEF CloserPost
    <3>10. CASE RunDoConnect
      BY <3>10 DEF RunDoConnect
    <3>11. CASE RunWrite
      BY <3>11 DEF RunWrite
    <3>12. CASE RunClose
      BY <3>12, CloseLambdaFacts, RunningFacts DEF Graceful, NothingMore
    <3>13. ASSUME NEW name \in {"exception", "event"}, RunPlain(name) PROVE G
      BY <3>13 DEF RunPlain
    <3>14. ASSUME NEW thrown \in BOOLEAN, CreatedReturn(thrown) PROVE G
      BY <3>14 DEF CreatedReturn, CallChannelConnected, Completing, StrandFree
    <3>15. ASSUME NEW thrown \in BOOLEAN, ConnectedReturn(thrown) PROVE G
      BY <3>15, ConnectedReturnFacts DEF Goes, ReadsOn, Ended, Graceful, NothingMore
    <3>16. ASSUME NEW thrown \in BOOLEAN, ReadBufEmpty(thrown) PROVE G
      BY <3>16 DEF ReadBufEmpty
    <3>17. ASSUME NEW thrown \in BOOLEAN, ReadReturn(thrown) PROVE G
      BY <3>17, ConnectedReturnFacts DEF Goes, ReadsOn, Ended, Graceful, NothingMore
    <3>18. ASSUME NEW thrown \in BOOLEAN, WrittenReturn(thrown) PROVE G
      BY <3>18, WrittenReturnFacts DEF Ended, Graceful, NothingMore
    <3>19. ASSUME NEW thrown \in BOOLEAN, DisconnectedReturn(thrown) PROVE G
      BY <3>19 DEF DisconnectedReturn
    <3>20. ASSUME NEW thrown \in BOOLEAN, PlainReturn(thrown) PROVE G
      BY <3>20 DEF PlainReturn
    <3>21. ASSUME NEW thrown \in BOOLEAN, NEW serialized \in BOOLEAN, WriteReturn(thrown, serialized)
          PROVE  G
      BY <3>21 DEF WriteReturn
    <3>22. CASE ReadAgain
      BY <3>22 DEF ReadAgain
    <3>23. ASSUME NEW o \in Ops, NetComplete(o) PROVE G
      BY <3>23 DEF NetComplete
    <3>24. CASE ResolveComplete
      BY <3>24 DEF ResolveComplete
    <3>25. CASE ConnectComplete
      BY <3>25 DEF ConnectComplete, CallChannelConnected, Completing, StrandFree
    <3>26. CASE ConnectFailed
      BY <3>26 DEF ConnectFailed
    <3>27. CASE ConnectNotInserted
      BY <3>27 DEF ConnectNotInserted
    <3>28. CASE HandshakeComplete
      BY <3>28 DEF HandshakeComplete, CallChannelConnected, Completing, StrandFree
    <3>29. CASE ReadComplete
      BY <3>29 DEF ReadComplete
    <3>30. CASE ReadFailed
      BY <3>30 DEF ReadFailed, EnterDisconnected
    <3>31. CASE WriteComplete
      BY <3>31, WriteCompleteFacts DEF Ended, Graceful, NothingMore
    <3>32. CASE ShutdownComplete
      BY <3>32 DEF ShutdownComplete, ShutdownHandler, EnterDisconnected
    <3>33. CASE UNCHANGED vars
      BY <3>33 DEF vars
    <3> QED
      BY <3>1, <3>2, <3>3, <3>4, <3>5, <3>6, <3>7, <3>8, <3>10, <3>11, <3>12, <3>13, <3>14,
         <3>15, <3>16, <3>17, <3>18, <3>19, <3>20, <3>21, <3>22, <3>23, <3>24, <3>25, <3>26,
         <3>27, <3>28, <3>29, <3>30, <3>31, <3>32, <3>33, <1>2
      DEF Next, RunPosted, CallbackReturn, ConnectDone, ReadDone, Close
  <2> QED
    BY <1>2, <2>1
<1> QED
  BY <1>1, <1>2

\* The lambda of the created callback is the first one until it runs.
LEMMA FirstLambdaStep ==
  ASSUME TypeOK, FirstLambda, [Next]_vars
  PROVE  FirstLambda'
<1> SUFFICES ASSUME phase' = "new" PROVE posted' # <<>> /\ posted'[1][1] = "created"
  BY DEF FirstLambda
<1>1. phase = "new" /\ ~RunCreated /\ posted # <<>> /\ posted[1][1] = "created"
  BY LifeGoesOn DEF FirstLambda
<1>2. 1 \in 1 .. Len(posted)
  BY <1>1 DEF TypeOK
<1>3. CASE \E N : Posts(0, N)
  <2>1. 1 - 0 \in 1 .. Len(posted') /\ posted'[1 - 0] = posted[1]
    BY <1>2, <1>3 DEF Posts
  <2> QED
    BY <1>1, <2>1
<1>4. CASE RunPosted
  <2>1. PICK name \in Lambdas \ {"created"} : Running(name)
    BY <1>1, <1>4 DEF RunPosted, RunDoConnect, RunWrite, RunClose, RunPlain, Lambdas
  <2> QED
    BY <1>1, <2>1, RunningFacts
<1> QED
  BY <1>3, <1>4, PostingSteps DEF Posting

\* Only its own lambda uses up a connect that is posted.
LEMMA ConnectStaysPosted ==
  ASSUME TypeOK, [Next]_vars, ConnectPosted, ~RunDoConnect
  PROVE  ConnectPosted'
<1>1. PICK i \in 1 .. Len(posted) : posted[i][1] = "do_connect"
  BY DEF ConnectPosted, IsConnect
<1>2. CASE \E N : Posts(0, N)
  BY <1>1, <1>2 DEF Posts, ConnectPosted, IsConnect
<1>3. CASE RunPosted /\ posted # <<>> /\ Posts(1, {})
  <2>1. \E name \in Lambdas \ {"do_connect"} : Running(name)
    BY <1>3 DEF RunPosted, RunCreated, RunClose, RunWrite, RunPlain, Lambdas
  <2>2. i > 1
    BY <1>1, <2>1, RunningFacts
  <2> QED
    BY <1>1, <1>3, <2>2, ZenonT(40) DEF Posts, ConnectPosted, IsConnect
<1> QED
  BY <1>2, <1>3, PostingSteps DEF Posting

\* _task_in_progress is cleared when what it stands for is over.
LEMMA RealStep ==
  ASSUME IInv, TasksAreReal, [Next]_vars
  PROVE  TasksAreReal'
<1> DEFINE Goal(t) == \/ op'[t] # "none" \/ (t = "connect" /\ ConnectPosted')
                      \/ (t = "write" /\ wq' # <<>>)
<1> SUFFICES ASSUME NEW t \in tasks' PROVE Goal(t)
  BY DEF TasksAreReal, IsReal
<1> USE DEF wqVars, sockVars, lifeVars
<1>t. /\ TypeOK /\ op \in OpType /\ tasks \subseteq Tasks /\ wq \in Seq(Nat)
      /\ Ops = {"resolve", "connect", "handshake", "read", "write"}
      /\ Tasks = {"connect", "handshake", "read", "write"}
  BY DEF IInv, TypeOK, OpType, Ops, Tasks
<1>u. t \in tasks => \/ op[t] # "none" \/ (t = "connect" /\ ConnectPosted)
                     \/ (t = "write" /\ wq # <<>>)
  BY DEF TasksAreReal, IsReal
<1>c. ConnectPosted => ConnectPosted' \/ RunDoConnect
  BY <1>t, ConnectStaysPosted
<1>k. RunDoConnect => op' = [op EXCEPT !["connect"] = "pending"]
  BY DEF RunDoConnect
<1>d. RunDoConnect => op'["connect"] # "none"
  BY <1>t, <1>k DEF OpType
<1> HIDE DEF Goal
<1>1. CASE WriteChannel
  BY <1>t, <1>u, <1>c, <1>d, <1>1 DEF WriteChannel, Goal, OpType
<1>2. CASE FireUserEvent
  BY <1>t, <1>u, <1>c, <1>d, <1>2 DEF FireUserEvent, Goal, OpType
<1>3. CASE CallbackClose
  BY <1>t, <1>u, <1>c, <1>d, <1>3 DEF CallbackClose, Goal, OpType
<1>4. CASE StopService
  BY <1>t, <1>u, <1>c, <1>d, <1>4, AbortOpsFacts
  DEF StopService, CloseImmediately, CloseSocket, Goal
<1>5. ASSUME NEW c \in Closers, CloserLookup(c) PROVE Goal(t)
  BY <1>t, <1>u, <1>c, <1>d, <1>5 DEF CloserLookup, Goal, OpType
<1>6. ASSUME NEW c \in Closers, CloserTest(c) PROVE Goal(t)
  BY <1>t, <1>u, <1>c, <1>d, <1>6 DEF CloserTest, Goal, OpType
<1>7. ASSUME NEW c \in Closers, CloserSet(c) PROVE Goal(t)
  BY <1>t, <1>u, <1>c, <1>d, <1>7 DEF CloserSet, Goal, OpType
<1>8. ASSUME NEW c \in Closers, CloserPost(c) PROVE Goal(t)
  BY <1>t, <1>u, <1>c, <1>d, <1>8 DEF CloserPost, Goal, OpType
<1>9. CASE RunCreated
  BY <1>t, <1>u, <1>c, <1>d, <1>9 DEF RunCreated, Goal, OpType
<1>10. CASE RunDoConnect
  BY <1>t, <1>u, <1>c, <1>d, <1>10 DEF RunDoConnect, Goal, OpType
<1>11. CASE RunWrite
  BY <1>t, <1>u, <1>c, <1>d, <1>11 DEF RunWrite, Goal, OpType
<1>12. CASE RunClose
  BY <1>t, <1>u, <1>c, <1>d, <1>12, CloseLambdaFacts DEF Graceful, NothingMore, Goal
<1>13. ASSUME NEW name \in {"exception", "event"}, RunPlain(name) PROVE Goal(t)
  BY <1>t, <1>u, <1>c, <1>d, <1>13 DEF RunPlain, Goal, OpType
<1>14. ASSUME NEW thrown \in BOOLEAN, CreatedReturn(thrown) PROVE Goal(t)
  <2>1. CASE posted' = Append(Report(thrown, posted), Lambda("do_connect"))
    <3>1. Report(thrown, posted) \in Seq(LambdaType) /\ Lambda("do_connect") \in LambdaType
      BY <1>t, <1>14, ReportType DEF TypeOK, LambdaType, Lambda, Lambdas
    <3>2. \E i \in 1 .. Len(posted') : posted'[i] = Lambda("do_connect")
      BY <2>1, <3>1
    <3>3. ConnectPosted'
      BY <3>2 DEF ConnectPosted, IsConnect, Lambda
    <3>4. \A p \in Ops : op[p] # "none" => op'[p] # "none"
      BY <1>t, <1>14 DEF CreatedReturn, OpType
    <3>5. t \in tasks \/ op'[t] # "none" \/ t = "connect"
      BY <1>t, <1>14 DEF CreatedReturn, OpType
    <3>6. wq' = wq
      BY <1>14 DEF CreatedReturn
    <3> QED
      BY <1>t, <1>u, <1>c, <1>d, <3>3, <3>4, <3>5, <3>6 DEF Goal
  <2>2. CASE tasks' = tasks \cup {"handshake"} /\ op' = [op EXCEPT !["handshake"] = "pending"]
    BY <1>t, <1>u, <1>c, <1>d, <1>14, <2>2 DEF CreatedReturn, Goal, OpType
  <2>3. CASE tasks' = tasks /\ (op' = op \/ op' = [op EXCEPT !["resolve"] = "pending"])
    BY <1>t, <1>u, <1>c, <1>d, <1>14, <2>3 DEF CreatedReturn, Goal, OpType
  <2> QED
    BY <1>14, <2>1, <2>2, <2>3 DEF CreatedReturn
<1>15. ASSUME NEW thrown \in BOOLEAN, ConnectedReturn(thrown) PROVE Goal(t)
  <2>1. CASE ReadsOn
    BY <1>t, <1>u, <1>c, <1>d, <1>15, <2>1, ConnectedReturnFacts DEF ReadsOn, Goal, OpType
  <2>2. CASE tasks' = tasks /\ Ended(tasks, op)
    BY <1>t, <1>u, <1>c, <1>d, <1>15, <2>2, ConnectedReturnFacts
    DEF Ended, Graceful, NothingMore, Goal
  <2> QED
    BY <1>t, <1>15, <2>1, <2>2, ConnectedReturnFacts DEF Goes
<1>16. ASSUME NEW thrown \in BOOLEAN, ReadBufEmpty(thrown) PROVE Goal(t)
  BY <1>t, <1>u, <1>c, <1>d, <1>16 DEF ReadBufEmpty, Goal, OpType
<1>17. ASSUME NEW thrown \in BOOLEAN, ReadReturn(thrown) PROVE Goal(t)
  <2>1. CASE ReadsOn
    BY <1>t, <1>u, <1>c, <1>d, <1>17, <2>1, ConnectedReturnFacts DEF ReadsOn, Goal, OpType
  <2>2. CASE tasks' = tasks /\ Ended(tasks, op)
    BY <1>t, <1>u, <1>c, <1>d, <1>17, <2>2, ConnectedReturnFacts
    DEF Ended, Graceful, NothingMore, Goal
  <2> QED
    BY <1>t, <1>17, <2>1, <2>2, ConnectedReturnFacts DEF Goes
<1>18. ASSUME NEW thrown \in BOOLEAN, WrittenReturn(thrown) PROVE Goal(t)
  <2>1. CASE tasks' = tasks \cup {"write"} /\ op' = [op EXCEPT !["write"] = "pending"]
    BY <1>t, <1>u, <1>c, <1>d, <1>18, <2>1, WrittenReturnFacts DEF Goal, OpType
  <2>2. CASE tasks' = tasks /\ Ended(tasks, op)
    BY <1>t, <1>u, <1>c, <1>d, <1>18, <2>2, WrittenReturnFacts
    DEF Ended, Graceful, NothingMore, Goal
  <2> QED
    BY <1>t, <1>18, <2>1, <2>2, WrittenReturnFacts
<1>19. ASSUME NEW thrown \in BOOLEAN, DisconnectedReturn(thrown) PROVE Goal(t)
  BY <1>t, <1>u, <1>c, <1>d, <1>19, AbortOpsFacts
  DEF DisconnectedReturn, ReleaseChannel, CloseImmediately, CloseSocket, Goal
<1>20. ASSUME NEW thrown \in BOOLEAN, PlainReturn(thrown) PROVE Goal(t)
  BY <1>t, <1>u, <1>c, <1>d, <1>20 DEF PlainReturn, Goal, OpType
<1>21. ASSUME NEW thrown \in BOOLEAN, NEW serialized \in BOOLEAN, WriteReturn(thrown, serialized)
      PROVE  Goal(t)
  <2>1. CASE serialized /\ Sendable
    <3>1. /\ tasks' = tasks \cup {"write"} /\ wq' = Append(wq, cur)
          /\ op' = op \/ op' = [op EXCEPT !["write"] = "pending"]
      BY <1>21, <2>1 DEF WriteReturn
    <3>2. wq' # <<>>
      BY <1>t, <3>1, SMTT(20) DEF TypeOK
    <3> QED
      BY <1>t, <1>u, <1>c, <1>d, <3>1, <3>2 DEF Goal, OpType
  <2>2. CASE ~(serialized /\ Sendable)
    BY <1>t, <1>u, <1>c, <1>d, <1>21, <2>2 DEF WriteReturn, Goal
  <2> QED
    BY <2>1, <2>2
<1>22. CASE ReadAgain
  BY <1>t, <1>u, <1>c, <1>d, <1>22 DEF ReadAgain, Goal, OpType
<1>23. ASSUME NEW o \in Ops, NetComplete(o) PROVE Goal(t)
  <2>1. \A p \in Ops : op'[p] = "none" <=> op[p] = "none"
    BY <1>t, <1>23 DEF NetComplete, Outcomes, OpType
  <2> QED
    BY <1>t, <1>u, <1>c, <1>d, <1>23, <2>1 DEF NetComplete, Goal
<1>24. CASE ResolveComplete
  BY <1>t, <1>u, <1>c, <1>d, <1>24 DEF ResolveComplete, Goal, OpType
<1>25. CASE ConnectComplete
  BY <1>t, <1>u, <1>c, <1>d, <1>25 DEF ConnectComplete, Cleared, Goal, OpType
<1>26. CASE ConnectFailed
  BY <1>t, <1>u, <1>c, <1>d, <1>26 DEF ConnectFailed, Cleared, Goal, OpType
<1>27. CASE ConnectNotInserted
  <2>1. [op EXCEPT !["connect"] = "none"] \in OpType
    BY <1>t, OpUpdate DEF OpStates
  <2>2. /\ op' = AbortOps([op EXCEPT !["connect"] = "none"])
        /\ tasks' = tasks \ {"connect"} /\ wq' = wq
    BY <1>27 DEF ConnectNotInserted, CloseImmediately, CloseSocket, Cleared
  <2>3. \A s \in Ops \ {"connect"} : [op EXCEPT !["connect"] = "none"][s] = op[s]
    BY <1>t DEF OpType
  <2>4. \A s \in Ops \ {"connect"} : op'[s] = "none" <=> op[s] = "none"
    <3> DEFINE o == [op EXCEPT !["connect"] = "none"]
    <3>1. o \in OpType /\ op' = AbortOps(o) /\ \A s \in Ops \ {"connect"} : o[s] = op[s]
      BY <2>1, <2>2, <2>3
    <3> HIDE DEF o
    <3> QED
      BY <1>t, <3>1, AbortOpsFacts
  <2> QED
    BY <1>t, <1>u, <1>c, <1>d, <2>2, <2>4 DEF Goal
<1>28. CASE HandshakeComplete
  BY <1>t, <1>u, <1>c, <1>d, <1>28 DEF HandshakeComplete, Cleared, Goal, OpType
<1>29. CASE ReadComplete
  BY <1>t, <1>u, <1>c, <1>d, <1>29 DEF ReadComplete, Cleared, Goal, OpType
<1>30. CASE ReadFailed
  BY <1>t, <1>u, <1>c, <1>d, <1>30, ReadFailedFacts DEF Goal, OpType
<1>31. CASE WriteComplete
  <2>1. tasks' = tasks \ {"write"} /\ \A s \in Ops \ {"write"} : op'[s] = "none" <=> op[s] = "none"
    BY <1>t, <1>31, WriteCompleteFacts DEF Ended, Graceful, NothingMore, OpType
  <2> QED
    BY <1>t, <1>u, <1>c, <1>d, <2>1 DEF Goal
<1>32. CASE ShutdownComplete
  BY <1>t, <1>u, <1>c, <1>d, <1>32, AbortOpsFacts
  DEF ShutdownComplete, ShutdownHandler, CloseSocket, Goal
<1>33. CASE UNCHANGED vars
  BY <1>t, <1>u, <1>c, <1>d, <1>33 DEF vars, Goal
<1> QED
  BY <1>1, <1>2, <1>3, <1>4, <1>5, <1>6, <1>7, <1>8, <1>9, <1>10, <1>11, <1>12, <1>13,
     <1>14, <1>15, <1>16, <1>17, <1>18, <1>19, <1>20, <1>21, <1>22, <1>23, <1>24, <1>25,
     <1>26, <1>27, <1>28, <1>29, <1>30, <1>31, <1>32, <1>33
  DEF Next, RunPosted, CallbackReturn, ConnectDone, ReadDone, Close

\* A step that leaves a channel waiting for what it was waiting for.
AnchorKept ==
  /\ UNCHANGED <<kind, stat, phase, inMap, shut>>
  /\ \/ pc' = pc \/ pc \in {"idle", "write", "exception", "event"}
     \/ pc = "read" /\ pc' = "rdbuf_empty"
  /\ \A o \in Tasks : op[o] # "none" => op'[o] # "none"
  /\ "write" \in tasks => "write" \in tasks'
  /\ ClosePosted => ClosePosted'
  /\ \A c \in Closers : closer[c] = "post" => closer'[c] = "post" \/ ClosePosted'

\* Such a step keeps the channel anchored.
LEMMA AnchorStays ==
  ASSUME SetupHeld, ConnectedHeld, LeavesMap, AnchorKept
  PROVE  SetupHeld' /\ ConnectedHeld' /\ LeavesMap'
<1>1. SetupHeld'
  BY DEF AnchorKept, SetupHeld, Ssl, Server
<1>2. LeavesMap'
  BY DEF AnchorKept, LeavesMap
<1>3. CloseIsHeld => CloseIsHeld'
  BY DEF AnchorKept, CloseIsHeld
<1>4. op["read"] # "none" => op'["read"] # "none"
  BY DEF AnchorKept, Tasks
<1>5. ConnectedHeld'
  BY <1>3, <1>4 DEF AnchorKept, ConnectedHeld
<1> QED
  BY <1>1, <1>2, <1>5

\* close_gracefully gives the channel to the disconnected callback or to the shutdown of
\* its SSL stream.
LEMMA GracefulHeld ==
  ASSUME IInv, SetupHeld, ConnectedHeld, LeavesMap, proc = "running", stat = REQ_CLOSE,
         pc # "disconnected", NEW o, Graceful(o), UNCHANGED inMap
  PROVE  SetupHeld' /\ ConnectedHeld' /\ LeavesMap'
<1>1. phase \in Live /\ shut \in Nat /\ connected \in BOOLEAN /\ (connected <=> phase = "connected")
  BY DEF IInv, StatPhase, TypeOK
<1>2. phase = "connected" => socket = "open"
  BY <1>1 DEF IInv, Reachable
<1>3. phase = "disconnected" => ~inMap
  BY DEF LeavesMap
<1>4. phase' \in Live /\ stat' = CLOSED
  BY <1>1 DEF Graceful, Live
<1>5. SetupHeld'
  BY <1>4 DEF SetupHeld, Live
<1>6. LeavesMap'
  BY <1>1, <1>3 DEF Graceful, LeavesMap, Live
<1>7. phase' = "connected" => shut' > 0
  BY <1>1, <1>2 DEF Graceful, Live
<1>8. ConnectedHeld'
  BY <1>4, <1>7 DEF ConnectedHeld
<1> QED
  BY <1>5, <1>6, <1>8

\* A channel that is busy when it is to be closed has something outstanding.
LEMMA BusyIsHeld ==
  ASSUME IInv, TasksAreReal, NEW t \in tasks, phase = "connected"
  PROVE  (t \in Tasks /\ op[t] # "none") \/ (t = "write" /\ wq # <<>>)
<1>1. ~ConnectPosted
  BY DEF IInv, SetupOnce
<1>2. t \in Tasks
  BY DEF IInv, TypeOK
<1> QED
  BY <1>1, <1>2 DEF TasksAreReal, IsReal

\* The end of a callback that leaves the channel as it is.
LEMMA NothingMoreHeld ==
  ASSUME IInv, SetupHeld, ConnectedHeld, LeavesMap, TasksAreReal,
         pc \notin {"created", "disconnected"}, NothingMore(op),
         stat = CONNECTED => op["read"] # "none", stat = REQ_CLOSE => tasks # {},
         UNCHANGED <<kind, tasks, inMap>>
  PROVE  SetupHeld' /\ ConnectedHeld' /\ LeavesMap'
<1>1. op' = op /\ UNCHANGED <<stat, phase, shut>>
  BY DEF NothingMore
<1>2. SetupHeld' /\ LeavesMap'
  BY <1>1 DEF SetupHeld, LeavesMap, Ssl, Server
<1>3. phase = "connected" /\ stat = REQ_CLOSE => CloseIsHeld'
  <2> SUFFICES ASSUME phase = "connected", tasks # {} PROVE CloseIsHeld'
    OBVIOUS
  <2>1. PICK t \in tasks : TRUE
    OBVIOUS
  <2> QED
    BY <1>1, <2>1, BusyIsHeld DEF CloseIsHeld
<1>4. ConnectedHeld'
  BY <1>1, <1>3 DEF ConnectedHeld
<1> QED
  BY <1>2, <1>4

\* fire_channel_close posts its lambda.
LEMMA CloseGetsPosted ==
  ASSUME TypeOK, posted' = Append(posted, Lambda("close"))
  PROVE  ClosePosted'
<1> DEFINE l == Lambda("close")
<1>1. /\ posted \in Seq(LambdaType) /\ posted' = Append(posted, l)
      /\ l \in LambdaType /\ l[1] = "close"
  BY DEF TypeOK, LambdaType, Lambda, Lambdas
<1> HIDE DEF l
<1>2. Len(posted) + 1 \in 1 .. Len(posted') /\ posted'[Len(posted) + 1] = l
  BY <1>1
<1> QED
  BY <1>1, <1>2 DEF ClosePosted

\* Every step leaves a channel that is in the map waiting for something.
LEMMA AnchoredStep ==
  ASSUME IInv, SetupOver, TasksAreReal, Anchored, [Next]_vars
  PROVE  Anchored'
<1> DEFINE Goal == SetupHeld' /\ ConnectedHeld' /\ LeavesMap'
<1> USE DEF wqVars, sockVars, lifeVars
<1>t. /\ TypeOK /\ op \in OpType /\ stat \in 0 .. 7 /\ shut \in Nat /\ wq \in Seq(Nat)
      /\ Ops = {"resolve", "connect", "handshake", "read", "write"}
      /\ Tasks = {"connect", "handshake", "read", "write"}
      /\ closer \in [Closers -> {"lookup", "test", "set", "post", "done"}]
  BY DEF IInv, TypeOK, OpType, Stats, Ops, Tasks
<1> SUFFICES ASSUME proc' = "running" PROVE FirstLambda' /\ Goal
  BY DEF Anchored
<1>u. proc = "running" /\ FirstLambda /\ SetupHeld /\ ConnectedHeld /\ LeavesMap
  BY <1>t, LifeGoesOn DEF Anchored
<1>f. FirstLambda'
  BY <1>t, <1>u, FirstLambdaStep
<1>c. ClosePosted => ClosePosted' \/ RunClose
  BY <1>t, CloseStaysPosted
<1>i. /\ stat \notin {OPEN, STARTED, BOUND} /\ (connected <=> phase = "connected")
      /\ stat = CONNECTED => phase = "connected"
      /\ stat \in {REQ_CLOSE, DISCONNECTED} => phase \in Live
      /\ \A c \in Closers : closer[c] = "set" => phase \in Live
      /\ shut > 0 => phase \in Live
      /\ pc = "disconnected" => phase = "disconnected"
      /\ pc = "created" => phase = "created"
      /\ op["read"] # "none" => phase = "connected"
      /\ \A o \in {"resolve", "connect", "handshake"} : op[o] # "none" => phase = "created"
  BY DEF IInv, StatPhase, OpsPhase
<1>e. stat = CLOSED /\ phase = "created" =>
        pc # "created" /\ \A o \in {"resolve", "connect", "handshake"} : op[o] = "none"
  BY <1>u DEF SetupOver, SetupOps
<1>k. AnchorKept => Goal
  BY <1>u, AnchorStays
<1>v. (phase' = "connected" /\ stat' = CONNECTED /\ pc' = "connected") => Goal
  BY DEF SetupHeld, ConnectedHeld, LeavesMap
<1>w. phase' = "disconnected" /\ (inMap' => pc' = "disconnected") => Goal
  BY DEF SetupHeld, ConnectedHeld, LeavesMap
<1>x. phase' = "created" /\ phase = "created" /\ pc = "idle" /\ (inMap' => inMap \/ Ssl)
        /\ UNCHANGED kind => Goal
  BY <1>u DEF SetupHeld, ConnectedHeld, LeavesMap, Ssl, Server
<1>y. CallChannelConnected /\ phase = "created" /\ stat # CLOSED => Goal
  BY <1>t, <1>i, <1>v DEF CallChannelConnected, Live
<1>z. stat = REQ_CLOSE /\ pc # "disconnected" /\ (\E o : Graceful(o)) /\ UNCHANGED inMap => Goal
  BY <1>u, GracefulHeld
<1> HIDE DEF Goal
<1>h. ASSUME RunClose PROVE Goal
  <2>1. pc = "idle" /\ UNCHANGED <<kind, tasks, wq, inMap>>
    BY <1>t, <1>h, CloseLambdaFacts, RunningFacts
  <2>2. CASE stat # REQ_CLOSE /\ NothingMore(op)
    <3>1. stat = CONNECTED => op["read"] # "none"
      BY <1>u, <1>i, <2>1 DEF ConnectedHeld
    <3> QED
      BY <1>u, <2>1, <2>2, <3>1, NothingMoreHeld DEF Goal
  <2>3. CASE stat = REQ_CLOSE /\ Graceful(op)
    BY <1>z, <2>1, <2>3
  <2>4. CASE /\ stat = REQ_CLOSE /\ tasks # {}
             /\ \A p \in Ops : op'[p] = "none" <=> op[p] = "none"
             /\ UNCHANGED <<stat, connected, phase, socket, shut, issued, pc>>
    <3>1. PICK s \in tasks : TRUE
      BY <2>4
    <3>2. phase = "connected" => CloseIsHeld'
      BY <1>t, <2>1, <2>4, <3>1, BusyIsHeld DEF CloseIsHeld
    <3> QED
      BY <1>u, <2>1, <2>4, <3>2 DEF Goal, SetupHeld, ConnectedHeld, LeavesMap, Ssl, Server
  <2> QED
    BY <1>t, <1>h, <2>2, <2>3, <2>4, CloseLambdaFacts
<1>g. ASSUME ~RunClose PROVE Goal
  <2>1. CASE WriteChannel
    <3>1. \A p \in Tasks : op[p] # "none" => op'[p] # "none"
      BY <1>t, <2>1 DEF WriteChannel, OpType
    <3>2. /\ UNCHANGED <<kind, stat, phase, inMap, shut>>
          /\ \/ pc' = pc \/ pc \in {"idle", "write", "exception", "event"}
             \/ pc = "read" /\ pc' = "rdbuf_empty"
      BY <1>t, <2>1 DEF WriteChannel, Running, Completing, StrandFree
    <3>3. "write" \in tasks => "write" \in tasks'
      BY <1>t, <2>1 DEF WriteChannel
    <3>4. ClosePosted => ClosePosted'
      BY <1>c, <1>g
    <3>5. \A c1 \in Closers : closer[c1] = "post" => closer'[c1] = "post" \/ ClosePosted'
      BY <1>t, <2>1 DEF WriteChannel
    <3> QED
      BY <1>k, <3>1, <3>2, <3>3, <3>4, <3>5 DEF AnchorKept
  <2>2. CASE FireUserEvent
    <3>1. \A p \in Tasks : op[p] # "none" => op'[p] # "none"
      BY <1>t, <2>2 DEF FireUserEvent, OpType
    <3>2. /\ UNCHANGED <<kind, stat, phase, inMap, shut>>
          /\ \/ pc' = pc \/ pc \in {"idle", "write", "exception", "event"}
             \/ pc = "read" /\ pc' = "rdbuf_empty"
      BY <1>t, <2>2 DEF FireUserEvent, Running, Completing, StrandFree
    <3>3. "write" \in tasks => "write" \in tasks'
      BY <1>t, <2>2 DEF FireUserEvent
    <3>4. ClosePosted => ClosePosted'
      BY <1>c, <1>g
    <3>5. \A c1 \in Closers : closer[c1] = "post" => closer'[c1] = "post" \/ ClosePosted'
      BY <1>t, <2>2 DEF FireUserEvent
    <3> QED
      BY <1>k, <3>1, <3>2, <3>3, <3>4, <3>5 DEF AnchorKept
  <2>3. CASE CallbackClose
    <3>1. ClosePosted'
      BY <1>t, <2>3, CloseGetsPosted DEF CallbackClose
    <3>2. stat = CONNECTED /\ phase = "connected" /\ phase' = phase /\ stat' = REQ_CLOSE
      BY <1>t, <1>i, <2>3 DEF CallbackClose, Closable
    <3> QED
      BY <3>1, <3>2 DEF Goal, SetupHeld, ConnectedHeld, LeavesMap, CloseIsHeld
  <2>4. CASE StopService
    BY <2>4 DEF StopService
  <2>5. ASSUME NEW c \in Closers, CloserLookup(c) PROVE Goal
    <3>1. \A p \in Tasks : op[p] # "none" => op'[p] # "none"
      BY <1>t, <2>5 DEF CloserLookup, OpType
    <3>2. /\ UNCHANGED <<kind, stat, phase, inMap, shut>>
          /\ \/ pc' = pc \/ pc \in {"idle", "write", "exception", "event"}
             \/ pc = "read" /\ pc' = "rdbuf_empty"
      BY <1>t, <2>5 DEF CloserLookup, Running, Completing, StrandFree
    <3>3. "write" \in tasks => "write" \in tasks'
      BY <1>t, <2>5 DEF CloserLookup
    <3>4. ClosePosted => ClosePosted'
      BY <1>c, <1>g
    <3>5. \A c1 \in Closers : closer[c1] = "post" => closer'[c1] = "post" \/ ClosePosted'
      BY <1>t, <2>5 DEF CloserLookup
    <3> QED
      BY <1>k, <3>1, <3>2, <3>3, <3>4, <3>5 DEF AnchorKept
  <2>6. ASSUME NEW c \in Closers, CloserTest(c) PROVE Goal
    <3>1. \A p \in Tasks : op[p] # "none" => op'[p] # "none"
      BY <1>t, <2>6 DEF CloserTest, OpType
    <3>2. /\ UNCHANGED <<kind, stat, phase, inMap, shut>>
          /\ \/ pc' = pc \/ pc \in {"idle", "write", "exception", "event"}
             \/ pc = "read" /\ pc' = "rdbuf_empty"
      BY <1>t, <2>6 DEF CloserTest, Running, Completing, StrandFree
    <3>3. "write" \in tasks => "write" \in tasks'
      BY <1>t, <2>6 DEF CloserTest
    <3>4. ClosePosted => ClosePosted'
      BY <1>c, <1>g
    <3>5. \A c1 \in Closers : closer[c1] = "post" => closer'[c1] = "post" \/ ClosePosted'
      BY <1>t, <2>6 DEF CloserTest
    <3> QED
      BY <1>k, <3>1, <3>2, <3>3, <3>4, <3>5 DEF AnchorKept
  <2>7. ASSUME NEW c \in Closers, CloserSet(c) PROVE Goal
    <3>1. phase \in Live /\ UNCHANGED <<phase, pc, inMap>> /\ stat' = REQ_CLOSE
      BY <1>i, <2>7 DEF CloserSet
    <3>2. closer'[c] = "post"
      BY <1>t, <2>7 DEF CloserSet
    <3>3. CloseIsHeld'
      BY <3>2 DEF CloseIsHeld
    <3> QED
      BY <1>u, <3>1, <3>3 DEF Goal, SetupHeld, ConnectedHeld, LeavesMap, Live
  <2>8. ASSUME NEW c \in Closers, CloserPost(c) PROVE Goal
    <3>1. ClosePosted'
      BY <1>t, <2>8, CloseGetsPosted DEF CloserPost
    <3> QED
      BY <1>t, <1>k, <2>8, <3>1 DEF CloserPost, AnchorKept
  <2>9. CASE RunCreated
    <3>1. phase = "new"
      BY <1>t, <2>9, RunningFacts DEF RunCreated, IInv, SetupOnce
    <3> QED
      BY <1>u, <2>9, <3>1 DEF RunCreated, Goal, SetupHeld, ConnectedHeld, LeavesMap, Ssl, Server
  <2>10. CASE RunDoConnect
    <3>1. \A p \in Tasks : op[p] # "none" => op'[p] # "none"
      BY <1>t, <2>10 DEF RunDoConnect, OpType
    <3>2. /\ UNCHANGED <<kind, stat, phase, inMap, shut>>
          /\ \/ pc' = pc \/ pc \in {"idle", "write", "exception", "event"}
             \/ pc = "read" /\ pc' = "rdbuf_empty"
      BY <1>t, <2>10 DEF RunDoConnect, Running, Completing, StrandFree
    <3>3. "write" \in tasks => "write" \in tasks'
      BY <1>t, <2>10 DEF RunDoConnect
    <3>4. ClosePosted => ClosePosted'
      BY <1>c, <1>g
    <3>5. \A c1 \in Closers : closer[c1] = "post" => closer'[c1] = "post" \/ ClosePosted'
      BY <1>t, <2>10 DEF RunDoConnect
    <3> QED
      BY <1>k, <3>1, <3>2, <3>3, <3>4, <3>5 DEF AnchorKept
  <2>11. CASE RunWrite
    <3>1. \A p \in Tasks : op[p] # "none" => op'[p] # "none"
      BY <1>t, <2>11 DEF RunWrite, OpType
    <3>2. /\ UNCHANGED <<kind, stat, phase, inMap, shut>>
          /\ \/ pc' = pc \/ pc \in {"idle", "write", "exception", "event"}
             \/ pc = "read" /\ pc' = "rdbuf_empty"
      BY <1>t, <2>11 DEF RunWrite, Running, Completing, StrandFree
    <3>3. "write" \in tasks => "write" \in tasks'
      BY <1>t, <2>11 DEF RunWrite
    <3>4. ClosePosted => ClosePosted'
      BY <1>c, <1>g
    <3>5. \A c1 \in Closers : closer[c1] = "post" => closer'[c1] = "post" \/ ClosePosted'
      BY <1>t, <2>11 DEF RunWrite
    <3> QED
      BY <1>k, <3>1, <3>2, <3>3, <3>4, <3>5 DEF AnchorKept
  <2>12. CASE RunClose
    BY <1>g, <2>12
  <2>13. ASSUME NEW name \in {"exception", "event"}, RunPlain(name) PROVE Goal
    <3>1. \A p \in Tasks : op[p] # "none" => op'[p] # "none"
      BY <1>t, <2>13 DEF RunPlain, OpType
    <3>2. /\ UNCHANGED <<kind, stat, phase, inMap, shut>>
          /\ \/ pc' = pc \/ pc \in {"idle", "write", "exception", "event"}
             \/ pc = "read" /\ pc' = "rdbuf_empty"
      BY <1>t, <2>13 DEF RunPlain, Running, Completing, StrandFree
    <3>3. "write" \in tasks => "write" \in tasks'
      BY <1>t, <2>13 DEF RunPlain
    <3>4. ClosePosted => ClosePosted'
      BY <1>c, <1>g
    <3>5. \A c1 \in Closers : closer[c1] = "post" => closer'[c1] = "post" \/ ClosePosted'
      BY <1>t, <2>13 DEF RunPlain
    <3> QED
      BY <1>k, <3>1, <3>2, <3>3, <3>4, <3>5 DEF AnchorKept
  <2>14. ASSUME NEW thrown \in BOOLEAN, CreatedReturn(thrown) PROVE Goal
    <3>1. pc = "created" /\ phase = "created" /\ UNCHANGED <<kind, inMap>>
      BY <1>i, <2>14 DEF CreatedReturn
    <3>2. CASE CallChannelConnected
      BY <1>e, <1>y, <3>1, <3>2
    <3>3. CASE (kind = "ssl_server" \/ ~Server) /\ phase' = phase
      BY <1>u, <3>1, <3>3 DEF Goal, SetupHeld, ConnectedHeld, LeavesMap, Ssl, Server
    <3> QED
      BY <2>14, <3>2, <3>3 DEF CreatedReturn
  <2>15. ASSUME NEW thrown \in BOOLEAN, ConnectedReturn(thrown) PROVE Goal
    <3>1. pc \in {"connected", "read", "rdbuf_empty"} /\ UNCHANGED <<kind, wq, inMap>>
      BY <1>t, <2>15, ConnectedReturnFacts
    <3>2. CASE ReadsOn
      <4>1. op'["read"] = "pending" /\ UNCHANGED <<stat, phase>> /\ stat = CONNECTED
        BY <1>t, <3>2 DEF ReadsOn, OpType
      <4> QED
        BY <1>i, <4>1 DEF Goal, SetupHeld, ConnectedHeld, LeavesMap
    <3>3. CASE stat = REQ_CLOSE /\ Graceful(op)
      BY <1>z, <3>1, <3>3
    <3>4. CASE /\ stat # CONNECTED /\ tasks' = tasks
               /\ NothingMore(op) /\ ~(stat = REQ_CLOSE /\ tasks = {})
      BY <1>u, <3>1, <3>4, NothingMoreHeld DEF Goal
    <3>5. \/ ReadsOn
          \/ /\ stat # CONNECTED /\ tasks' = tasks /\ Ended(tasks, op)
             /\ NothingMore(op) => ~(stat = REQ_CLOSE /\ tasks = {}) \/ Graceful(op)
      BY <1>t, <2>15, ConnectedReturnFacts DEF Goes
    <3> QED
      BY <3>2, <3>3, <3>4, <3>5 DEF Ended
  <2>16. ASSUME NEW thrown \in BOOLEAN, ReadBufEmpty(thrown) PROVE Goal
    <3>1. \A p \in Tasks : op[p] # "none" => op'[p] # "none"
      BY <1>t, <2>16 DEF ReadBufEmpty, OpType
    <3>2. /\ UNCHANGED <<kind, stat, phase, inMap, shut>>
          /\ \/ pc' = pc \/ pc \in {"idle", "write", "exception", "event"}
             \/ pc = "read" /\ pc' = "rdbuf_empty"
      BY <1>t, <2>16 DEF ReadBufEmpty, Running, Completing, StrandFree
    <3>3. "write" \in tasks => "write" \in tasks'
      BY <1>t, <2>16 DEF ReadBufEmpty
    <3>4. ClosePosted => ClosePosted'
      BY <1>c, <1>g
    <3>5. \A c1 \in Closers : closer[c1] = "post" => closer'[c1] = "post" \/ ClosePosted'
      BY <1>t, <2>16 DEF ReadBufEmpty
    <3> QED
      BY <1>k, <3>1, <3>2, <3>3, <3>4, <3>5 DEF AnchorKept
  <2>17. ASSUME NEW thrown \in BOOLEAN, ReadReturn(thrown) PROVE Goal
    <3>1. pc \in {"connected", "read", "rdbuf_empty"} /\ UNCHANGED <<kind, wq, inMap>>
      BY <1>t, <2>17, ConnectedReturnFacts
    <3>2. CASE ReadsOn
      <4>1. op'["read"] = "pending" /\ UNCHANGED <<stat, phase>> /\ stat = CONNECTED
        BY <1>t, <3>2 DEF ReadsOn, OpType
      <4> QED
        BY <1>i, <4>1 DEF Goal, SetupHeld, ConnectedHeld, LeavesMap
    <3>3. CASE stat = REQ_CLOSE /\ Graceful(op)
      BY <1>z, <3>1, <3>3
    <3>4. CASE /\ stat # CONNECTED /\ tasks' = tasks
               /\ NothingMore(op) /\ ~(stat = REQ_CLOSE /\ tasks = {})
      BY <1>u, <3>1, <3>4, NothingMoreHeld DEF Goal
    <3>5. \/ ReadsOn
          \/ /\ stat # CONNECTED /\ tasks' = tasks /\ Ended(tasks, op)
             /\ NothingMore(op) => ~(stat = REQ_CLOSE /\ tasks = {}) \/ Graceful(op)
      BY <1>t, <2>17, ConnectedReturnFacts DEF Goes
    <3> QED
      BY <3>2, <3>3, <3>4, <3>5 DEF Ended
  <2>18. ASSUME NEW thrown \in BOOLEAN, WrittenReturn(thrown) PROVE Goal
    <3>1. pc = "written" /\ UNCHANGED <<kind, wq, inMap>>
      BY <1>t, <2>18, WrittenReturnFacts
    <3>r. stat = CONNECTED => op["read"] # "none"
      BY <1>u, <1>i, <3>1 DEF ConnectedHeld
    <3>2. CASE /\ stat \in {BOUND, CONNECTED} /\ op' = [op EXCEPT !["write"] = "pending"]
               /\ UNCHANGED <<stat, phase>>
      <4>1. op'["read"] # "none" /\ stat' = CONNECTED /\ phase' = "connected"
        BY <1>t, <1>i, <3>r, <3>2 DEF OpType
      <4> QED
        BY <4>1 DEF Goal, SetupHeld, ConnectedHeld, LeavesMap
    <3>3. CASE stat = REQ_CLOSE /\ Graceful(op)
      BY <1>z, <3>1, <3>3
    <3>4. CASE tasks' = tasks /\ NothingMore(op) /\ ~(stat = REQ_CLOSE /\ tasks = {})
      BY <1>u, <3>1, <3>r, <3>4, NothingMoreHeld DEF Goal
    <3>5. \/ /\ stat \in {BOUND, CONNECTED} /\ op' = [op EXCEPT !["write"] = "pending"]
             /\ UNCHANGED <<stat, phase>>
          \/ /\ tasks' = tasks /\ Ended(tasks, op)
             /\ NothingMore(op) => ~(stat = REQ_CLOSE /\ tasks = {}) \/ Graceful(op)
      BY <1>t, <2>18, WrittenReturnFacts
    <3> QED
      BY <3>2, <3>3, <3>4, <3>5 DEF Ended
  <2>19. ASSUME NEW thrown \in BOOLEAN, DisconnectedReturn(thrown) PROVE Goal
    <3>1. phase = "disconnected" /\ phase' = phase /\ inMap' = FALSE
      BY <1>i, <2>19 DEF DisconnectedReturn, ReleaseChannel
    <3> QED
      BY <1>w, <3>1
  <2>20. ASSUME NEW thrown \in BOOLEAN, PlainReturn(thrown) PROVE Goal
    <3>1. \A p \in Tasks : op[p] # "none" => op'[p] # "none"
      BY <1>t, <2>20 DEF PlainReturn, OpType
    <3>2. /\ UNCHANGED <<kind, stat, phase, inMap, shut>>
          /\ \/ pc' = pc \/ pc \in {"idle", "write", "exception", "event"}
             \/ pc = "read" /\ pc' = "rdbuf_empty"
      BY <1>t, <2>20 DEF PlainReturn, Running, Completing, StrandFree
    <3>3. "write" \in tasks => "write" \in tasks'
      BY <1>t, <2>20 DEF PlainReturn
    <3>4. ClosePosted => ClosePosted'
      BY <1>c, <1>g
    <3>5. \A c1 \in Closers : closer[c1] = "post" => closer'[c1] = "post" \/ ClosePosted'
      BY <1>t, <2>20 DEF PlainReturn
    <3> QED
      BY <1>k, <3>1, <3>2, <3>3, <3>4, <3>5 DEF AnchorKept
  <2>21. ASSUME NEW thrown \in BOOLEAN, NEW serialized \in BOOLEAN, WriteReturn(thrown, serialized)
        PROVE  Goal
    <3>1. \A o \in Tasks : op[o] # "none" => op'[o] # "none"
      <4>1. op' = op \/ op' = [op EXCEPT !["write"] = "pending"]
        BY <2>21 DEF WriteReturn
      <4> QED
        BY <1>t, <4>1 DEF OpType
    <3>2. "write" \in tasks => "write" \in tasks'
      BY <2>21 DEF WriteReturn
    <3>3. ClosePosted => ClosePosted'
      BY <1>c, <1>g
    <3> QED
      BY <1>k, <2>21, <3>1, <3>2, <3>3 DEF WriteReturn, AnchorKept
  <2>22. CASE ReadAgain
    <3>1. \A p \in Tasks : op[p] # "none" => op'[p] # "none"
      BY <1>t, <2>22 DEF ReadAgain, OpType
    <3>2. /\ UNCHANGED <<kind, stat, phase, inMap, shut>>
          /\ \/ pc' = pc \/ pc \in {"idle", "write", "exception", "event"}
             \/ pc = "read" /\ pc' = "rdbuf_empty"
      BY <1>t, <2>22 DEF ReadAgain, Running, Completing, StrandFree
    <3>3. "write" \in tasks => "write" \in tasks'
      BY <1>t, <2>22 DEF ReadAgain
    <3>4. ClosePosted => ClosePosted'
      BY <1>c, <1>g
    <3>5. \A c1 \in Closers : closer[c1] = "post" => closer'[c1] = "post" \/ ClosePosted'
      BY <1>t, <2>22 DEF ReadAgain
    <3> QED
      BY <1>k, <3>1, <3>2, <3>3, <3>4, <3>5 DEF AnchorKept
  <2>23. ASSUME NEW o \in Ops, NetComplete(o) PROVE Goal
    <3>1. \A p \in Tasks : op[p] # "none" => op'[p] # "none"
      BY <1>t, <2>23 DEF NetComplete, Outcomes, OpType
    <3>2. /\ UNCHANGED <<kind, stat, phase, inMap, shut>>
          /\ \/ pc' = pc \/ pc \in {"idle", "write", "exception", "event"}
             \/ pc = "read" /\ pc' = "rdbuf_empty"
      BY <1>t, <2>23 DEF NetComplete, Running, Completing, StrandFree
    <3>3. "write" \in tasks => "write" \in tasks'
      BY <1>t, <2>23 DEF NetComplete
    <3>4. ClosePosted => ClosePosted'
      BY <1>c, <1>g
    <3>5. \A c1 \in Closers : closer[c1] = "post" => closer'[c1] = "post" \/ ClosePosted'
      BY <1>t, <2>23 DEF NetComplete
    <3> QED
      BY <1>k, <3>1, <3>2, <3>3, <3>4, <3>5 DEF AnchorKept
  <2>24. CASE ResolveComplete
    <3>1. op["resolve"] # "none" /\ pc = "idle"
      BY <2>24 DEF ResolveComplete, Completing, Completed, StrandFree
    <3> QED
      BY <1>t, <1>i, <1>x, <2>24, <3>1 DEF ResolveComplete
  <2>25. CASE ConnectComplete
    <3>1. op["connect"] # "none" /\ pc = "idle" /\ kind' = kind
      BY <2>25 DEF ConnectComplete, Completing, Completed, StrandFree
    <3>2. phase = "created" /\ stat # CLOSED
      BY <1>i, <1>e, <3>1
    <3>3. CASE Ssl
      BY <1>x, <2>25, <3>1, <3>2, <3>3 DEF ConnectComplete
    <3>4. CASE ~Ssl
      BY <1>y, <2>25, <3>2, <3>4 DEF ConnectComplete
    <3> QED
      BY <3>3, <3>4
  <2>26. CASE ConnectFailed
    <3>1. op["connect"] # "none" /\ pc = "idle" /\ UNCHANGED <<kind, phase, inMap>>
      BY <2>26 DEF ConnectFailed, Completing, Completed, StrandFree
    <3> QED
      BY <1>i, <1>x, <3>1
  <2>27. CASE ConnectNotInserted
    <3>1. op["connect"] # "none" /\ pc = "idle" /\ UNCHANGED <<kind, phase, inMap>>
      BY <2>27 DEF ConnectNotInserted, Completing, Completed, StrandFree
    <3> QED
      BY <1>i, <1>x, <3>1
  <2>28. CASE HandshakeComplete
    <3>1. op["handshake"] # "none" /\ pc = "idle" /\ UNCHANGED <<kind, inMap>>
      BY <2>28 DEF HandshakeComplete, Completing, Completed, StrandFree
    <3>2. phase = "created" /\ stat # CLOSED
      BY <1>i, <1>e, <3>1
    <3>3. phase' = phase \/ CallChannelConnected
      BY <2>28 DEF HandshakeComplete
    <3> QED
      BY <1>x, <1>y, <3>1, <3>2, <3>3
  <2>29. CASE ReadComplete
    <3>1. op["read"] # "none" /\ pc' = "read" /\ UNCHANGED <<stat, phase, shut>>
      BY <2>29 DEF ReadComplete, Completing, Completed, StrandFree
    <3>2. phase = "connected" /\ CloseIsHeld'
      BY <1>i, <3>1 DEF CloseIsHeld
    <3> QED
      BY <1>u, <3>1, <3>2 DEF Goal, SetupHeld, ConnectedHeld, LeavesMap
  <2>30. CASE ReadFailed
    BY <1>w, <2>30, ReadFailedFacts
  <2>31. CASE WriteComplete
    <3> DEFINE o == [op EXCEPT !["write"] = "none"]
               s == tasks \ {"write"}
    <3>1. pc = "idle" /\ UNCHANGED <<kind, inMap>> /\ \A p \in Ops \ {"write"} : o[p] = op[p]
      BY <1>t, <2>31, WriteCompleteFacts DEF OpType
    <3>r. stat = CONNECTED => o["read"] # "none"
      BY <1>t, <1>u, <1>i, <3>1 DEF ConnectedHeld
    <3>5. \/ /\ op' = o /\ pc' = "written"
             /\ UNCHANGED <<stat, connected, phase, socket, shut, issued>>
          \/ /\ Ended(s, o)
             /\ NothingMore(o) => ~(stat = REQ_CLOSE /\ s = {}) \/ Graceful(o)
      BY <1>t, <2>31, WriteCompleteFacts
    <3>s. phase = "connected" /\ s # {} => \E p \in Tasks : o[p] # "none"
      <4> SUFFICES ASSUME phase = "connected", NEW p \in s PROVE \E p1 \in Tasks : o[p1] # "none"
        OBVIOUS
      <4>1. p \in Tasks /\ op[p] # "none"
        BY BusyIsHeld
      <4> QED
        BY <1>t, <3>1, <4>1
    <3> HIDE DEF o, s
    <3>2. CASE op' = o /\ pc' = "written" /\ UNCHANGED <<stat, phase, shut>>
      <4>1. CloseIsHeld'
        BY <3>2 DEF CloseIsHeld
      <4> QED
        BY <1>u, <3>1, <3>r, <3>2, <4>1
        DEF Goal, SetupHeld, ConnectedHeld, LeavesMap, Ssl, Server
    <3>3. CASE stat = REQ_CLOSE /\ Graceful(o)
      BY <1>z, <3>1, <3>3
    <3>4. CASE NothingMore(o) /\ ~(stat = REQ_CLOSE /\ s = {})
      <4>1. op' = o /\ UNCHANGED <<stat, phase, shut>>
        BY <3>4 DEF NothingMore
      <4>2. phase = "connected" /\ stat = REQ_CLOSE => CloseIsHeld'
        BY <3>s, <3>4, <4>1 DEF CloseIsHeld
      <4> QED
        BY <1>u, <3>1, <3>r, <4>1, <4>2
        DEF Goal, SetupHeld, ConnectedHeld, LeavesMap, Ssl, Server
    <3> QED
      BY <3>2, <3>3, <3>4, <3>5 DEF Ended
  <2>32. CASE ShutdownComplete
    <3>1. phase \in Live /\ pc = "idle" /\ inMap' = inMap
      BY <1>i, <2>32 DEF ShutdownComplete, StrandFree
    <3>2. phase' = "disconnected" /\ (inMap' => pc' = "disconnected")
      BY <1>u, <1>i, <2>32, <3>1
      DEF ShutdownComplete, ShutdownHandler, EnterDisconnected, LeavesMap, Live
    <3> QED
      BY <1>w, <3>2
  <2>33. CASE UNCHANGED vars
    <3>1. \A p \in Tasks : op[p] # "none" => op'[p] # "none"
      BY <1>t, <2>33 DEF vars, OpType
    <3>2. /\ UNCHANGED <<kind, stat, phase, inMap, shut>>
          /\ \/ pc' = pc \/ pc \in {"idle", "write", "exception", "event"}
             \/ pc = "read" /\ pc' = "rdbuf_empty"
      BY <1>t, <2>33 DEF vars, Running, Completing, StrandFree
    <3>3. "write" \in tasks => "write" \in tasks'
      BY <1>t, <2>33 DEF vars
    <3>4. ClosePosted => ClosePosted'
      BY <1>c, <1>g
    <3>5. \A c1 \in Closers : closer[c1] = "post" => closer'[c1] = "post" \/ ClosePosted'
      BY <1>t, <2>33 DEF vars
    <3> QED
      BY <1>k, <3>1, <3>2, <3>3, <3>4, <3>5 DEF AnchorKept
  <2> QED
    BY <2>1, <2>2, <2>3, <2>4, <2>5, <2>6, <2>7, <2>8, <2>9, <2>10, <2>11, <2>12, <2>13,
       <2>14, <2>15, <2>16, <2>17, <2>18, <2>19, <2>20, <2>21, <2>22, <2>23, <2>24, <2>25,
       <2>26, <2>27, <2>28, <2>29, <2>30, <2>31, <2>32, <2>33
    DEF Next, RunPosted, CallbackReturn, ConnectDone, ReadDone, Close
<1> QED
  BY <1>f, <1>g, <1>h

\* channel_context.h and service_base.h: when nothing of a channel is left to run, the
\* channel is out of the map, unless its TLS handshake failed or a write failed with
\* buffers queued behind it.
THEOREM NoChannelIsForgotten == Spec => []NoForgottenChannel
<1>1. Init => SetupOver /\ TasksAreReal /\ Anchored
  <2> SUFFICES ASSUME Init PROVE SetupOver /\ TasksAreReal /\ Anchored
    OBVIOUS
  <2>1. posted # <<>> /\ posted[1][1] = "created"
    BY DEF Init, Lambda
  <2>2. Anchored
    BY <2>1 DEF Init, Anchored, FirstLambda, SetupHeld, ConnectedHeld, LeavesMap
  <2>3. SetupOver /\ TasksAreReal
    BY DEF Init, SetupOver, TasksAreReal
  <2> QED
    BY <2>2, <2>3
<1>2. IInv /\ (SetupOver /\ TasksAreReal /\ Anchored) /\ [Next]_vars
        => (SetupOver /\ TasksAreReal /\ Anchored)'
  BY SetupOverStep, RealStep, AnchoredStep
<1>3. IInv /\ Anchored => NoForgottenChannel
  <2> SUFFICES ASSUME IInv, Anchored, Quiescent, inMap
               PROVE  (Ssl /\ phase = "created") \/ Orphaned
    BY DEF NoForgottenChannel
  <2>1. /\ proc = "running" /\ pc = "idle" /\ posted = <<>> /\ shut = 0
        /\ \A o \in Ops : op[o] = "none"
        /\ \A c \in Closers : closer[c] = "done"
    BY DEF Quiescent, StrandFree
  <2>2. FirstLambda /\ SetupHeld /\ ConnectedHeld /\ LeavesMap
    BY <2>1 DEF Anchored
  <2>3. phase \in {"new", "created", "connected", "disconnected"}
    BY DEF IInv, TypeOK
  <2>4. CASE phase \in {"new", "created", "disconnected"}
    BY <2>1, <2>2, <2>4 DEF FirstLambda, SetupHeld, LeavesMap
  <2>5. CASE phase = "connected"
    <3>1. stat = REQ_CLOSE /\ CloseIsHeld
      BY <2>1, <2>2, <2>5 DEF ConnectedHeld, Ops
    <3>2. ~ClosePosted
      BY <2>1 DEF ClosePosted
    <3>3. "write" \in tasks
      BY <2>1, <3>1, <3>2 DEF CloseIsHeld, Tasks, Ops
    <3> QED
      BY <2>1, <3>3 DEF Orphaned, Ops
  <2> QED
    BY <2>3, <2>4, <2>5
<1>4. Spec => []IInv
  BY Inductive
<1> QED
  BY <1>1, <1>2, <1>3, <1>4, PTL DEF Spec

-------------------------------------------------------------------------------
(* A shutdown has the SSL stream for itself.                                *)

\* Nothing is written before the channel is connected.
NoEarlyWrite == phase \in {"new", "created"} => op["write"] = "none"

\* write_streambuf, and the write after channel_written, need a connected channel.
LEMMA NoEarlyWriteStep ==
  ASSUME IInv, NoEarlyWrite, [Next]_vars
  PROVE  NoEarlyWrite'
<1> SUFFICES ASSUME phase' \in {"new", "created"} PROVE op'["write"] = "none"
  BY DEF NoEarlyWrite
<1>t. /\ TypeOK /\ op \in OpType /\ "write" \in Ops
      /\ stat # BOUND /\ (stat = CONNECTED => phase = "connected")
  BY DEF IInv, TypeOK, OpType, Ops, StatPhase
<1>1. phase \in {"new", "created"}
  <2>1. RunCreated => phase = "new"
    BY <1>t, RunningFacts DEF RunCreated, IInv, SetupOnce
  <2> QED
    BY <1>t, <2>1, LifeGoesOn
<1>2. op["write"] = "none" /\ stat \notin {BOUND, CONNECTED}
  BY <1>t, <1>1 DEF NoEarlyWrite
<1>3. CASE WriteChannel
  BY <1>2, <1>3 DEF WriteChannel, sockVars
<1>4. CASE RunWrite
  BY <1>2, <1>4 DEF RunWrite, sockVars
<1>5. CASE WriteComplete
  BY <1>t, <1>2, <1>5, WriteCompleteFacts
<1>6. ASSUME NEW thrown \in BOOLEAN, WrittenReturn(thrown) PROVE op'["write"] = "none"
  BY <1>t, <1>2, <1>6, WrittenReturnFacts DEF Ended, Graceful, NothingMore
<1>7. ASSUME NEW thrown \in BOOLEAN, NEW serialized \in BOOLEAN, WriteReturn(thrown, serialized)
      PROVE  op'["write"] = "none"
  BY <1>2, <1>7 DEF WriteReturn, Sendable
<1>8. CASE QuietWrite
  BY <1>2, <1>8 DEF QuietWrite
<1> QED
  BY <1>3, <1>4, <1>5, <1>6, <1>7, <1>8, WriteSteps

\* Which steps shut an SSL stream down, and what is outstanding then.
ShutsAlone ==
  \/ \A t \in Tasks : op'[t] = "none"
  \/ /\ \E thrown \in BOOLEAN : DisconnectedReturn(thrown)
     /\ \A t \in Tasks \ {"write"} : op'[t] = "none"
  \/ StopService

\* What ShutdownAlone says of a step.
AloneStep ==
  /\ shut' > 0 => \A t \in Tasks : op'[t] = "none"
  /\ issued' > issued =>
       \/ \A t \in Tasks : op'[t] = "none"
       \/ /\ \E thrown \in BOOLEAN : DisconnectedReturn(thrown)
          /\ \A t \in Tasks \ {"write"} : op'[t] = "none"
       \/ StopService

\* close_gracefully is called when nothing is outstanding; close_immediately after a
\* failed read, after a connect that could not be registered, and by stop().
LEMMA ShutsAloneStep ==
  ASSUME IInv, NoEarlyWrite, [Next]_vars, issued' > issued
  PROVE  ShutsAlone
<1> USE DEF wqVars, sockVars, lifeVars
<1>t. /\ TypeOK /\ op \in OpType /\ issued \in Nat
      /\ Ops = {"resolve", "connect", "handshake", "read", "write"}
      /\ Tasks = {"connect", "handshake", "read", "write"}
      /\ \A p \in Tasks : op[p] # "none" => p \in tasks
  BY DEF IInv, TypeOK, OpType, Ops, Tasks, TasksCoverOps
<1>n. ~UNCHANGED issued
  BY <1>t
<1>g. tasks = {} /\ Graceful(op) => ShutsAlone
  BY <1>t DEF Graceful, ShutsAlone
<1>1. CASE WriteChannel
  BY <1>n, <1>1 DEF WriteChannel
<1>2. CASE FireUserEvent
  BY <1>n, <1>2 DEF FireUserEvent
<1>3. CASE CallbackClose
  BY <1>n, <1>3 DEF CallbackClose
<1>4. CASE StopService
  BY <1>4 DEF ShutsAlone
<1>5. ASSUME NEW c \in Closers, CloserLookup(c) PROVE ShutsAlone
  BY <1>n, <1>5 DEF CloserLookup
<1>6. ASSUME NEW c \in Closers, CloserTest(c) PROVE ShutsAlone
  BY <1>n, <1>6 DEF CloserTest
<1>7. ASSUME NEW c \in Closers, CloserSet(c) PROVE ShutsAlone
  BY <1>n, <1>7 DEF CloserSet
<1>8. ASSUME NEW c \in Closers, CloserPost(c) PROVE ShutsAlone
  BY <1>n, <1>8 DEF CloserPost
<1>9. CASE RunCreated
  BY <1>n, <1>9 DEF RunCreated
<1>10. CASE RunDoConnect
  BY <1>n, <1>10 DEF RunDoConnect
<1>11. CASE RunWrite
  BY <1>n, <1>11 DEF RunWrite
<1>12. CASE RunClose
  BY <1>t, <1>n, <1>g, <1>12, CloseLambdaFacts DEF NothingMore
<1>13. ASSUME NEW name \in {"exception", "event"}, RunPlain(name) PROVE ShutsAlone
  BY <1>n, <1>13 DEF RunPlain
<1>14. ASSUME NEW thrown \in BOOLEAN, CreatedReturn(thrown) PROVE ShutsAlone
  BY <1>n, <1>14 DEF CreatedReturn
<1>15. ASSUME NEW thrown \in BOOLEAN, ConnectedReturn(thrown) PROVE ShutsAlone
  BY <1>t, <1>n, <1>g, <1>15, ConnectedReturnFacts DEF Goes, ReadsOn, Ended, NothingMore
<1>16. ASSUME NEW thrown \in BOOLEAN, ReadBufEmpty(thrown) PROVE ShutsAlone
  BY <1>n, <1>16 DEF ReadBufEmpty
<1>17. ASSUME NEW thrown \in BOOLEAN, ReadReturn(thrown) PROVE ShutsAlone
  BY <1>t, <1>n, <1>g, <1>17, ConnectedReturnFacts DEF Goes, ReadsOn, Ended, NothingMore
<1>18. ASSUME NEW thrown \in BOOLEAN, WrittenReturn(thrown) PROVE ShutsAlone
  BY <1>t, <1>n, <1>g, <1>18, WrittenReturnFacts DEF Ended, NothingMore
<1>19. ASSUME NEW thrown \in BOOLEAN, DisconnectedReturn(thrown) PROVE ShutsAlone
  <2>1. phase = "disconnected" /\ ReleaseChannel(op)
    BY <1>19 DEF DisconnectedReturn, IInv, OpsPhase
  <2>2. \A p \in Tasks \ {"write"} : op[p] = "none"
    BY <1>t, <2>1 DEF IInv, OpsPhase
  <2>3. \A p \in Ops : op'[p] = "none" <=> op[p] = "none"
    BY <1>t, <2>1, AbortOpsFacts DEF ReleaseChannel, CloseImmediately, CloseSocket
  <2> QED
    BY <1>t, <1>19, <2>2, <2>3 DEF ShutsAlone
<1>20. ASSUME NEW thrown \in BOOLEAN, PlainReturn(thrown) PROVE ShutsAlone
  BY <1>n, <1>20 DEF PlainReturn
<1>21. ASSUME NEW thrown \in BOOLEAN, NEW serialized \in BOOLEAN, WriteReturn(thrown, serialized) PROVE ShutsAlone
  BY <1>n, <1>21 DEF WriteReturn
<1>22. CASE ReadAgain
  BY <1>n, <1>22 DEF ReadAgain
<1>23. ASSUME NEW o \in Ops, NetComplete(o) PROVE ShutsAlone
  BY <1>n, <1>23 DEF NetComplete
<1>24. CASE ResolveComplete
  BY <1>n, <1>24 DEF ResolveComplete
<1>25. CASE ConnectComplete
  BY <1>n, <1>25 DEF ConnectComplete
<1>26. CASE ConnectFailed
  BY <1>n, <1>26 DEF ConnectFailed
<1>27. CASE ConnectNotInserted
  <2> DEFINE o == [op EXCEPT !["connect"] = "none"]
  <2>1. op["connect"] # "none" /\ CloseImmediately(o)
    BY <1>27 DEF ConnectNotInserted, Completing, Completed
  <2>2. phase = "created"
    BY <2>1 DEF IInv, OpsPhase
  <2>3. op["read"] = "none" /\ op["handshake"] = "none" /\ op["write"] = "none"
    BY <2>1, <2>2 DEF IInv, OpsPhase, SetupOnce, NoEarlyWrite
  <2>4. o \in OpType /\ \A p \in Tasks : o[p] = "none"
    BY <1>t, <2>3 DEF OpType, OpStates
  <2> HIDE DEF o
  <2>5. \A p \in Ops : op'[p] = "none" <=> o[p] = "none"
    BY <2>1, <2>4, AbortOpsFacts DEF CloseImmediately, CloseSocket
  <2> QED
    BY <1>t, <2>4, <2>5 DEF ShutsAlone
<1>28. CASE HandshakeComplete
  BY <1>n, <1>28 DEF HandshakeComplete
<1>29. CASE ReadComplete
  BY <1>n, <1>29 DEF ReadComplete
<1>30. CASE ReadFailed
  BY <1>n, <1>30, ReadFailedFacts
<1>31. CASE WriteComplete
  <2> DEFINE o == [op EXCEPT !["write"] = "none"]
             s == tasks \ {"write"}
  <2>1. \A p \in Ops \ {"write"} : o[p] = op[p]
    BY <1>t DEF OpType
  <2>2. o["write"] = "none"
    BY <1>t DEF OpType
  <2>3. s = {} => \A p \in Tasks : o[p] = "none"
    BY <1>t, <2>1, <2>2
  <2> HIDE DEF o
  <2>4. Ended(s, o) \/ UNCHANGED issued
    BY <1>t, <1>31, WriteCompleteFacts DEF o
  <2> HIDE DEF s
  <2>5. s = {} /\ Graceful(o)
    BY <1>n, <2>4 DEF Ended, NothingMore
  <2> QED
    BY <1>t, <2>3, <2>5 DEF Graceful, ShutsAlone
<1>32. CASE ShutdownComplete
  BY <1>n, <1>32 DEF ShutdownComplete
<1>33. CASE UNCHANGED vars
  BY <1>n, <1>33 DEF vars
<1> QED
  BY <1>1, <1>2, <1>3, <1>4, <1>5, <1>6, <1>7, <1>8, <1>9, <1>10, <1>11, <1>12, <1>13,
     <1>14, <1>15, <1>16, <1>17, <1>18, <1>19, <1>20, <1>21, <1>22, <1>23, <1>24, <1>25,
     <1>26, <1>27, <1>28, <1>29, <1>30, <1>31, <1>32, <1>33
  DEF Next, RunPosted, CallbackReturn, ConnectDone, ReadDone, Close

\* ssl_channel_context.h and ssl_channel.h: a shutdown of an SSL stream, asynchronous or in
\* place, has the stream for itself, although close_channel races with the strand; only
\* what follows a failed read, and stop(), shut it down under other operations.
THEOREM ShutdownAloneHolds == Spec => ShutdownAlone
<1>1. Spec => []IInv
  BY Inductive
<1>2. Init => NoEarlyWrite
  BY DEF Init, NoEarlyWrite, Ops
<1>3. IInv /\ NoEarlyWrite /\ [Next]_vars => NoEarlyWrite'
  BY NoEarlyWriteStep
<1>4. IInv /\ NoEarlyWrite /\ [Next]_vars => [AloneStep]_vars
  <2> SUFFICES ASSUME IInv, NoEarlyWrite, [Next]_vars, ~ UNCHANGED vars
               PROVE AloneStep
    OBVIOUS
  <2>1. NoneBesidesShutdown'
    BY ShutdownStep
  <2>2. issued' > issued => ShutsAlone
    BY ShutsAloneStep
  <2> QED
    BY <2>1, <2>2 DEF NoneBesidesShutdown, ShutsAlone, AloneStep
<1>5. Spec => [][AloneStep]_vars
  BY <1>1, <1>2, <1>3, <1>4, PTL DEF Spec
<1> QED
  BY <1>5 DEF ShutdownAlone, AloneStep

===============================================================================
