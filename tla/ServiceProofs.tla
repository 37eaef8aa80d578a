---------------------------- MODULE ServiceProofs ----------------------------
(***************************************************************************)
(* Proofs about Service, for every number of workers and of threads of the *)
(* application, both kinds of service and every bound.                     *)
(*                                                                         *)
(* ServiceSafe says what is true when nobody holds _service_mutex.  IInv   *)
(* adds why: who holds the mutex, and that _stat, the stop thread and the  *)
(* workers advance together, also while a destructor takes the object      *)
(* apart around them.                                                      *)
(***************************************************************************)
EXTENDS Service, TLAPS

Dying == {"destroy", "join", "last", "destroyed"}

\* _service_mutex is held over several steps only by a thread inside stop(), and
\* only after _stat became STOPPED.
MutexOwner ==
  /\ mutex = Stopper <=> stopper = "join"
  /\ \A a \in Apps : mutex = a <=> app[a] = "join"
  /\ mutex # None => stat = STOPPED

\* The stop thread exists from the request on, and takes the mutex once.
StopThreadStat ==
  /\ stopper = "lock" <=> stat = REQ_STOP
  /\ stopper # "none" => stat \in {REQ_STOP, STOPPED}

\* Workers exist from start() on, and leave io_service::run only in stop().
WorkersStat ==
  /\ ioStopped <=> stat = STOPPED
  /\ \A w \in Workers : worker[w] = "none" <=> stat = CREATED
  /\ \A w \in Workers : worker[w] \in {"exited", "joined"} => stat = STOPPED
  /\ stat = CREATED => channels = 0

\* One thread destroys the object, and it makes the last call of the application;
\* what it does tells how much of the object is left.
OneDestroyer ==
  /\ \A a \in Apps :
       /\ app[a] \in {"destroy", "join"} => object = 2
       /\ app[a] = "last" => object = 1
       /\ app[a] = "destroyed" => object = 0
       /\ app[a] \notin Dying \cup {"idle"} => object = Whole
  /\ object # Whole => \A a, b \in Apps : app[a] # "idle" /\ app[b] # "idle" => a = b

\* stop() leaves nothing behind, nor does the destructor that finds it running in
\* the stop thread.
Released ==
  /\ stat = STOPPED /\ mutex = None => Stopped
  /\ object < 2 => acceptor = "null"

IInv == TypeOK /\ MutexOwner /\ StopThreadStat /\ WorkersStat /\ OneDestroyer /\ Released

\* the states of the service and of its threads
USE DEF CREATED, RUNNING, REQ_STOP, STOPPED, Whole, Dying, WorkerPcs, AppPcs, Handlers

-------------------------------------------------------------------------------
(* Every step keeps IInv.                                                   *)

\* The acceptor is released in one piece: nothing of a server is outstanding then.
LEMMA ReleaseAcceptorType ==
  ASSUME TypeOK, ReleaseAcceptor
  PROVE  acceptor' = "null" /\ accept' \in BOOLEAN
BY DEF ReleaseAcceptor, TypeOK

\* Joining the workers of a service that was started and stopped, and what stop()
\* does after it, leave nothing of the service.
LEMMA StopEndFacts ==
  ASSUME IInv, stat = STOPPED, StopEnd
  PROVE  /\ worker' \in [Workers -> {"joined"}]
         /\ channels' = 0 /\ mutex' = None
         /\ acceptor' = "null" /\ accept' \in BOOLEAN
<1>1. \A w \in Workers : worker[w] \in {"exited", "joined"}
  BY DEF StopEnd, Joinable, IInv, WorkersStat
<1>2. worker' \in [Workers -> {"joined"}]
  BY <1>1 DEF StopEnd
<1>3. CASE object >= 2
  BY <1>2, <1>3, ReleaseAcceptorType DEF StopEnd, IInv
<1>4. CASE object < 2
  <2>1. UNCHANGED <<acceptor, accept>>
    BY <1>4 DEF StopEnd, IInv, TypeOK
  <2> QED
    BY <1>2, <1>4, <2>1 DEF StopEnd, IInv, TypeOK, Released
<1> QED
  BY <1>3, <1>4 DEF IInv, TypeOK

\* A call of the application keeps IInv.
LEMMA AppCallKeeps ==
  ASSUME IInv, NEW a \in Apps, AppCall(a)
  PROVE  IInv'
<1>1. CASE AddHandler(a)
  BY <1>1, ServiceThreadsAssumption, ServiceBoundsAssumption
  DEF AddHandler, CanCall, IInv, TypeOK, MutexOwner, StopThreadStat, WorkersStat, OneDestroyer,
      Released, Stopped
<1>2. CASE Call(a, "start") \/ Call(a, "wait")
  BY <1>2, ServiceThreadsAssumption, ServiceBoundsAssumption
  DEF Call, CanCall, IInv, TypeOK, MutexOwner, StopThreadStat, WorkersStat, OneDestroyer,
      Released, Stopped
<1>3. CASE Connect(a)
  BY <1>3, ServiceThreadsAssumption, ServiceBoundsAssumption
  DEF Connect, CanCall, IInv, TypeOK, MutexOwner, StopThreadStat, WorkersStat, OneDestroyer,
      Released, Stopped
<1>4. CASE CallRequestStop(a)
  BY <1>4, ServiceThreadsAssumption, ServiceBoundsAssumption
  DEF CallRequestStop, CanCall, IInv, TypeOK, MutexOwner, StopThreadStat, WorkersStat, OneDestroyer,
      Released, Stopped
<1>5. CASE Destroy(a)
  BY <1>5, ServiceThreadsAssumption, ServiceBoundsAssumption
  DEF Destroy, CanCall, IInv, TypeOK, MutexOwner, StopThreadStat, WorkersStat, OneDestroyer,
      Released, Stopped
<1>6. CASE SpuriousWake(a)
  BY <1>6, ServiceThreadsAssumption, ServiceBoundsAssumption
  DEF SpuriousWake, IInv, TypeOK, MutexOwner, StopThreadStat, WorkersStat, OneDestroyer,
      Released, Stopped
<1> QED
  BY <1>1, <1>2, <1>3, <1>4, <1>5, <1>6 DEF AppCall

\* What a thread of the application does inside a member keeps IInv.
LEMMA AppStepKeeps ==
  ASSUME IInv, NEW a \in Apps, AppStep(a)
  PROVE  IInv'
<1>1. CASE AddHandlerPush(a)
  BY <1>1, ServiceThreadsAssumption, ServiceBoundsAssumption
  DEF AddHandlerPush, IInv, TypeOK, MutexOwner, StopThreadStat, WorkersStat, OneDestroyer,
      Released, Stopped
<1>2. CASE WaitStop(a)
  BY <1>2, ServiceThreadsAssumption, ServiceBoundsAssumption
  DEF WaitStop, WaitOver, IInv, TypeOK, MutexOwner, StopThreadStat, WorkersStat, OneDestroyer,
      Released, Stopped
<1>3. CASE AppRequestStop(a)
  BY <1>3, ServiceThreadsAssumption, ServiceBoundsAssumption
  DEF AppRequestStop, RequestStop, StopWanted, IInv, TypeOK, MutexOwner, StopThreadStat, WorkersStat, OneDestroyer,
      Released, Stopped
<1>4. CASE \E listening \in BOOLEAN : Start(a, listening)
  BY <1>4, ServiceThreadsAssumption, ServiceBoundsAssumption
  DEF Start, IInv, TypeOK, MutexOwner, StopThreadStat, WorkersStat, OneDestroyer,
      Released, Stopped
<1>5. CASE DestroyLock(a) /\ stat = RUNNING
  <2>1. TypeOK'
    BY <1>5 DEF DestroyLock, StopBegin, IoStop, IInv, TypeOK, OneDestroyer
  <2>2. MutexOwner'
    BY <1>5, ServiceThreadsAssumption
    DEF DestroyLock, StopBegin, IInv, TypeOK, MutexOwner, OneDestroyer
  <2>3. StopThreadStat' /\ WorkersStat'
    BY <1>5 DEF DestroyLock, StopBegin, IoStop, IInv, StopThreadStat, WorkersStat
  <2>4. OneDestroyer'
    BY <1>5 DEF DestroyLock, IInv, TypeOK, OneDestroyer
  <2>5. Released'
    BY <1>5, ServiceThreadsAssumption DEF DestroyLock, IInv, OneDestroyer, Released
  <2> QED
    BY <2>1, <2>2, <2>3, <2>4, <2>5 DEF IInv
<1>6. CASE DestroyLock(a) /\ stat # RUNNING
  <2>1. object = 2 /\ object' = 1 /\ acceptor' = "null" /\ accept' \in BOOLEAN
    BY <1>6, ReleaseAcceptorType DEF DestroyLock, IInv, OneDestroyer
  <2>2. TypeOK'
    BY <1>6, <2>1 DEF DestroyLock, IInv, TypeOK
  <2>3. MutexOwner' /\ OneDestroyer'
    BY <1>6, <2>1, ServiceThreadsAssumption
    DEF DestroyLock, IInv, TypeOK, MutexOwner, OneDestroyer
  <2>4. StopThreadStat' /\ WorkersStat'
    BY <1>6 DEF DestroyLock, IInv, StopThreadStat, WorkersStat
  <2>5. Released'
    BY <1>6, <2>1 DEF DestroyLock, IInv, Released, Stopped
  <2> QED
    BY <2>2, <2>3, <2>4, <2>5 DEF IInv
<1>7. CASE DestroyStopEnd(a)
  <2>1. stat = STOPPED
    BY <1>7, ServiceThreadsAssumption DEF DestroyStopEnd, IInv, MutexOwner
  <2>2. /\ worker' \in [Workers -> {"joined"}] /\ channels' = 0 /\ mutex' = None
        /\ acceptor' = "null" /\ accept' \in BOOLEAN
    BY <1>7, <2>1, StopEndFacts DEF DestroyStopEnd
  <2>3. TypeOK'
    BY <1>7, <2>2, ServiceBoundsAssumption DEF DestroyStopEnd, IInv, TypeOK
  <2>4. MutexOwner'
    BY <1>7, <2>2, ServiceThreadsAssumption DEF DestroyStopEnd, IInv, TypeOK, MutexOwner
  <2>5. StopThreadStat' /\ WorkersStat'
    BY <1>7, <2>1, <2>2 DEF DestroyStopEnd, IInv, StopThreadStat, WorkersStat
  <2>6. OneDestroyer'
    BY <1>7 DEF DestroyStopEnd, IInv, TypeOK, OneDestroyer
  <2>7. Released'
    BY <2>2 DEF Released, Stopped
  <2> QED
    BY <2>3, <2>4, <2>5, <2>6, <2>7 DEF IInv
<1>8. CASE DestroyLast(a)
  BY <1>8, ServiceThreadsAssumption, ServiceBoundsAssumption
  DEF DestroyLast, IInv, TypeOK, MutexOwner, StopThreadStat, WorkersStat, OneDestroyer,
      Released, Stopped
<1> QED
  BY <1>1, <1>2, <1>3, <1>4, <1>5, <1>6, <1>7, <1>8 DEF AppStep

\* What a worker does keeps IInv.
LEMMA WorkerKeeps ==
  ASSUME IInv, NEW w \in Workers,
         BeginHandler(w) \/ BeginSetup(w) \/ HandlerRequest(w) \/ WorkerStep(w)
  PROVE  IInv'
<1>1. CASE BeginHandler(w)
  BY <1>1, ServiceThreadsAssumption, ServiceBoundsAssumption
  DEF BeginHandler, AfterErase, IInv, TypeOK, MutexOwner, StopThreadStat, WorkersStat, OneDestroyer,
      Released, Stopped
<1>2. CASE BeginSetup(w)
  <2>1. channels' \in 0 .. MaxChannels
    BY <1>2, ServiceBoundsAssumption DEF BeginSetup, IInv, TypeOK
  <2>2. TypeOK'
    BY <1>2, <2>1 DEF BeginSetup, IInv, TypeOK
  <2>3. MutexOwner' /\ StopThreadStat' /\ OneDestroyer'
    BY <1>2 DEF BeginSetup, IInv, MutexOwner, StopThreadStat, OneDestroyer
  <2>4. WorkersStat' /\ Released'
    BY <1>2 DEF BeginSetup, IInv, TypeOK, WorkersStat, Released, Stopped
  <2> QED
    BY <2>2, <2>3, <2>4 DEF IInv
<1>3. CASE HandlerRequest(w)
  BY <1>3, ServiceThreadsAssumption, ServiceBoundsAssumption
  DEF HandlerRequest, IInv, TypeOK, MutexOwner, StopThreadStat, WorkersStat, OneDestroyer,
      Released, Stopped
<1>4. CASE HandlerRequestStop(w)
  BY <1>4, ServiceThreadsAssumption, ServiceBoundsAssumption
  DEF HandlerRequestStop, RequestStop, StopWanted, IInv, TypeOK, MutexOwner, StopThreadStat, WorkersStat, OneDestroyer,
      Released, Stopped
<1>5. CASE EndHandler(w)
  BY <1>5, ServiceThreadsAssumption, ServiceBoundsAssumption
  DEF EndHandler, IInv, TypeOK, MutexOwner, StopThreadStat, WorkersStat, OneDestroyer,
      Released, Stopped
<1>6. CASE WorkerExit(w)
  BY <1>6, ServiceThreadsAssumption, ServiceBoundsAssumption
  DEF WorkerExit, IInv, TypeOK, MutexOwner, StopThreadStat, WorkersStat, OneDestroyer,
      Released, Stopped
<1> QED
  BY <1>1, <1>2, <1>3, <1>4, <1>5, <1>6 DEF WorkerStep

\* What the stop thread does keeps IInv.
LEMMA StopThreadKeeps ==
  ASSUME IInv, StopThread
  PROVE  IInv'
<1>1. CASE StopThreadLock
  BY <1>1, ServiceThreadsAssumption, ServiceBoundsAssumption
  DEF StopThreadLock, StopBegin, IoStop, IInv, TypeOK, MutexOwner, StopThreadStat, WorkersStat, OneDestroyer,
      Released, Stopped
<1>2. CASE StopThreadEnd
  <2>1. stat = STOPPED
    BY <1>2, ServiceThreadsAssumption DEF StopThreadEnd, IInv, MutexOwner
  <2>2. /\ worker' \in [Workers -> {"joined"}] /\ channels' = 0 /\ mutex' = None
        /\ acceptor' = "null" /\ accept' \in BOOLEAN
    BY <1>2, <2>1, StopEndFacts DEF StopThreadEnd
  <2>3. /\ app' \in [Apps -> AppPcs]
        /\ \A a \in Apps : \/ app'[a] = app[a]
                           \/ app[a] = "waiting" /\ app'[a] = "woken"
    BY <1>2 DEF StopThreadEnd, Notified, IInv, TypeOK
  <2>4. TypeOK'
    BY <1>2, <2>2, <2>3, ServiceBoundsAssumption DEF StopThreadEnd, IInv, TypeOK
  <2>5. MutexOwner'
    BY <1>2, <2>2, <2>3, ServiceThreadsAssumption DEF StopThreadEnd, IInv, MutexOwner
  <2>6. StopThreadStat' /\ WorkersStat'
    BY <1>2, <2>1, <2>2 DEF StopThreadEnd, IInv, StopThreadStat, WorkersStat
  <2>7. OneDestroyer'
    BY <1>2, <2>3 DEF StopThreadEnd, IInv, OneDestroyer
  <2>8. Released'
    BY <2>2 DEF Released, Stopped
  <2> QED
    BY <2>4, <2>5, <2>6, <2>7, <2>8 DEF IInv
<1> QED
  BY <1>1, <1>2 DEF StopThread

\* IInv holds of a new service, and every step keeps it.
LEMMA IInvInvariant == Spec => []IInv
<1>1. Init => IInv
  <2> SUFFICES ASSUME Init PROVE IInv
    OBVIOUS
  <2>1. kind \in {"server", "client"}
    BY ServiceKindsAssumption DEF Init
  <2>2. worker \in [Workers -> WorkerPcs] /\ app \in [Apps -> AppPcs]
    BY DEF Init
  <2>3. ioStopped \in BOOLEAN /\ accept \in BOOLEAN /\ mutex \in Apps \cup {Stopper, None}
    BY DEF Init
  <2>4. channels \in 0 .. MaxChannels /\ requests \in 0 .. MaxRequests /\ pipeline \in Nat
    BY ServiceBoundsAssumption DEF Init
  <2>5. TypeOK
    BY <2>1, <2>2, <2>3, <2>4 DEF Init, TypeOK
  <2> QED
    BY <2>5, ServiceThreadsAssumption
    DEF Init, IInv, MutexOwner, StopThreadStat, WorkersStat, OneDestroyer, Released
<1>2. IInv /\ [Next]_vars => IInv'
  <2> SUFFICES ASSUME IInv, [Next]_vars PROVE IInv'
    OBVIOUS
  <2>1. CASE UNCHANGED vars
    BY <2>1 DEF vars, IInv, TypeOK, MutexOwner, StopThreadStat, WorkersStat, OneDestroyer,
                Released, Stopped
  <2>2. CASE Next
    BY <2>2, AppCallKeeps, AppStepKeeps, WorkerKeeps, StopThreadKeeps DEF Next
  <2> QED
    BY <2>1, <2>2
<1> QED
  BY <1>1, <1>2, PTL DEF Spec

-------------------------------------------------------------------------------
(* The theorems.                                                            *)

\* Every variable of a service has its type, and whenever _service_mutex is free
\* in a stopped service every worker was joined: what follows
\* service_base::stop in the destructors finds no handler running.
THEOREM ServiceIsSafe == Spec => []ServiceSafe
<1>1. IInv => ServiceSafe
  BY DEF IInv, ServiceSafe, NoHandlerAfterStop, Released, Stopped
<1> QED
  BY <1>1, IInvInvariant, PTL

\* wait_stop returns to a thread that called it on a started service only when
\* the workers were joined, no channel is left and the acceptor is gone: however
\* many threads wait, are woken for nothing, or request the stop meanwhile.
THEOREM WaitStopReturnsLast == Spec => WaitStopMeansStopped
<1>1. ASSUME IInv, [Next]_vars
      PROVE  [\A a \in Apps : app[a] \in {"wait", "woken"} /\ app'[a] = "idle" /\ stat # CREATED
                => Stopped]_vars
  <2> SUFFICES ASSUME Next, NEW a \in Apps, app[a] \in {"wait", "woken"}, app'[a] = "idle",
                      stat # CREATED
               PROVE  Stopped
    BY <1>1
  <2>1. WaitStop(a)
    <3>1. app \in [Apps -> AppPcs]
      BY <1>1 DEF IInv, TypeOK
    <3>2. ASSUME NEW b \in Apps, AppCall(b) PROVE FALSE
      BY <3>1, <3>2 DEF AppCall, AddHandler, Call, Connect, CallRequestStop, Destroy,
                        SpuriousWake, CanCall
    <3>3. ASSUME NEW b \in Apps, AppStep(b), ~WaitStop(b) PROVE FALSE
      BY <3>1, <3>3 DEF AppStep, AddHandlerPush, AppRequestStop, Start, DestroyLock,
                        DestroyStopEnd, DestroyLast
    <3>4. ASSUME NEW b \in Apps, WaitStop(b) PROVE a = b
      BY <3>1, <3>4 DEF WaitStop
    <3>5. ASSUME NEW w \in Workers,
                 BeginHandler(w) \/ BeginSetup(w) \/ HandlerRequest(w) \/ WorkerStep(w)
          PROVE  FALSE
      BY <3>5 DEF BeginHandler, BeginSetup, HandlerRequest, WorkerStep, HandlerRequestStop,
                  EndHandler, WorkerExit
    <3>6. ~StopThread
      BY <3>1 DEF StopThread, StopThreadLock, StopThreadEnd, Notified
    <3> QED
      BY <3>2, <3>3, <3>4, <3>5, <3>6 DEF Next
  <2>2. stat = STOPPED /\ mutex = None
    BY <1>1, <2>1 DEF WaitStop, WaitOver, IInv, TypeOK
  <2> QED
    BY <1>1, <2>2 DEF IInv, Released
<1> QED
  BY <1>1, IInvInvariant, PTL DEF Spec, WaitStopMeansStopped

\* A stopped service stays stopped: no request_stop, start or destructor that
\* comes later gives _stat another value.
THEOREM StoppedIsForGood == Spec => StoppedForGood
<1>1. ASSUME [Next]_vars
      PROVE  [stat = STOPPED => stat' = STOPPED]_stat
  <2> SUFFICES ASSUME Next, stat = STOPPED, stat' # stat
               PROVE  FALSE
    BY <1>1 DEF vars
  <2>1. ASSUME NEW a \in Apps, AppCall(a) PROVE FALSE
    BY <2>1 DEF AppCall, AddHandler, Call, Connect, CallRequestStop, Destroy, SpuriousWake
  <2>2. ASSUME NEW a \in Apps, AppStep(a) PROVE FALSE
    BY <2>2 DEF AppStep, AddHandlerPush, WaitStop, AppRequestStop, RequestStop, StopWanted,
                Start, DestroyLock, DestroyStopEnd, DestroyLast
  <2>3. ASSUME NEW w \in Workers,
               BeginHandler(w) \/ BeginSetup(w) \/ HandlerRequest(w) \/ WorkerStep(w)
        PROVE  FALSE
    BY <2>3 DEF BeginHandler, BeginSetup, HandlerRequest, WorkerStep, HandlerRequestStop,
                RequestStop, StopWanted, EndHandler, WorkerExit
  <2>4. ~StopThread
    BY DEF StopThread, StopThreadLock, StopBegin, StopThreadEnd
  <2> QED
    BY <2>1, <2>2, <2>3, <2>4 DEF Next
<1> QED
  BY <1>1, PTL DEF Spec, StoppedForGood

===============================================================================
