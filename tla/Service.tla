------------------------------- MODULE Service -------------------------------
(***************************************************************************)
(* The life of a service of Shan.Net: service_base with tcp_server_base or *)
(* tcp_client_base and their most derived classes, from construction to    *)
(* destruction.                                                            *)
(*                                                                         *)
(* Three kinds of threads meet in it: the workers, which run               *)
(* io_service::run and in it the handlers; the application's threads, which *)
(* call start, wait_stop, request_stop and the destructor; and the thread  *)
(* that request_stop creates.  They are serialized by _service_mutex, which *)
(* stop() keeps while it joins the workers.  What a thread does between     *)
(* two blocking points under that mutex is one step.                       *)
(*                                                                         *)
(* Channels are what ChannelContext models; here they are only counted.    *)
(***************************************************************************)
EXTENDS Naturals, FiniteSets

CONSTANTS Kinds,        \* the kinds of service considered
          Workers,      \* the threads that start() creates
          Apps,         \* threads of the application
          Stopper,      \* the thread that request_stop creates
          None,         \* no thread
          MaxChannels,  \* bound: channels in the map
          MaxHandlers,  \* bound: calls of add_channel_handler
          MaxRequests,  \* bound: calls of request_stop
          Destroys      \* whether the application destroys the service

ASSUME ServiceKindsAssumption == Kinds \subseteq {"server", "client"}
ASSUME ServiceThreadsAssumption ==
  /\ Workers \cap Apps = {} /\ {Stopper, None} \cap (Workers \cup Apps) = {}
  /\ Stopper # None
ASSUME ServiceBoundsAssumption ==
  /\ MaxChannels \in Nat /\ MaxHandlers \in Nat /\ MaxRequests \in Nat
  /\ Destroys \in BOOLEAN

\* the states of service_base::_stat
CREATED == 0
RUNNING == 1
REQ_STOP == 2
STOPPED == 3

\* How much of the object exists: the most derived class (3), tcp_server_base or
\* tcp_client_base (2), service_base (1), nothing (0).
Whole == 3

VARIABLES
  kind,       \* server or client (constant during a run)
  stat,       \* _stat
  mutex,      \* the holder of _service_mutex, or None
  ioStopped,  \* _io_service was stopped
  worker,     \* what each worker does
  app,        \* what each thread of the application does
  stopper,    \* what the stop thread does
  object,     \* how much of the object exists
  pipeline,   \* handlers in _channel_pipeline_ptr
  channels,   \* size of _channel_contexts
  acceptor,   \* _acceptor_context_ptr: "null" or "started"
  accept,     \* an asynchronous accept, or connect, is outstanding
  requests    \* calls of request_stop so far

vars == <<kind, stat, mutex, ioStopped, worker, app, stopper, object, pipeline, channels,
          acceptor, accept, requests>>

\* A worker is in a handler of a channel, or in accept_complete or
\* connect_complete ("setup"), or in request_stop called by one of these.
Handlers == {"handler", "setup", "handler_request", "setup_request"}
WorkerPcs == {"none", "free", "exited", "joined"} \cup Handlers
AppPcs == {"idle", "adding", "start", "wait", "waiting", "woken", "request",
           "destroy", "join", "last", "destroyed"}

Init ==
  /\ kind \in Kinds /\ stat = CREATED /\ mutex = None /\ ioStopped = FALSE
  /\ worker = [w \in Workers |-> "none"]
  /\ app = [a \in Apps |-> "idle"] /\ stopper = "none"
  /\ object = Whole /\ pipeline = 0 /\ channels = 0
  /\ acceptor = "null" /\ accept = FALSE /\ requests = 0

\* The application calls a member only while it has not begun to destroy the object.
CanCall(a) == app[a] = "idle" /\ object = Whole

-------------------------------------------------------------------------------
(* Calls of the application.                                                *)

\* add_channel_handler: the test of _stat, under _shared_mutex ...
AddHandler(a) ==
  /\ CanCall(a) /\ stat = CREATED /\ pipeline < MaxHandlers
  /\ app' = [app EXCEPT ![a] = "adding"]
  /\ UNCHANGED <<kind, stat, mutex, ioStopped, worker, stopper, object, pipeline, channels,
                 acceptor, accept, requests>>

\* ... and the push_back.
AddHandlerPush(a) ==
  /\ app[a] = "adding"
  /\ pipeline' = pipeline + 1
  /\ app' = [app EXCEPT ![a] = "idle"]
  /\ UNCHANGED <<kind, stat, mutex, ioStopped, worker, stopper, object, channels, acceptor,
                 accept, requests>>

\* A call that begins with _service_mutex.
Call(a, name) ==
  /\ CanCall(a)
  /\ app' = [app EXCEPT ![a] = name]
  /\ UNCHANGED <<kind, stat, mutex, ioStopped, worker, stopper, object, pipeline, channels,
                 acceptor, accept, requests>>

\* start: the workers, and for a server the acceptor and its first accept, unless
\* opening, binding or listening fails.
Start(a, listening) ==
  /\ app[a] = "start" /\ mutex = None
  /\ app' = [app EXCEPT ![a] = "idle"]
  /\ IF stat = CREATED
     THEN /\ stat' = RUNNING
          /\ worker' = [w \in Workers |-> "free"]
          /\ acceptor' = IF kind = "server" THEN "started" ELSE acceptor
          /\ accept' = (kind = "server" /\ listening)
     ELSE UNCHANGED <<stat, worker, acceptor, accept>>
  /\ UNCHANGED <<kind, mutex, ioStopped, stopper, object, pipeline, channels, requests>>

\* tcp_client_base::connect, up to the connect that its lambda starts.  Bound: one
\* connect at a time.
Connect(a) ==
  /\ CanCall(a) /\ kind = "client" /\ stat = RUNNING /\ ~accept
  /\ accept' = TRUE
  /\ UNCHANGED <<kind, stat, mutex, ioStopped, worker, app, stopper, object, pipeline, channels,
                 acceptor, requests>>

\* Fault: wait_stop does not look at _stat again when it is woken or late.
M_WaitOver == stat # RUNNING

\* the condition that wait_stop waits for
WaitOver == stat \in {CREATED, STOPPED}

\* wait_stop, on entry and when it is woken
WaitStop(a) ==
  /\ app[a] \in {"wait", "woken"} /\ mutex = None
  /\ app' = [app EXCEPT ![a] = IF WaitOver THEN "idle" ELSE "waiting"]
  /\ UNCHANGED <<kind, stat, mutex, ioStopped, worker, stopper, object, pipeline, channels,
                 acceptor, accept, requests>>

\* A condition variable may wake a thread without a reason.
SpuriousWake(a) ==
  /\ app[a] = "waiting"
  /\ app' = [app EXCEPT ![a] = "woken"]
  /\ UNCHANGED <<kind, stat, mutex, ioStopped, worker, stopper, object, pipeline, channels,
                 acceptor, accept, requests>>

\* Fault: request_stop looks at what was requested, not at what was done.
M_StopWanted == stat \in {RUNNING, STOPPED} /\ stopper \in {"none", "done"}

\* the condition under which request_stop creates the stop thread
StopWanted == stat = RUNNING /\ stopper = "none"

\* request_stop, with _service_mutex
RequestStop ==
  /\ mutex = None
  /\ IF StopWanted THEN stat' = REQ_STOP /\ stopper' = "lock"
                   ELSE UNCHANGED <<stat, stopper>>
  /\ UNCHANGED <<kind, mutex, ioStopped, object, pipeline, channels, acceptor, accept, requests>>

CallRequestStop(a) ==
  /\ CanCall(a) /\ requests < MaxRequests
  /\ requests' = requests + 1
  /\ app' = [app EXCEPT ![a] = "request"]
  /\ UNCHANGED <<kind, stat, mutex, ioStopped, worker, stopper, object, pipeline, channels,
                 acceptor, accept>>

AppRequestStop(a) ==
  /\ app[a] = "request"
  /\ RequestStop
  /\ app' = [app EXCEPT ![a] = "idle"]
  /\ UNCHANGED worker

-------------------------------------------------------------------------------
(* Workers.                                                                 *)

\* The size of the map when a completion that may end its channel is over.
AfterErase == {channels, channels - 1}

\* io_service::run calls a handler of a channel, which may end the channel.
BeginHandler(w) ==
  /\ worker[w] = "free" /\ ~ioStopped /\ channels > 0
  /\ worker' = [worker EXCEPT ![w] = "handler"]
  /\ channels' \in AfterErase
  /\ UNCHANGED <<kind, stat, mutex, ioStopped, app, stopper, object, pipeline, acceptor, accept,
                 requests>>

\* accept_complete or connect_complete up to the callbacks: a channel in the map,
\* or a failure.
BeginSetup(w) ==
  /\ worker[w] = "free" /\ ~ioStopped /\ accept
  /\ accept' = FALSE
  /\ worker' = [worker EXCEPT ![w] = "setup"]
  /\ channels' \in {channels, channels + 1} /\ channels' <= MaxChannels
  /\ UNCHANGED <<kind, stat, mutex, ioStopped, app, stopper, object, pipeline, acceptor, requests>>

\* A callback calls request_stop.
HandlerRequest(w) ==
  /\ worker[w] \in {"handler", "setup"} /\ requests < MaxRequests
  /\ requests' = requests + 1
  /\ worker' = [worker EXCEPT ![w] = IF @ = "handler" THEN "handler_request" ELSE "setup_request"]
  /\ UNCHANGED <<kind, stat, mutex, ioStopped, app, stopper, object, pipeline, channels, acceptor,
                 accept>>

HandlerRequestStop(w) ==
  /\ worker[w] \in {"handler_request", "setup_request"}
  /\ RequestStop
  /\ worker' = [worker EXCEPT ![w] = IF @ = "handler_request" THEN "handler" ELSE "setup"]
  /\ UNCHANGED app

\* The handler returns; accept_complete accepts the next client first.
EndHandler(w) ==
  /\ worker[w] \in {"handler", "setup"}
  /\ worker' = [worker EXCEPT ![w] = "free"]
  /\ accept' = (accept \/ (worker[w] = "setup" /\ kind = "server" /\ acceptor = "started"))
  /\ UNCHANGED <<kind, stat, mutex, ioStopped, app, stopper, object, pipeline, channels, acceptor,
                 requests>>

\* io_service::run returns once the io_service is stopped.
WorkerExit(w) ==
  /\ worker[w] = "free" /\ ioStopped
  /\ worker' = [worker EXCEPT ![w] = "exited"]
  /\ UNCHANGED <<kind, stat, mutex, ioStopped, app, stopper, object, pipeline, channels, acceptor,
                 accept, requests>>

-------------------------------------------------------------------------------
(* stop(), run by the stop thread or by a destructor.                       *)

\* io_service::stop (asio): run() returns when the current handlers do.
IoStop == ioStopped' = TRUE

StopBegin == stat' = STOPPED /\ IoStop

\* Fault: the workers are not waited for.
M_Joinable == TRUE

\* _join_worker_threads can return
Joinable == \A w \in Workers : worker[w] \in {"none", "exited", "joined"}

\* Fault: nobody is notified.
M_Notified == app

\* notify_all on _service_cv
Notified == [a \in Apps |-> IF app[a] = "waiting" THEN "woken" ELSE app[a]]

\* The acceptor is closed and released, and with it the accept that is outstanding.
ReleaseAcceptor == acceptor' = "null" /\ accept' = (accept /\ kind = "client")

\* The rest of stop(): the workers are joined, the channels closed, and if the
\* object still has its tcp_server_base or tcp_client_base part, the acceptor is
\* stopped and the waiting threads are notified.
StopEnd ==
  /\ Joinable
  /\ worker' = [w \in Workers |-> IF worker[w] = "exited" THEN "joined" ELSE worker[w]]
  /\ channels' = 0
  /\ IF object >= 2 THEN ReleaseAcceptor ELSE UNCHANGED <<acceptor, accept>>
  /\ mutex' = None

\* _service_mutex is held from here to StopEnd.
StopThreadLock ==
  /\ stopper = "lock" /\ mutex = None
  /\ mutex' = Stopper
  /\ StopBegin
  /\ stopper' = "join"
  /\ UNCHANGED <<kind, worker, app, object, pipeline, channels, acceptor, accept, requests>>

StopThreadEnd ==
  /\ stopper = "join"
  /\ StopEnd
  /\ app' = IF object >= 2 THEN Notified ELSE app
  /\ stopper' = "done"
  /\ UNCHANGED <<kind, stat, ioStopped, object, pipeline, requests>>

\* The destructor of the most derived class has run: its members and its virtual
\* functions are gone when the one of tcp_server_base or tcp_client_base begins.
Destroy(a) ==
  /\ Destroys /\ CanCall(a)
  /\ \A b \in Apps : app[b] = "idle"
  /\ object' = 2
  /\ app' = [app EXCEPT ![a] = "destroy"]
  /\ UNCHANGED <<kind, stat, mutex, ioStopped, worker, stopper, pipeline, channels, acceptor,
                 accept, requests>>

\* ~tcp_server_base, ~tcp_client_base: stop() if the service is running, then the
\* members go, the acceptor with them.
DestroyLock(a) ==
  /\ app[a] = "destroy" /\ mutex = None
  /\ IF stat = RUNNING
     THEN /\ mutex' = a /\ StopBegin
          /\ app' = [app EXCEPT ![a] = "join"]
          /\ UNCHANGED object
     ELSE /\ object' = 1
          /\ app' = [app EXCEPT ![a] = "last"]
          /\ UNCHANGED <<mutex, stat, ioStopped>>
  /\ IF object' = 1 THEN ReleaseAcceptor ELSE UNCHANGED <<acceptor, accept>>
  /\ UNCHANGED <<kind, worker, stopper, pipeline, channels, requests>>

DestroyStopEnd(a) ==
  /\ app[a] = "join"
  /\ StopEnd
  /\ object' = 1
  /\ app' = [app EXCEPT ![a] = "last"]
  /\ UNCHANGED <<kind, stat, ioStopped, stopper, pipeline, requests>>

\* ~service_base joins the stop thread.
DestroyLast(a) ==
  /\ app[a] = "last" /\ stopper \in {"none", "done"}
  /\ object' = 0
  /\ app' = [app EXCEPT ![a] = "destroyed"]
  /\ UNCHANGED <<kind, stat, mutex, ioStopped, worker, stopper, pipeline, channels, acceptor,
                 accept, requests>>

-------------------------------------------------------------------------------
AppStep(a) ==
  \/ AddHandlerPush(a) \/ WaitStop(a) \/ AppRequestStop(a)
  \/ \E listening \in BOOLEAN : Start(a, listening)
  \/ DestroyLock(a) \/ DestroyStopEnd(a) \/ DestroyLast(a)

\* what need not happen: a call, and waking for nothing
AppCall(a) ==
  \/ AddHandler(a) \/ Call(a, "start") \/ Call(a, "wait") \/ Connect(a)
  \/ CallRequestStop(a) \/ Destroy(a) \/ SpuriousWake(a)

WorkerStep(w) == HandlerRequestStop(w) \/ EndHandler(w) \/ WorkerExit(w)
StopThread == StopThreadLock \/ StopThreadEnd

Next ==
  \/ \E a \in Apps : AppCall(a) \/ AppStep(a)
  \/ \E w \in Workers : BeginHandler(w) \/ BeginSetup(w) \/ HandlerRequest(w) \/ WorkerStep(w)
  \/ StopThread

\* Callbacks return, threads run, and a thread that waits for the mutex gets it
\* when it is free often enough.  Nobody has to make a call.
Fairness ==
  /\ \A a \in Apps : SF_vars(AppStep(a))
  /\ \A w \in Workers : SF_vars(WorkerStep(w))
  /\ SF_vars(StopThread)

Spec == Init /\ [][Next]_vars
FairSpec == Spec /\ Fairness
-------------------------------------------------------------------------------
(* Properties.                                                              *)

\* Every variable has its type.
TypeOK ==
  /\ kind \in {"server", "client"} /\ stat \in CREATED .. STOPPED
  /\ mutex \in Apps \cup {Stopper, None}
  /\ ioStopped \in BOOLEAN /\ accept \in BOOLEAN
  /\ worker \in [Workers -> WorkerPcs] /\ app \in [Apps -> AppPcs]
  /\ stopper \in {"none", "lock", "join", "done"}
  /\ object \in 0 .. 3 /\ pipeline \in Nat /\ channels \in 0 .. MaxChannels
  /\ acceptor \in {"null", "started"} /\ requests \in 0 .. MaxRequests

\* stop() is over: no worker is left, so no handler will be called any more, no
\* channel is in the map and the acceptor was released.
Stopped ==
  /\ \A w \in Workers : worker[w] = "joined"
  /\ channels = 0 /\ acceptor = "null"

\* wait_stop of a service that was started returns only when stop() is over:
\* _stat is STOPPED from the beginning of stop(), but _service_mutex is held to
\* its end.
WaitStopMeansStopped ==
  [][\A a \in Apps : app[a] \in {"wait", "woken"} /\ app'[a] = "idle" /\ stat # CREATED
       => Stopped]_vars

\* "no more handler will be called" once service_base::stop has returned: what
\* follows it in stop() and in the destructors finds no handler running.
NoHandlerAfterStop ==
  stat = STOPPED /\ mutex = None => \A w \in Workers : worker[w] = "joined"

\* The invariant of a service: its types, and that nothing runs after a stop.
ServiceSafe == TypeOK /\ NoHandlerAfterStop

\* "Once stop() is called, the service object can not be reused": neither a late
\* request_stop nor the destructor makes anything of it again.
StoppedForGood == [][stat = STOPPED => stat' = STOPPED]_stat

\* A thread in stop() never waits for a worker that waits for _service_mutex,
\* when request_stop is called in one handler only.
RequestStopInOneHandler ==
  mutex # None => \A w \in Workers : worker[w] \notin {"handler_request", "setup_request"}

\* A stop that was requested is carried out, also when the service is destroyed
\* meanwhile; a handler in request_stop while the workers are joined is the only
\* thing that can prevent it.
RequestedStopHappens ==
  []RequestStopInOneHandler => (stat = REQ_STOP ~> stat = STOPPED /\ mutex = None)

\* wait_stop returns once a stop was requested, under the same condition.
WaitStopReturns ==
  []RequestStopInOneHandler =>
    \A a \in Apps :
      app[a] \in {"wait", "waiting", "woken"} /\ stat \in {REQ_STOP, STOPPED} ~> app[a] = "idle"

\* A destructor ends, whatever the state of the service and the handlers that run,
\* under the same condition.
DestructorReturns ==
  []RequestStopInOneHandler => \A a \in Apps : app[a] = "destroy" ~> app[a] = "destroyed"

\* All three: stopping a service comes to an end for everyone who takes part in it.
StopComesToAnEnd == RequestedStopHappens /\ WaitStopReturns /\ DestructorReturns
===============================================================================
