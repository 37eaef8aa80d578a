\* Two threads of the application make every call, also the destructor, and two
\* calls of request_stop are made by handlers or by the application.
CONSTANTS
  Kinds = {"server", "client"}
  Workers = {w1, w2}
  Apps = {a1, a2}
  Stopper = Stopper
  None = None
  MaxChannels = 1
  MaxHandlers = 1
  MaxRequests = 2
  Destroys = TRUE
SPECIFICATION FairSpec
INVARIANTS ServiceSafe
PROPERTIES WaitStopMeansStopped StoppedForGood StopComesToAnEnd
CHECK_DEADLOCK FALSE
