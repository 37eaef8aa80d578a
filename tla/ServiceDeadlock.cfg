\* One worker, so one handler at a time, that calls request_stop; so does the application.
CONSTANTS
  Kinds = {"server", "client"}
  Workers = {w1}
  Apps = {a1}
  Stopper = Stopper
  None = None
  MaxChannels = 2
  MaxHandlers = 0
  MaxRequests = 2
  Destroys = FALSE
SPECIFICATION Spec
INVARIANTS RequestStopInOneHandler
CHECK_DEADLOCK FALSE
