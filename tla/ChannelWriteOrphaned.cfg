SPECIFICATION Spec
CONSTANTS
  Kinds = {"tcp_server"}
  Closers = {}
  MaxWrites = 3
  MaxEvents = 0
  MaxThrows = 0
PROPERTY CancelledHandlerWillRun
CHECK_DEADLOCK FALSE
