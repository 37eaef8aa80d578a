SPECIFICATION FairSpec
CONSTANTS
  Kinds = {"tcp_server", "ssl_server", "tcp_client", "ssl_client"}
  Closers = {"c1"}
  MaxWrites = 2
  MaxEvents = 1
  MaxThrows = 1
INVARIANTS TypeOK TasksCoverOps WritesInOrder ConnectedIsReachable NoForgottenChannel ClosedOnce
PROPERTIES ShutdownAlone CallbackOrder OnlyLateStoreReverses CloseCompletes
CHECK_DEADLOCK FALSE
