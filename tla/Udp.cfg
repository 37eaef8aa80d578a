SPECIFICATION Spec
CONSTANTS
  Targets = {"none", "name", "ip_port"}
  Closers = {"c1"}
  MaxWrites = 2
  MaxReads = 2
  MaxEvents = 1
  MaxThrows = 1
  MaxInputs = 3
INVARIANTS WritesInOrder DatagramsAlone UdpSafe NoForgottenChannel
PROPERTIES CallbackOrder CloseCompletes
CHECK_DEADLOCK FALSE
