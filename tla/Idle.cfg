\* Two channels that have the same address one after the other.
SPECIFICATION Spec
CONSTANTS
  MaxChannels = 2
  MaxTouches = 1
  MaxResets = 2
INVARIANTS IdleSafe
PROPERTIES OffIsQuiet IdleIsNoticed
CHECK_DEADLOCK FALSE
