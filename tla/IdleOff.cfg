\* One channel, one read and one reset_channel_timer with a time of 0.
SPECIFICATION Spec
CONSTANTS
  MaxChannels = 1
  MaxTouches = 1
  MaxResets = 1
PROPERTY OffFiresNothing
CHECK_DEADLOCK FALSE
