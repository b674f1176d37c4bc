\* A lone ESC byte, the 25ms timeout that resolves it, then a shutdown.
CONSTANTS
  Updates = {"sleeper"}
  Terminals <- MCTerminals
  Keys = {"lone_esc"}
  MaxKeys = 1
  MaxSignals = 1
  MayHangUp = FALSE
  PipeCapacity = 1
SPECIFICATION FairSpec
PROPERTIES CancelWakesPoll
CHECK_DEADLOCK FALSE
