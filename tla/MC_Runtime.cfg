\* Two keystrokes and a signal against a self-pipe of one byte, on
\* every kind of terminal, with both kinds of application.  A hang is a real
\* outcome here (see Deaf), so deadlock is not an error.
CONSTANTS
  Updates = {"sleeper", "listener"}
  Terminals <- MCTerminals
  Keys = {"text", "ctrl_c", "lone_esc"}
  MaxKeys = 2
  MaxSignals = 1
  MayHangUp = TRUE
  PipeCapacity = 1
SPECIFICATION FairSpec
INVARIANTS RuntimeTypeOK KeysConserved SignalLoopAwake
PROPERTIES InterruptStops ShutdownReturns
CHECK_DEADLOCK FALSE
