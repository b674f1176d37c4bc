\* Two resizes of the window at any moment; layouts of no and of three rows
\* and full-screen ones; one row reserved for the log.
CONSTANTS
  Sizes <- MCSizes
  MaxResizes = 2
  Heights = {0, 3}
  ReservedRows = 1
SPECIFICATION FairSpec
INVARIANTS ResizeTypeOK FrameFits PrintlnInRegion
PROPERTIES SizeSettles
