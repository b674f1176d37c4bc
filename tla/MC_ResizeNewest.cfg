\* Two resizes, the second before the first has been drawn.
CONSTANTS
  Sizes <- MCSizes
  MaxResizes = 2
  Heights = {1}
  ReservedRows = 1
SPECIFICATION FairSpec
PROPERTIES NewestSizeKept
