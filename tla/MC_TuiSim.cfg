\* One build slot (or none) and one substitution slot; a shutdown at any step.
CONSTANTS
  NumNodes = 3
  Graphs <- MCGraphs
  JobLimits = {0, 1}
  SubLimits = {1, 2}
  Durations = {2, 6}
  ProgressInterval = 2
  LineCounts = {0, 1}
SPECIFICATION TuiFairSpec
INVARIANTS TuiTypeOK HudAgrees OneLateEvent CompleteMeansAll
PROPERTIES BarsFill TuiEnds
