\* Four derivations; durations below, at and above the progress interval;
\* no, one or two build slots against a single substitution slot.
CONSTANTS
  NumNodes = 4
  Graphs <- MCGraphs
  JobLimits = {0, 1, 2}
  SubLimits = {1}
  Durations = {2, 6}
  ProgressInterval = 2
  LineCounts = {1}
SPECIFICATION FairSpec
INVARIANTS SimInv GivesUpOnlyWithoutSlots
PROPERTIES Schedule TimeForward AllFinish
