SPECIFICATION FairSpec
CONSTANTS
  k1 = k1
  MaxRuns = 3
  Controls = {k1}
  MaxConcurrent = 1
  MaxQueued = 1
  MaxControls = 1
  MaxFaults = 1
INVARIANT AccountsAreTrue
PROPERTIES StartsInOrder EverythingEnds
CHECK_DEADLOCK FALSE
