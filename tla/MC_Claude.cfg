SPECIFICATION FairSpec
CONSTANTS
  q1 = q1
  MaxTurns = 2
  Requests = {q1}
  MaxTasks = 2
  Above <- Nested
  MaxBlocks = 2
  Capacity = 2
  Budgets <- Mixes
INVARIANTS ProcessesAreOwned TurnIsFaithful
PROPERTY StoppedTurnEnds
CHECK_DEADLOCK FALSE
