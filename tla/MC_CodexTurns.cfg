SPECIFICATION Spec
CONSTANTS
  MaxTurns = 2
  Requests = {q1}
  StreamCap = 2
  MaxWire = 2
  Budgets <- Mixes
INVARIANTS TurnStreams WrittenOnce TurnsAreStopped
CHECK_DEADLOCK FALSE
