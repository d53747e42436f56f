SPECIFICATION Spec
CONSTANTS
  Root = root
  None = none
  c1 = c1
  c2 = c2
  Threads = {c1, c2}
  Requests = {q1}
  Scopes <- Families
  MaxTurns = 2
  MaxWire = 2
INVARIANTS ChildStreams HoldingIsSafe QuiescenceIsEvidence
CHECK_DEADLOCK FALSE
