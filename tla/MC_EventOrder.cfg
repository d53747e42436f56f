\* The root and two children; every queue reaches its limit.
\* A finished attempt stops.
SPECIFICATION Spec
CONSTANTS
  Root = root
  Children = {c1, c2}
  Busy = {{}, {c1}}
  MaxEvents = 5
  MaxTurns = 2
  MaxQueued = 2
  MaxDeferred = 3
  MaxStaged = 2
INVARIANTS RecordedExactly PublishedInOrder WaitsForOneRequest
CHECK_DEADLOCK FALSE
