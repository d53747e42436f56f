SPECIFICATION FairSpec
CONSTANTS
  c1 = c1
  c2 = c2
  Nothing = Nothing
  Conv = {c1, c2}
  Listed <- MCListed
  Capacity = 1
  PageSize = 1
  MaxSequence = 3
  MaxChanges = 2
  MaxExtras = 1
INVARIANTS NewestIsKnown AcknowledgedKept
PROPERTY Settles
CHECK_DEADLOCK FALSE
