SPECIFICATION FairSpec
CONSTANTS
  a = a
  b = b
  Conversations = {a, b}
  NoOne = noone
  Scopes <- Mixes
INVARIANTS WorkIsKept DiskIsAccountedFor
PROPERTY GateIsReleased
CHECK_DEADLOCK FALSE
