SPECIFICATION ContextSpec
CONSTANTS
  Profiles = {"continuity", "usage_balance"}
  MaxRuns = 4
  MaxMessages = 3
  MaxStray = 1
  Others = 1
INVARIANTS OnlyUnseen ContextIsAccountedFor UsageIsBalanced
CHECK_DEADLOCK FALSE
