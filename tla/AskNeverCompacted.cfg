SPECIFICATION Spec
CONSTANTS
  MaxSteps = 4
  CostCap = 0
  MaxErrors = 1
  MaxContinuations = 0
  KeepRecent = 2
  WallClock = FALSE
  MaxTurns = 2
  MaxCalls = 1
  MaxCrashes = 0
INVARIANT AskNeverCompacted
CHECK_DEADLOCK FALSE
