SPECIFICATION AgentsSpec
CONSTANTS
  Adapters = {"openai"}
  RetryAfters = {0}
  NoHeader = NoHeader
  MaxRetries = 2
  MaxItems = 2
  MaxCalls = 2
  CostCap = 1
  Absent = Absent
  Tokens = {"a", "b", "c"}
  Newline = "lf"
  Files <- WorkFiles
  Others <- WorkOthers
  Changes <- WorkChanges
  MaxSteps = 2
  SubSteps = 3
  MaxDepth = 2
  MaxErrors = 1
  WallClock = TRUE
  MaxFan = 2
  MaxRuns = 2
INVARIANTS TimeoutKillsTheTree
CHECK_DEADLOCK FALSE
