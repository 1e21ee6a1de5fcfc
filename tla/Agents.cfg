SPECIFICATION AgentsSpec
CONSTANTS
  Adapters = {"openai", "ollama", "anthropic"}
  RetryAfters = {0, 20, 999}
  NoHeader = NoHeader
  MaxRetries = 2
  MaxItems = 2
  MaxCalls = 2
  CostCap = 3
  Absent = Absent
  Tokens = {"a", "b", "c"}
  Newline = "lf"
  Files <- WorkFiles
  Others <- WorkOthers
  Changes <- WorkChanges
  MaxSteps = 2
  SubSteps = 3
  MaxDepth = 2
  MaxErrors = 1
  WallClock = TRUE
  MaxFan = 2
  MaxRuns = 2
INVARIANTS AgentsTypeOK DelegationIsContained
PROPERTIES KeepsCallContract SpendIsCounted EditsAreFaithful CommandsReturn
CHECK_DEADLOCK FALSE
