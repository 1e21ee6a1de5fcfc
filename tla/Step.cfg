SPECIFICATION StepSpec
CONSTANTS
  Workers = 2
  Allowed = {"read"}
  MaxCalls = 4
  Batches <- MCBatches
  MaxCycles = 1
  Windows = {4, 8}
  Overheads = {0, 2}
  Reserve = 1
  OutputCap = 2
  HardCaps = {0, 3}
  MinimumTokens = 2
  KeepRecent = 2
  Sizes = {3, 9}
  SummarySize = 5
  MaxAsked = 2
  MaxLen = 6
INVARIANTS
  TypeOK
  EffectsAreSafe
  RequestIsSound
PROPERTIES
  KeepsContract
  EndsOrAsks
  CompactionIsSound
CHECK_DEADLOCK FALSE
