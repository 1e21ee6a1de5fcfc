SPECIFICATION FairSpec
CONSTANTS
  MaxSteps = 2
  CostCap = 3
  MaxErrors = 1
  MaxContinuations = 1
  KeepRecent = 2
  WallClock = FALSE
  MaxTurns = 2
  MaxCalls = 2
  MaxCrashes = 1
INVARIANTS
  TypeOK
  HistoryIsSound
  AccountsAgree
  ClosedTurnIsDurable
  CancelEndsTheStep
  TurnIsBounded
PROPERTY TurnsEndUnlessACallHangs
CHECK_DEADLOCK FALSE
