SPECIFICATION FairSpec
CONSTANTS
  MaxTurns = 3
  MaxDeltas = 2
  MaxAsks = 3
INVARIANTS
  TypeOK
  TurnsStayApart
PROPERTIES
  PromptComesBack
  QuitEndsWorker
CHECK_DEADLOCK FALSE
