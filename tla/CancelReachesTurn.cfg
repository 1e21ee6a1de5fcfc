SPECIFICATION Spec
CONSTANTS
  MaxTurns = 1
  MaxDeltas = 1
  MaxAsks = 1
INVARIANT CancelReachesTurn
CHECK_DEADLOCK FALSE
