SPECIFICATION Spec
CONSTANTS
  Calls = {c1}
  MaxTurn = 1
  MaxTurns = 1
PROPERTY TimeoutsAreReported
\* The run ends.
CHECK_DEADLOCK FALSE
