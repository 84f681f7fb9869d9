SPECIFICATION TasksSpec
CONSTANTS
  Tasks = {1, 2, 3}
  Interval <- MCInterval
  Durations = {0, 1, 4}
  Ticks = {1, 7}
  Horizon = 5
  K = 2
  Levels = {0, 1, 2}
  Cap = 4
  HasCap = TRUE
  Agents = {a1, a2}
  Manual = TRUE
  WriteFails = TRUE
  Restarts = TRUE
  MaxRestarts = 2
  MaxTime = 3
INVARIANTS
  TypesOK
  NoEarlyPass
  ThrottleIsExplained
  RestartsAreCounted
PROPERTIES
  EveryTaskRuns
  StopIsHonoured
\* The loop ends when it is stopped.
CHECK_DEADLOCK FALSE
