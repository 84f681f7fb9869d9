SPECIFICATION TimerSpec
CONSTANTS
  Calls = {c1, c2}
  NoCall = NoCall
PROPERTY ToolCallsTimeOut
CHECK_DEADLOCK FALSE
