SPECIFICATION TornSpec
CONSTANTS
  N = 2
  GateConfig <- MCOneGate
  Procs = {p1, p2}
  Ops = {"complete", "override", "gate_check"}
  Faults = {}
  MaxCmds = 3
PROPERTY CompletionHonoursGates
CHECK_DEADLOCK FALSE
