SPECIFICATION TornSpec
CONSTANTS
  N = 2
  GateConfig <- MCOneGate
  Procs = {p1, p2}
  Ops = {"start", "complete", "advance", "override"}
  Faults = {"hook"}
  MaxCmds = 3
SYMMETRY Symmetry
INVARIANTS
  AtMostOneActive
  LastEventIsLogged
CHECK_DEADLOCK FALSE
