SPECIFICATION TornSpec
CONSTANTS
  N = 3
  GateConfig <- MCGates
  Procs = {p1}
  Ops = {"start", "complete", "advance", "override", "gate_check", "gate_report"}
  Faults = {"crash", "hook", "gates", "disk", "config", "store", "memory"}
  MaxCmds = 3
INVARIANTS
  TypeOK
  CurrentIsConsistent
  AuditTrail
  CopiesFollow
PROPERTIES
  CompletionHonoursGates
  ImplementsPipeline
CHECK_DEADLOCK FALSE
