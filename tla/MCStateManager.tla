--------------------------- MODULE MCStateManager ---------------------------
(* Instances of StateManager for TLC.                                      *)
EXTENDS StateManager, TLC

Gate(type, s, severity) ==
  [type |-> type, stage |-> s, severity |-> severity, enabled |-> TRUE]

\* One gate of every severity, one of a type the coordinator does not know
\* that only warns, and one that is switched off.
MCGates ==
  "srs" :> Gate("required_file", 1, "blocking")
  @@ "any" :> Gate("metric_threshold", AnyStage, "warning")
  @@ "odd" :> Gate("no_such_type", 2, "advisory")
  @@ "off" :> [Gate("pattern", 1, "blocking") EXCEPT !.enabled = FALSE]

MCOneGate == "all" :> Gate("external_command", AnyStage, "blocking")

\* No property tells processes apart.
Symmetry == Permutations(Procs)
=============================================================================
