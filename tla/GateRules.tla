------------------------------ MODULE GateRules -----------------------------
(***************************************************************************)
(* The decision rules of `gates/coordinator.py` and `gates/evaluator.py`:  *)
(* which gates apply to a stage, how the outcome of one check is           *)
(* normalised by severity, and when a list of results blocks.              *)
(* What a check looks at (a file, a pattern, a command, a metric) is the   *)
(* environment: its raw outcome is chosen by the module that uses this one.*)
(***************************************************************************)
EXTENDS Naturals

CONSTANT GateConfig  \* gate id -> [type, stage, severity, enabled]

Gates == DOMAIN GateConfig

FileChecks == {"required_file", "pattern"}
GateTypes == FileChecks \union {"external_command", "metric_threshold"}

Severities == {"blocking", "warning", "advisory"}

ResultStatus == {"pass", "fail", "error", "warn", "skipped"}

AnyStage == 0  \* a gate with `stage_id: null` applies to every stage

ApplicableGates(s) ==
  {g \in Gates : GateConfig[g].enabled /\ GateConfig[g].stage \in {AnyStage, s}}

\* _check_required_file, _check_pattern: bad criteria, or a file that cannot
\* be read, are an error; a missing file or pattern is a failure.
FileOutcomes == {"pass", "fail", "error"}

\* GateEvaluator: a command that cannot run or takes too long, a metric that
\* is missing or no number, are errors too.
EvaluatorOutcomes == {"pass", "fail", "error"}

\* The checker by type; an unknown type is always an error.
RawOutcomes(g) ==
  CASE GateConfig[g].type \in FileChecks -> FileOutcomes
    [] GateConfig[g].type \in GateTypes \ FileChecks -> EvaluatorOutcomes
    [] OTHER -> {"error"}

\* Severity softens a failure; it never softens an error.
Normalise(raw, severity) ==
  CASE raw = "fail" /\ severity = "warning"  -> "warn"
    [] raw = "fail" /\ severity = "advisory" -> "skipped"
    [] OTHER -> raw

\* Mutant: a check that could not run does not block.
IsBlocking_FailOnly(g, status) ==
  status = "fail" /\ GateConfig[g].severity = "blocking"

IsBlocking(g, status) ==
  status \in {"fail", "error"} /\ GateConfig[g].severity = "blocking"

\* Every way the gates of stage s can turn out: gate -> normalised status.
GateRuns(s) ==
  LET App == ApplicableGates(s)
  IN  {[g \in App |-> Normalise(raw[g], GateConfig[g].severity)] :
         raw \in {f \in [App -> {"pass", "fail", "error"}] :
                    \A g \in App : f[g] \in RawOutcomes(g)}}

HasBlockingFailures(results) ==
  \E g \in DOMAIN results : IsBlocking(g, results[g])
=============================================================================
