------------------------------ MODULE Pipeline ------------------------------
(***************************************************************************)
(* What the stage commands promise: the pipeline document changes only by  *)
(* whole, legal transitions.  Every action is one command that took        *)
(* effect; how the command reads, gates, writes and logs is the business   *)
(* of StateManager, which implements this specification.                   *)
(***************************************************************************)
EXTENDS StageRules

VARIABLE doc  \* [status, current]

PipelineInit == doc = [status |-> InitialStatus, current |-> InitialCurrent]

StartStage(s) == CanStart(doc, s) /\ doc' = Start(doc, s)

\* The gates let the stage pass.
CompleteStage(s) == CanComplete(doc, s) /\ doc' = Complete(doc, s)

\* A blocking gate failed or errored.
BlockStage(s) == CanComplete(doc, s) /\ doc' = Block(doc, s)

OverrideStage(s) == doc' = Override(doc, s)

PipelineNext ==
  \E s \in Stages :
    StartStage(s) \/ CompleteStage(s) \/ BlockStage(s) \/ OverrideStage(s)

PipelineSpec == PipelineInit /\ [][PipelineNext]_doc
=============================================================================
