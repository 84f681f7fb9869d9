----------------------------- MODULE StageRules -----------------------------
(***************************************************************************)
(* The transition rules of `core/state_manager.py`, as operators on the    *)
(* pipeline document that `.forge/state.json` holds.  A document is a      *)
(* record with at least the fields                                         *)
(*   status   the status of every stage, in configured order               *)
(*   current  `current_stage_id`, NoStage for null                         *)
(* Timestamps, artifact lists and block reasons are not represented: no    *)
(* rule reads them.  The statuses "review_needed" and "skipped" exist in   *)
(* the schema but no code writes them.                                     *)
(***************************************************************************)
EXTENDS Naturals

CONSTANT N  \* number of stages of the project's profile

ASSUME NAssumption == N \in Nat \ {0}

Stages == 1..N

NoStage == 0

StageStatus == {"not_started", "active", "blocked", "complete"}

\* What `forge init` writes: the first stage is already active.
InitialStatus == [s \in Stages |-> IF s = 1 THEN "active" ELSE "not_started"]

InitialCurrent == 1

-----------------------------------------------------------------------------
(* Guards: the early returns of start_stage and complete_stage.            *)

CanStart(doc, s) ==
  /\ doc.status[s] \notin {"active", "complete"}
  /\ \A t \in Stages : doc.status[t] # "active"
  /\ s > 1 => doc.status[s - 1] = "complete"

CanComplete(doc, s) == doc.status[s] = "active"

-----------------------------------------------------------------------------
(* Effects: the assignments each operation makes before it saves.          *)

Start(doc, s) == [doc EXCEPT !.status[s] = "active", !.current = s]

\* Mutant: completing forgets to clear current_stage_id.
Complete_KeepsCurrent(doc, s) == [doc EXCEPT !.status[s] = "complete"]

Complete(doc, s) == [doc EXCEPT !.status[s] = "complete", !.current = NoStage]

\* Mutant: a failed gate sends the stage to review.
Block_Review(doc, s) == [doc EXCEPT !.status[s] = "review_needed"]

\* A blocked stage stays the current stage.
Block(doc, s) == [doc EXCEPT !.status[s] = "blocked"]

\* Mutant: an override leaves the displaced stage active.
Override_KeepsOthers(doc, s) == [doc EXCEPT !.status[s] = "active", !.current = s]

\* Forces s active from any status; a stage it displaces becomes blocked.
Override(doc, s) ==
  [doc EXCEPT !.status = [t \in Stages |->
                            IF t = s THEN "active"
                            ELSE IF doc.status[t] = "active" THEN "blocked"
                            ELSE doc.status[t]],
              !.current = s]

\* The stages `advance` may pick when no stage is current: the first one
\* in configured order that was never started.
FirstNotStarted(doc) ==
  {s \in Stages : /\ doc.status[s] = "not_started"
                  /\ \A t \in 1..(s - 1) : doc.status[t] # "not_started"}

-----------------------------------------------------------------------------
(* Facts about one document that the properties of several modules use.    *)

OneActive(doc) ==
  \A s, t \in Stages :
    doc.status[s] = "active" /\ doc.status[t] = "active" => s = t

\* The active stage is the current one, and a current stage is one that
\* work can still happen on.
CurrentAgrees(doc) ==
  /\ \A s \in Stages : doc.status[s] = "active" => doc.current = s
  /\ doc.current # NoStage => doc.status[doc.current] \in {"active", "blocked"}

\* Stages complete strictly in order, and only the stage after the last
\* complete one has been touched.
InOrder(doc) ==
  \A s \in Stages :
    doc.status[s] # "not_started" => \A t \in 1..(s - 1) : doc.status[t] = "complete"
=============================================================================
