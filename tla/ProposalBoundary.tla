-------------------------- MODULE ProposalBoundary --------------------------
(***************************************************************************)
(* What every kernel adapter promises about the tool calls of its model    *)
(* (`kernel/types.py`, IKernelAdapter.spawn_agent): the caller decides each *)
(* proposal at most once, and the model is told about a call at most once, *)
(* either an error or the caller's decision about that very call, after it *)
(* was taken.  A decision is identified with the call it is about.         *)
(***************************************************************************)
CONSTANT Calls

VARIABLES
  decided,  \* the calls the caller's validator and executor dealt with
  told      \* what the model was told about each call

BoundaryInit ==
  /\ decided = {}
  /\ told = [c \in Calls |-> "none"]

Decide(c) ==
  /\ c \notin decided
  /\ decided' = decided \union {c}
  /\ UNCHANGED told

Tell(c) ==
  /\ told[c] = "none"
  /\ \E answer \in {"error"} \union (decided \intersect {c}) :
       told' = [told EXCEPT ![c] = answer]
  /\ UNCHANGED decided

BoundaryNext == \E c \in Calls : Decide(c) \/ Tell(c)

BoundarySpec == BoundaryInit /\ [][BoundaryNext]_<<decided, told>>
=============================================================================
