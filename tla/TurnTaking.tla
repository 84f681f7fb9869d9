----------------------------- MODULE TurnTaking -----------------------------
(* The adapters without a second process: adapters/claude_raw asks the     *)
(* Messages API turn by turn, adapters/human asks an operator; both run    *)
(* under adapters/bridge.py, one asyncio task, which decides the proposals *)
(* and turns the stream of events into a handle.                           *)
EXTENDS Naturals, Sequences, FiniteSets, SequencesExt

CONSTANTS
  Calls,
  MaxTurn,           \* bound on the tool calls of one reply
  MaxTurns           \* bound on the turns of a run

TurnTakingAssumption == {MaxTurn, MaxTurns} \subseteq Nat

VARIABLES
  kernel,     \* whose generator runs
  policy,     \* how the bridge decides: it declines, awaits a handler, or has none
  phase,      \* where the generator is
  turn,       \* the calls of the reply at hand ...
  left,       \* ... those of them not proposed yet ...
  blocks,     \* ... and tool_result_blocks
  messages,   \* what the API was sent: a reply's calls with the results that follow
  expired,    \* asyncio.timeout has cancelled the task
  terminal,   \* the last event of the generator: AGENT_COMPLETED, AGENT_FAILED
  handle,     \* what spawn_agent of the bridge gave: a status, or CancelledError
  decided, told

vars == <<kernel, policy, phase, turn, left, blocks, messages, expired, terminal, handle, decided, told>>

Exchange == [calls : Seq(Calls), results : Seq(Calls)]

TypeOK ==
  /\ kernel \in {"raw", "human"} /\ policy \in {"decline", "handler", "none"}
  /\ phase \in {"new", "asking", "answered", "proposed", "decided", "ended"}
  /\ turn \in Seq(Calls) /\ left \in Seq(Calls) /\ blocks \in Seq(Calls)
  /\ messages \in Seq(Exchange) /\ expired \in BOOLEAN
  /\ terminal \in {"none", "completed", "failed"}
  /\ handle \in {"none", "completed", "failed", "cancelled"}
  /\ decided \subseteq Calls /\ told \in [Calls -> Calls \cup {"none", "error"}]
  /\ phase = "ended" <=> handle # "none"

Init ==
  /\ kernel \in {"raw", "human"} /\ policy \in {"decline", "handler", "none"}
  /\ phase = "new" /\ turn = <<>> /\ left = <<>> /\ blocks = <<>> /\ messages = <<>>
  /\ expired = FALSE /\ terminal = "none" /\ handle = "none"
  /\ decided = {} /\ told = [c \in Calls |-> "none"]

loop == <<turn, left, blocks, messages>>
boundary == <<decided, told>>

\* The calls the model has not made yet.
Fresh == Calls \ (ToSet(turn) \cup decided \cup UNION {ToSet(messages[i].calls) : i \in DOMAIN messages})

(***************************************************************************)
(* How a run ends.                                                         *)
(***************************************************************************)

\* A terminal event; the bridge leaves its loop and closes the generator.
Emit(event) == phase' = "ended" /\ terminal' = event /\ handle' = event

\* An exception out of the generator, or out of the bridge: an Exception makes
\* a failed handle, a CancelledError is none and goes on up.
Raise(outcome) == phase' = "ended" /\ handle' = outcome /\ UNCHANGED terminal

\* SESSION_STARTED, which the bridge ignores, and the first question.
Start ==
  /\ phase = "new" /\ phase' = "asking"
  /\ UNCHANGED <<loop, expired, terminal, handle, boundary>>

(***************************************************************************)
(* A turn of the raw kernel.                                               *)
(***************************************************************************)

NewBlocks == blocks' = <<>>

\* stop_reason "tool_use": the assistant message is kept, its server tools have
\* run already, and its client tools are proposed one by one.
ReplyWithCalls ==
  /\ kernel = "raw" /\ phase = "asking" /\ Len(messages) < MaxTurns
  /\ phase' = "answered"
  /\ \E n \in 0..MaxTurn : \E cs \in [1..n -> Fresh] :
       IsInjective(cs) /\ turn' = cs /\ left' = cs
  /\ NewBlocks
  /\ UNCHANGED <<messages, expired, terminal, handle, boundary>>

\* Any other stop_reason completes the run, whatever calls the reply contains.
ReplyEnds ==
  /\ kernel = "raw" /\ phase = "asking" /\ Emit("completed")
  /\ UNCHANGED <<loop, expired, boundary>>

\* APIError, or any other exception of the request.
RequestFails ==
  /\ kernel = "raw" /\ phase = "asking" /\ Emit("failed")
  /\ UNCHANGED <<loop, expired, boundary>>

ProposeNext ==
  /\ kernel = "raw" /\ phase = "answered" /\ left # <<>> /\ phase' = "proposed"
  /\ UNCHANGED <<loop, expired, terminal, handle, boundary>>

\* The next request carries the reply and the results of its calls.
NextTurn ==
  /\ kernel = "raw" /\ phase = "answered" /\ left = <<>> /\ phase' = "asking"
  /\ messages' = Append(messages, [calls |-> turn, results |-> blocks])
  /\ turn' = <<>> /\ UNCHANGED <<left, blocks, expired, terminal, handle, boundary>>

(***************************************************************************)
(* The operator of the human kernel.                                       *)
(***************************************************************************)

\* [c]: a proposal of a tool of the set.  [s] and [k] only emit text.
OperatorCalls(c) ==
  /\ kernel = "human" /\ phase = "asking" /\ c \in Fresh /\ phase' = "proposed"
  /\ turn' = <<c>> /\ left' = <<c>>
  /\ UNCHANGED <<blocks, messages, expired, terminal, handle, boundary>>

\* [d], [x], or the end of the input.
OperatorEnds ==
  /\ kernel = "human" /\ phase = "asking"
  /\ Emit("completed") \/ Emit("failed")
  /\ UNCHANGED <<loop, expired, boundary>>

(***************************************************************************)
(* The bridge: _handle_proposal, and the generator resumed by asend.       *)
(***************************************************************************)

\* _handle_proposal: the handler awaited, or the proposal declined.
Decide ==
  /\ phase = "proposed" /\ policy # "none" /\ phase' = "decided"
  /\ decided' = decided \cup {Head(left)}
  /\ UNCHANGED <<loop, expired, terminal, handle, told>>

\* A result carries the tool_use_id of the proposal it is about.
ResultFor == Head(left)

\* asend: the result joins the conversation, or is shown to the operator.
Resume ==
  /\ phase = "decided" /\ left' = Tail(left)
  /\ told' = [told EXCEPT ![ResultFor] = ResultFor]
  /\ IF kernel = "raw"
     THEN phase' = "answered" /\ blocks' = Append(blocks, ResultFor) /\ UNCHANGED turn
     ELSE phase' = "asking" /\ turn' = <<>> /\ UNCHANGED blocks
  /\ UNCHANGED <<messages, expired, terminal, handle, decided>>

\* A handler may return what is not a ToolResult: the RuntimeError is caught by
\* the raw generator, and leaves the human one.
DecideBadly ==
  /\ phase = "proposed" /\ policy = "handler"
  /\ IF kernel = "raw" THEN Emit("failed") ELSE Raise("failed")
  /\ UNCHANGED <<loop, expired, boundary>>

\* No handler and no auto-decline, or a handler that raises.
HandlerRaises ==
  /\ phase = "proposed" /\ policy # "decline" /\ Raise("failed")
  /\ UNCHANGED <<loop, expired, boundary>>

(***************************************************************************)
(* The deadline, and Ctrl-C.                                               *)
(***************************************************************************)

\* The deadline of a raw run cancels the task that runs both the generator and
\* the bridge: wherever that task awaits next, the CancelledError is raised.
DeadlinePasses ==
  /\ kernel = "raw" /\ phase \notin {"new", "ended"} /\ ~expired
  /\ expired' = TRUE
  /\ UNCHANGED <<phase, loop, terminal, handle, boundary>>

\* In the request, the timeout context makes a TimeoutError of it.
TimesOut ==
  /\ expired /\ phase = "asking" /\ Emit("failed")
  /\ UNCHANGED <<loop, expired, boundary>>

\* In an awaiting handler, it passes through the bridge.
CancelsTheHandler ==
  /\ expired /\ phase = "proposed" /\ policy = "handler" /\ Raise("cancelled")
  /\ UNCHANGED <<loop, expired, boundary>>

\* SIGINT makes asyncio.run cancel the task too.
Interrupt ==
  /\ \/ phase = "asking"
     \/ phase = "proposed" /\ policy = "handler"
  /\ Raise("cancelled")
  /\ UNCHANGED <<loop, expired, boundary>>

Next ==
  /\ UNCHANGED <<kernel, policy>>
  /\ \/ Start
     \/ ReplyWithCalls \/ ReplyEnds \/ RequestFails \/ ProposeNext \/ NextTurn
     \/ (\E c \in Calls : OperatorCalls(c)) \/ OperatorEnds
     \/ Decide \/ Resume \/ DecideBadly \/ HandlerRaises
     \/ DeadlinePasses \/ TimesOut \/ CancelsTheHandler \/ Interrupt

Spec == Init /\ [][Next]_vars

(***************************************************************************)
(* Properties.                                                             *)
(***************************************************************************)

Boundary == INSTANCE ProposalBoundary

\* Both kernels implement the proposal boundary.
ImplementsBoundary == Boundary!BoundarySpec

\* Every request answers the calls of the reply before it, all of them, in
\* order, and none else: the Messages API refuses any other.
TurnsAreAnswered == \A i \in DOMAIN messages : messages[i].results = messages[i].calls

\* spawn_agent's docstring: "On timeout/error: yields AGENT_FAILED", wherever the
\* deadline finds the run.
TimeoutsAreReported == [][TimesOut \/ CancelsTheHandler => terminal' = "failed"]_vars
=============================================================================
