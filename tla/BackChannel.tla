----------------------------- MODULE BackChannel -----------------------------
(***************************************************************************)
(* The OpenCode adapter (`adapters/opencode`): one spawn_agent generator   *)
(* per agent, fed by an SSE consumer (built-in tools, answered through the *)
(* permission API) and by the back-channel, an HTTP handler that the MCP   *)
(* proxy posts Forge's own tools to and that waits for a Future.           *)
(*                                                                         *)
(* All of it runs in one event loop: an action is what happens between two *)
(* suspension points.  Text and audit events pass through a spawn's queue  *)
(* without effect and are left out.  The OpenCode server, the model and    *)
(* the proxy process are the environment.                                  *)
(***************************************************************************)
EXTENDS Sequences, FiniteSets

CONSTANTS
  Spawns,     \* spawn_agent generators
  Calls,      \* tool calls the models may make, each with its own call_id
  Owner,      \* the spawn whose model makes a call
  McpCalls,   \* the calls that go through the MCP proxy
  Aggregate,  \* the aggregate_id of each spawn
  NoSpawn, NoCall

BackChannelAssumption ==
  /\ Owner \in [Calls -> Spawns] /\ McpCalls \subseteq Calls
  /\ Aggregate \in [Spawns -> Spawns] /\ NoSpawn \notin Spawns
  /\ Calls \intersect {NoCall, "none", "waiting", "error", "done", "end"} = {}

VARIABLES
  phase,     \* where each generator is
  sessions,  \* _sessions: aggregate_id -> spawn
  queue,     \* events_q of each spawn: calls, then "end"
  current,   \* the proposal each generator has yielded
  running,   \* spawns whose model may make calls
  sse,       \* spawns whose SSE consumer runs
  asked,     \* calls made
  pending,   \* pending_mcp of each spawn
  handler,   \* what the HTTP handler of each MCP call finds in its Future
  decided,   \* calls the caller has decided
  told       \* what the model was told: the decision about a call, or "error"

vars == <<phase, sessions, queue, current, running, sse, asked, pending, handler,
          decided, told>>
channel == <<pending, handler>>

Init ==
  /\ phase = [s \in Spawns |-> "new"]
  /\ sessions = [s \in Spawns |-> NoSpawn]
  /\ queue = [s \in Spawns |-> <<>>]
  /\ current = [s \in Spawns |-> NoCall]
  /\ running = {} /\ sse = {} /\ asked = {}
  /\ pending = [s \in Spawns |-> {}]
  /\ handler = [c \in Calls |-> "none"]
  /\ decided = {}
  /\ told = [c \in Calls |-> "none"]

Goto(s, label) == phase' = [phase EXCEPT ![s] = label]

Deregister(s) == sessions' = [sessions EXCEPT ![Aggregate[s]] = NoSpawn]

\* The model learns about a call, unless its proxy gave up before.
TellModel(c, answer) ==
  told' = IF told[c] = "none" THEN [told EXCEPT ![c] = answer] ELSE told

-----------------------------------------------------------------------------
(* spawn_agent                                                             *)

\* The session state is registered before the server knows of the session.
Register(s) ==
  /\ phase[s] = "new"
  /\ Goto(s, "creating")
  /\ sessions' = [sessions EXCEPT ![Aggregate[s]] = s]
  /\ UNCHANGED <<queue, current, running, sse, asked, channel, decided, told>>

CreateSession(s) ==
  /\ phase[s] = "creating"
  /\ \/ Goto(s, "started") /\ UNCHANGED sessions
     \/ Goto(s, "ended") /\ Deregister(s)
  /\ UNCHANGED <<queue, current, running, sse, asked, channel, decided, told>>

\* SESSION_STARTED was yielded.  The SSE consumer and the prompt come before
\* the try block: when the caller closes the generator here, or the prompt
\* request fails (whether or not the server got it), nothing is cleaned up.
SubmitPrompt(s) ==
  /\ phase[s] = "started"
  /\ \/ Goto(s, "leaked") /\ UNCHANGED <<running, sse>>
     \/ Goto(s, "leaked") /\ running' = running \union {s} /\ sse' = sse \union {s}
     \/ Goto(s, "draining") /\ running' = running \union {s} /\ sse' = sse \union {s}
  /\ UNCHANGED <<sessions, queue, current, asked, channel, decided, told>>

\* Mutant: the futures of a spawn that ends are left pending.
Finish_KeepsFutures(s) ==
  /\ Goto(s, "ended")
  /\ sse' = sse \ {s}
  /\ Deregister(s)
  /\ UNCHANGED <<queue, current, running, asked, channel, decided>>

\* The finally block: the SSE consumer is cancelled, whoever waits on a Future
\* of this spawn gets an exception, the session is deregistered.
Finish(s) ==
  /\ Goto(s, "ended")
  /\ sse' = sse \ {s}
  /\ handler' = [c \in Calls |-> IF c \in pending[s] THEN "error" ELSE handler[c]]
  /\ pending' = [pending EXCEPT ![s] = {}]
  /\ Deregister(s)
  /\ UNCHANGED <<queue, current, running, asked, decided>>

\* A proposal is yielded and the generator pauses; AGENT_COMPLETED and
\* AGENT_FAILED end it.
Drain(s) ==
  /\ phase[s] = "draining" /\ queue[s] # <<>>
  /\ UNCHANGED told
  /\ \/ /\ Head(queue[s]) \in Calls
        /\ current' = [current EXCEPT ![s] = Head(queue[s])]
        /\ queue' = [queue EXCEPT ![s] = Tail(@)]
        /\ Goto(s, "deciding")
        /\ UNCHANGED <<sessions, running, sse, asked, channel, decided>>
     \/ /\ Head(queue[s]) = "end"
        /\ Finish(s)

\* timeout_s passes with nothing in the queue.
DrainTimeout(s) ==
  /\ phase[s] = "draining" /\ queue[s] = <<>>
  /\ Finish(s)
  /\ UNCHANGED told

\* The caller's proposal handler raises, or it stops iterating: aclose().
Abort(s) ==
  /\ phase[s] \in {"draining", "deciding"}
  /\ Finish(s)
  /\ UNCHANGED told

\* Mutant: the result goes to any call that waits.
AnswerMcp_Any(s) ==
  /\ phase[s] = "answering" /\ current[s] \in McpCalls
  /\ \E c \in pending[s] \union {current[s]} :
       /\ pending' = [pending EXCEPT ![s] = @ \ {c}]
       /\ handler' = [handler EXCEPT ![c] = IF c \in pending[s] THEN current[s] ELSE @]
  /\ Goto(s, "draining")
  /\ current' = [current EXCEPT ![s] = NoCall]
  /\ UNCHANGED <<sessions, queue, running, sse, asked, decided, told>>

\* asend(ToolResult) for an MCP proposal resolves its Future, if the handler
\* still waits on it.
AnswerMcp(s) ==
  LET c == current[s]
  IN  /\ phase[s] = "answering" /\ c \in McpCalls
      /\ pending' = [pending EXCEPT ![s] = @ \ {c}]
      /\ handler' = [handler EXCEPT ![c] = IF c \in pending[s] THEN c ELSE @]
      /\ Goto(s, "draining")
      /\ current' = [current EXCEPT ![s] = NoCall]
      /\ UNCHANGED <<sessions, queue, running, sse, asked, decided, told>>

\* For a built-in tool the decision is posted to the permission API; a failed
\* post raises inside the try block.
AnswerPermission(s) ==
  LET c == current[s]
  IN  /\ phase[s] = "answering" /\ c \notin McpCalls
      /\ \/ /\ TellModel(c, c)
            /\ Goto(s, "draining")
            /\ current' = [current EXCEPT ![s] = NoCall]
            /\ UNCHANGED <<sessions, queue, running, sse, asked, channel, decided>>
         \/ Finish(s) /\ UNCHANGED told

-----------------------------------------------------------------------------
(* The caller: AsyncToSyncBridge._handle_proposal                          *)

Decide(s) ==
  /\ phase[s] = "deciding"
  /\ decided' = decided \union {current[s]}
  /\ Goto(s, "answering")
  /\ UNCHANGED <<sessions, queue, current, running, sse, asked, channel, told>>

-----------------------------------------------------------------------------
(* The back-channel: _handle_propose                                       *)

\* The Future is registered before the proposal is queued; an aggregate with
\* no session is answered 404.
Propose(c) ==
  LET s == sessions[Aggregate[Owner[c]]]
  IN  /\ c \in McpCalls \ asked /\ Owner[c] \in running
      /\ asked' = asked \union {c}
      /\ \/ /\ s = NoSpawn
            /\ TellModel(c, "error")
            /\ UNCHANGED <<queue, channel>>
         \/ /\ s # NoSpawn
            /\ pending' = [pending EXCEPT ![s] = @ \union {c}]
            /\ handler' = [handler EXCEPT ![c] = "waiting"]
            /\ queue' = [queue EXCEPT ![s] = Append(@, c)]
            /\ UNCHANGED told
      /\ UNCHANGED <<phase, sessions, current, running, sse, decided>>

\* The handler wakes with the result, or with the exception set on its Future.
HandlerReturns(c) ==
  /\ handler[c] \in Calls \union {"error"}
  /\ handler' = [handler EXCEPT ![c] = "done"]
  /\ TellModel(c, handler[c])
  /\ UNCHANGED <<phase, sessions, queue, current, running, sse, asked, pending, decided>>

\* Mutant: a handler that times out leaves its call in pending_mcp.
HandlerTimeout_KeepsPending(c) ==
  /\ handler[c] = "waiting"
  /\ handler' = [handler EXCEPT ![c] = "done"]
  /\ TellModel(c, "error")
  /\ UNCHANGED <<phase, sessions, queue, current, running, sse, asked, pending, decided>>

\* mcp_proxy_timeout_s passes: the Future is cancelled and forgotten, but the
\* proposal stays in the queue.
HandlerTimeout(c) ==
  /\ handler[c] = "waiting"
  /\ handler' = [handler EXCEPT ![c] = "done"]
  /\ pending' = [s \in Spawns |-> pending[s] \ {c}]
  /\ TellModel(c, "error")
  /\ UNCHANGED <<phase, sessions, queue, current, running, sse, asked, decided>>

\* _call_back in the proxy gives up first; the handler goes on waiting.
ProxyTimeout(c) ==
  /\ c \in asked \intersect McpCalls /\ told[c] = "none"
  /\ TellModel(c, "error")
  /\ UNCHANGED <<phase, sessions, queue, current, running, sse, asked, channel, decided>>

-----------------------------------------------------------------------------
(* The OpenCode server and the SSE consumer                                *)

RequestPermission(c) ==
  LET s == Owner[c]
  IN  /\ c \in Calls \ (McpCalls \union asked) /\ s \in running \intersect sse
      /\ asked' = asked \union {c}
      /\ queue' = [queue EXCEPT ![s] = Append(@, c)]
      /\ UNCHANGED <<phase, sessions, current, running, sse, channel, decided, told>>

\* session.idle or session.error, or the stream breaks while the model goes on.
StreamEnds(s) ==
  /\ s \in sse
  /\ running' \in {running, running \ {s}}
  /\ sse' = sse \ {s}
  /\ queue' = [queue EXCEPT ![s] = Append(@, "end")]
  /\ UNCHANGED <<phase, sessions, current, asked, channel, decided, told>>

\* __aexit__: the server is stopped, then _stop_backchannel fails every
\* Future it can still find.
CloseAdapter ==
  LET known == {s \in Spawns : \E a \in Spawns : sessions[a] = s}
  IN  /\ running' = {}
      /\ handler' = [c \in Calls |->
                       IF \E s \in known : c \in pending[s] THEN "error" ELSE handler[c]]
      /\ pending' = [s \in Spawns |-> IF s \in known THEN {} ELSE pending[s]]
      /\ sessions' = [a \in Spawns |-> NoSpawn]
      /\ UNCHANGED <<phase, queue, current, sse, asked, decided, told>>

-----------------------------------------------------------------------------
Generator(s) == Drain(s) \/ Decide(s) \/ AnswerMcp(s) \/ AnswerPermission(s)

Next ==
  \/ \E s \in Spawns :
       \/ Register(s) \/ CreateSession(s) \/ SubmitPrompt(s) \/ Generator(s)
       \/ DrainTimeout(s) \/ Abort(s) \/ StreamEnds(s)
  \/ \E c \in Calls :
       \/ Propose(c) \/ HandlerReturns(c) \/ HandlerTimeout(c) \/ ProxyTimeout(c)
       \/ RequestPermission(c)
  \/ CloseAdapter

\* The event loop runs what is ready and the caller decides every proposal.
\* No timeout is assumed to fire.
Fairness ==
  /\ \A s \in Spawns : WF_vars(Generator(s))
  /\ \A c \in Calls : WF_vars(HandlerReturns(c))

Spec == Init /\ [][Next]_vars /\ Fairness

-----------------------------------------------------------------------------
Phases ==
  {"new", "creating", "started", "draining", "deciding", "answering", "ended", "leaked"}

\* Each variable holds what the adapter's objects may hold, and a generator
\* has a proposal out exactly while it waits for the caller.
TypeOK ==
  /\ phase \in [Spawns -> Phases]
  /\ sessions \in [Spawns -> Spawns \union {NoSpawn}]
  /\ \A s \in Spawns : queue[s] \in Seq(Calls \union {"end"})
  /\ \A s \in Spawns : phase[s] \in {"deciding", "answering"} => current[s] \in Calls
  /\ running \subseteq Spawns /\ sse \subseteq Spawns /\ asked \subseteq Calls
  /\ pending \in [Spawns -> SUBSET McpCalls]
  /\ handler \in [Calls -> McpCalls \union {"none", "waiting", "error", "done"}]
  /\ \A c \in McpCalls : handler[c] = "waiting" <=> \E s \in Spawns : c \in pending[s]

\* The model is told the decision about its own call or an error, once, whichever
\* of the caller, the two timeouts, the end of the spawn and the shutdown of
\* the adapter comes first.
Boundary == INSTANCE ProposalBoundary
ImplementsBoundary == Boundary!BoundarySpec

\* No handler waits for its timeout: a call posted to a spawn that drains its
\* queue is answered by the caller's decision or by the spawn's end, even when
\* two spawns share an aggregate_id and take over each other's session.
CallsAreAnswered ==
  \A c \in McpCalls :
    (\E s \in Spawns : c \in pending[s] /\ phase[s] \in {"draining", "deciding", "answering"})
      ~> handler[c] = "done"
=============================================================================
