----------------------------- MODULE ResultQueue -----------------------------
(***************************************************************************)
(* One spawn_agent call of the Claude SDK adapter (`adapters/claude_sdk`). *)
(* The SDK drives the model in a task of its own and calls an in-process   *)
(* proxy for every tool; the proxy posts a proposal on events_q and waits  *)
(* for its result on results_q, which every proxy of the spawn shares.     *)
(*                                                                         *)
(* All of it runs in one event loop: an action is what happens between two *)
(* suspension points.  Text and thinking events are left out.              *)
(***************************************************************************)
EXTENDS Sequences

CONSTANTS
  Calls,   \* tool calls the model may make, each with its own tool_use_id
  NoCall

ResultQueueAssumption == "end" \notin Calls

VARIABLES
  phase,    \* where the generator is
  driver,   \* the _drive_sdk task
  events,   \* events_q: proposals, then "end"
  current,  \* the proposal the generator has yielded
  results,  \* results_q, a result named by its tool_use_id
  proxy,    \* the proxy coroutine of each call
  decided,  \* calls the caller has decided
  told      \* what the model was told: the decision about a call, or "error"

vars == <<phase, driver, events, current, results, proxy, decided, told>>

Init ==
  /\ phase = "streaming" /\ driver = "running"
  /\ events = <<>> /\ results = <<>>
  /\ current = NoCall
  /\ proxy = [c \in Calls |-> "none"]
  /\ decided = {}
  /\ told = [c \in Calls |-> "none"]

Return(c, answer) ==
  /\ proxy' = [proxy EXCEPT ![c] = "returned"]
  /\ told' = [told EXCEPT ![c] = answer]

\* The SDK client is closed: the proxies are cancelled and nobody listens.
DropProxies ==
  proxy' = [c \in Calls |-> IF proxy[c] = "waiting" THEN "gone" ELSE proxy[c]]

-----------------------------------------------------------------------------
(* The proxies                                                             *)

\* The model may call several tools at once.
CallTool(c) ==
  /\ driver = "running" /\ proxy[c] = "none"
  /\ proxy' = [proxy EXCEPT ![c] = "waiting"]
  /\ events' = Append(events, c)
  /\ UNCHANGED <<phase, driver, current, results, decided, told>>

\* A waiting proxy takes the head of results_q.  It returns its own result and
\* puts anybody else's at the back.
TakeResult(c) ==
  /\ proxy[c] = "waiting" /\ results # <<>>
  /\ \/ /\ Head(results) = c
        /\ results' = Tail(results)
        /\ Return(c, c)
     \/ /\ Head(results) # c
        /\ results' = Append(Tail(results), Head(results))
        /\ UNCHANGED <<proxy, told>>
  /\ UNCHANGED <<phase, driver, events, current, decided>>

\* tool_timeout_s passes in one results_q.get(): it can only run out while the
\* queue is empty, and every get() starts it again.
ToolTimeout(c) ==
  /\ proxy[c] = "waiting" /\ results = <<>>
  /\ Return(c, "error")
  /\ UNCHANGED <<phase, driver, events, current, results, decided>>

-----------------------------------------------------------------------------
(* The SDK driver, the generator and its caller                            *)

\* A ResultMessage once the model waits for nothing, or an exception.
DriverEnds ==
  /\ driver = "running"
  /\ driver' = "done"
  /\ events' = Append(events, "end")
  /\ DropProxies
  /\ UNCHANGED <<phase, current, results, decided, told>>

Finish ==
  /\ phase' = "ended"
  /\ driver' = "done"
  /\ DropProxies

Take ==
  /\ phase = "streaming" /\ events # <<>>
  /\ events' = Tail(events)
  /\ \/ /\ Head(events) \in Calls
        /\ phase' = "deciding"
        /\ current' = Head(events)
        /\ UNCHANGED <<driver, proxy>>
     \/ /\ Head(events) = "end"
        /\ Finish
        /\ UNCHANGED current
  /\ UNCHANGED <<results, decided, told>>

\* The caller's proposal handler returns, and asend() queues its result.
Decide ==
  /\ phase = "deciding"
  /\ decided' = decided \union {current}
  /\ results' = Append(results, current)
  /\ phase' = "streaming"
  /\ current' = NoCall
  /\ UNCHANGED <<driver, events, proxy, told>>

\* timeout_s passes, the handler raises, or the caller stops iterating.
Abort ==
  /\ phase \in {"streaming", "deciding"}
  /\ Finish
  /\ UNCHANGED <<events, current, results, decided, told>>

-----------------------------------------------------------------------------
Next ==
  \/ \E c \in Calls : CallTool(c) \/ TakeResult(c) \/ ToolTimeout(c)
  \/ DriverEnds \/ Take \/ Decide \/ Abort

Spec == Init /\ [][Next]_vars

\* The event loop runs every proxy, and its timer fires; nothing is assumed
\* of the caller.
TimerSpec == Spec /\ \A c \in Calls : WF_vars(TakeResult(c)) /\ WF_vars(ToolTimeout(c))

-----------------------------------------------------------------------------
\* Each variable holds what the adapter's objects may hold; the generator has a
\* proposal out exactly while it waits for the caller.
TypeOK ==
  /\ phase \in {"streaming", "deciding", "ended"}
  /\ driver \in {"running", "done"}
  /\ events \in Seq(Calls \union {"end"}) /\ results \in Seq(Calls)
  /\ phase = "deciding" => current \in Calls
  /\ proxy \in [Calls -> {"none", "waiting", "returned", "gone"}]

\* The model is told the decision about its own call or a time-out, never the
\* result another proxy waits for.
Boundary == INSTANCE ProposalBoundary
ImplementsBoundary == Boundary!BoundarySpec

\* However the proxies pass the results around, the result of a proxy that
\* still waits is on the queue once, and no decision is lost to another proxy.
ResultsAreKept ==
  \A c \in Calls :
    proxy[c] = "waiting" /\ c \in decided =>
      \E i \in DOMAIN results : \A j \in DOMAIN results : results[j] = c <=> j = i

\* "or the SDK side will time out after tool_timeout_s" (spawn_agent): a proxy
\* does not wait for ever, whatever the caller does.
ToolCallsTimeOut ==
  \A c \in Calls : proxy[c] = "waiting" ~> proxy[c] # "waiting"
=============================================================================
