------------------------------ MODULE OpenClaw ------------------------------
(* adapters/openclaw: spawns of one adapter, one after the other, over one *)
(* ACPClient (kernel/acp_client.py).  The client is started once and kept, *)
(* whatever a spawn leaves unread in its pipe.                             *)
EXTENDS Naturals, Sequences

CONSTANTS
  MaxSpawns,     \* bound on the spawns
  MaxUpdates     \* bound on the updates of a prompt

OpenClawAssumption == {MaxSpawns, MaxUpdates} \subseteq Nat

Spawns == 1..MaxSpawns

VARIABLES
  gateway,    \* the process of the gateway: "none" before the client starts it
  open,       \* the prompts the gateway works on
  updates,    \* updates[p]: how many it has sent about prompt p
  pipe,       \* the lines the client has not read
  spawn,      \* the last spawn, whose prompt has its number
  phase,      \* its generator: reading, or paused at a proposal
  yielded,    \* the prompts the events it yielded are about
  outcome,    \* outcome[s]: its terminal event, or "raised", or "closed" by the caller
  answered    \* the prompts whose responses were taken as the spawn's own

vars == <<gateway, open, updates, pipe, spawn, phase, yielded, outcome, answered>>

\* Updates about text, about a tool, and errors; and the response to a prompt.
Kinds == {"text", "tool", "error", "unknown", "response", "refusal"}
Line == [of : Spawns, kind : Kinds]

TypeOK ==
  /\ gateway \in {"none", "running", "dead"}
  /\ open \subseteq Spawns /\ updates \in [Spawns -> 0..MaxUpdates]
  /\ pipe \in Seq(Line)
  /\ spawn \in 0..MaxSpawns /\ phase \in {"idle", "reading", "proposed"}
  /\ yielded \in [Spawns -> SUBSET Spawns]
  /\ outcome \in [Spawns -> {"none", "completed", "failed", "raised", "closed"}]
  /\ answered \in [Spawns -> SUBSET Spawns]
  /\ \A s \in Spawns : outcome[s] = "none" <=> (s > spawn \/ (s = spawn /\ phase # "idle"))

Init ==
  /\ gateway = "none" /\ open = {} /\ updates = [p \in Spawns |-> 0] /\ pipe = <<>>
  /\ spawn = 0 /\ phase = "idle"
  /\ yielded = [s \in Spawns |-> {}] /\ outcome = [s \in Spawns |-> "none"]
  /\ answered = [s \in Spawns |-> {}]

(***************************************************************************)
(* The gateway: prompts are answered in any order, each after its updates. *)
(***************************************************************************)

Says(p, kind) == pipe' = Append(pipe, [of |-> p, kind |-> kind])

GatewayUpdates(p, kind) ==
  /\ gateway = "running" /\ p \in open /\ updates[p] < MaxUpdates
  /\ Says(p, kind) /\ updates' = [updates EXCEPT ![p] = @ + 1]
  /\ UNCHANGED <<gateway, open, spawn, phase, yielded, outcome, answered>>

GatewayResponds(p, kind) ==
  /\ gateway = "running" /\ p \in open
  /\ Says(p, kind) /\ open' = open \ {p}
  /\ UNCHANGED <<gateway, updates, spawn, phase, yielded, outcome, answered>>

GatewayDies ==
  /\ gateway = "running" /\ gateway' = "dead"
  /\ UNCHANGED <<open, updates, pipe, spawn, phase, yielded, outcome, answered>>

(***************************************************************************)
(* spawn_agent.                                                            *)
(***************************************************************************)

Ends(s, how) == phase' = "idle" /\ outcome' = [outcome EXCEPT ![s] = how]

\* _ensure_client: a gateway that does not start is stopped, and tried again by
\* the next spawn.
Unreachable(s) ==
  /\ gateway = "none" /\ Ends(s, "failed")
  /\ UNCHANGED <<gateway, open>>

\* prompt(): the request is sent ...
Prompts(s) ==
  /\ gateway # "dead" /\ gateway' = "running"
  /\ open' = open \cup {s} /\ phase' = "reading" /\ UNCHANGED outcome

\* ... unless the pipe is broken, which is no ACPClientError.  A client that
\* lost its process is not replaced.
PipeIsBroken(s) ==
  /\ gateway = "dead" /\ Ends(s, "raised")
  /\ UNCHANGED <<gateway, open>>

Spawn ==
  /\ phase = "idle" /\ spawn < MaxSpawns
  /\ LET s == spawn + 1 IN
       spawn' = s /\ (Unreachable(s) \/ Prompts(s) \/ PipeIsBroken(s))
  /\ UNCHANGED <<updates, pipe, yielded, answered>>

Yields(line) == yielded' = [yielded EXCEPT ![spawn] = @ \cup {line.of}]

\* Mutant: any response ends the prompt.
Mine_Any(line) == TRUE

\* prompt() compares the ids of responses.
Mine(line) == line.of = spawn

\* _translate_update: an error ends the spawn, and leaves the prompt unread.
ReadUpdate(line) ==
  /\ line.kind \notin {"response", "refusal"}
  /\ CASE line.kind = "text" -> Yields(line) /\ UNCHANGED <<phase, outcome>>
       [] line.kind = "tool" -> Yields(line) /\ phase' = "proposed" /\ UNCHANGED outcome
       [] line.kind = "error" -> Yields(line) /\ Ends(spawn, "failed")
       [] OTHER -> UNCHANGED <<yielded, phase, outcome>>
  /\ UNCHANGED answered

ReadResponse(line) ==
  /\ line.kind \in {"response", "refusal"}
  /\ IF Mine(line)
     THEN /\ answered' = [answered EXCEPT ![spawn] = @ \cup {line.of}]
          /\ Ends(spawn, IF line.kind = "response" THEN "completed" ELSE "failed")
     ELSE UNCHANGED <<answered, phase, outcome>>
  /\ UNCHANGED yielded

Read ==
  /\ phase = "reading" /\ pipe # <<>> /\ pipe' = Tail(pipe)
  /\ ReadUpdate(Head(pipe)) \/ ReadResponse(Head(pipe))
  /\ UNCHANGED <<gateway, open, updates, spawn>>

\* The connection is closed, or silent for request_timeout_s.
ReadFails ==
  /\ phase = "reading" /\ pipe = <<>> /\ Ends(spawn, "failed")
  /\ UNCHANGED <<gateway, open, updates, pipe, spawn, yielded, answered>>

\* The caller's result is logged, and goes no further; what is not a ToolResult
\* raises an OpenClawError.
Decide(how) ==
  /\ phase = "proposed"
  /\ IF how = "result" THEN phase' = "reading" /\ UNCHANGED outcome ELSE Ends(spawn, how)
  /\ UNCHANGED <<gateway, open, updates, pipe, spawn, yielded, answered>>

Next ==
  \/ \E p \in Spawns, kind \in Kinds \ {"response", "refusal"} : GatewayUpdates(p, kind)
  \/ \E p \in Spawns, kind \in {"response", "refusal"} : GatewayResponds(p, kind)
  \/ GatewayDies
  \/ Spawn \/ Read \/ ReadFails
  \/ \E how \in {"result", "raised", "closed"} : Decide(how)

Spec == Init /\ [][Next]_vars

(***************************************************************************)
(* Properties.                                                             *)
(***************************************************************************)

\* A spawn is completed by the response to its own prompt, however many
\* responses of earlier spawns are still in the pipe.
CompletionsAreOwn == \A s \in Spawns : outcome[s] = "completed" => answered[s] = {s}

\* The events of a spawn, tool proposals among them, are about its own prompt as
\* long as every earlier prompt was read to its response.
EventsAreOwn ==
  \A s \in Spawns :
    (\A t \in 1..(s - 1) : answered[t] = {t} \/ (updates[t] = 0 /\ t \notin open))
      => yielded[s] \subseteq {s}
=============================================================================
