----------------------------- MODULE AcpClient ------------------------------
(* kernel/acp_client.py and its users: the observer's session cleanup and  *)
(* probe, and the session commands of use_cases/acp.py.  One client talks  *)
(* to one agent over two pipes; only prompt compares the id of a response  *)
(* with the id of its request.                                             *)
EXTENDS Naturals, Sequences

CONSTANTS
  Sessions, NoRequest,
  MaxPipe          \* lines the pipe from the agent holds before it sends more unasked

Flows == {"cleanup", "probe", "list", "close", "prompt"}

VARIABLES
  client,    \* the command: its phase, the request it waits for, the sessions left to close
  process,   \* the agent's process; "none" once stop() has reaped it
  inbox,     \* requests the agent has not answered
  pipe,      \* lines in the pipe from the agent ...
  half,      \* ... and whether a part of a line follows them
  buffer,    \* lines that the reader of stdout has read ahead
  open,      \* the sessions the agent has
  taken,     \* the lines taken as answers, with their requests
  muddled    \* an answer may be another's: see AnswersBelong

vars == <<client, process, inbox, pipe, half, buffer, open, taken, muddled>>

Methods == {"initialize", "session/list", "session/close", "session/prompt"}
Requests == [id : Nat, method : Methods, session : Sessions \cup {NoRequest}]
Update == [kind |-> "update"]
Garbage == [kind |-> "garbage"]  \* not a JSON object
\* A response to session/list carries the sessions.
Response(r, ok, ss) ==
  [kind |-> "response", id |-> r.id, method |-> r.method, ok |-> ok, sessions |-> ss]
Lines ==
  {Update, Garbage} \cup [kind : {"response"}, id : Nat, method : Methods, ok : BOOLEAN,
                 sessions : SUBSET Sessions]

Idle == [flow |-> "probe", phase |-> "idle", request |-> NoRequest, toClose |-> {}, id |-> 0]

TypeOK ==
  /\ client \in [flow : Flows, phase : Methods \cup {"idle"}, request : Requests \cup {NoRequest},
                 toClose : SUBSET Sessions, id : Nat]
  /\ process \in {"none", "running", "dead"}
  /\ inbox \in Seq(Requests) /\ pipe \in Seq(Lines) /\ buffer \in Seq(Lines)
  /\ half \in BOOLEAN /\ muddled \in BOOLEAN
  /\ open \subseteq Sessions
  /\ \A t \in taken : t.request \in Requests /\ t.line \in Lines
  /\ client.phase = "idle" <=> process = "none"

Init ==
  /\ client = Idle /\ process = "none" /\ inbox = <<>> /\ pipe = <<>> /\ half = FALSE
  /\ buffer = <<>> /\ open = Sessions /\ taken = {} /\ muddled = FALSE

(***************************************************************************)
(* The agent: an environment that answers in order, with whatever it       *)
(* likes, and sends notifications when it likes.                           *)
(***************************************************************************)

AgentAnswers ==
  /\ process = "running" /\ inbox # <<>> /\ ~half
  /\ LET r == Head(inbox) IN
     \E ok \in BOOLEAN :
       /\ pipe' = Append(pipe, Response(r, ok, IF r.method = "session/list" /\ ok THEN open ELSE {}))
       /\ open' = IF r.method = "session/close" /\ ok THEN open \ {r.session} ELSE open
  /\ inbox' = Tail(inbox)
  /\ UNCHANGED <<client, process, half, buffer, taken, muddled>>

\* A notification, or a line that is not JSON, as often as the pipe has room.
AgentSends(line) ==
  /\ process = "running" /\ ~half /\ Len(pipe) < MaxPipe
  /\ pipe' = Append(pipe, line)
  /\ UNCHANGED <<client, process, inbox, half, buffer, open, taken, muddled>>

AgentUpdates == AgentSends(Update)
AgentGarbles == AgentSends(Garbage)

\* A part of a line, and a hang.
AgentStalls ==
  /\ process = "running" /\ ~half /\ half' = TRUE
  /\ UNCHANGED <<client, process, inbox, pipe, buffer, open, taken, muddled>>

AgentDies ==
  /\ process = "running" /\ process' = "dead" /\ half' = FALSE
  /\ UNCHANGED <<client, inbox, pipe, buffer, open, taken, muddled>>

(***************************************************************************)
(* Requests.                                                               *)
(***************************************************************************)

\* _build_request and _send.
Send(c, method, session) ==
  LET r == [id |-> c.id + 1, method |-> method, session |-> session] IN
  /\ client' = [c EXCEPT !.phase = method, !.request = r, !.id = c.id + 1]
  /\ inbox' = Append(inbox, r)
  /\ UNCHANGED process

\* The command ends, and stop() reaps the agent.  (A list or close whose start()
\* raises leaves it running: nobody talks to that process again.)
Over == client' = [Idle EXCEPT !.flow = client.flow] /\ process' = "none" /\ inbox' = <<>>

\* The cleanup closes the sessions left, one after the other.
CloseNext(c) ==
  IF c.toClose = {} THEN Over
  ELSE \E s \in c.toClose : Send([c EXCEPT !.toClose = @ \ {s}], "session/close", s)

\* start(): Popen, and the initialize request.
Begin(f) ==
  /\ client.phase = "idle"
  /\ LET r == [id |-> 1, method |-> "initialize", session |-> NoRequest] IN
     /\ client' = [Idle EXCEPT !.flow = f, !.phase = "initialize", !.request = r, !.id = 1]
     /\ inbox' = <<r>>
  /\ process' = "running" /\ pipe' = <<>> /\ half' = FALSE /\ buffer' = <<>> /\ open' = Sessions
  /\ taken' = {} /\ muddled' = FALSE

(***************************************************************************)
(* _receive, and what the commands do with it.                             *)
(***************************************************************************)

\* What the command does after an answer.  A list that is not one has no sessions.
Proceed(line) ==
  LET listed == IF line = Update THEN {} ELSE line.sessions IN
  CASE client.phase = "initialize" ->
         (CASE client.flow = "probe" -> Over
            [] client.flow = "prompt" -> Send(client, "session/prompt", NoRequest)
            [] OTHER -> Send(client, "session/list", NoRequest))
    [] client.phase = "session/list" ->
         (CASE client.flow = "list" -> Over
            [] client.flow = "close" ->
                 Over \/ \E s \in listed : Send(client, "session/close", s)
            [] OTHER -> \E stale \in SUBSET listed : CloseNext([client EXCEPT !.toClose = stale]))
    [] client.phase = "session/close" -> CloseNext(client)
    [] OTHER -> Over

\* What it does after an exception: only the cleanup goes on, with the next session.
Fail == IF client.phase = "session/close" THEN CloseNext(client) ELSE Over

\* The line is taken as the answer; an error object raises.
Answer(line) ==
  /\ taken' = taken \cup {[request |-> client.request, line |-> line]}
  /\ muddled' = (muddled \/ line = Update)
  /\ IF line # Update /\ ~line.ok THEN Fail ELSE Proceed(line)

Mine(line) == line # Update /\ line.id = client.request.id

\* json.loads raises; the answer to the request may still come.
Raise == Fail /\ muddled' = TRUE /\ UNCHANGED taken

\* prompt yields the notifications and skips the responses of other requests.
Handle(line) ==
  IF line = Garbage THEN Raise
  ELSE IF client.phase = "session/prompt" /\ ~Mine(line)
  THEN UNCHANGED <<client, process, inbox, taken, muddled>>
  ELSE Answer(line)

\* select() looks at the pipe, not at the lines already read ahead.
Readable == pipe # <<>> \/ half \/ process = "dead"

\* readline() returns the next line read ahead, or reads whatever is in the pipe.
Receive ==
  /\ client.phase # "idle" /\ Readable
  /\ \/ buffer # <<>> /\ Handle(Head(buffer)) /\ buffer' = Tail(buffer) /\ UNCHANGED pipe
     \/ buffer = <<>> /\ pipe # <<>> /\ Handle(Head(pipe)) /\ buffer' = Tail(pipe) /\ pipe' = <<>>
  /\ UNCHANGED <<half, open>>

\* The end of the stream: prompt raises, and so does `"error" in None`.
ReceiveEnd ==
  /\ client.phase # "idle" /\ process = "dead" /\ pipe = <<>> /\ buffer = <<>>
  /\ Fail
  /\ UNCHANGED <<pipe, half, buffer, open, taken, muddled>>

\* Nothing in the pipe for response_timeout seconds.
TimesOut ==
  /\ client.phase # "idle" /\ ~Readable
  /\ Raise
  /\ UNCHANGED <<pipe, half, buffer, open>>

Client == Receive \/ ReceiveEnd \/ TimesOut

Next ==
  \/ AgentAnswers \/ AgentUpdates \/ AgentGarbles \/ AgentStalls \/ AgentDies
  \/ \E f \in Flows : Begin(f)
  \/ Client

Spec == Init /\ [][Next]_vars /\ WF_vars(Client)

(***************************************************************************)
(* Properties.                                                             *)
(***************************************************************************)

\* The line taken as the answer to a request is the response to that request, as
\* long as no request timed out or read a line that is not JSON, and no notification
\* came outside a prompt.  After that the client takes what comes next: a response
\* that is late, but never one ahead of its request, taken twice or out of order, and
\* the result of a prompt is always its own.
AnswersBelong ==
  \A t \in taken :
    /\ ~muddled \/ t.request.method = "session/prompt" =>
         t.line # Update /\ t.line.id = t.request.id
    /\ t.line # Update =>
         /\ t.line.id <= t.request.id
         /\ \A u \in taken :
              u.line # Update /\ u.request.id < t.request.id => u.line.id < t.line.id

\* A command that never returns faces an agent that stays within a line for ever,
\* or is a prompt whose agent sends notifications for ever: no order of answers,
\* lost answers, garbage or death of the agent keeps it.
CallsReturn ==
  <>[](client.phase # "idle") =>
    \/ <>[]half
    \/ <>[](client.phase = "session/prompt") /\ []<><<AgentUpdates>>_vars
=============================================================================
