------------------------------ MODULE AppServer ------------------------------
(***************************************************************************)
(* The Codex adapter (`adapters/codex`): one `codex app-server` process,   *)
(* reached by JSON-RPC over its pipes, hosts a thread for every            *)
(* spawn_agent call.  A reader task resolves the Futures of our requests   *)
(* and routes the server's approval requests to the queue of their thread; *)
(* the generator yields each as a proposal and answers it with the         *)
(* caller's decision.  Codex itself runs what is accepted.                 *)
(*                                                                         *)
(* An action is what happens between two suspension points; the server     *)
(* process is the environment.  A message and its dispatch are one step.   *)
(***************************************************************************)
EXTENDS Sequences, FiniteSets

CONSTANTS
  Threads,   \* spawn_agent generators, each with its own thread
  Actions,   \* the side effects Codex may want to take, each with its request
  Owner,     \* the thread an action belongs to
  Unnumbered, \* the actions whose request carries an id that is not an integer
  NoAction

\* Codex names the thread of every request.
ASSUME ConstantsAssumption ==
  /\ Owner \in [Actions -> Threads] /\ Unnumbered \subseteq Actions
  /\ NoAction \notin Actions /\ "end" \notin Actions

VARIABLES
  server,     \* the app-server process
  phase,      \* where each generator is
  reply,      \* the Future of the request each generator waits for
  turn,       \* the turn of each thread in the server
  registered, \* threads that have a queue in _thread_queues
  inbound,    \* that queue: approval requests, then "end"
  current,    \* the proposal each generator has yielded
  verdict,    \* what the caller made of each proposal
  mentions,   \* results whose content contains the word "session"
  asked,      \* actions an approval was requested for
  told,       \* the decision each request was answered with
  granted,    \* threads that were answered acceptForSession
  ran         \* actions Codex has run

vars == <<server, phase, reply, turn, registered, inbound, current, verdict, mentions,
          asked, told, granted, ran>>
decisions == <<verdict, mentions, told, granted>>

Init ==
  /\ server = "up"
  /\ phase = [t \in Threads |-> "new"]
  /\ reply = [t \in Threads |-> "none"]
  /\ turn = [t \in Threads |-> "none"]
  /\ registered = {} /\ asked = {} /\ mentions = {} /\ granted = {} /\ ran = {}
  /\ inbound = [t \in Threads |-> <<>>]
  /\ current = [t \in Threads |-> NoAction]
  /\ verdict = [a \in Actions |-> "none"]
  /\ told = [a \in Actions |-> "none"]

Goto(t, label) == phase' = [phase EXCEPT ![t] = label]

\* A request is written and its Future registered; without a server the write
\* raises, or goes through and nobody answers.
Request(t, label) ==
  /\ Goto(t, label)
  /\ \E outcome \in {"wait", "error"} :
       /\ server = "up" => outcome = "wait"
       /\ reply' = [reply EXCEPT ![t] = outcome]

\* The finally block of spawn_agent.
Finish(t) ==
  /\ Goto(t, "ended")
  /\ registered' = registered \ {t}

\* _dispatch: a message of a thread without a queue goes to the orphan queue,
\* which nobody reads.
Dispatch(t, msg) ==
  inbound' = IF t \in registered THEN [inbound EXCEPT ![t] = Append(@, msg)] ELSE inbound

-----------------------------------------------------------------------------
(* spawn_agent                                                             *)

StartThread(t) ==
  /\ phase[t] = "new"
  /\ Request(t, "starting")
  /\ UNCHANGED <<server, turn, registered, inbound, current, decisions, asked, ran>>

\* thread/start creates the queue before anything else is sent; the goal is
\* best effort; a failed thread/start or turn/start raises.  From the write of
\* turn/start on, the turn may run in the server.
Resume(t) ==
  /\ reply[t] \in {"ok", "error"}
  /\ \/ /\ phase[t] = "starting" /\ reply[t] = "ok"
        /\ Request(t, "goal")
        /\ registered' = registered \union {t}
        /\ UNCHANGED turn
     \/ /\ phase[t] = "goal"
        /\ Request(t, "turn")
        /\ turn' = [turn EXCEPT ![t] = IF server = "up" THEN "running" ELSE @]
        /\ UNCHANGED registered
     \/ /\ phase[t] = "turn" /\ reply[t] = "ok"
        /\ Goto(t, "streaming")
        /\ reply' = [reply EXCEPT ![t] = "none"]
        /\ UNCHANGED <<registered, turn>>
     \/ /\ phase[t] \in {"starting", "turn"} /\ reply[t] = "error"
        /\ Finish(t)
        /\ reply' = [reply EXCEPT ![t] = "none"]
        /\ UNCHANGED turn
  /\ UNCHANGED <<server, inbound, current, decisions, asked, ran>>

\* _translate_stream: an approval request becomes a proposal and the generator
\* pauses; the end of the turn ends it.  There is no timeout: timeout_s is not
\* used.
Take(t) ==
  /\ phase[t] = "streaming" /\ inbound[t] # <<>>
  /\ inbound' = [inbound EXCEPT ![t] = Tail(@)]
  /\ \/ /\ Head(inbound[t]) \in Actions
        /\ current' = [current EXCEPT ![t] = Head(inbound[t])]
        /\ Goto(t, "deciding")
        /\ UNCHANGED registered
     \/ /\ Head(inbound[t]) = "end"
        /\ Finish(t)
        /\ UNCHANGED current
  /\ UNCHANGED <<server, reply, turn, decisions, asked, ran>>

\* The caller decides, or iterates on without a decision; the text of its
\* result is whatever the tool printed.
Decide(t) ==
  LET a == current[t]
  IN  /\ phase[t] = "deciding"
      /\ \E v \in {"approve", "deny", "none"} : verdict' = [verdict EXCEPT ![a] = v]
      /\ mentions' \in {mentions, mentions \union {a}}
      /\ Goto(t, "answering")
      /\ UNCHANGED <<server, reply, turn, registered, inbound, current, asked, told, granted, ran>>

\* Mutant: the content is looked at before is_error.
ApprovalResponse_ContentFirst(a) ==
  IF a \in mentions THEN "acceptForSession"
  ELSE IF verdict[a] = "approve" THEN "accept" ELSE "decline"

\* _approval_response: errors, and proposals without a decision, are declined.
ApprovalResponse(a) ==
  IF verdict[a] # "approve" THEN "decline"
  ELSE IF a \in mentions THEN "acceptForSession" ELSE "accept"

\* _answer_proposal: the response is written, and a broken pipe raises; a
\* request whose id is not an integer is logged and never answered.
Answer(t) ==
  LET a == current[t]
  IN  /\ phase[t] = "answering"
      /\ current' = [current EXCEPT ![t] = NoAction]
      /\ \/ /\ a \in Unnumbered
            /\ Goto(t, "streaming")
            /\ UNCHANGED <<registered, told, granted>>
         \/ /\ a \notin Unnumbered /\ server = "up"
            /\ told' = [told EXCEPT ![a] = ApprovalResponse(a)]
            /\ granted' = IF ApprovalResponse(a) = "acceptForSession" THEN granted \union {t} ELSE granted
            /\ Goto(t, "streaming")
            /\ UNCHANGED registered
         \/ /\ a \notin Unnumbered /\ server = "down"
            /\ Finish(t)
            /\ UNCHANGED <<told, granted>>
      /\ UNCHANGED <<server, reply, turn, inbound, verdict, mentions, asked, ran>>

\* The caller's handler raises or it stops iterating.  The turn is not
\* interrupted, and a request it has open is not answered.
Abort(t) ==
  /\ phase[t] \in {"streaming", "deciding"}
  /\ Finish(t)
  /\ UNCHANGED <<server, reply, turn, inbound, current, decisions, asked, ran>>

\* __aexit__: the reader is stopped, the server is terminated and every Future
\* fails.  A generator that waits for its queue is not woken.
Close ==
  /\ server = "up"
  /\ server' = "down"
  /\ reply' = [t \in Threads |-> IF reply[t] = "wait" THEN "error" ELSE reply[t]]
  /\ turn' = [t \in Threads |-> IF turn[t] = "running" THEN "over" ELSE turn[t]]
  /\ UNCHANGED <<phase, registered, inbound, current, decisions, asked, ran>>

-----------------------------------------------------------------------------
(* codex app-server                                                        *)

Reply(t) ==
  /\ server = "up" /\ reply[t] = "wait"
  /\ \E outcome \in {"ok", "error"} :
       /\ reply' = [reply EXCEPT ![t] = outcome]
       /\ turn' = [turn EXCEPT ![t] = IF outcome = "error" /\ phase[t] = "turn" THEN "over" ELSE @]
  /\ UNCHANGED <<server, phase, registered, inbound, current, decisions, asked, ran>>

\* A side effect needs an approval, unless the thread has one for the session.
RequestApproval(a) ==
  LET t == Owner[a]
  IN  /\ server = "up" /\ turn[t] = "running" /\ t \notin granted
      /\ a \notin asked \union ran
      /\ asked' = asked \union {a}
      /\ Dispatch(t, a)
      /\ UNCHANGED <<server, phase, reply, turn, registered, current, decisions, ran>>

Execute(a) ==
  LET t == Owner[a]
  IN  /\ server = "up" /\ turn[t] = "running" /\ a \notin ran
      /\ \/ told[a] \in {"accept", "acceptForSession"}
         \/ a \notin asked /\ t \in granted
      /\ ran' = ran \union {a}
      /\ UNCHANGED <<server, phase, reply, turn, registered, inbound, current, decisions, asked>>

\* turn/completed, or `error`.
TurnEnds(t) ==
  /\ server = "up" /\ turn[t] = "running"
  /\ turn' = [turn EXCEPT ![t] = "over"]
  /\ Dispatch(t, "end")
  /\ UNCHANGED <<server, phase, reply, registered, current, decisions, asked, ran>>

\* The process dies.  The reader sees EOF and stops; the Futures and the queues
\* stay as they are.
ServerExits ==
  /\ server = "up"
  /\ server' = "down"
  /\ turn' = [t \in Threads |-> IF turn[t] = "running" THEN "over" ELSE turn[t]]
  /\ UNCHANGED <<phase, reply, registered, inbound, current, decisions, asked, ran>>

-----------------------------------------------------------------------------
Generator(t) == Take(t) \/ Decide(t) \/ Answer(t)

Next ==
  \/ \E t \in Threads :
       StartThread(t) \/ Resume(t) \/ Generator(t) \/ Abort(t) \/ Reply(t) \/ TurnEnds(t)
  \/ \E a \in Actions : RequestApproval(a) \/ Execute(a)
  \/ Close \/ ServerExits

\* The event loop runs every generator that is ready, and the caller decides.
Fairness == \A t \in Threads : WF_vars(Generator(t))

Spec == Init /\ [][Next]_vars /\ Fairness

-----------------------------------------------------------------------------
Phases == {"new", "starting", "goal", "turn", "streaming", "deciding", "answering", "ended"}

\* Each variable holds what the client's objects may hold, and a thread has a
\* queue exactly from thread/start to the end of its generator.
TypeOK ==
  /\ server \in {"up", "down"}
  /\ phase \in [Threads -> Phases]
  /\ reply \in [Threads -> {"none", "wait", "ok", "error"}]
  /\ turn \in [Threads -> {"none", "running", "over"}]
  /\ registered = {t \in Threads : phase[t] \in Phases \ {"new", "starting", "ended"}}
  /\ \A t \in Threads : inbound[t] \in Seq(Actions \union {"end"})
  /\ \A t \in Threads : phase[t] \in {"deciding", "answering"} => current[t] \in Actions
  /\ asked \subseteq Actions /\ ran \subseteq Actions /\ granted \subseteq Threads

\* Codex hears the caller's decision about the request it made, or a decline,
\* once.  (The decision is the response; a decline of an undecided proposal
\* is an error.)
Boundary == INSTANCE ProposalBoundary WITH
  Calls <- Actions,
  decided <- {a \in Actions : verdict[a] # "none"},
  told <- [a \in Actions |->
             IF told[a] = "none" THEN "none"
             ELSE IF verdict[a] = "none" /\ told[a] = "decline" THEN "error"
             ELSE IF (verdict[a] = "approve") = (told[a] # "decline") THEN a
             ELSE "wrong"]
ImplementsBoundary == Boundary!BoundarySpec

\* Codex runs an action only when the caller approved it, or approved an
\* earlier one of the thread with a result that mentions the session; a denied
\* action is never run, whatever its text says.
NothingRunsUnapproved ==
  \A a \in ran :
    \/ verdict[a] = "approve"
    \/ /\ verdict[a] = "none"
       /\ \E b \in mentions : Owner[b] = Owner[a] /\ verdict[b] = "approve"

\* An approval request of a thread whose generator is running is answered: it
\* is never left in a queue that nobody reads, nor behind one that cannot be
\* answered, unless the server dies.  What carries no integer id is not answered.
ApprovalsAreAnswered ==
  \A a \in Actions \ Unnumbered :
    a \in asked /\ phase[Owner[a]] = "streaming"
      ~> told[a] # "none" \/ phase[Owner[a]] = "ended" \/ server = "down"
=============================================================================
