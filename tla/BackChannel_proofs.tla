-------------------------- MODULE BackChannel_proofs --------------------------
(***************************************************************************)
(* What the OpenCode adapter guarantees for any spawns, calls and shared   *)
(* aggregates: its objects stay well formed, and whatever of the caller,   *)
(* the time-outs, the end of a spawn and the shutdown comes first, it      *)
(* implements the proposal boundary.                                       *)
(***************************************************************************)
EXTENDS BackChannel, Naturals, TLAPS

-----------------------------------------------------------------------------
(* The inductive invariant                                                 *)

Typed ==
  /\ phase \in [Spawns -> Phases]
  /\ sessions \in [Spawns -> Spawns \union {NoSpawn}]
  /\ queue \in [Spawns -> Seq(Calls \union {"end"})]
  /\ current \in [Spawns -> Calls \union {NoCall}]
  /\ running \subseteq Spawns /\ sse \subseteq Spawns
  /\ asked \subseteq Calls /\ decided \subseteq asked
  /\ pending \in [Spawns -> SUBSET McpCalls]
  /\ handler \in [Calls -> Calls \union {"none", "waiting", "error", "done"}]
  /\ told \in [Calls -> Calls \union {"none", "error"}]

\* A call is in at most one place, the queue of a spawn or the proposal that
\* its generator has yielded, and it is undecided there.
Queued ==
  \A s \in Spawns : \A i \in DOMAIN queue[s] :
    queue[s][i] \in Calls => queue[s][i] \in asked \ decided

Once ==
  \A s, t \in Spawns : \A i \in DOMAIN queue[s], j \in DOMAIN queue[t] :
    queue[s][i] \in Calls /\ queue[s][i] = queue[t][j] => s = t /\ i = j

Out ==
  \A s \in Spawns :
    phase[s] = "deciding" =>
      /\ current[s] \in asked \ decided
      /\ \A t \in Spawns : \A j \in DOMAIN queue[t] : queue[t][j] # current[s]
      /\ \A t \in Spawns : phase[t] = "deciding" /\ current[t] = current[s] => t = s

Answering == \A s \in Spawns : phase[s] = "answering" => current[s] \in decided

Places == Queued /\ Once /\ Out /\ Answering

\* A Future belongs to one spawn, and holds nothing but the decision about its call.
Handled == \A c \in Calls : handler[c] \in Calls => handler[c] = c /\ c \in decided \intersect McpCalls

Waiting ==
  /\ \A s \in Spawns : pending[s] \subseteq asked
  /\ \A s, t \in Spawns : \A c \in pending[s] \intersect pending[t] : s = t
  /\ \A c \in McpCalls : handler[c] = "waiting" <=> \E s \in Spawns : c \in pending[s]

Inv == Typed /\ Places /\ Handled /\ Waiting

LEMMA InitInv == ASSUME BackChannelAssumption, Init PROVE Inv
BY DEF Init, Inv, BackChannelAssumption, Typed, Phases, Places, Queued, Once, Out, Answering,
       Handled, Waiting

LEMMA InvIsTyped == ASSUME BackChannelAssumption, Inv PROVE TypeOK
<1>1. \A s \in Spawns : queue[s] \in Seq(Calls \union {"end"})
  BY DEF Inv, Typed
<1>2. \A s \in Spawns : phase[s] \in {"deciding", "answering"} => current[s] \in Calls
  BY DEF Inv, Typed, Places, Out, Answering
<1>3. handler \in [Calls -> McpCalls \union {"none", "waiting", "error", "done"}]
  BY DEF Inv, Typed, Handled
<1> QED
  BY <1>1, <1>2, <1>3 DEF Inv, Typed, Waiting, TypeOK

-----------------------------------------------------------------------------
(* Types                                                                   *)

LEMMA QueueTypes ==
  ASSUME Typed
  PROVE  /\ \A s \in Spawns, x \in Calls \union {"end"} :
              queue' = [queue EXCEPT ![s] = Append(@, x)]
                => queue' \in [Spawns -> Seq(Calls \union {"end"})]
         /\ \A s \in Spawns :
              queue[s] # <<>> =>
                /\ Head(queue[s]) \in Calls \union {"end"}
                /\ [queue EXCEPT ![s] = Tail(@)] \in [Spawns -> Seq(Calls \union {"end"})]
<1> DEFINE Items == Calls \union {"end"}
<1>1. queue \in [Spawns -> Seq(Items)]
  BY DEF Typed
<1> HIDE DEF Items
<1>2. ASSUME NEW s \in Spawns, NEW x \in Items PROVE [queue EXCEPT ![s] = Append(@, x)] \in [Spawns -> Seq(Items)]
  BY <1>1
<1>3. ASSUME NEW s \in Spawns, queue[s] # <<>>
      PROVE  Head(queue[s]) \in Items /\ [queue EXCEPT ![s] = Tail(@)] \in [Spawns -> Seq(Items)]
  BY <1>1, <1>3
<1> QED
  BY <1>2, <1>3 DEF Items

LEMMA FinishTypes ==
  ASSUME Typed, NEW s \in Spawns, Finish(s), told' = told
  PROVE  Typed'
BY DEF Typed, Finish, Goto, Deregister, Phases

LEMMA TypedNext ==
  ASSUME BackChannelAssumption, Inv, [Next]_vars
  PROVE  Typed'
<1> USE DEF Inv, Phases, channel
<1>1. CASE UNCHANGED vars
  BY <1>1 DEF vars, Typed
<1>2. ASSUME NEW s \in Spawns, Register(s) \/ CreateSession(s) \/ SubmitPrompt(s) PROVE Typed'
  <2>1. CASE Register(s)
    BY <2>1 DEF Register, Goto, Typed
  <2>2. CASE CreateSession(s)
    BY <2>2 DEF CreateSession, Goto, Deregister, Typed
  <2>3. CASE SubmitPrompt(s)
    BY <2>3 DEF SubmitPrompt, Goto, Typed
  <2> QED
    BY <1>2, <2>1, <2>2, <2>3
<1>3. ASSUME NEW s \in Spawns, Drain(s) PROVE Typed'
  <2>1. CASE Head(queue[s]) = "end" /\ Finish(s)
    BY <1>3, <2>1, FinishTypes DEF Drain
  <2>2. CASE Head(queue[s]) \in Calls /\ current' = [current EXCEPT ![s] = Head(queue[s])]
             /\ queue' = [queue EXCEPT ![s] = Tail(@)] /\ Goto(s, "deciding")
             /\ UNCHANGED <<sessions, running, sse, asked, channel, decided>>
    <3>1. queue' \in [Spawns -> Seq(Calls \union {"end"})]
      BY <1>3, <2>2, QueueTypes DEF Drain
    <3> QED
      BY <1>3, <2>2, <3>1 DEF Drain, Goto, Typed
  <2> QED
    BY <1>3, <2>1, <2>2 DEF Drain
<1>4. ASSUME NEW s \in Spawns, DrainTimeout(s) \/ Abort(s) PROVE Typed'
  BY <1>4, FinishTypes DEF DrainTimeout, Abort
<1>5. ASSUME NEW s \in Spawns, AnswerMcp(s) PROVE Typed'
  BY <1>5 DEF AnswerMcp, Goto, Typed
<1>6. ASSUME NEW s \in Spawns, AnswerPermission(s) PROVE Typed'
  <2>1. CASE Finish(s) /\ UNCHANGED told
    BY <2>1, FinishTypes
  <2>2. CASE TellModel(current[s], current[s]) /\ Goto(s, "draining")
             /\ current' = [current EXCEPT ![s] = NoCall]
             /\ UNCHANGED <<sessions, queue, running, sse, asked, channel, decided>>
    <3>1. current[s] \in Calls
      BY <1>6 DEF AnswerPermission, Places, Answering, Typed
    <3> QED
      BY <2>2, <3>1 DEF TellModel, Goto, Typed
  <2> QED
    BY <1>6, <2>1, <2>2 DEF AnswerPermission
<1>7. ASSUME NEW s \in Spawns, Decide(s) PROVE Typed'
  BY <1>7 DEF Decide, Goto, Typed, Places, Out
<1>8. ASSUME NEW c \in Calls, Propose(c) PROVE Typed'
  <2> DEFINE s == sessions[Aggregate[Owner[c]]]
  <2>1. s \in Spawns \union {NoSpawn} /\ c \in McpCalls
    BY <1>8, BackChannelAssumption DEF BackChannelAssumption, Propose, Typed
  <2>2. asked' = asked \union {c} /\ UNCHANGED <<phase, sessions, current, running, sse, decided>>
    BY <1>8 DEF Propose
  <2>3. CASE s = NoSpawn /\ TellModel(c, "error") /\ UNCHANGED <<queue, channel>>
    BY <2>2, <2>3 DEF Typed, TellModel
  <2>4. CASE s # NoSpawn /\ pending' = [pending EXCEPT ![s] = @ \union {c}]
             /\ handler' = [handler EXCEPT ![c] = "waiting"]
             /\ queue' = [queue EXCEPT ![s] = Append(@, c)] /\ UNCHANGED told
    <3>1. queue' \in [Spawns -> Seq(Calls \union {"end"})]
      BY <2>1, <2>4, QueueTypes
    <3> HIDE DEF s
    <3> QED
      BY <2>1, <2>2, <2>4, <3>1 DEF Typed
  <2> QED
    BY <1>8, <2>3, <2>4 DEF Propose
<1>9. ASSUME NEW c \in Calls, HandlerReturns(c) PROVE Typed'
  <2>1. told' \in [Calls -> Calls \union {"none", "error"}]
    BY <1>9, BackChannelAssumption DEF BackChannelAssumption, HandlerReturns, TellModel, Typed
  <2> QED
    BY <1>9, <2>1 DEF HandlerReturns, TellModel, Typed
<1>10. ASSUME NEW c \in Calls, HandlerTimeout(c) \/ ProxyTimeout(c) PROVE Typed'
  <2>1. CASE HandlerTimeout(c)
    BY <2>1 DEF HandlerTimeout, TellModel, Typed
  <2>2. CASE ProxyTimeout(c)
    BY <2>2 DEF ProxyTimeout, TellModel, Typed
  <2> QED
    BY <1>10, <2>1, <2>2
<1>11. ASSUME NEW c \in Calls, RequestPermission(c) PROVE Typed'
  <2>1. Owner[c] \in Spawns
    BY BackChannelAssumption DEF BackChannelAssumption
  <2>2. queue' \in [Spawns -> Seq(Calls \union {"end"})]
    BY <1>11, <2>1, QueueTypes DEF RequestPermission
  <2> QED
    BY <1>11, <2>2 DEF RequestPermission, Typed
<1>12. ASSUME NEW s \in Spawns, StreamEnds(s) PROVE Typed'
  <2>1. queue' \in [Spawns -> Seq(Calls \union {"end"})]
    BY <1>12, QueueTypes DEF StreamEnds
  <2> QED
    BY <1>12, <2>1 DEF StreamEnds, Typed
<1>13. CASE CloseAdapter
  BY <1>13 DEF CloseAdapter, Typed
<1> QED
  BY <1>1, <1>2, <1>3, <1>4, <1>5, <1>6, <1>7, <1>8, <1>9, <1>10, <1>11, <1>12, <1>13
  DEF Next, Generator

-----------------------------------------------------------------------------
(* Places                                                                  *)

\* A step that leaves the queues alone and takes one spawn out of its decision.
LEMMA PlacesKept ==
  ASSUME Typed, Places, NEW s \in Spawns,
         UNCHANGED <<queue, asked, decided>>,
         phase'[s] \notin {"deciding", "answering"},
         \A t \in Spawns \ {s} : phase'[t] = phase[t] /\ current'[t] = current[t]
  PROVE  Places'
BY DEF Places, Queued, Once, Out, Answering

LEMMA PlacesSame ==
  ASSUME Places, UNCHANGED <<phase, queue, current, asked, decided>>
  PROVE  Places'
BY DEF Places, Queued, Once, Out, Answering

\* The generator takes the first call of its queue and yields it.
LEMMA PlacesTaken ==
  ASSUME Typed, Places, NEW s \in Spawns,
         queue[s] # <<>>, Head(queue[s]) \in Calls,
         phase' = [phase EXCEPT ![s] = "deciding"],
         current' = [current EXCEPT ![s] = Head(queue[s])],
         queue' = [queue EXCEPT ![s] = Tail(@)],
         UNCHANGED <<asked, decided>>
  PROVE  Places'
<1> DEFINE c == Head(queue[s])
<1>1. queue[s] \in Seq(Calls \union {"end"})
  BY DEF Typed
<1>2. 1 \in DOMAIN queue[s] /\ queue[s][1] = c
  BY <1>1
<1>3. \A j \in DOMAIN queue'[s] : j + 1 \in DOMAIN queue[s] /\ queue'[s][j] = queue[s][j + 1] /\ j \in Nat \ {0}
  BY <1>1 DEF Typed
<1>4. \A t \in Spawns \ {s} : queue'[t] = queue[t] /\ current'[t] = current[t] /\ phase'[t] = phase[t]
  BY DEF Typed
<1>5. phase'[s] = "deciding" /\ current'[s] = c
  BY DEF Typed
<1> HIDE DEF c
<1>6. c \in asked \ decided
  BY <1>2 DEF Places, Queued, c
<1>7. \A t \in Spawns : \A j \in DOMAIN queue'[t] : queue'[t][j] # c
  <2>1. ASSUME NEW j \in DOMAIN queue'[s] PROVE queue'[s][j] # c
    BY <1>2, <1>3, <1>6 DEF Places, Once, c
  <2>2. ASSUME NEW t \in Spawns \ {s}, NEW j \in DOMAIN queue'[t] PROVE queue'[t][j] # c
    BY <1>2, <1>4, <1>6, <2>2 DEF Places, Once, c
  <2> QED
    BY <2>1, <2>2
<1>8. Queued'
  BY <1>3, <1>4 DEF Places, Queued
<1>9. Once'
  <2>1. ASSUME NEW t \in Spawns, NEW i \in DOMAIN queue'[t]
        PROVE  \E k \in DOMAIN queue[t] :
                 queue'[t][i] = queue[t][k] /\ k = (IF t = s THEN i + 1 ELSE i)
    BY <1>3, <1>4
  <2> SUFFICES ASSUME NEW t \in Spawns, NEW u \in Spawns,
                      NEW i \in DOMAIN queue'[t], NEW j \in DOMAIN queue'[u],
                      queue'[t][i] \in Calls, queue'[t][i] = queue'[u][j]
               PROVE  t = u /\ i = j
    BY DEF Once
  <2>2. PICK k \in DOMAIN queue[t] : queue'[t][i] = queue[t][k] /\ k = (IF t = s THEN i + 1 ELSE i)
    BY <2>1
  <2>3. PICK l \in DOMAIN queue[u] : queue'[u][j] = queue[u][l] /\ l = (IF u = s THEN j + 1 ELSE j)
    BY <2>1
  <2>4. t = u /\ k = l
    BY <2>2, <2>3 DEF Places, Once
  <2> QED
    BY <1>3, <2>2, <2>3, <2>4
<1>10. Out'
  BY <1>2, <1>3, <1>4, <1>5, <1>6, <1>7 DEF Places, Out
<1>11. Answering'
  BY <1>4, <1>5 DEF Places, Answering
<1> QED
  BY <1>8, <1>9, <1>10, <1>11 DEF Places

\* A call that was not asked before, or the end, is put on a queue.
LEMMA PlacesAdded ==
  ASSUME Typed, Places, NEW s \in Spawns, NEW x \in Calls \union {"end"},
         x \in Calls => x \in asked' \ (asked \union decided),
         asked \subseteq asked', asked' \subseteq Calls,
         queue' = [queue EXCEPT ![s] = Append(@, x)],
         UNCHANGED <<phase, current, decided>>
  PROVE  Places'
<1> DEFINE n == Len(queue[s]) + 1
<1>1. queue[s] \in Seq(Calls \union {"end"})
  BY DEF Typed
<1>2. queue'[s] = Append(queue[s], x) /\ \A t \in Spawns \ {s} : queue'[t] = queue[t]
  BY DEF Typed
<1>3. \A t \in Spawns : \A i \in DOMAIN queue'[t] :
        \/ i \in DOMAIN queue[t] /\ queue'[t][i] = queue[t][i]
        \/ t = s /\ i = n /\ queue'[t][i] = x
  <2>1. ASSUME NEW i \in DOMAIN queue'[s]
        PROVE  \/ i \in DOMAIN queue[s] /\ queue'[s][i] = queue[s][i]
               \/ i = n /\ queue'[s][i] = x
    BY <1>1, <1>2, <2>1
  <2> QED
    BY <1>2, <2>1
<1> HIDE DEF n
<1>4. \A t \in Spawns : \A i \in DOMAIN queue[t] : queue[t][i] \in Calls => queue[t][i] \in asked
  BY DEF Places, Queued
<1>5. Queued'
  BY <1>3 DEF Places, Queued
<1>6. Once'
  BY <1>3, <1>4 DEF Places, Once
<1>7. Out'
  BY <1>3 DEF Places, Out
<1>8. Answering'
  BY DEF Places, Answering
<1> QED
  BY <1>5, <1>6, <1>7, <1>8 DEF Places

LEMMA PlacesDecided ==
  ASSUME Typed, Places, NEW s \in Spawns, Decide(s)
  PROVE  Places'
<1>1. phase[s] = "deciding" /\ decided' = decided \union {current[s]}
      /\ phase' = [phase EXCEPT ![s] = "answering"] /\ UNCHANGED <<queue, current, asked>>
  BY DEF Decide, Goto
<1>2. phase'[s] = "answering" /\ \A t \in Spawns \ {s} : phase'[t] = phase[t]
  BY <1>1 DEF Typed
<1>3. Queued' /\ Once' /\ Answering'
  BY <1>1, <1>2 DEF Places, Queued, Once, Out, Answering
<1>4. Out'
  BY <1>1, <1>2 DEF Places, Out
<1> QED
  BY <1>3, <1>4 DEF Places

LEMMA PlacesNext ==
  ASSUME BackChannelAssumption, Inv, [Next]_vars
  PROVE  Places'
<1> USE DEF Inv
<1>1. CASE UNCHANGED vars
  BY <1>1, PlacesSame DEF vars
<1>2. ASSUME NEW s \in Spawns, Finish(s) PROVE Places'
  <2>1. phase'[s] = "ended" /\ \A t \in Spawns \ {s} : phase'[t] = phase[t]
    BY <1>2 DEF Finish, Goto, Typed
  <2> QED
    BY <1>2, <2>1, PlacesKept DEF Finish
<1>3. ASSUME NEW s \in Spawns, Register(s) \/ CreateSession(s) \/ SubmitPrompt(s) PROVE Places'
  <2>1. phase'[s] \in {"creating", "started", "ended", "leaked", "draining"}
        /\ \A t \in Spawns \ {s} : phase'[t] = phase[t]
    BY <1>3 DEF Register, CreateSession, SubmitPrompt, Goto, Typed
  <2>2. UNCHANGED <<queue, current, asked, decided>>
    BY <1>3 DEF Register, CreateSession, SubmitPrompt
  <2> QED
    BY <2>1, <2>2, PlacesKept
<1>4. ASSUME NEW s \in Spawns, Drain(s) PROVE Places'
  BY <1>2, <1>4, PlacesTaken DEF Drain, Goto
<1>5. ASSUME NEW s \in Spawns, DrainTimeout(s) \/ Abort(s) PROVE Places'
  BY <1>2, <1>5 DEF DrainTimeout, Abort
<1>6. ASSUME NEW s \in Spawns, AnswerMcp(s) \/ (AnswerPermission(s) /\ ~Finish(s)) PROVE Places'
  <2>1. phase' = [phase EXCEPT ![s] = "draining"] /\ current' = [current EXCEPT ![s] = NoCall]
        /\ UNCHANGED <<queue, asked, decided>>
    BY <1>6 DEF AnswerMcp, AnswerPermission, Goto
  <2>2. phase'[s] = "draining" /\ \A t \in Spawns \ {s} : phase'[t] = phase[t] /\ current'[t] = current[t]
    BY <2>1 DEF Typed
  <2> QED
    BY <2>1, <2>2, PlacesKept
<1>7. ASSUME NEW c \in Calls, Propose(c) PROVE Places'
  <2> DEFINE s == sessions[Aggregate[Owner[c]]]
  <2>1. s \in Spawns \union {NoSpawn} /\ c \notin asked /\ asked' = asked \union {c}
        /\ UNCHANGED <<phase, current, decided>>
    BY <1>7, BackChannelAssumption DEF BackChannelAssumption, Propose, Typed
  <2>2. asked' \subseteq Calls /\ asked \subseteq asked'
    BY <2>1 DEF Typed
  <2>3. CASE UNCHANGED queue
    BY <2>1, <2>3 DEF Places, Queued, Once, Out, Answering
  <2>4. CASE s # NoSpawn /\ queue' = [queue EXCEPT ![s] = Append(@, c)]
    <3>1. c \notin decided
      BY <2>1 DEF Typed
    <3> QED
      BY <2>1, <2>2, <2>4, <3>1, PlacesAdded
  <2> QED
    BY <1>7, <2>3, <2>4 DEF Propose
<1>8. ASSUME NEW c \in Calls, HandlerReturns(c) \/ HandlerTimeout(c) \/ ProxyTimeout(c) PROVE Places'
  BY <1>8, PlacesSame DEF HandlerReturns, HandlerTimeout, ProxyTimeout
<1>9. ASSUME NEW c \in Calls, RequestPermission(c) PROVE Places'
  <2>1. Owner[c] \in Spawns /\ c \notin asked /\ asked' = asked \union {c}
        /\ queue' = [queue EXCEPT ![Owner[c]] = Append(@, c)] /\ UNCHANGED <<phase, current, decided>>
    BY <1>9, BackChannelAssumption DEF BackChannelAssumption, RequestPermission
  <2>2. c \notin decided /\ asked' \subseteq Calls
    BY <2>1 DEF Typed
  <2> QED
    BY <2>1, <2>2, PlacesAdded
<1>10. ASSUME NEW s \in Spawns, StreamEnds(s) PROVE Places'
  BY <1>10, BackChannelAssumption, PlacesAdded DEF BackChannelAssumption, StreamEnds, Typed
<1>11. ASSUME NEW s \in Spawns, Decide(s) PROVE Places'
  BY <1>11, PlacesDecided
<1>12. CASE CloseAdapter
  BY <1>12, PlacesSame DEF CloseAdapter
<1> QED
  BY <1>1, <1>2, <1>3, <1>4, <1>5, <1>6, <1>7, <1>8, <1>9, <1>10, <1>11, <1>12 DEF Next, Generator

-----------------------------------------------------------------------------
(* Replies                                                                 *)

\* The spawn's end, and a shutdown, fail the Futures of some spawns; nobody
\* waits on them after that.
LEMMA RepliesFailed ==
  ASSUME BackChannelAssumption, Inv, NEW S \in SUBSET Spawns,
         handler' = [c \in Calls |-> IF \E s \in S : c \in pending[s] THEN "error" ELSE handler[c]],
         pending' = [s \in Spawns |-> IF s \in S THEN {} ELSE pending[s]],
         UNCHANGED <<asked, decided>>
  PROVE  Handled' /\ Waiting'
<1>1. Handled'
  BY DEF Inv, Handled, BackChannelAssumption
<1>2. \A s \in Spawns : pending'[s] = (IF s \in S THEN {} ELSE pending[s])
  OBVIOUS
<1>3. ASSUME NEW c \in McpCalls PROVE handler'[c] = "waiting" <=> \E s \in Spawns : c \in pending'[s]
  <2>1. c \in Calls
    BY BackChannelAssumption DEF BackChannelAssumption
  <2>2. CASE \E s \in S : c \in pending[s]
    BY <1>2, <2>1, <2>2 DEF Inv, Waiting
  <2>3. CASE ~\E s \in S : c \in pending[s]
    BY <1>2, <2>1, <2>3 DEF Inv, Waiting
  <2> QED
    BY <2>2, <2>3
<1>4. Waiting'
  BY <1>2, <1>3 DEF Inv, Waiting
<1> QED
  BY <1>1, <1>4

LEMMA RepliesSame ==
  ASSUME Inv, UNCHANGED <<pending, handler>>, asked \subseteq asked', decided \subseteq decided'
  PROVE  Handled' /\ Waiting'
BY DEF Inv, Handled, Waiting

\* A handler's Future changes for good: it is not waited on any more.
LEMMA RepliesSettled ==
  ASSUME BackChannelAssumption, Inv, NEW c \in Calls, NEW v \in {"done", c},
         v = c => c \in decided \intersect McpCalls,
         handler' = [handler EXCEPT ![c] = v],
         pending' = [s \in Spawns |-> pending[s] \ {c}],
         UNCHANGED <<asked, decided>>
  PROVE  Handled' /\ Waiting'
<1>1. v # "waiting" /\ handler'[c] = v /\ \A d \in Calls \ {c} : handler'[d] = handler[d]
  BY DEF BackChannelAssumption, Inv, Typed
<1>2. Handled'
  BY <1>1 DEF BackChannelAssumption, Inv, Handled
<1>3. \A s \in Spawns : pending'[s] = pending[s] \ {c}
  OBVIOUS
<1>4. \A d \in McpCalls : d \in Calls
  BY DEF BackChannelAssumption
<1>5. Waiting'
  BY <1>1, <1>3, <1>4 DEF Inv, Waiting
<1> QED
  BY <1>2, <1>5

LEMMA RepliesNext ==
  ASSUME BackChannelAssumption, Inv, [Next]_vars
  PROVE  Handled' /\ Waiting'
<1>1. CASE UNCHANGED vars
  BY <1>1, RepliesSame DEF vars
<1>2. ASSUME NEW s \in Spawns, Finish(s) PROVE Handled' /\ Waiting'
  <2>1. handler' = [c \in Calls |-> IF \E t \in {s} : c \in pending[t] THEN "error" ELSE handler[c]]
    BY <1>2 DEF Finish
  <2>2. pending' = [t \in Spawns |-> IF t \in {s} THEN {} ELSE pending[t]]
    BY <1>2 DEF Finish, Inv, Typed
  <2> QED
    BY <1>2, <2>1, <2>2, RepliesFailed DEF Finish
<1>3. ASSUME NEW s \in Spawns, Register(s) \/ CreateSession(s) \/ SubmitPrompt(s) \/ StreamEnds(s)
      PROVE  Handled' /\ Waiting'
  BY <1>3, RepliesSame DEF Register, CreateSession, SubmitPrompt, StreamEnds, channel
<1>4. ASSUME NEW s \in Spawns, Drain(s) PROVE Handled' /\ Waiting'
  BY <1>2, <1>4, RepliesSame DEF Drain, channel
<1>5. ASSUME NEW s \in Spawns, DrainTimeout(s) \/ Abort(s) \/ (AnswerPermission(s) /\ Finish(s))
      PROVE  Handled' /\ Waiting'
  BY <1>2, <1>5 DEF DrainTimeout, Abort
<1>6. ASSUME NEW s \in Spawns, AnswerPermission(s) /\ ~Finish(s) PROVE Handled' /\ Waiting'
  BY <1>6, RepliesSame DEF AnswerPermission, channel
<1>7. ASSUME NEW s \in Spawns, AnswerMcp(s) PROVE Handled' /\ Waiting'
  <2> DEFINE c == current[s]
  <2>1. c \in Calls /\ c \in decided \intersect McpCalls /\ UNCHANGED <<asked, decided>>
        /\ pending' = [pending EXCEPT ![s] = @ \ {c}]
        /\ handler' = [handler EXCEPT ![c] = IF c \in pending[s] THEN c ELSE @]
    BY <1>7, BackChannelAssumption DEF BackChannelAssumption, AnswerMcp, Inv, Places, Answering
  <2> HIDE DEF c
  <2>2. CASE c \in pending[s]
    <3>1. \A t \in Spawns \ {s} : c \notin pending[t]
      BY <2>2 DEF Inv, Waiting
    <3>2. pending' = [t \in Spawns |-> pending[t] \ {c}]
      <4>1. \A t \in Spawns \ {s} : pending[t] \ {c} = pending[t]
        BY <3>1
      <4> QED
        BY <2>1, <4>1 DEF Inv, Typed
    <3> QED
      BY <2>1, <2>2, <3>2, RepliesSettled
  <2>3. CASE c \notin pending[s]
    <3>1. pending[s] \ {c} = pending[s]
      BY <2>3
    <3>2. pending' = pending
      BY <2>1, <3>1 DEF Inv, Typed
    <3>3. handler' = handler
      BY <2>1, <2>3 DEF Inv, Typed
    <3> QED
      BY <2>1, <3>2, <3>3, RepliesSame
  <2> QED
    BY <2>2, <2>3
<1>8. ASSUME NEW s \in Spawns, Decide(s) PROVE Handled' /\ Waiting'
  BY <1>8, RepliesSame DEF Decide, channel
<1>9. ASSUME NEW c \in Calls, Propose(c) PROVE Handled' /\ Waiting'
  <2> DEFINE s == sessions[Aggregate[Owner[c]]]
  <2>1. s \in Spawns \union {NoSpawn} /\ c \in McpCalls \ asked /\ asked' = asked \union {c}
        /\ decided' = decided
    BY <1>9, BackChannelAssumption DEF BackChannelAssumption, Propose, Inv, Typed
  <2> HIDE DEF s
  <2>2. CASE UNCHANGED channel
    BY <2>1, <2>2, RepliesSame DEF channel
  <2>3. CASE s # NoSpawn /\ pending' = [pending EXCEPT ![s] = @ \union {c}]
             /\ handler' = [handler EXCEPT ![c] = "waiting"]
    <3>1. s \in Spawns /\ c \in Calls
      BY <2>1, <2>3
    <3>2. pending'[s] = pending[s] \union {c} /\ \A t \in Spawns \ {s} : pending'[t] = pending[t]
      BY <2>3, <3>1 DEF Inv, Typed
    <3>3. handler'[c] = "waiting" /\ \A d \in Calls \ {c} : handler'[d] = handler[d]
      BY <2>3, <3>1 DEF Inv, Typed
    <3>4. \A t \in Spawns : c \notin pending[t]
      BY <2>1 DEF Inv, Waiting
    <3>5. Handled'
      BY <2>1, <3>3, BackChannelAssumption DEF BackChannelAssumption, Inv, Handled
    <3>6. \A d \in McpCalls : d \in Calls
      BY BackChannelAssumption DEF BackChannelAssumption
    <3>7. Waiting'
      BY <2>1, <3>1, <3>2, <3>3, <3>4, <3>6 DEF Inv, Waiting
    <3> QED
      BY <3>5, <3>7
  <2> QED
    BY <1>9, <2>2, <2>3 DEF Propose, s
<1>10. ASSUME NEW c \in Calls, HandlerReturns(c) PROVE Handled' /\ Waiting'
  <2>1. handler[c] # "waiting" /\ handler' = [handler EXCEPT ![c] = "done"]
        /\ UNCHANGED <<asked, pending, decided>>
    BY <1>10, BackChannelAssumption DEF BackChannelAssumption, HandlerReturns
  <2>2. c \in McpCalls => \A s \in Spawns : c \notin pending[s]
    BY <2>1 DEF Inv, Waiting
  <2>3. pending' = [s \in Spawns |-> pending[s] \ {c}]
    BY <2>1, <2>2 DEF Inv, Typed
  <2> QED
    BY <2>1, <2>3, RepliesSettled, BackChannelAssumption DEF BackChannelAssumption
<1>11. ASSUME NEW c \in Calls, HandlerTimeout(c) PROVE Handled' /\ Waiting'
  BY <1>11, RepliesSettled, BackChannelAssumption DEF HandlerTimeout, BackChannelAssumption
<1>12. ASSUME NEW c \in Calls, ProxyTimeout(c) \/ RequestPermission(c) PROVE Handled' /\ Waiting'
  BY <1>12, RepliesSame DEF ProxyTimeout, RequestPermission, channel
<1>13. CASE CloseAdapter
  <2> DEFINE S == {s \in Spawns : \E a \in Spawns : sessions[a] = s}
  <2>1. handler' = [c \in Calls |-> IF \E s \in S : c \in pending[s] THEN "error" ELSE handler[c]]
        /\ pending' = [s \in Spawns |-> IF s \in S THEN {} ELSE pending[s]]
        /\ UNCHANGED <<asked, decided>>
    BY <1>13 DEF CloseAdapter
  <2>2. S \in SUBSET Spawns
    OBVIOUS
  <2> HIDE DEF S
  <2> QED
    BY <2>1, <2>2, RepliesFailed
<1> QED
  BY <1>1, <1>2, <1>3, <1>4, <1>5, <1>6, <1>7, <1>8, <1>9, <1>10, <1>11, <1>12, <1>13
  DEF Next, Generator

LEMMA InvNext == ASSUME BackChannelAssumption, Inv, [Next]_vars PROVE Inv'
BY TypedNext, PlacesNext, RepliesNext DEF Inv

\* The adapter's tables, queues and Futures stay well formed, a handler waits
\* exactly while a spawn holds its Future, and a generator that waits for the
\* caller has a proposal out: for any spawns and calls.
THEOREM TypeCorrect == BackChannelAssumption => (Spec => []TypeOK)
<1>1. BackChannelAssumption /\ Init => Inv
  BY InitInv
<1>2. BackChannelAssumption /\ Inv /\ [Next]_vars => Inv'
  BY InvNext
<1>3. BackChannelAssumption /\ Inv => TypeOK
  BY InvIsTyped
<1>4. CASE BackChannelAssumption
  BY <1>1, <1>2, <1>3, <1>4, PTL DEF Spec
<1> QED
  BY <1>4

-----------------------------------------------------------------------------
(* The proposal boundary                                                   *)

BoundaryStep ==
  \/ UNCHANGED <<decided, told>>
  \/ \E c \in Calls : c \notin decided /\ decided' = decided \union {c} /\ UNCHANGED told
  \/ \E c \in Calls :
       /\ told[c] = "none" /\ UNCHANGED decided
       /\ \E answer \in {"error"} \union (decided \intersect {c}) :
            told' = [told EXCEPT ![c] = answer]

\* The model hears of a call once, whoever speaks first.
LEMMA TellMaps ==
  ASSUME NEW c \in Calls, NEW answer \in {"error"} \union (decided \intersect {c}),
         TellModel(c, answer), UNCHANGED decided
  PROVE  BoundaryStep
BY DEF TellModel, BoundaryStep

LEMMA StepMaps ==
  ASSUME BackChannelAssumption, Inv, [Next]_vars
  PROVE  BoundaryStep
<1>1. ASSUME UNCHANGED <<decided, told>> PROVE BoundaryStep
  BY <1>1 DEF BoundaryStep
<1>2. ASSUME NEW s \in Spawns,
             Register(s) \/ CreateSession(s) \/ SubmitPrompt(s) \/ Drain(s) \/ DrainTimeout(s)
             \/ Abort(s) \/ AnswerMcp(s) \/ StreamEnds(s)
      PROVE  BoundaryStep
  BY <1>1, <1>2
  DEF Register, CreateSession, SubmitPrompt, Drain, DrainTimeout, Abort, AnswerMcp, StreamEnds, Finish
<1>3. ASSUME NEW s \in Spawns, AnswerPermission(s) PROVE BoundaryStep
  <2>1. current[s] \in decided /\ current[s] \in Calls
    BY <1>3 DEF AnswerPermission, Inv, Places, Answering, Typed
  <2> QED
    BY <1>1, <1>3, <2>1, TellMaps DEF AnswerPermission, Finish
<1>4. ASSUME NEW s \in Spawns, Decide(s) PROVE BoundaryStep
  BY <1>4 DEF Decide, BoundaryStep, Inv, Places, Out, Typed
<1>5. ASSUME NEW c \in Calls, Propose(c) PROVE BoundaryStep
  BY <1>1, <1>5, TellMaps DEF Propose
<1>6. ASSUME NEW c \in Calls, HandlerReturns(c) PROVE BoundaryStep
  <2>1. handler[c] \in {"error"} \union (decided \intersect {c})
    BY <1>6 DEF HandlerReturns, Inv, Handled
  <2> QED
    BY <1>6, <2>1, TellMaps DEF HandlerReturns
<1>7. ASSUME NEW c \in Calls, HandlerTimeout(c) \/ ProxyTimeout(c) PROVE BoundaryStep
  BY <1>7, TellMaps DEF HandlerTimeout, ProxyTimeout
<1>8. ASSUME NEW c \in Calls, RequestPermission(c) PROVE BoundaryStep
  BY <1>1, <1>8 DEF RequestPermission
<1>9. CASE CloseAdapter \/ UNCHANGED vars
  BY <1>1, <1>9 DEF CloseAdapter, vars
<1> QED
  BY <1>2, <1>3, <1>4, <1>5, <1>6, <1>7, <1>8, <1>9 DEF Next, Generator

\* A model behind OpenCode hears the caller's decision about the call it made,
\* or an error, once: a decision that comes after a time-out, after the end of
\* its spawn or after the shutdown of the adapter is told to nobody else.
THEOREM ImplementsTheBoundary == BackChannelAssumption => (Spec => ImplementsBoundary)
<1>1. Init => Boundary!BoundaryInit
  BY DEF Init, Boundary!BoundaryInit
<1>2. BoundaryStep => [Boundary!BoundaryNext]_<<decided, told>>
  BY DEF BoundaryStep, Boundary!BoundaryNext, Boundary!Decide, Boundary!Tell
<1>3. BackChannelAssumption /\ Init => Inv
  BY InitInv
<1>4. BackChannelAssumption /\ Inv /\ [Next]_vars => Inv'
  BY InvNext
<1>5. BackChannelAssumption /\ Inv /\ [Next]_vars => BoundaryStep
  BY StepMaps
<1>6. CASE BackChannelAssumption
  <2>1. Init /\ [][Next]_vars => [][Boundary!BoundaryNext]_<<decided, told>>
    BY <1>2, <1>3, <1>4, <1>5, <1>6, PTL
  <2> QED
    BY <1>1, <2>1, PTL DEF Spec, ImplementsBoundary, Boundary!BoundarySpec
<1> QED
  BY <1>6

=============================================================================
