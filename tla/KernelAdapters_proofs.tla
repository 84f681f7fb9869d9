------------------------- MODULE KernelAdapters_proofs -------------------------
(***************************************************************************)
(* What the kernel adapters guarantee for any tool calls, threads, spawns, *)
(* sessions and bounds: every one implements the proposal boundary, takes  *)
(* for an answer what answers its request, and keeps its objects well      *)
(* formed.  A component moves alone, so each has an inductive invariant of *)
(* its own.                                                                *)
(***************************************************************************)
EXTENDS KernelAdapters, Naturals, FiniteSetTheorems, SequenceTheorems, TLAPS


-----------------------------------------------------------------------------
(* Codex: type correctness                                                 *)

TypeInv ==
  /\ TypeOK
  /\ inbound \in [Threads -> Seq(Actions \union {"end"})]
  /\ current \in [Threads -> Actions \union {NoAction}]
  /\ verdict \in [Actions -> {"none", "approve", "deny"}]
  /\ told \in [Actions -> {"none", "accept", "acceptForSession", "decline"}]
  /\ mentions \subseteq Actions

LEMMA TypeInit == Init => TypeInv
BY DEF Init, TypeInv, TypeOK, Phases

\* The answer of _approval_response is one of the protocol's decisions.
LEMMA ResponseType ==
  ASSUME NEW a
  PROVE  ApprovalResponse(a) \in {"accept", "acceptForSession", "decline"}
BY DEF ApprovalResponse

LEMMA TypeNext == TypeInv /\ [Next]_vars => TypeInv'
<1> SUFFICES ASSUME TypeInv, [Next]_vars PROVE TypeInv'
  OBVIOUS
<1> USE DEF TypeInv, TypeOK, Phases, decisions
<1>1. ASSUME NEW t \in Threads, StartThread(t) PROVE TypeInv'
  BY <1>1 DEF StartThread, Request, Goto
<1>2. ASSUME NEW t \in Threads, Resume(t) PROVE TypeInv'
  <2>1. CASE phase[t] = "starting" /\ reply[t] = "ok" /\ Request(t, "goal")
             /\ registered' = registered \union {t} /\ UNCHANGED turn
    BY <1>2, <2>1 DEF Resume, Request, Goto
  <2>2. CASE phase[t] = "goal" /\ Request(t, "turn") /\ UNCHANGED registered
             /\ turn' = [turn EXCEPT ![t] = IF server = "up" THEN "running" ELSE @]
    BY <1>2, <2>2 DEF Resume, Request, Goto
  <2>3. CASE phase[t] = "turn" /\ Goto(t, "streaming") /\ UNCHANGED <<registered, turn>>
             /\ reply' = [reply EXCEPT ![t] = "none"]
    BY <1>2, <2>3 DEF Resume, Goto
  <2>4. CASE Finish(t) /\ UNCHANGED turn /\ reply' = [reply EXCEPT ![t] = "none"]
    BY <1>2, <2>4 DEF Resume, Goto, Finish
  <2> QED
    BY <1>2, <2>1, <2>2, <2>3, <2>4 DEF Resume
<1>3. ASSUME NEW t \in Threads, Take(t) PROVE TypeInv'
  <2>1. inbound' \in [Threads -> Seq(Actions \union {"end"})]
    BY <1>3 DEF Take
  <2>2. CASE Head(inbound[t]) \in Actions /\ current' = [current EXCEPT ![t] = Head(inbound[t])]
             /\ Goto(t, "deciding") /\ UNCHANGED registered
    BY <1>3, <2>1, <2>2 DEF Take, Goto
  <2>3. CASE Head(inbound[t]) = "end" /\ Finish(t) /\ UNCHANGED current
    BY <1>3, <2>1, <2>3 DEF Take, Goto, Finish
  <2> QED
    BY <1>3, <2>2, <2>3 DEF Take
<1>4. ASSUME NEW t \in Threads, Decide(t) PROVE TypeInv'
  BY <1>4 DEF Decide, Goto
<1>5. ASSUME NEW t \in Threads, Answer(t) PROVE TypeInv'
  <2>1. current' \in [Threads -> Actions \union {NoAction}] /\ current[t] \in Actions
    BY <1>5 DEF Answer
  <2>2. ApprovalResponse(current[t]) \in {"accept", "acceptForSession", "decline"}
    BY ResponseType
  <2>3. CASE current[t] \notin Unnumbered /\ server = "up"
    <3>1. told' = [told EXCEPT ![current[t]] = ApprovalResponse(current[t])]
      BY <1>5, <2>3 DEF Answer
    <3>2. told' \in [Actions -> {"none", "accept", "acceptForSession", "decline"}]
      BY <2>2, <3>1
    <3>3. granted' \subseteq Threads /\ Goto(t, "streaming") /\ UNCHANGED registered
      BY <1>5, <2>3 DEF Answer
    <3> QED
      BY <1>5, <2>1, <3>2, <3>3 DEF Answer, Goto
  <2>4. CASE current[t] \notin Unnumbered /\ server = "down"
    BY <1>5, <2>1, <2>4 DEF Answer, Goto, Finish
  <2>5. CASE current[t] \in Unnumbered
    <3>1. Goto(t, "streaming") /\ UNCHANGED <<registered, told, granted>>
      BY <1>5, <2>5 DEF Answer
    <3> QED
      BY <1>5, <2>1, <3>1 DEF Answer, Goto
  <2> QED
    BY <1>5, <2>3, <2>4, <2>5 DEF Answer
<1>6. ASSUME NEW t \in Threads, Abort(t) PROVE TypeInv'
  BY <1>6 DEF Abort, Goto, Finish
<1>7. ASSUME NEW t \in Threads, Reply(t) PROVE TypeInv'
  BY <1>7 DEF Reply
<1>8. ASSUME NEW t \in Threads, TurnEnds(t) PROVE TypeInv'
  BY <1>8 DEF TurnEnds, Dispatch
<1>9. ASSUME NEW a \in Actions, RequestApproval(a) PROVE TypeInv'
  BY <1>9, ConstantsAssumption DEF RequestApproval, Dispatch
<1>10. ASSUME NEW a \in Actions, Execute(a) PROVE TypeInv'
  BY <1>10 DEF Execute
<1>11. CASE Close
  BY <1>11 DEF Close
<1>12. CASE ServerExits
  BY <1>12 DEF ServerExits
<1>13. CASE UNCHANGED vars
  BY <1>13 DEF vars
<1> QED
  BY <1>1, <1>2, <1>3, <1>4, <1>5, <1>6, <1>7, <1>8, <1>9, <1>10, <1>11, <1>12, <1>13
  DEF Next, Generator

\* Each variable of the client holds what its objects may hold, and a thread
\* has a queue exactly from thread/start to the end of its generator.
THEOREM TypeCorrect == Spec => []TypeOK
<1>1. TypeInv => TypeOK
  BY DEF TypeInv
<1> QED
  BY <1>1, TypeInit, TypeNext, PTL DEF Spec

-----------------------------------------------------------------------------
(* Approvals.  An action waits in at most one place, the queue of its      *)
(* thread or the proposal its generator has yielded, and is undecided and  *)
(* unanswered while it waits; only so does a decision, once taken, never   *)
(* change under an action that is already running.                         *)

Deciding(t) == phase[t] \in {"deciding", "answering"}

Positions(t) == 1..Len(inbound[t])

QueuedOnce ==
  \A t \in Threads : \A i, j \in Positions(t) :
    inbound[t][i] \in Actions /\ inbound[t][i] = inbound[t][j] => i = j

QueuedOpen ==
  \A t \in Threads : \A i \in Positions(t) :
    LET a == inbound[t][i]
    IN  a \in Actions =>
          Owner[a] = t /\ a \in asked /\ verdict[a] = "none" /\ told[a] = "none"

CurrentOpen ==
  \A t \in Threads :
    Deciding(t) =>
      /\ Owner[current[t]] = t /\ current[t] \in asked /\ told[current[t]] = "none"
      /\ phase[t] = "deciding" => verdict[current[t]] = "none"
      /\ \A i \in Positions(t) : inbound[t][i] # current[t]

AnswersFollow ==
  \A a \in Actions :
    /\ verdict[a] # "none" \/ told[a] # "none" => a \in asked
    /\ told[a] \in {"accept", "acceptForSession"} => verdict[a] = "approve"

GrantsFollow ==
  \A t \in granted : \E b \in mentions : Owner[b] = t /\ verdict[b] = "approve"

RunsFollow ==
  \A a \in ran : verdict[a] = "approve" \/ (a \notin asked /\ Owner[a] \in granted)

SafeInv ==
  QueuedOnce /\ QueuedOpen /\ CurrentOpen /\ AnswersFollow /\ GrantsFollow /\ RunsFollow

LEMMA SafeInit == Init => SafeInv
BY DEF Init, SafeInv, QueuedOnce, QueuedOpen, CurrentOpen, AnswersFollow, GrantsFollow, RunsFollow,
       Deciding, Positions

\* A step that moves no request and no decision is safe if no generator starts
\* to decide in it.
LEMMA SafeElsewhere ==
  ASSUME TypeInv, SafeInv, UNCHANGED <<inbound, current, decisions, asked, ran>>,
         \A t \in Threads : Deciding(t)' => phase'[t] = phase[t]
  PROVE  SafeInv'
BY DEF SafeInv, QueuedOnce, QueuedOpen, CurrentOpen, AnswersFollow, GrantsFollow, RunsFollow,
       Deciding, Positions, decisions, TypeInv, TypeOK

\* A request moves from the queue to the generator, or the generator ends.
LEMMA SafeTake ==
  ASSUME TypeInv, SafeInv, NEW t \in Threads, Take(t)
  PROVE  SafeInv'
<1>1. /\ inbound[t] \in Seq(Actions \union {"end"}) /\ inbound[t] # <<>>
      /\ inbound' = [inbound EXCEPT ![t] = Tail(inbound[t])]
      /\ UNCHANGED <<decisions, asked, ran>>
  BY DEF TypeInv, Take
<1>2. /\ Len(inbound[t]) \in Nat /\ Len(inbound[t]) > 0 /\ Head(inbound[t]) = inbound[t][1]
      /\ Len(inbound'[t]) = Len(inbound[t]) - 1
      /\ \A i \in 1..Len(inbound'[t]) : inbound'[t][i] = inbound[t][i + 1]
  BY <1>1 DEF TypeInv
<1>3. \A u \in Threads \ {t} : inbound'[u] = inbound[u]
  BY <1>1 DEF TypeInv
<1>4. \A i \in Positions(t)' :
        i \in Nat /\ i + 1 # 1 /\ i + 1 \in Positions(t) /\ inbound'[t][i] = inbound[t][i + 1]
  BY <1>2 DEF Positions
<1>5. \A i, j \in Positions(t) : inbound[t][i] \in Actions /\ inbound[t][i] = inbound[t][j] => i = j
  BY DEF SafeInv, QueuedOnce
<1>6. QueuedOnce' /\ QueuedOpen'
  <2>1. \A i \in Positions(t)' : i + 1 \in Positions(t) /\ i \in Nat
    BY <1>4
  <2>2. \A i, j \in Positions(t)' :
          inbound'[t][i] \in Actions /\ inbound'[t][i] = inbound'[t][j] => i = j
    <3>1. SUFFICES ASSUME NEW i \in Positions(t)', NEW j \in Positions(t)',
                          inbound'[t][i] \in Actions, inbound'[t][i] = inbound'[t][j]
                   PROVE  i = j
      OBVIOUS
    <3>2. i + 1 = j + 1
      BY <1>4, <1>5, <3>1
    <3> QED
      BY <1>4, <3>2
  <2>3. QueuedOnce'
    BY <1>3, <2>2 DEF SafeInv, QueuedOnce, Positions
  <2>4. QueuedOpen'
    <3>1. ASSUME NEW u \in Threads, NEW i \in Positions(u)'
          PROVE  \E j \in Positions(u) : inbound[u][j] = inbound'[u][i]
      <4>1. CASE u = t
        BY <1>4, <3>1, <4>1
      <4>2. CASE u # t
        BY <1>3, <3>1, <4>2 DEF Positions
      <4> QED
        BY <4>1, <4>2
    <3>2. ASSUME NEW u \in Threads, NEW i \in Positions(u)', inbound'[u][i] \in Actions
          PROVE  /\ Owner[inbound'[u][i]] = u /\ inbound'[u][i] \in asked'
                 /\ verdict'[inbound'[u][i]] = "none" /\ told'[inbound'[u][i]] = "none"
      <4>1. PICK j \in Positions(u) : inbound[u][j] = inbound'[u][i]
        BY <3>1
      <4>2. /\ Owner[inbound[u][j]] = u /\ inbound[u][j] \in asked
            /\ verdict[inbound[u][j]] = "none" /\ told[inbound[u][j]] = "none"
        BY <3>2, <4>1 DEF SafeInv, QueuedOpen
      <4>3. asked' = asked /\ verdict' = verdict /\ told' = told
        BY <1>1 DEF decisions
      <4> QED
        BY <4>1, <4>2, <4>3
    <3> QED
      BY <3>2 DEF QueuedOpen
  <2> QED
    BY <2>3, <2>4
<1>7. CurrentOpen'
  <2>1. \A u \in Threads \ {t} : phase'[u] = phase[u] /\ current'[u] = current[u]
    BY DEF Take, Goto, Finish, TypeInv, TypeOK
  <2>4. \A u \in Threads \ {t} :
          Deciding(u)' =>
            /\ Owner[current'[u]] = u /\ current'[u] \in asked' /\ told'[current'[u]] = "none"
            /\ phase'[u] = "deciding" => verdict'[current'[u]] = "none"
            /\ \A i \in Positions(u)' : inbound'[u][i] # current'[u]
    BY <1>1, <1>3, <2>1 DEF SafeInv, CurrentOpen, Deciding, Positions, decisions
  <2>2. CASE Head(inbound[t]) \in Actions /\ current' = [current EXCEPT ![t] = Head(inbound[t])]
             /\ Goto(t, "deciding")
    <3>1. current'[t] = inbound[t][1] /\ inbound[t][1] \in Actions /\ phase'[t] = "deciding"
      BY <1>2, <2>2 DEF Goto, TypeInv, TypeOK
    <3>2. 1 \in Positions(t)
      BY <1>2 DEF Positions
    <3>3. \A i \in Positions(t)' : inbound'[t][i] # inbound[t][1]
      BY <1>4, <1>5, <3>1, <3>2
    <3>4. /\ Owner[inbound[t][1]] = t /\ inbound[t][1] \in asked
          /\ verdict[inbound[t][1]] = "none" /\ told[inbound[t][1]] = "none"
      BY <3>1, <3>2 DEF SafeInv, QueuedOpen
    <3>5. /\ Owner[current'[t]] = t /\ current'[t] \in asked' /\ told'[current'[t]] = "none"
          /\ verdict'[current'[t]] = "none"
      BY <1>1, <3>1, <3>4 DEF decisions
    <3>6. \A i \in Positions(t)' : inbound'[t][i] # current'[t]
      BY <3>1, <3>3
    <3> QED
      BY <2>4, <3>5, <3>6 DEF CurrentOpen
  <2>3. CASE Finish(t)
    <3>1. phase'[t] = "ended"
      BY <2>3 DEF Finish, Goto, TypeInv, TypeOK
    <3>2. ~Deciding(t)'
      BY <3>1 DEF Deciding
    <3> QED
      BY <2>4, <3>2 DEF CurrentOpen
  <2> QED
    BY <2>2, <2>3 DEF Take
<1>8. AnswersFollow' /\ GrantsFollow' /\ RunsFollow'
  BY <1>1 DEF SafeInv, AnswersFollow, GrantsFollow, RunsFollow, decisions
<1> QED
  BY <1>6, <1>7, <1>8 DEF SafeInv

\* A decision concerns the one undecided proposal its generator has yielded.
LEMMA SafeDecide ==
  ASSUME TypeInv, SafeInv, NEW t \in Threads, Decide(t)
  PROVE  SafeInv'
<1> DEFINE d == current[t]
<1>1. /\ d \in Actions /\ Owner[d] = t /\ d \in asked
      /\ verdict[d] = "none" /\ told[d] = "none"
      /\ \A i \in Positions(t) : inbound[t][i] # d
  BY DEF Decide, SafeInv, CurrentOpen, Deciding, TypeInv, TypeOK
<1>2. /\ UNCHANGED <<inbound, current, asked, told, granted, ran>>
      /\ mentions \subseteq mentions'
      /\ \A a \in Actions \ {d} : verdict'[a] = verdict[a]
  BY DEF Decide, TypeInv
<1>3. phase'[t] = "answering" /\ \A u \in Threads \ {t} : phase'[u] = phase[u]
  BY DEF Decide, Goto, TypeInv, TypeOK
<1>4. QueuedOnce'
  BY <1>2 DEF SafeInv, QueuedOnce, Positions
<1>5. QueuedOpen'
  <2>1. ASSUME NEW u \in Threads, NEW i \in Positions(u), inbound[u][i] \in Actions
        PROVE  inbound[u][i] # d
    BY <1>1, <2>1 DEF SafeInv, QueuedOpen
  <2> QED
    BY <1>2, <2>1 DEF SafeInv, QueuedOpen, Positions
<1>6. CurrentOpen'
  <2>1. ASSUME NEW u \in Threads \ {t}, Deciding(u)'
        PROVE  /\ Owner[current[u]] = u /\ current[u] \in asked /\ told[current[u]] = "none"
               /\ phase[u] = "deciding" => verdict[current[u]] = "none"
               /\ \A i \in Positions(u) : inbound[u][i] # current[u]
               /\ current[u] \in Actions \ {d}
    BY <1>1, <1>3, <2>1 DEF SafeInv, CurrentOpen, Deciding, TypeInv, TypeOK
  <2>2. \A u \in Threads \ {t} : Positions(u)' = Positions(u)
    BY <1>2 DEF Positions
  <2> QED
    BY <1>1, <1>2, <1>3, <2>1, <2>2 DEF CurrentOpen, Deciding, Positions
<1>7. AnswersFollow'
  BY <1>1, <1>2 DEF SafeInv, AnswersFollow
<1>8. GrantsFollow'
  <2>1. ASSUME NEW u \in granted
        PROVE  \E b \in mentions' : Owner[b] = u /\ verdict'[b] = "approve"
    <3>1. PICK b \in mentions : Owner[b] = u /\ verdict[b] = "approve"
      BY DEF SafeInv, GrantsFollow
    <3>2. b \in Actions \ {d}
      BY <1>1, <3>1 DEF TypeInv
    <3> QED
      BY <1>2, <3>1, <3>2
  <2> QED
    BY <1>2, <2>1 DEF GrantsFollow
<1>9. RunsFollow'
  <2>1. d \notin ran
    BY <1>1 DEF SafeInv, RunsFollow
  <2> QED
    BY <1>2, <2>1 DEF SafeInv, RunsFollow, TypeInv, TypeOK
<1> QED
  BY <1>4, <1>5, <1>6, <1>7, <1>8, <1>9 DEF SafeInv

\* An answer concerns the proposal that was decided; it accepts only what the
\* caller approved, and grants the thread only together with a mention.
LEMMA SafeAnswer ==
  ASSUME TypeInv, SafeInv, NEW t \in Threads, Answer(t)
  PROVE  SafeInv'
<1> DEFINE d == current[t]
<1>1. /\ d \in Actions /\ Owner[d] = t /\ d \in asked /\ told[d] = "none"
      /\ \A i \in Positions(t) : inbound[t][i] # d
  BY DEF Answer, SafeInv, CurrentOpen, Deciding, TypeInv, TypeOK
<1>2. /\ UNCHANGED <<inbound, verdict, mentions, asked, ran>>
      /\ \A u \in Threads \ {t} : phase'[u] = phase[u] /\ current'[u] = current[u]
      /\ ~Deciding(t)'
  BY DEF Answer, Goto, Finish, Deciding, TypeInv, TypeOK
<1>3. /\ \A a \in Actions \ {d} : told'[a] = told[a]
      /\ told'[d] \in {"accept", "acceptForSession"} => verdict[d] = "approve"
  <2>1. CASE d \notin Unnumbered /\ server = "up"
    <3>1. told'[d] = ApprovalResponse(d) /\ \A a \in Actions \ {d} : told'[a] = told[a]
      BY <1>1, <2>1 DEF Answer, TypeInv
    <3> QED
      BY <3>1 DEF ApprovalResponse
  <2>2. CASE d \in Unnumbered \/ server = "down"
    BY <1>1, <2>2 DEF Answer
  <2> QED
    BY <2>1, <2>2 DEF Answer
<1>4. QueuedOnce'
  BY <1>2 DEF SafeInv, QueuedOnce, Positions
<1>5. QueuedOpen'
  <2>1. ASSUME NEW u \in Threads, NEW i \in Positions(u), inbound[u][i] \in Actions
        PROVE  inbound[u][i] # d
    BY <1>1, <2>1 DEF SafeInv, QueuedOpen
  <2> QED
    BY <1>2, <1>3, <2>1 DEF SafeInv, QueuedOpen, Positions
<1>6. CurrentOpen'
  <2>1. ASSUME NEW u \in Threads \ {t}, Deciding(u)'
        PROVE  /\ Owner[current[u]] = u /\ current[u] \in asked /\ told[current[u]] = "none"
               /\ phase[u] = "deciding" => verdict[current[u]] = "none"
               /\ \A i \in Positions(u) : inbound[u][i] # current[u]
               /\ current[u] \in Actions \ {d}
    BY <1>1, <1>2, <2>1 DEF SafeInv, CurrentOpen, Deciding, TypeInv, TypeOK
  <2>2. \A u \in Threads \ {t} : Positions(u)' = Positions(u)
    BY <1>2 DEF Positions
  <2> QED
    BY <1>2, <1>3, <2>1, <2>2 DEF CurrentOpen
<1>7. AnswersFollow'
  BY <1>1, <1>2, <1>3 DEF SafeInv, AnswersFollow
<1>8. granted \subseteq granted' /\ GrantsFollow'
  <2>1. CASE granted' = granted
    BY <1>2, <2>1 DEF SafeInv, GrantsFollow
  <2>2. CASE granted' = granted \union {t} /\ ApprovalResponse(d) = "acceptForSession"
    <3>1. d \in mentions /\ verdict[d] = "approve"
      BY <2>2 DEF ApprovalResponse
    <3> QED
      BY <1>1, <1>2, <2>2, <3>1 DEF SafeInv, GrantsFollow
  <2> QED
    BY <2>1, <2>2 DEF Answer
<1>9. RunsFollow'
  BY <1>2, <1>8 DEF SafeInv, RunsFollow
<1> QED
  BY <1>4, <1>5, <1>6, <1>7, <1>8, <1>9 DEF SafeInv

\* A message that is dispatched goes behind the others, or nowhere.
LEMMA DispatchAppends ==
  ASSUME TypeInv, NEW t \in Threads, NEW msg \in Actions \union {"end"}, Dispatch(t, msg)
  PROVE  /\ \A u \in Threads \ {t} : inbound'[u] = inbound[u]
         /\ \A i \in Positions(t)' :
              \/ i \in Positions(t) /\ inbound'[t][i] = inbound[t][i]
              \/ i = Len(inbound[t]) + 1 /\ inbound'[t][i] = msg
<1>1. inbound[t] \in Seq(Actions \union {"end"})
  BY DEF TypeInv
<1>2. CASE inbound' = inbound
  BY <1>1, <1>2 DEF Positions
<1>3. CASE inbound' = [inbound EXCEPT ![t] = Append(inbound[t], msg)]
  BY <1>1, <1>3 DEF Positions, TypeInv
<1> QED
  BY <1>2, <1>3 DEF Dispatch

\* An action that asks was not asked about before, so it waits nowhere, and
\* nothing was decided or answered about it.
LEMMA SafeRequest ==
  ASSUME TypeInv, SafeInv, NEW a \in Actions, RequestApproval(a)
  PROVE  SafeInv'
<1> DEFINE t == Owner[a]
<1>1. t \in Threads /\ a \notin asked /\ a \notin ran /\ asked' = asked \union {a}
  BY ConstantsAssumption DEF RequestApproval
<1>2. UNCHANGED <<phase, current, verdict, mentions, told, granted, ran>> /\ Dispatch(t, a)
  BY DEF RequestApproval, decisions
<1>3. verdict[a] = "none" /\ told[a] = "none"
  BY <1>1 DEF SafeInv, AnswersFollow
<1>4. /\ \A u \in Threads \ {t} : inbound'[u] = inbound[u]
      /\ \A i \in Positions(t)' :
           \/ i \in Positions(t) /\ inbound'[t][i] = inbound[t][i]
           \/ i = Len(inbound[t]) + 1 /\ inbound'[t][i] = a
  BY <1>1, <1>2, DispatchAppends
<1>5. \A u \in Threads : \A i \in Positions(u) : inbound[u][i] # a
  BY <1>1 DEF SafeInv, QueuedOpen
<1>6. QueuedOnce'
  <2>1. \A i, j \in Positions(t)' :
          inbound'[t][i] \in Actions /\ inbound'[t][i] = inbound'[t][j] => i = j
    BY <1>1, <1>4, <1>5 DEF SafeInv, QueuedOnce
  <2>2. \A u \in Threads \ {t} : \A i, j \in Positions(u)' :
          inbound'[u][i] \in Actions /\ inbound'[u][i] = inbound'[u][j] => i = j
    BY <1>4 DEF SafeInv, QueuedOnce, Positions
  <2> QED
    BY <2>1, <2>2 DEF QueuedOnce
<1>7. QueuedOpen'
  <2>1. ASSUME NEW u \in Threads, NEW i \in Positions(u)', inbound'[u][i] \in Actions
        PROVE  LET b == inbound'[u][i]
               IN  Owner[b] = u /\ b \in asked' /\ verdict[b] = "none" /\ told[b] = "none"
    <3>1. CASE i \in Positions(u) /\ inbound'[u][i] = inbound[u][i]
      BY <1>1, <2>1, <3>1 DEF SafeInv, QueuedOpen
    <3>2. CASE u = t /\ inbound'[u][i] = a
      BY <1>1, <1>3, <3>2
    <3> QED
      BY <1>4, <2>1, <3>1, <3>2 DEF Positions
  <2> QED
    BY <1>2, <2>1 DEF QueuedOpen
<1>8. CurrentOpen'
  <2>1. ASSUME NEW u \in Threads, Deciding(u)
        PROVE  \A i \in Positions(u)' : inbound'[u][i] # current[u]
    <3>1. current[u] # a /\ \A i \in Positions(u) : inbound[u][i] # current[u]
      BY <1>1, <2>1 DEF SafeInv, CurrentOpen
    <3> QED
      BY <1>4, <3>1 DEF Positions
  <2>2. \A u \in Threads : Deciding(u)' => Deciding(u)
    BY <1>2 DEF Deciding
  <2> QED
    BY <1>1, <1>2, <2>1, <2>2 DEF SafeInv, CurrentOpen
<1>9. AnswersFollow' /\ GrantsFollow' /\ RunsFollow'
  BY <1>1, <1>2 DEF SafeInv, AnswersFollow, GrantsFollow, RunsFollow
<1> QED
  BY <1>6, <1>7, <1>8, <1>9 DEF SafeInv

\* The end of a turn is no action.
LEMMA SafeTurnEnds ==
  ASSUME TypeInv, SafeInv, NEW t \in Threads, TurnEnds(t)
  PROVE  SafeInv'
<1>1. UNCHANGED <<phase, current, verdict, mentions, asked, told, granted, ran>>
  BY DEF TurnEnds, decisions
<1>2. /\ \A u \in Threads \ {t} : inbound'[u] = inbound[u]
      /\ \A i \in Positions(t)' :
           \/ i \in Positions(t) /\ inbound'[t][i] = inbound[t][i]
           \/ i = Len(inbound[t]) + 1 /\ inbound'[t][i] = "end"
  BY DispatchAppends DEF TurnEnds
<1>3. \A u \in Threads : \A i \in Positions(u)' : inbound'[u][i] \in Actions =>
        i \in Positions(u) /\ inbound'[u][i] = inbound[u][i]
  BY <1>2, ConstantsAssumption DEF Positions
<1>4. QueuedOnce'
  BY <1>3 DEF SafeInv, QueuedOnce
<1>5. QueuedOpen'
  BY <1>1, <1>3 DEF SafeInv, QueuedOpen
<1>6. CurrentOpen'
  <2>1. \A u \in Threads : Deciding(u)' => Deciding(u) /\ current[u] \in Actions
    BY <1>1 DEF Deciding, TypeInv, TypeOK
  <2> QED
    BY <1>1, <1>3, <2>1 DEF SafeInv, CurrentOpen
<1>7. AnswersFollow' /\ GrantsFollow' /\ RunsFollow'
  BY <1>1 DEF SafeInv, AnswersFollow, GrantsFollow, RunsFollow
<1> QED
  BY <1>4, <1>5, <1>6, <1>7 DEF SafeInv

\* Codex runs what it was told to, or what it need not ask about.
LEMMA SafeExecute ==
  ASSUME TypeInv, SafeInv, NEW a \in Actions, Execute(a)
  PROVE  SafeInv'
<1>1. UNCHANGED <<phase, inbound, current, verdict, mentions, asked, told, granted>>
  BY DEF Execute, decisions
<1>2. QueuedOnce' /\ QueuedOpen' /\ CurrentOpen' /\ AnswersFollow' /\ GrantsFollow'
  BY <1>1 DEF SafeInv, QueuedOnce, QueuedOpen, CurrentOpen, AnswersFollow, GrantsFollow,
              Deciding, Positions
<1>3. RunsFollow'
  BY <1>1 DEF Execute, SafeInv, AnswersFollow, RunsFollow
<1> QED
  BY <1>2, <1>3 DEF SafeInv

LEMMA SafeNext == TypeInv /\ SafeInv /\ [Next]_vars => SafeInv'
<1> SUFFICES ASSUME TypeInv, SafeInv, [Next]_vars PROVE SafeInv'
  OBVIOUS
<1>1. ASSUME NEW t \in Threads, StartThread(t) \/ Resume(t) \/ Abort(t) \/ Reply(t)
      PROVE  SafeInv'
  <2>1. UNCHANGED <<inbound, current, decisions, asked, ran>>
    BY <1>1 DEF StartThread, Resume, Abort, Reply
  <2>2. \A u \in Threads : Deciding(u)' => phase'[u] = phase[u]
    BY <1>1 DEF StartThread, Resume, Abort, Reply, Request, Finish, Goto, Deciding, TypeInv, TypeOK
  <2> QED
    BY <2>1, <2>2, SafeElsewhere
<1>2. CASE Close \/ ServerExits
  BY <1>2, SafeElsewhere DEF Close, ServerExits
<1>3. CASE UNCHANGED vars
  BY <1>3, SafeElsewhere DEF vars, decisions
<1> QED
  BY <1>1, <1>2, <1>3, SafeTake, SafeDecide, SafeAnswer, SafeRequest, SafeTurnEnds, SafeExecute
  DEF Next, Generator

\* Codex runs an action only when the caller approved it, or approved an
\* earlier one of the thread with a result that mentions the session.
THEOREM ApprovalsHold == Spec => []NothingRunsUnapproved
<1>1. ASSUME TypeInv, SafeInv, NEW a \in ran, verdict[a] # "approve"
      PROVE  /\ verdict[a] = "none"
             /\ \E b \in mentions : Owner[b] = Owner[a] /\ verdict[b] = "approve"
  <2>1. a \in Actions
    BY <1>1 DEF TypeInv, TypeOK
  <2>2. a \notin asked /\ Owner[a] \in granted
    BY <1>1 DEF SafeInv, RunsFollow
  <2>3. verdict[a] = "none"
    BY <1>1, <2>1, <2>2 DEF SafeInv, AnswersFollow
  <2>4. \E b \in mentions : Owner[b] = Owner[a] /\ verdict[b] = "approve"
    BY <1>1, <2>2 DEF SafeInv, GrantsFollow
  <2> QED
    BY <2>3, <2>4
<1>2. TypeInv /\ SafeInv => NothingRunsUnapproved
  BY <1>1 DEF NothingRunsUnapproved
<1> QED
  BY <1>2, TypeInit, TypeNext, SafeInit, SafeNext, PTL DEF Spec

-----------------------------------------------------------------------------
(* The boundary.  Only two steps change what the mapping shows: the caller *)
(* takes a decision, and Codex hears it.                                   *)

Decided == {a \in Actions : verdict[a] # "none"}

HeardOf(v, w, a) ==
  IF w = "none" THEN "none"
  ELSE IF v = "none" /\ w = "decline" THEN "error"
  ELSE IF (v = "approve") = (w # "decline") THEN a
  ELSE "wrong"

Heard ==
  [a \in Actions |->
     IF told[a] = "none" THEN "none"
     ELSE IF verdict[a] = "none" /\ told[a] = "decline" THEN "error"
     ELSE IF (verdict[a] = "approve") = (told[a] # "decline") THEN a
     ELSE "wrong"]

LEMMA HeardIs ==
  /\ Heard = [a \in Actions |-> HeardOf(verdict[a], told[a], a)]
  /\ Heard' = [a \in Actions |-> HeardOf(verdict'[a], told'[a], a)]
BY DEF Heard, HeardOf

BoundaryStep ==
  \/ UNCHANGED <<Decided, Heard>>
  \/ \E d \in Actions : d \notin Decided /\ Decided' = Decided \union {d} /\ UNCHANGED Heard
  \/ \E d \in Actions :
       /\ Heard[d] = "none"
       /\ \E answer \in {"error"} \union (Decided \intersect {d}) : Heard' = [Heard EXCEPT ![d] = answer]
       /\ UNCHANGED Decided

\* A decision shows as such, or as nothing when the caller took none.
LEMMA DecideMaps ==
  ASSUME TypeInv, SafeInv, NEW t \in Threads, Decide(t)
  PROVE  BoundaryStep
<1> DEFINE d == current[t]
<1>1. d \in Actions /\ verdict[d] = "none" /\ told[d] = "none"
  BY DEF Decide, SafeInv, CurrentOpen, Deciding, TypeInv, TypeOK
<1>2. PICK v \in {"approve", "deny", "none"} : verdict' = [verdict EXCEPT ![d] = v]
  BY DEF Decide
<1>3. told' = told
  BY DEF Decide
<1>4. \A a \in Actions : HeardOf(verdict'[a], told'[a], a) = HeardOf(verdict[a], told[a], a)
  BY <1>1, <1>2, <1>3 DEF HeardOf, TypeInv
<1>5. Heard' = Heard
  BY <1>4, HeardIs
<1>6. CASE v = "none"
  <2>1. Decided' = Decided
    BY <1>1, <1>2, <1>6 DEF Decided, TypeInv
  <2> QED
    BY <1>5, <2>1 DEF BoundaryStep
<1>7. CASE v # "none"
  <2>1. d \notin Decided /\ Decided' = Decided \union {d}
    BY <1>1, <1>2, <1>7 DEF Decided, TypeInv
  <2> QED
    BY <1>1, <1>5, <2>1 DEF BoundaryStep
<1> QED
  BY <1>6, <1>7

\* The response tells Codex the decision about its request, or declines it
\* for want of one.
LEMMA AnswerMaps ==
  ASSUME TypeInv, SafeInv, NEW t \in Threads, Answer(t)
  PROVE  BoundaryStep
<1> DEFINE d == current[t]
<1>1. d \in Actions /\ told[d] = "none" /\ verdict' = verdict
  BY DEF Answer, SafeInv, CurrentOpen, Deciding, TypeInv, TypeOK
<1>2. Decided' = Decided
  BY <1>1 DEF Decided
<1>3. CASE d \notin Unnumbered /\ server = "up"
  <2> DEFINE answer == HeardOf(verdict[d], ApprovalResponse(d), d)
  <2>1. told' = [told EXCEPT ![d] = ApprovalResponse(d)]
    BY <1>3 DEF Answer
  <2>2. told'[d] = ApprovalResponse(d) /\ \A a \in Actions \ {d} : told'[a] = told[a]
    BY <1>1, <2>1 DEF TypeInv
  <2>3. Heard' = [Heard EXCEPT ![d] = answer]
    BY <1>1, <2>2, HeardIs
  <2>4. verdict[d] \in {"none", "approve", "deny"}
    BY <1>1 DEF TypeInv
  <2>5. answer \in {"error"} \union (Decided \intersect {d})
    BY <1>1, <2>4 DEF HeardOf, ApprovalResponse, Decided
  <2>6. Heard[d] = "none"
    BY <1>1 DEF Heard
  <2> QED
    BY <1>1, <1>2, <2>3, <2>5, <2>6 DEF BoundaryStep
<1>4. CASE d \in Unnumbered \/ server = "down"
  <2>1. told' = told
    BY <1>4 DEF Answer
  <2>2. Heard' = Heard
    BY <1>1, <2>1 DEF Heard
  <2> QED
    BY <1>2, <2>2 DEF BoundaryStep
<1> QED
  BY <1>3, <1>4 DEF Answer

LEMMA StepMaps == TypeInv /\ SafeInv /\ [Next]_vars => BoundaryStep
<1> SUFFICES ASSUME TypeInv, SafeInv, [Next]_vars PROVE BoundaryStep
  OBVIOUS
<1>1. ASSUME UNCHANGED <<verdict, told>> PROVE BoundaryStep
  BY <1>1 DEF BoundaryStep, Decided, Heard
<1>2. ASSUME NEW t \in Threads,
             StartThread(t) \/ Resume(t) \/ Take(t) \/ Abort(t) \/ Reply(t) \/ TurnEnds(t)
      PROVE  BoundaryStep
  BY <1>1, <1>2 DEF StartThread, Resume, Take, Abort, Reply, TurnEnds, decisions
<1>3. ASSUME NEW a \in Actions, RequestApproval(a) \/ Execute(a) PROVE BoundaryStep
  BY <1>1, <1>3 DEF RequestApproval, Execute, decisions
<1>4. CASE Close \/ ServerExits \/ UNCHANGED vars
  BY <1>1, <1>4 DEF Close, ServerExits, decisions, vars
<1> QED
  BY <1>2, <1>3, <1>4, DecideMaps, AnswerMaps DEF Next, Generator

\* Codex hears the caller's decision about the request it made, or an error,
\* once, whatever the server, the callers and the pipe do.
THEOREM ImplementsTheBoundary == Spec => ImplementsBoundary
<1>1. Init => Boundary!BoundaryInit
  BY DEF Init, Boundary!BoundaryInit
<1>2. BoundaryStep => [Boundary!BoundaryNext]_<<Decided, Heard>>
  BY DEF BoundaryStep, Boundary!BoundaryNext, Boundary!Decide, Boundary!Tell, Decided, Heard
<1>3. Init /\ [][Next]_vars => [][Boundary!BoundaryNext]_<<Decided, Heard>>
  BY <1>2, TypeInit, TypeNext, SafeInit, SafeNext, StepMaps, PTL
<1> QED
  BY <1>1, <1>3, PTL DEF Spec, ImplementsBoundary, Boundary!BoundarySpec, Decided, Heard

-----------------------------------------------------------------------------
(* The whole and its parts                                                 *)

\* A step of the whole is a step of each component, or leaves it alone.
LEMMA EachMoves ==
  ASSUME [AdaptersNext]_adapterVars
  PROVE  /\ [Next]_vars /\ [Sdk!Next]_sdkVars /\ [OpenCode!Next]_ocVars /\ [Turns!Next]_ttVars
         /\ [Acp!Next]_acpVars /\ [OpenClaw!Next]_clVars /\ [Compare!Next]_cmVars
         /\ UNCHANGED lens
BY DEF AdaptersNext, adapterVars

-----------------------------------------------------------------------------
(* Claude SDK: the shared queue of results                                 *)

SdkTyped ==
  /\ sdkPhase \in {"streaming", "deciding", "ended"} /\ driver \in {"running", "done"}
  /\ events \in Seq(SdkCalls \cup {"end"}) /\ results \in Seq(SdkCalls)
  /\ sdkPhase = "deciding" => sdkCurrent \in SdkCalls
  /\ proxy \in [SdkCalls -> {"none", "waiting", "returned", "gone"}]
  /\ sdkDecided \subseteq SdkCalls /\ DOMAIN sdkTold = SdkCalls

\* A call is proposed once and undecided while it is: on events_q or yielded.
Proposed ==
  /\ \A i \in DOMAIN events :
       events[i] \in SdkCalls => proxy[events[i]] # "none" /\ events[i] \notin sdkDecided
  /\ \A i, j \in DOMAIN events : events[i] \in SdkCalls /\ events[i] = events[j] => i = j
  /\ sdkPhase = "deciding" =>
       /\ proxy[sdkCurrent] # "none" /\ sdkCurrent \notin sdkDecided
       /\ \A i \in DOMAIN events : events[i] # sdkCurrent

\* results_q holds decisions, each once, and that of every proxy that waits for one.
Queued ==
  /\ \A i \in DOMAIN results : results[i] \in sdkDecided
  /\ \A i, j \in DOMAIN results : results[i] = results[j] => i = j
  /\ \A c \in SdkCalls :
       /\ proxy[c] = "waiting" /\ c \in sdkDecided => \E i \in DOMAIN results : results[i] = c
       /\ c \in sdkDecided => proxy[c] # "none"
       /\ proxy[c] \in {"none", "waiting"} => sdkTold[c] = "none"

SdkInv == SdkTyped /\ Proposed /\ Queued

LEMMA SdkInit == Sdk!Init => SdkInv
BY DEF Sdk!Init, SdkInv, SdkTyped, Proposed, Queued

\* A queue with its head taken off, and one with an element put at its end.
LEMMA EachIsIn == ASSUME NEW S, NEW s \in Seq(S) PROVE \A i \in DOMAIN s : s[i] \in S
OBVIOUS

LEMMA HeadOff ==
  ASSUME NEW S, NEW s \in Seq(S), s # <<>>
  PROVE  /\ Head(s) = s[1] /\ 1 \in DOMAIN s /\ s[1] \in S /\ Tail(s) \in Seq(S)
         /\ \A i \in DOMAIN Tail(s) : i + 1 \in DOMAIN s /\ i + 1 # 1 /\ Tail(s)[i] = s[i + 1]
         /\ \A i \in DOMAIN s : i # 1 => \E j \in DOMAIN Tail(s) : i = j + 1 /\ Tail(s)[j] = s[i]
         /\ \A i \in DOMAIN Tail(s) : i \in Nat
<1>1. /\ Len(s) \in Nat /\ Len(s) > 0 /\ Head(s) = s[1] /\ s[1] \in S /\ Tail(s) \in Seq(S)
      /\ Len(Tail(s)) = Len(s) - 1 /\ DOMAIN s = 1..Len(s) /\ DOMAIN Tail(s) = 1..Len(Tail(s))
  OBVIOUS
<1>2. \A i \in 1..Len(Tail(s)) : Tail(s)[i] = s[i + 1]
  OBVIOUS
<1>3. ASSUME NEW i \in DOMAIN s, i # 1
      PROVE  \E j \in DOMAIN Tail(s) : i = j + 1 /\ Tail(s)[j] = s[i]
  <2>1. i - 1 \in 1..Len(Tail(s)) /\ (i - 1) + 1 = i
    BY <1>1, <1>3
  <2> QED
    BY <1>1, <1>2, <2>1
<1> QED
  BY <1>1, <1>2, <1>3

LEMMA PutLast ==
  ASSUME NEW S, NEW s \in Seq(S), NEW x \in S
  PROVE  /\ Append(s, x) \in Seq(S) /\ DOMAIN Append(s, x) = DOMAIN s \cup {Len(s) + 1}
         /\ Len(s) + 1 \notin DOMAIN s /\ Append(s, x)[Len(s) + 1] = x
         /\ \A i \in DOMAIN s : Append(s, x)[i] = s[i]
OBVIOUS

LEMMA SdkNext == SdkAssumption /\ SdkInv /\ [Sdk!Next]_sdkVars => SdkInv'
<1> SUFFICES ASSUME SdkAssumption, SdkInv, [Sdk!Next]_sdkVars PROVE SdkInv'
  OBVIOUS
<1>0. "end" \notin SdkCalls
  BY SdkAssumption DEF Sdk!ResultQueueAssumption
<1>1. ASSUME NEW c \in SdkCalls, Sdk!CallTool(c) PROVE SdkInv'
  <2>1. /\ c \in SdkCalls /\ proxy[c] = "none" /\ proxy' = [proxy EXCEPT ![c] = "waiting"]
        /\ events' = Append(events, c)
        /\ UNCHANGED <<sdkPhase, driver, sdkCurrent, results, sdkDecided, sdkTold>>
    BY <1>1 DEF Sdk!CallTool
  <2>2. /\ events' \in Seq(SdkCalls \cup {"end"})
        /\ DOMAIN events' = DOMAIN events \cup {Len(events) + 1}
        /\ Len(events) + 1 \notin DOMAIN events /\ events'[Len(events) + 1] = c
        /\ \A i \in DOMAIN events : events'[i] = events[i]
    BY <2>1, PutLast DEF SdkInv, SdkTyped
  <2>3. SdkTyped'
    BY <2>1, <2>2 DEF SdkInv, SdkTyped
  <2>4. Proposed'
    BY <2>1, <2>2 DEF SdkInv, SdkTyped, Proposed, Queued
  <2>5. Queued'
    BY <2>1 DEF SdkInv, SdkTyped, Queued
  <2> QED
    BY <2>3, <2>4, <2>5 DEF SdkInv
<1>2. ASSUME NEW c \in SdkCalls, Sdk!TakeResult(c) PROVE SdkInv'
  <2>1. /\ proxy[c] = "waiting" /\ results # <<>> /\ results \in Seq(SdkCalls)
        /\ UNCHANGED <<sdkPhase, driver, events, sdkCurrent, sdkDecided>>
    BY <1>2 DEF Sdk!TakeResult, SdkInv, SdkTyped
  <2>2. CASE Head(results) = c /\ results' = Tail(results) /\ Sdk!Return(c, c)
    <3>1. /\ proxy' = [proxy EXCEPT ![c] = "returned"] /\ sdkTold' = [sdkTold EXCEPT ![c] = c]
      BY <2>2 DEF Sdk!Return
    <3>2. SdkTyped'
      BY <2>1, <2>2, <3>1, HeadOff DEF SdkInv, SdkTyped
    <3>3. Proposed'
      BY <2>1, <3>1 DEF SdkInv, SdkTyped, Proposed
    <3>4. \A i \in DOMAIN results' : i \in Nat /\ i + 1 \in DOMAIN results /\ results'[i] = results[i + 1]
      BY <2>1, <2>2, HeadOff
    <3>5. (\A i \in DOMAIN results : results[i] \in sdkDecided)'
      BY <2>1, <3>4 DEF SdkInv, Queued
    <3>6. (\A i, j \in DOMAIN results : results[i] = results[j] => i = j)'
      BY <3>4 DEF SdkInv, Queued
    <3>7. \A d \in SdkCalls : d # c /\ (\E i \in DOMAIN results : results[i] = d)
            => \E i \in DOMAIN results' : results'[i] = d
      BY <2>1, <2>2, HeadOff
    <3>8. Queued'
      BY <2>1, <3>1, <3>5, <3>6, <3>7 DEF SdkInv, SdkTyped, Queued
    <3> QED
      BY <3>2, <3>3, <3>8 DEF SdkInv
  <2>3. CASE /\ Head(results) # c /\ results' = Append(Tail(results), Head(results))
             /\ UNCHANGED <<proxy, sdkTold>>
    <3> DEFINE n == Len(Tail(results)) + 1
    <3>1. /\ Tail(results) \in Seq(SdkCalls) /\ Head(results) = results[1] /\ 1 \in DOMAIN results
          /\ results[1] \in SdkCalls
          /\ \A i \in DOMAIN Tail(results) : i + 1 \in DOMAIN results /\ i \in Nat /\ i + 1 # 1
                                             /\ Tail(results)[i] = results[i + 1]
          /\ \A i \in DOMAIN results : i # 1 =>
               \E j \in DOMAIN Tail(results) : Tail(results)[j] = results[i]
      BY <2>1, HeadOff
    <3>2. /\ results' \in Seq(SdkCalls) /\ DOMAIN results' = DOMAIN Tail(results) \cup {n}
          /\ n \notin DOMAIN Tail(results) /\ results'[n] = results[1]
          /\ \A i \in DOMAIN Tail(results) : results'[i] = results[i + 1]
      BY <2>3, <3>1, PutLast
    <3> HIDE DEF n
    <3>3. SdkTyped' /\ Proposed'
      BY <2>1, <2>3, <3>2 DEF SdkInv, SdkTyped, Proposed
    <3>4. (\A i \in DOMAIN results : results[i] \in sdkDecided)'
      BY <2>1, <3>1, <3>2 DEF SdkInv, Queued
    <3>5. (\A i, j \in DOMAIN results : results[i] = results[j] => i = j)'
      <4> SUFFICES ASSUME NEW i \in DOMAIN results', NEW j \in DOMAIN results', results'[i] = results'[j]
                   PROVE  i = j
        OBVIOUS
      <4>1. CASE i \in DOMAIN Tail(results) /\ j \in DOMAIN Tail(results)
        BY <3>1, <3>2, <4>1 DEF SdkInv, Queued
      <4>2. CASE i = n /\ j \in DOMAIN Tail(results)
        BY <3>1, <3>2, <4>2 DEF SdkInv, Queued
      <4>3. CASE i \in DOMAIN Tail(results) /\ j = n
        BY <3>1, <3>2, <4>3 DEF SdkInv, Queued
      <4> QED
        BY <3>2, <4>1, <4>2, <4>3
    <3>6. \A i \in DOMAIN results : \E j \in DOMAIN results' : results'[j] = results[i]
      BY <2>3, <3>1, <3>2
    <3>7. Queued'
      BY <2>1, <2>3, <3>4, <3>5, <3>6 DEF SdkInv, Queued
    <3> QED
      BY <3>3, <3>7 DEF SdkInv
  <2> QED
    BY <1>2, <2>2, <2>3 DEF Sdk!TakeResult
<1>3. ASSUME NEW c \in SdkCalls, Sdk!ToolTimeout(c) PROVE SdkInv'
  <2>1. /\ proxy[c] = "waiting" /\ results = <<>>
        /\ proxy' = [proxy EXCEPT ![c] = "returned"] /\ sdkTold' = [sdkTold EXCEPT ![c] = "error"]
        /\ UNCHANGED <<sdkPhase, driver, events, sdkCurrent, results, sdkDecided>>
    BY <1>3 DEF Sdk!ToolTimeout, Sdk!Return
  <2> QED
    BY <2>1 DEF SdkInv, SdkTyped, Proposed, Queued
<1>4. ASSUME Sdk!DropProxies, UNCHANGED <<results, sdkDecided, sdkTold>>
      PROVE  /\ proxy' \in [SdkCalls -> {"none", "waiting", "returned", "gone"}]
             /\ \A c \in SdkCalls : proxy'[c] # "waiting" /\ (proxy'[c] = "none" <=> proxy[c] = "none")
             /\ Queued'
  <2>1. /\ proxy' \in [SdkCalls -> {"none", "waiting", "returned", "gone"}]
        /\ \A c \in SdkCalls : proxy'[c] # "waiting" /\ (proxy'[c] = "none" <=> proxy[c] = "none")
    BY <1>4 DEF Sdk!DropProxies, SdkInv, SdkTyped
  <2> QED
    BY <1>4, <2>1 DEF SdkInv, Queued
<1>5. CASE Sdk!DriverEnds
  <2>1. /\ driver' = "done" /\ events' = Append(events, "end") /\ Sdk!DropProxies
        /\ UNCHANGED <<sdkPhase, sdkCurrent, results, sdkDecided, sdkTold>>
    BY <1>5 DEF Sdk!DriverEnds
  <2>2. /\ events' \in Seq(SdkCalls \cup {"end"})
        /\ DOMAIN events' = DOMAIN events \cup {Len(events) + 1}
        /\ events'[Len(events) + 1] = "end"
        /\ \A i \in DOMAIN events : events'[i] = events[i]
    BY <2>1, PutLast DEF SdkInv, SdkTyped
  <2>3. SdkTyped'
    BY <1>4, <2>1, <2>2 DEF SdkInv, SdkTyped
  <2>4. Proposed'
    BY <1>0, <1>4, <2>1, <2>2 DEF SdkInv, SdkTyped, Proposed
  <2> QED
    BY <1>4, <2>1, <2>3, <2>4 DEF SdkInv
<1>6. CASE Sdk!Take
  <2>1. /\ sdkPhase = "streaming" /\ events # <<>> /\ events' = Tail(events)
        /\ UNCHANGED <<results, sdkDecided, sdkTold>>
    BY <1>6 DEF Sdk!Take
  <2>2. /\ Head(events) = events[1] /\ 1 \in DOMAIN events /\ events' \in Seq(SdkCalls \cup {"end"})
        /\ \A i \in DOMAIN events' : i \in Nat /\ i + 1 \in DOMAIN events /\ i + 1 # 1
                                     /\ events'[i] = events[i + 1]
    BY <2>1, HeadOff DEF SdkInv, SdkTyped
  <2>3. /\ \A i \in DOMAIN events' :
             events'[i] \in SdkCalls => proxy[events'[i]] # "none" /\ events'[i] \notin sdkDecided
        /\ \A i, j \in DOMAIN events' : events'[i] \in SdkCalls /\ events'[i] = events'[j] => i = j
    BY <2>2 DEF SdkInv, Proposed
  <2>4. CASE /\ Head(events) \in SdkCalls /\ sdkPhase' = "deciding" /\ sdkCurrent' = Head(events)
             /\ UNCHANGED <<driver, proxy>>
    <3>1. SdkTyped'
      BY <2>1, <2>2, <2>4 DEF SdkInv, SdkTyped
    <3>2. /\ proxy[events[1]] # "none" /\ events[1] \notin sdkDecided
          /\ \A i \in DOMAIN events' : events'[i] # events[1]
      BY <2>2, <2>4 DEF SdkInv, Proposed
    <3>3. Proposed'
      BY <2>1, <2>2, <2>3, <2>4, <3>2 DEF Proposed
    <3>4. Queued'
      BY <2>1, <2>4 DEF SdkInv, Queued
    <3> QED
      BY <3>1, <3>3, <3>4 DEF SdkInv
  <2>5. CASE Head(events) = "end" /\ Sdk!Finish /\ UNCHANGED sdkCurrent
    <3>1. sdkPhase' = "ended" /\ driver' = "done" /\ Sdk!DropProxies
      BY <2>5 DEF Sdk!Finish
    <3>2. SdkTyped'
      BY <1>4, <2>1, <2>2, <3>1 DEF SdkInv, SdkTyped
    <3>3. Proposed'
      BY <1>4, <2>1, <2>3, <3>1 DEF Proposed
    <3> QED
      BY <1>4, <2>1, <3>1, <3>2, <3>3 DEF SdkInv
  <2> QED
    BY <1>6, <2>4, <2>5 DEF Sdk!Take
<1>7. CASE Sdk!Decide
  <2>1. /\ sdkPhase = "deciding" /\ sdkCurrent \in SdkCalls /\ sdkCurrent \notin sdkDecided
        /\ proxy[sdkCurrent] # "none" /\ \A i \in DOMAIN events : events[i] # sdkCurrent
        /\ sdkDecided' = sdkDecided \cup {sdkCurrent} /\ results' = Append(results, sdkCurrent)
        /\ sdkPhase' = "streaming" /\ UNCHANGED <<driver, events, proxy, sdkTold>>
    BY <1>7 DEF Sdk!Decide, SdkInv, SdkTyped, Proposed
  <2>2. /\ results' \in Seq(SdkCalls) /\ DOMAIN results' = DOMAIN results \cup {Len(results) + 1}
        /\ Len(results) + 1 \notin DOMAIN results /\ results'[Len(results) + 1] = sdkCurrent
        /\ \A i \in DOMAIN results : results'[i] = results[i]
    BY <2>1, PutLast DEF SdkInv, SdkTyped
  <2>3. SdkTyped' /\ Proposed'
    BY <2>1, <2>2 DEF SdkInv, SdkTyped, Proposed
  <2>4. \A i \in DOMAIN results : results[i] # sdkCurrent
    BY <2>1 DEF SdkInv, Queued
  <2>5. /\ (\A i \in DOMAIN results : results[i] \in sdkDecided)'
        /\ (\A i, j \in DOMAIN results : results[i] = results[j] => i = j)'
    BY <2>1, <2>2, <2>4 DEF SdkInv, Queued
  <2>6. \A c \in SdkCalls : c \in sdkDecided' /\ proxy[c] = "waiting" =>
          \E i \in DOMAIN results' : results'[i] = c
    BY <2>1, <2>2 DEF SdkInv, Queued
  <2>7. Queued'
    BY <2>1, <2>5, <2>6 DEF SdkInv, Queued
  <2> QED
    BY <2>3, <2>7 DEF SdkInv
<1>8. CASE Sdk!Abort
  <2>1. /\ sdkPhase' = "ended" /\ driver' = "done" /\ Sdk!DropProxies
        /\ UNCHANGED <<events, sdkCurrent, results, sdkDecided, sdkTold>>
    BY <1>8 DEF Sdk!Abort, Sdk!Finish
  <2>2. SdkTyped' /\ Proposed'
    BY <1>4, <2>1 DEF SdkInv, SdkTyped, Proposed
  <2> QED
    BY <1>4, <2>1, <2>2 DEF SdkInv
<1>9. CASE UNCHANGED sdkVars
  BY <1>9 DEF sdkVars, SdkInv, SdkTyped, Proposed, Queued
<1> QED
  BY <1>1, <1>2, <1>3, <1>5, <1>6, <1>7, <1>8, <1>9 DEF Sdk!Next

\* What the generator decides is undecided, and what a proxy tells is about its call.
LEMMA SdkMaps ==
  ASSUME SdkInv, [Sdk!Next]_sdkVars
  PROVE  [Sdk!Boundary!BoundaryNext]_<<sdkDecided, sdkTold>>
<1>1. ASSUME NEW c \in SdkCalls, Sdk!TakeResult(c)
      PROVE  Sdk!Boundary!Tell(c) \/ UNCHANGED <<sdkDecided, sdkTold>>
  <2>1. results # <<>> => Head(results) \in sdkDecided
    BY HeadOff DEF SdkInv, SdkTyped, Queued
  <2> QED
    BY <1>1, <2>1 DEF Sdk!TakeResult, Sdk!Return, Sdk!Boundary!Tell, SdkInv, Queued
<1>2. ASSUME NEW c \in SdkCalls, Sdk!ToolTimeout(c) PROVE Sdk!Boundary!Tell(c)
  BY <1>2 DEF Sdk!ToolTimeout, Sdk!Return, Sdk!Boundary!Tell, SdkInv, Queued
<1>3. ASSUME Sdk!Decide PROVE sdkCurrent \in SdkCalls /\ Sdk!Boundary!Decide(sdkCurrent)
  BY <1>3 DEF Sdk!Decide, Sdk!Boundary!Decide, SdkInv, SdkTyped, Proposed
<1>4. ASSUME \/ \E c \in SdkCalls : Sdk!CallTool(c)
             \/ Sdk!DriverEnds \/ Sdk!Take \/ Sdk!Abort \/ UNCHANGED sdkVars
      PROVE  UNCHANGED <<sdkDecided, sdkTold>>
  BY <1>4 DEF Sdk!CallTool, Sdk!DriverEnds, Sdk!Take, Sdk!Abort, sdkVars
<1> QED
  BY <1>1, <1>2, <1>3, <1>4 DEF Sdk!Next, Sdk!Boundary!BoundaryNext

\* Under the Claude SDK the model hears its own decision or a time-out, once.
THEOREM SdkImplementsTheBoundary == AdaptersSpec => Sdk!ImplementsBoundary
<1>1. AdaptersInit => SdkInv /\ Sdk!Boundary!BoundaryInit
  BY SdkInit DEF AdaptersInit, Sdk!Init, Sdk!Boundary!BoundaryInit
<1>2. SdkInv /\ [AdaptersNext]_adapterVars => SdkInv'
  BY EachMoves, SdkAssumption, SdkNext
<1>3. SdkInv /\ [AdaptersNext]_adapterVars => [Sdk!Boundary!BoundaryNext]_<<sdkDecided, sdkTold>>
  BY EachMoves, SdkMaps
<1> QED
  BY <1>1, <1>2, <1>3, PTL DEF AdaptersSpec, Sdk!ImplementsBoundary, Sdk!Boundary!BoundarySpec

LEMMA SdkKeeps == SdkInv => Sdk!ResultsAreKept
BY DEF SdkInv, Queued, Sdk!ResultsAreKept

-----------------------------------------------------------------------------
(* Claude raw and human: the conversation turn by turn                     *)

TurnsTyped ==
  /\ kernel \in {"raw", "human"} /\ policy \in {"decline", "handler", "none"}
  /\ ttPhase \in {"new", "asking", "answered", "proposed", "decided", "ended"}
  /\ ttTurn \in Seq(OcCalls) /\ left \in Seq(OcCalls) /\ blocks \in Seq(OcCalls)
  /\ messages \in Seq(Turns!Exchange) /\ expired \in BOOLEAN
  /\ terminal \in {"none", "completed", "failed"}
  /\ handle \in {"none", "completed", "failed", "cancelled"}
  /\ ttDecided \subseteq OcCalls /\ ttTold \in [OcCalls -> OcCalls \cup {"none", "error"}]
  /\ ttPhase = "ended" <=> handle # "none"

\* The calls left are those of the turn that have no result yet; the first of
\* them is decided exactly between Decide and Resume, and only then is a
\* decided call not yet told.
TurnLeft ==
  /\ ttPhase \in {"proposed", "decided"} => left # <<>>
  /\ kernel = "raw" /\ ttPhase \in {"answered", "proposed", "decided"} => ttTurn = blocks \o left
  /\ ttPhase \in {"answered", "proposed", "decided"} =>
       \A i, j \in DOMAIN left : left[i] = left[j] => i = j
  /\ ttPhase \in {"answered", "proposed"} => \A i \in DOMAIN left : left[i] \notin ttDecided
  /\ ttPhase = "decided" =>
       /\ left[1] \in ttDecided /\ ttTold[left[1]] = "none"
       /\ \A i \in DOMAIN left : i # 1 => left[i] \notin ttDecided
  /\ \A c \in OcCalls : c \notin ttDecided => ttTold[c] = "none"

TurnsInv == TurnsTyped /\ TurnLeft /\ Turns!TurnsAreAnswered

LEMMA TurnsInit == Turns!Init => TurnsInv
<1> SUFFICES ASSUME Turns!Init PROVE TurnsInv
  OBVIOUS
<1>1. /\ ttTurn \in Seq(OcCalls) /\ left \in Seq(OcCalls) /\ blocks \in Seq(OcCalls)
      /\ messages \in Seq(Turns!Exchange)
  BY DEF Turns!Init
<1>2. ttTold \in [OcCalls -> OcCalls \cup {"none", "error"}] /\ expired \in BOOLEAN
  BY DEF Turns!Init
<1>3. TurnsTyped
  BY <1>1, <1>2 DEF Turns!Init, TurnsTyped
<1>4. TurnLeft /\ Turns!TurnsAreAnswered
  BY DEF Turns!Init, TurnLeft, Turns!TurnsAreAnswered
<1> QED
  BY <1>3, <1>4 DEF TurnsInv

\* The first of the calls left moves to the end of the results.
LEMMA OneMore ==
  ASSUME NEW S, NEW s \in Seq(S), NEW t \in Seq(S), t # <<>>
  PROVE  Append(s, Head(t)) \o Tail(t) = s \o t
<1> DEFINE a == Append(s, Head(t))  z == Tail(t)
<1>1. /\ Len(s) \in Nat /\ Len(t) \in Nat /\ Len(t) > 0 /\ z \in Seq(S) /\ Head(t) = t[1]
      /\ Len(z) = Len(t) - 1 /\ \A i \in 1..Len(z) : z[i] = t[i + 1]
  OBVIOUS
<1>2. a \in Seq(S) /\ Len(a) = Len(s) + 1 /\ a[Len(a)] = t[1] /\ \A i \in 1..Len(s) : a[i] = s[i]
  BY <1>1
<1> HIDE DEF a, z
<1>3. /\ a \o z \in Seq(S) /\ Len(a \o z) = Len(a) + Len(z)
      /\ \A i \in 1..(Len(a) + Len(z)) :
           (a \o z)[i] = IF i <= Len(a) THEN a[i] ELSE z[i - Len(a)]
  BY <1>1, <1>2, ConcatProperties
<1>4. /\ s \o t \in Seq(S) /\ Len(s \o t) = Len(s) + Len(t)
      /\ \A i \in 1..(Len(s) + Len(t)) :
           (s \o t)[i] = IF i <= Len(s) THEN s[i] ELSE t[i - Len(s)]
  BY ConcatProperties
<1>5. Len(a) + Len(z) = Len(s) + Len(t)
  BY <1>1, <1>2
<1>6. ASSUME NEW i \in 1..(Len(s) + Len(t)) PROVE (a \o z)[i] = (s \o t)[i]
  <2>1. i <= Len(s) \/ i = Len(s) + 1 \/ i > Len(s) + 1
    BY <1>1
  <2>2. CASE i <= Len(s)
    BY <1>1, <1>2, <1>3, <1>4, <1>5, <2>2
  <2>3. CASE i = Len(s) + 1
    <3>1. i = Len(a) /\ i - Len(s) = 1 /\ ~(i <= Len(s))
      BY <1>1, <1>2, <2>3
    <3> QED
      BY <1>2, <1>3, <1>4, <1>5, <3>1
  <2>4. CASE i > Len(s) + 1
    <3>1. /\ i - Len(a) \in 1..Len(z) /\ (i - Len(a)) + 1 = i - Len(s)
          /\ ~(i <= Len(s)) /\ ~(i <= Len(a))
      BY <1>1, <1>2, <2>4
    <3> QED
      BY <1>1, <1>3, <1>4, <1>5, <3>1
  <2> QED
    BY <2>1, <2>2, <2>3, <2>4
<1>7. a \o z = s \o t
  BY <1>3, <1>4, <1>5, <1>6, SeqEqual
<1> QED
  BY <1>7 DEF a, z

\* A step that only changes the phase, to one that asks no more of the turn.
LEMMA TurnsElsewhere ==
  ASSUME TurnsInv, UNCHANGED <<kernel, policy, ttTurn, left, blocks, messages, ttDecided, ttTold>>,
         expired' \in BOOLEAN, terminal' \in {"none", "completed", "failed"},
         handle' \in {"none", "completed", "failed", "cancelled"},
         ttPhase' = "ended" <=> handle' # "none",
         \/ ttPhase' \in {"asking", "ended"}
         \/ ttPhase' = ttPhase
         \/ ttPhase = "answered" /\ ttPhase' = "proposed" /\ left # <<>>
  PROVE  TurnsInv'
<1>1. ttPhase' \in {"new", "asking", "answered", "proposed", "decided", "ended"}
  BY DEF TurnsInv, TurnsTyped
<1>2. TurnsTyped'
  BY <1>1 DEF TurnsInv, TurnsTyped
<1>3. TurnLeft'
  BY DEF TurnsInv, TurnLeft
<1>4. Turns!TurnsAreAnswered'
  BY DEF TurnsInv, Turns!TurnsAreAnswered
<1> QED
  BY <1>2, <1>3, <1>4 DEF TurnsInv

LEMMA FreshIsUndecided == \A c \in Turns!Fresh : c \in OcCalls /\ c \notin ttDecided
<1> DEFINE Sent == UNION {Turns!ToSet(messages[i].calls) : i \in DOMAIN messages}
           Now == Turns!ToSet(ttTurn)
<1>1. Turns!Fresh = OcCalls \ (Sent \cup Now \cup ttDecided)
  BY DEF Turns!Fresh
<1> HIDE DEF Sent, Now
<1> QED
  BY <1>1

\* The calls of a reply are new: none of them is decided.
LEMMA TurnsReply ==
  ASSUME TurnsInv, UNCHANGED <<kernel, policy>>, Turns!ReplyWithCalls
  PROVE  TurnsInv'
<1>1. PICK n \in 0..MaxTurn : \E cs \in [1..n -> Turns!Fresh] :
        Turns!IsInjective(cs) /\ ttTurn' = cs /\ left' = cs
  BY DEF Turns!ReplyWithCalls
<1>2. PICK cs \in [1..n -> Turns!Fresh] : Turns!IsInjective(cs) /\ ttTurn' = cs /\ left' = cs
  BY <1>1
<1>3. /\ kernel = "raw" /\ ttPhase = "asking" /\ ttPhase' = "answered" /\ blocks' = <<>>
      /\ UNCHANGED <<messages, expired, terminal, handle, ttDecided, ttTold>>
  BY DEF Turns!ReplyWithCalls, Turns!NewBlocks, Turns!boundary
<1>4. n \in Nat
  BY TurnsAssumption DEF Turns!TurnTakingAssumption
<1>5. Turns!Fresh \subseteq OcCalls \ ttDecided
  BY FreshIsUndecided
<1>6. cs \in Seq(OcCalls) /\ DOMAIN cs = 1..n
  BY <1>4, <1>5
<1>7. \A i \in DOMAIN cs : cs[i] \notin ttDecided
  BY <1>5, <1>6
<1>8. \A i, j \in DOMAIN cs : cs[i] = cs[j] => i = j
  BY <1>2 DEF Turns!IsInjective
<1>9. <<>> \in Seq(OcCalls) /\ <<>> \o cs = cs
  BY <1>6, ConcatEmptySeq
<1>10. TurnsTyped'
  BY <1>2, <1>3, <1>6, <1>9 DEF TurnsInv, TurnsTyped
<1>11. TurnLeft'
  BY <1>2, <1>3, <1>6, <1>7, <1>8, <1>9 DEF TurnsInv, TurnLeft
<1>12. Turns!TurnsAreAnswered'
  BY <1>3 DEF TurnsInv, Turns!TurnsAreAnswered
<1> QED
  BY <1>10, <1>11, <1>12 DEF TurnsInv

LEMMA TurnsHuman ==
  ASSUME TurnsInv, UNCHANGED <<kernel, policy>>, NEW c \in OcCalls, Turns!OperatorCalls(c)
  PROVE  TurnsInv'
<1>1. /\ kernel = "human" /\ c \notin ttDecided /\ ttPhase' = "proposed" /\ ttPhase = "asking"
      /\ ttTurn' = <<c>> /\ left' = <<c>>
      /\ UNCHANGED <<blocks, messages, expired, terminal, handle, ttDecided, ttTold>>
  BY FreshIsUndecided DEF Turns!OperatorCalls, Turns!boundary
<1>2. <<c>> \in Seq(OcCalls) /\ <<c>> # <<>> /\ DOMAIN <<c>> = {1} /\ <<c>>[1] = c
  OBVIOUS
<1>3. TurnsTyped'
  BY <1>1, <1>2 DEF TurnsInv, TurnsTyped
<1>4. TurnLeft'
  BY <1>1, <1>2 DEF TurnsInv, TurnLeft
<1>5. Turns!TurnsAreAnswered'
  BY <1>1 DEF TurnsInv, Turns!TurnsAreAnswered
<1> QED
  BY <1>3, <1>4, <1>5 DEF TurnsInv

\* With none left, the results of a turn are its calls.
LEMMA TurnsAsk ==
  ASSUME TurnsInv, UNCHANGED <<kernel, policy>>, Turns!NextTurn
  PROVE  TurnsInv'
<1> DEFINE exchange == [calls |-> ttTurn, results |-> blocks]
<1>1. /\ kernel = "raw" /\ ttPhase = "answered" /\ left = <<>> /\ ttPhase' = "asking"
      /\ messages' = Append(messages, exchange) /\ ttTurn' = <<>>
      /\ UNCHANGED <<left, blocks, expired, terminal, handle, ttDecided, ttTold>>
  BY DEF Turns!NextTurn, Turns!boundary
<1>2. ttTurn = blocks
  BY <1>1, ConcatEmptySeq DEF TurnsInv, TurnsTyped, TurnLeft
<1>3. exchange \in Turns!Exchange /\ exchange.results = exchange.calls
  BY <1>2 DEF TurnsInv, TurnsTyped, Turns!Exchange
<1> HIDE DEF exchange
<1>4. /\ messages' \in Seq(Turns!Exchange) /\ DOMAIN messages' = DOMAIN messages \cup {Len(messages) + 1}
      /\ messages'[Len(messages) + 1] = exchange
      /\ \A i \in DOMAIN messages : messages'[i] = messages[i]
  BY <1>1, <1>3, PutLast DEF TurnsInv, TurnsTyped
<1>5. <<>> \in Seq(OcCalls)
  OBVIOUS
<1>6. TurnsTyped'
  BY <1>1, <1>4, <1>5 DEF TurnsInv, TurnsTyped
<1>7. TurnLeft'
  BY <1>1 DEF TurnsInv, TurnLeft
<1>8. Turns!TurnsAreAnswered'
  BY <1>3, <1>4 DEF TurnsInv, Turns!TurnsAreAnswered
<1> QED
  BY <1>6, <1>7, <1>8 DEF TurnsInv

LEMMA TurnsDecide ==
  ASSUME TurnsInv, UNCHANGED <<kernel, policy>>, Turns!Decide
  PROVE  TurnsInv' /\ left[1] \in OcCalls /\ left[1] \notin ttDecided
         /\ ttDecided' = ttDecided \cup {left[1]} /\ UNCHANGED ttTold
<1>1. left \in Seq(OcCalls) /\ left # <<>>
  BY DEF Turns!Decide, TurnsInv, TurnsTyped, TurnLeft
<1>2. Head(left) = left[1] /\ 1 \in DOMAIN left /\ left[1] \in OcCalls
  BY <1>1, HeadOff
<1>3. /\ ttPhase = "proposed" /\ ttPhase' = "decided" /\ ttDecided' = ttDecided \cup {left[1]}
      /\ UNCHANGED <<ttTurn, left, blocks, messages, expired, terminal, handle, ttTold>>
  BY <1>2 DEF Turns!Decide, Turns!loop
<1>4. left[1] \notin ttDecided
  BY <1>2, <1>3 DEF TurnsInv, TurnLeft
<1>5. TurnsTyped'
  BY <1>2, <1>3 DEF TurnsInv, TurnsTyped
<1>6. TurnLeft'
  BY <1>2, <1>3, <1>4 DEF TurnsInv, TurnLeft
<1>7. Turns!TurnsAreAnswered'
  BY <1>3 DEF TurnsInv, Turns!TurnsAreAnswered
<1> QED
  BY <1>2, <1>3, <1>4, <1>5, <1>6, <1>7 DEF TurnsInv

\* The result joins the blocks as its call leaves the ones left.
LEMMA TurnsResume ==
  ASSUME TurnsInv, UNCHANGED <<kernel, policy>>, Turns!Resume
  PROVE  TurnsInv' /\ left[1] \in OcCalls /\ left[1] \in ttDecided /\ ttTold[left[1]] = "none"
         /\ ttTold' = [ttTold EXCEPT ![left[1]] = left[1]] /\ UNCHANGED ttDecided
<1>1. left \in Seq(OcCalls) /\ left # <<>> /\ ttPhase = "decided" /\ blocks \in Seq(OcCalls)
  BY DEF Turns!Resume, TurnsInv, TurnsTyped, TurnLeft
<1>2. /\ Head(left) = left[1] /\ 1 \in DOMAIN left /\ left[1] \in OcCalls /\ Tail(left) \in Seq(OcCalls)
      /\ \A i \in DOMAIN Tail(left) : i + 1 \in DOMAIN left /\ i + 1 # 1 /\ Tail(left)[i] = left[i + 1]
      /\ \A i \in DOMAIN Tail(left) : i \in Nat
  BY <1>1, HeadOff
<1>3. /\ left' = Tail(left) /\ ttTold' = [ttTold EXCEPT ![left[1]] = left[1]]
      /\ UNCHANGED <<messages, expired, terminal, handle, ttDecided>>
  BY <1>2 DEF Turns!Resume, Turns!ResultFor
<1>4. left[1] \in ttDecided /\ ttTold[left[1]] = "none"
  BY <1>1 DEF TurnsInv, TurnLeft
<1>5. /\ \A i, j \in DOMAIN left' : left'[i] = left'[j] => i = j
      /\ \A i \in DOMAIN left' : left'[i] \notin ttDecided
  BY <1>1, <1>2, <1>3 DEF TurnsInv, TurnLeft
<1>6. /\ ttTold' \in [OcCalls -> OcCalls \cup {"none", "error"}]
      /\ \A c \in OcCalls : c \notin ttDecided => ttTold'[c] = "none"
  BY <1>2, <1>3, <1>4 DEF TurnsInv, TurnsTyped, TurnLeft
<1>7. Turns!TurnsAreAnswered'
  BY <1>3 DEF TurnsInv, Turns!TurnsAreAnswered
<1>8. CASE kernel = "raw"
  <2>1. ttPhase' = "answered" /\ blocks' = Append(blocks, Head(left)) /\ UNCHANGED ttTurn
    BY <1>2, <1>8 DEF Turns!Resume, Turns!ResultFor
  <2>2. blocks' \in Seq(OcCalls)
    BY <1>1, <1>2, <2>1
  <2>3. Append(blocks, Head(left)) \o Tail(left) = blocks \o left
    BY <1>1, OneMore
  <2>4. ttTurn' = blocks' \o left'
    BY <1>1, <1>3, <1>8, <2>1, <2>3 DEF TurnsInv, TurnLeft
  <2>5. TurnsTyped'
    BY <1>1, <1>2, <1>3, <1>6, <2>1, <2>2 DEF TurnsInv, TurnsTyped
  <2>6. TurnLeft'
    BY <1>1, <1>3, <1>5, <1>6, <2>1, <2>4 DEF TurnLeft
  <2> QED
    BY <1>2, <1>3, <1>4, <1>7, <2>5, <2>6 DEF TurnsInv
<1>9. CASE kernel # "raw"
  <2>1. ttPhase' = "asking" /\ ttTurn' = <<>> /\ UNCHANGED blocks
    BY <1>9 DEF Turns!Resume
  <2>2. TurnsTyped'
    BY <1>1, <1>2, <1>3, <1>6, <2>1 DEF TurnsInv, TurnsTyped
  <2>3. TurnLeft'
    BY <1>3, <1>6, <2>1 DEF TurnLeft
  <2> QED
    BY <1>2, <1>3, <1>4, <1>7, <2>2, <2>3 DEF TurnsInv
<1> QED
  BY <1>8, <1>9

LEMMA TurnsNext == TurnsInv /\ [Turns!Next]_ttVars => TurnsInv'
<1> SUFFICES ASSUME TurnsInv, [Turns!Next]_ttVars PROVE TurnsInv'
  OBVIOUS
<1> USE DEF Turns!loop, Turns!boundary
<1>1. UNCHANGED <<kernel, policy>>
  BY DEF Turns!Next, ttVars
<1>2. CASE Turns!Start \/ Turns!ProposeNext \/ Turns!DeadlinePasses \/ UNCHANGED ttVars
  <2>1. UNCHANGED <<ttTurn, left, blocks, messages, terminal, handle, ttDecided, ttTold>>
    BY <1>2 DEF Turns!Start, Turns!ProposeNext, Turns!DeadlinePasses, ttVars
  <2>2. expired' \in BOOLEAN
    BY <1>2 DEF Turns!Start, Turns!ProposeNext, Turns!DeadlinePasses, ttVars, TurnsInv, TurnsTyped
  <2>3. /\ ttPhase' = "ended" <=> ttPhase = "ended"
        /\ \/ ttPhase' \in {"asking", "ended"} \/ ttPhase' = ttPhase
           \/ ttPhase = "answered" /\ ttPhase' = "proposed" /\ left # <<>>
    BY <1>2 DEF Turns!Start, Turns!ProposeNext, Turns!DeadlinePasses, ttVars
  <2> QED
    BY <1>1, <2>1, <2>2, <2>3, TurnsElsewhere DEF TurnsInv, TurnsTyped
<1>3. CASE \/ Turns!ReplyEnds \/ Turns!RequestFails \/ Turns!OperatorEnds \/ Turns!DecideBadly
           \/ Turns!HandlerRaises \/ Turns!TimesOut \/ Turns!CancelsTheHandler \/ Turns!Interrupt
  <2>1. /\ ttPhase' = "ended" /\ handle' \in {"completed", "failed", "cancelled"}
        /\ terminal' \in {"completed", "failed", terminal}
        /\ UNCHANGED <<ttTurn, left, blocks, messages, expired, ttDecided, ttTold>>
    BY <1>3 DEF Turns!ReplyEnds, Turns!RequestFails, Turns!OperatorEnds, Turns!DecideBadly,
       Turns!HandlerRaises, Turns!TimesOut, Turns!CancelsTheHandler, Turns!Interrupt,
       Turns!Emit, Turns!Raise
  <2> QED
    BY <1>1, <2>1, TurnsElsewhere DEF TurnsInv, TurnsTyped
<1> QED
  BY <1>1, <1>2, <1>3, TurnsReply, TurnsHuman, TurnsAsk, TurnsDecide, TurnsResume DEF Turns!Next

LEMMA TurnsMaps ==
  ASSUME TurnsInv, [Turns!Next]_ttVars
  PROVE  [Turns!Boundary!BoundaryNext]_<<ttDecided, ttTold>>
<1> USE DEF Turns!loop, Turns!boundary
<1>1. UNCHANGED <<kernel, policy>>
  BY DEF Turns!Next, ttVars
<1>2. ASSUME Turns!Decide PROVE left[1] \in OcCalls /\ Turns!Boundary!Decide(left[1])
  BY <1>1, <1>2, TurnsDecide DEF Turns!Boundary!Decide
<1>3. ASSUME Turns!Resume PROVE left[1] \in OcCalls /\ Turns!Boundary!Tell(left[1])
  BY <1>1, <1>3, TurnsResume DEF Turns!Boundary!Tell
<1>4. ASSUME ~Turns!Decide, ~Turns!Resume PROVE UNCHANGED <<ttDecided, ttTold>>
  BY <1>4 DEF Turns!Next, Turns!Start, Turns!ReplyWithCalls, Turns!ReplyEnds, Turns!RequestFails,
     Turns!ProposeNext, Turns!NextTurn, Turns!OperatorCalls, Turns!OperatorEnds, Turns!DecideBadly,
     Turns!HandlerRaises, Turns!DeadlinePasses, Turns!TimesOut, Turns!CancelsTheHandler,
     Turns!Interrupt, ttVars
<1> QED
  BY <1>2, <1>3, <1>4 DEF Turns!Boundary!BoundaryNext

\* Under Claude raw and the human kernel the model hears its own decision, once.
THEOREM TurnsImplementTheBoundary == AdaptersSpec => Turns!ImplementsBoundary
<1>1. AdaptersInit => TurnsInv /\ Turns!Boundary!BoundaryInit
  BY TurnsInit DEF AdaptersInit, Turns!Init, Turns!Boundary!BoundaryInit
<1>2. TurnsInv /\ [AdaptersNext]_adapterVars => TurnsInv'
  BY EachMoves, TurnsNext
<1>3. TurnsInv /\ [AdaptersNext]_adapterVars => [Turns!Boundary!BoundaryNext]_<<ttDecided, ttTold>>
  BY EachMoves, TurnsMaps
<1> QED
  BY <1>1, <1>2, <1>3, PTL DEF AdaptersSpec, Turns!ImplementsBoundary, Turns!Boundary!BoundarySpec

-----------------------------------------------------------------------------
(* OpenCode: the back-channel, proved in BackChannel_proofs                *)

Channel == INSTANCE BackChannel_proofs WITH
  Spawns <- OcSpawns, Calls <- OcCalls, Owner <- OcOwner, Aggregate <- OcAggregate,
  phase <- ocPhase, current <- ocCurrent, asked <- ocAsked, decided <- ocDecided, told <- ocTold

\* Both instances of BackChannel define the same.
LEMMA ChannelIsOpenCode ==
  /\ Channel!BackChannelAssumption
  /\ OpenCode!Init => Channel!Init
  /\ [OpenCode!Next]_ocVars => [Channel!Next]_Channel!vars
  /\ Channel!TypeOK => OpenCode!TypeOK
<1>1. Channel!BackChannelAssumption
  BY OpenCodeAssumption DEF OpenCode!BackChannelAssumption, Channel!BackChannelAssumption
<1>2. OpenCode!Init => Channel!Init
  BY DEF OpenCode!Init, Channel!Init
<1>3. OpenCode!Next => Channel!Next
  BY DEF OpenCode!Next, OpenCode!Register, OpenCode!CreateSession, OpenCode!SubmitPrompt,
         OpenCode!Generator, OpenCode!Drain, OpenCode!Decide, OpenCode!AnswerMcp,
         OpenCode!AnswerPermission, OpenCode!DrainTimeout, OpenCode!Abort, OpenCode!StreamEnds,
         OpenCode!Propose, OpenCode!HandlerReturns, OpenCode!HandlerTimeout,
         OpenCode!ProxyTimeout, OpenCode!RequestPermission, OpenCode!CloseAdapter,
         OpenCode!Goto, OpenCode!Deregister, OpenCode!TellModel, OpenCode!Finish, OpenCode!channel,
         Channel!Next, Channel!Register, Channel!CreateSession, Channel!SubmitPrompt,
         Channel!Generator, Channel!Drain, Channel!Decide, Channel!AnswerMcp,
         Channel!AnswerPermission, Channel!DrainTimeout, Channel!Abort, Channel!StreamEnds,
         Channel!Propose, Channel!HandlerReturns, Channel!HandlerTimeout,
         Channel!ProxyTimeout, Channel!RequestPermission, Channel!CloseAdapter,
         Channel!Goto, Channel!Deregister, Channel!TellModel, Channel!Finish, Channel!channel
<1>4. UNCHANGED ocVars => UNCHANGED Channel!vars
  BY DEF ocVars, Channel!vars
<1>5. Channel!TypeOK => OpenCode!TypeOK
  BY DEF OpenCode!TypeOK, OpenCode!Phases, Channel!TypeOK, Channel!Phases
<1> QED
  BY <1>1, <1>2, <1>3, <1>4, <1>5

LEMMA ChannelInit == AdaptersInit => Channel!Inv
BY ChannelIsOpenCode, Channel!InitInv DEF AdaptersInit

LEMMA ChannelNext ==
  ASSUME Channel!Inv, [AdaptersNext]_adapterVars
  PROVE  Channel!Inv' /\ Channel!BoundaryStep
<1>1. [Channel!Next]_Channel!vars
  BY EachMoves, ChannelIsOpenCode
<1> QED
  BY <1>1, ChannelIsOpenCode, Channel!InvNext, Channel!StepMaps

\* Under OpenCode a model hears the decision about its own call or an error, once.
THEOREM OpenCodeImplementsTheBoundary == AdaptersSpec => OpenCode!ImplementsBoundary
<1>1. AdaptersInit => OpenCode!Boundary!BoundaryInit
  BY DEF AdaptersInit, OpenCode!Init, OpenCode!Boundary!BoundaryInit
<1>2. Channel!Inv /\ [AdaptersNext]_adapterVars => Channel!Inv'
  BY ChannelNext
<1>3. Channel!BoundaryStep => [OpenCode!Boundary!BoundaryNext]_<<ocDecided, ocTold>>
  BY DEF Channel!BoundaryStep, OpenCode!Boundary!BoundaryNext, OpenCode!Boundary!Decide,
         OpenCode!Boundary!Tell
<1>4. Channel!Inv /\ [AdaptersNext]_adapterVars => [OpenCode!Boundary!BoundaryNext]_<<ocDecided, ocTold>>
  BY <1>3, ChannelNext
<1> QED
  BY <1>1, <1>2, <1>4, ChannelInit, PTL
  DEF AdaptersSpec, OpenCode!ImplementsBoundary, OpenCode!Boundary!BoundarySpec

LEMMA CodexSpec == AdaptersSpec => Spec
<1>1. AdaptersInit => Init
  BY DEF AdaptersInit
<1>2. [AdaptersNext]_adapterVars => [Next]_vars
  BY EachMoves
<1> QED
  BY <1>1, <1>2, PTL DEF AdaptersSpec, Spec

\* Whatever the servers, the callers, the time-outs and the shutdowns do, under
\* each of the five kernels that decide tool calls the model is told about a
\* call once: the decision about that very call, or an error.
THEOREM AdaptersKeepTheBoundary == AdaptersSpec => AdaptersImplementBoundary
<1>1. AdaptersSpec => ImplementsBoundary
  BY CodexSpec, ImplementsTheBoundary
<1> QED
  BY <1>1, SdkImplementsTheBoundary, OpenCodeImplementsTheBoundary, TurnsImplementTheBoundary
  DEF AdaptersImplementBoundary

-----------------------------------------------------------------------------
(* The ACP client                                                          *)

ClientRecords ==
  [flow : Acp!Flows, phase : Acp!Methods \cup {"idle"}, request : Acp!Requests \cup {NoRequest},
   toClose : SUBSET OcSpawns, id : Nat]

AcpTyped ==
  /\ Acp!TypeOK
  /\ client.phase # "idle" => client.request \in Acp!Requests /\ client.request.id = client.id

Unasked == {Acp!Update, Acp!Garbage}

\* Nothing but unasked lines; at most one response; no response but to request n.
Noise(s) == \A i \in DOMAIN s : s[i] \in Unasked
Lone(s) == \A i, j \in DOMAIN s : s[i] \notin Unasked /\ s[j] \notin Unasked => i = j
About(s, n) == \A i \in DOMAIN s : s[i] \notin Unasked => s[i].id = n

\* At most one of the request, in the agent's inbox, and its response, in the
\* pipe or read ahead, is on the way, and nothing of an earlier request is.
Outstanding ==
  ~muddled /\ client.phase # "idle" =>
    /\ About(buffer, client.id) /\ About(pipe, client.id) /\ Lone(buffer) /\ Lone(pipe)
    /\ Noise(buffer) \/ Noise(pipe)
    /\ process = "running" =>
         \/ inbox = <<>>
         \/ /\ Len(inbox) = 1 /\ inbox[1].id = client.id
            /\ Noise(buffer) /\ Noise(pipe)

\* As long as nothing went wrong, what was taken is its own.
Own == ~muddled => \A t \in taken : t.line # Acp!Update /\ t.line.id = t.request.id

AcpInv == AcpTyped /\ Outstanding /\ Own

LEMMA AcpInit == Acp!Init => AcpInv
<1> SUFFICES ASSUME Acp!Init PROVE AcpInv
  OBVIOUS
<1>1. client \in ClientRecords
  BY DEF Acp!Init, Acp!Idle, ClientRecords, Acp!Flows
<1>2. client.phase = "idle" /\ process = "none"
  BY DEF Acp!Init, Acp!Idle
<1>3. inbox \in Seq(Acp!Requests) /\ pipe \in Seq(Acp!Lines) /\ buffer \in Seq(Acp!Lines)
  BY DEF Acp!Init
<1>4. half \in BOOLEAN /\ muddled \in BOOLEAN
  BY DEF Acp!Init
<1>5. open \subseteq OcSpawns /\ taken = {}
  BY DEF Acp!Init
<1>6. /\ process \in {"none", "running", "dead"}
      /\ client.phase = "idle" <=> process = "none"
      /\ \A t \in taken : t.request \in Acp!Requests /\ t.line \in Acp!Lines
  BY <1>2, <1>5
<1>7. Acp!TypeOK
  BY Zenon, <1>1, <1>3, <1>4, <1>5, <1>6 DEF Acp!TypeOK, ClientRecords
<1>8. AcpTyped
  BY <1>2, <1>7 DEF AcpTyped
<1> QED
  BY <1>2, <1>8 DEF AcpInv, Outstanding, Own, Acp!Init

\* The two ways a command goes on after an answer or an exception.
Stopped ==
  /\ client' = [Acp!Idle EXCEPT !.flow = client.flow] /\ process' = "none" /\ inbox' = <<>>

Sent ==
  /\ client' \in ClientRecords /\ client'.phase # "idle" /\ client'.flow = client.flow
  /\ client'.request \in Acp!Requests /\ client'.id = client.id + 1
  /\ client'.request.id = client'.id /\ client'.request.method = client'.phase
  /\ inbox' = Append(inbox, client'.request) /\ UNCHANGED process

LEMMA SendIsSent ==
  ASSUME client.id \in Nat, NEW c \in ClientRecords, c.flow = client.flow, c.id = client.id,
         NEW m \in Acp!Methods, NEW s \in OcSpawns \cup {NoRequest}, Acp!Send(c, m, s)
  PROVE  Sent
<1> DEFINE r == [id |-> c.id + 1, method |-> m, session |-> s]
<1>1. client' = [c EXCEPT !.phase = m, !.request = r, !.id = c.id + 1] /\ inbox' = Append(inbox, r)
      /\ UNCHANGED process
  BY DEF Acp!Send
<1>2. r \in Acp!Requests /\ r.id = c.id + 1 /\ r.method = m
  BY DEF Acp!Requests
<1> HIDE DEF r
<1>3. /\ client'.phase = m /\ client'.request = r /\ client'.id = c.id + 1 /\ client'.flow = c.flow
      /\ client' \in ClientRecords
  <2>1. PICK n \in Nat : n = c.id + 1
    OBVIOUS
  <2>2. client' = [c EXCEPT !.phase = m, !.request = r, !.id = n]
    BY <1>1, <2>1
  <2>3. client' \in ClientRecords
    BY <1>2, <2>1, <2>2 DEF ClientRecords
  <2>4. /\ client'.phase = m /\ client'.request = r /\ client'.id = n
        /\ client'.flow = c.flow
    BY <1>2, <2>1, <2>2 DEF ClientRecords
  <2> QED
    BY <2>1, <2>3, <2>4
<1>4. m # "idle"
  BY DEF Acp!Methods
<1> QED
  BY <1>1, <1>2, <1>3, <1>4 DEF Sent

LEMMA OverIsStopped ==
  ASSUME client.flow \in Acp!Flows, Acp!Over
  PROVE  Stopped
BY DEF Acp!Over, Stopped

LEMMA ClosesOn ==
  ASSUME client.id \in Nat, client.flow \in Acp!Flows,
         NEW c \in ClientRecords, c.flow = client.flow, c.id = client.id, Acp!CloseNext(c)
  PROVE  Stopped \/ Sent
<1>1. CASE c.toClose = {}
  BY <1>1, OverIsStopped DEF Acp!CloseNext
<1>2. CASE c.toClose # {}
  <2>1. PICK s \in c.toClose : Acp!Send([c EXCEPT !.toClose = @ \ {s}], "session/close", s)
    BY <1>2 DEF Acp!CloseNext
  <2>2. s \in OcSpawns
    BY DEF ClientRecords
  <2>3. /\ [c EXCEPT !.toClose = @ \ {s}] \in ClientRecords
        /\ [c EXCEPT !.toClose = @ \ {s}].flow = client.flow
        /\ [c EXCEPT !.toClose = @ \ {s}].id = client.id
    BY DEF ClientRecords
  <2>4. "session/close" \in Acp!Methods
    BY DEF Acp!Methods
  <2> QED
    BY <2>1, <2>2, <2>3, <2>4, SendIsSent
<1> QED
  BY <1>1, <1>2

LEMMA GoesOn ==
  ASSUME client \in ClientRecords,
         Acp!Fail \/ \E line \in Acp!Lines \ {Acp!Garbage} : Acp!Proceed(line)
  PROVE  Stopped \/ Sent
<1>1. client.id \in Nat /\ client.flow \in Acp!Flows
  BY DEF ClientRecords
<1>2. {"session/list", "session/close", "session/prompt"} \subseteq Acp!Methods
  BY DEF Acp!Methods
<1>3. CASE Acp!Fail
  BY <1>1, <1>3, ClosesOn, OverIsStopped DEF Acp!Fail
<1>4. ASSUME NEW line \in Acp!Lines \ {Acp!Garbage}, Acp!Proceed(line) PROVE Stopped \/ Sent
  <2> DEFINE listed == IF line = Acp!Update THEN {} ELSE line.sessions
  <2>1. listed \subseteq OcSpawns
    BY DEF Acp!Lines
  <2>2. \/ Acp!Over
        \/ Acp!Send(client, "session/prompt", NoRequest)
        \/ Acp!Send(client, "session/list", NoRequest)
        \/ \E s \in listed : Acp!Send(client, "session/close", s)
        \/ \E stale \in SUBSET listed : Acp!CloseNext([client EXCEPT !.toClose = stale])
        \/ Acp!CloseNext(client)
    BY <1>4 DEF Acp!Proceed
  <2> HIDE DEF listed
  <2>3. ASSUME NEW stale \in SUBSET listed, Acp!CloseNext([client EXCEPT !.toClose = stale])
        PROVE  Stopped \/ Sent
    <3>1. /\ [client EXCEPT !.toClose = stale] \in ClientRecords
          /\ [client EXCEPT !.toClose = stale].flow = client.flow
          /\ [client EXCEPT !.toClose = stale].id = client.id
      BY <2>1 DEF ClientRecords
    <3> QED
      BY <1>1, <2>3, <3>1, ClosesOn
  <2> QED
    BY <1>1, <1>2, <2>1, <2>2, <2>3, SendIsSent, OverIsStopped, ClosesOn
<1> QED
  BY <1>3, <1>4

\* What a command that goes on keeps, once it has dealt with the line it awaited:
\* the ones behind it are notifications, and no request is with a live agent.
LEMMA AcpGoesOn ==
  ASSUME AcpInv, Stopped \/ Sent, client.phase # "idle",
         buffer' \in Seq(Acp!Lines), pipe' \in Seq(Acp!Lines), UNCHANGED <<half, open>>,
         muddled' \in BOOLEAN,
         \A t \in taken' : t.request \in Acp!Requests /\ t.line \in Acp!Lines,
         ~muddled' => /\ Noise(buffer') /\ Noise(pipe') /\ (process = "running" => inbox = <<>>)
                      /\ \A t \in taken' : t.line # Acp!Update /\ t.line.id = t.request.id
  PROVE  AcpInv'
<1>1. /\ client \in ClientRecords /\ inbox \in Seq(Acp!Requests)
      /\ half \in BOOLEAN /\ open \subseteq OcSpawns /\ process \in {"none", "running", "dead"}
      /\ process # "none" /\ client.flow \in Acp!Flows
  BY DEF AcpInv, AcpTyped, Acp!TypeOK, ClientRecords
<1>2. Own'
  BY DEF Own
<1>3. CASE Stopped
  <2>1. client' \in ClientRecords /\ client'.phase = "idle" /\ client'.flow = client.flow
    BY <1>1, <1>3 DEF Stopped, Acp!Idle, ClientRecords, Acp!Flows
  <2>2. /\ process' = "none" /\ inbox' \in Seq(Acp!Requests)
    BY <1>3, <2>1 DEF Stopped
  <2>3. AcpTyped'
    BY <1>1, <2>1, <2>2 DEF AcpTyped, Acp!TypeOK, ClientRecords
  <2> QED
    BY <1>2, <2>1, <2>2, <2>3 DEF AcpInv, Outstanding
<1>4. CASE Sent
  <2>1. /\ client' \in ClientRecords /\ client'.phase # "idle" /\ client'.flow = client.flow
        /\ client'.request \in Acp!Requests /\ client'.request.id = client'.id
        /\ inbox' = Append(inbox, client'.request) /\ process' = process
    BY <1>4 DEF Sent
  <2>2. inbox' \in Seq(Acp!Requests)
    BY <1>1, <2>1
  <2>3. AcpTyped'
    BY <1>1, <2>1, <2>2 DEF AcpTyped, Acp!TypeOK, ClientRecords
  <2>4. inbox = <<>> => Len(inbox') = 1 /\ inbox'[1].id = client'.id
    BY <2>1
  <2>5. Outstanding'
    BY <2>1, <2>4 DEF Outstanding, Noise, Lone, About
  <2> QED
    BY <1>2, <2>3, <2>5 DEF AcpInv
<1> QED
  BY <1>3, <1>4

\* The reader takes the next line; what it leaves is what was there but for it.
LEMMA AcpReads ==
  ASSUME AcpInv, client.phase # "idle",
         NEW line,
         \/ buffer # <<>> /\ line = Head(buffer) /\ buffer' = Tail(buffer) /\ pipe' = pipe
         \/ buffer = <<>> /\ pipe # <<>> /\ line = Head(pipe) /\ buffer' = Tail(pipe) /\ pipe' = <<>>
  PROVE  /\ line \in Acp!Lines /\ buffer' \in Seq(Acp!Lines) /\ pipe' \in Seq(Acp!Lines)
         /\ ~muddled =>
              /\ About(buffer', client.id) /\ About(pipe', client.id) /\ Lone(buffer') /\ Lone(pipe')
              /\ Noise(buffer') \/ Noise(pipe')
              /\ Noise(buffer) /\ Noise(pipe) => Noise(buffer') /\ Noise(pipe')
              /\ line \notin Unasked =>
                   /\ line.id = client.id /\ Noise(buffer') /\ Noise(pipe')
                   /\ process = "running" => inbox = <<>>
<1>1. buffer \in Seq(Acp!Lines) /\ pipe \in Seq(Acp!Lines)
  BY DEF AcpInv, AcpTyped, Acp!TypeOK
<1> DEFINE Taken(s) ==
      /\ Head(s) = s[1] /\ 1 \in DOMAIN s /\ Head(s) \in Acp!Lines /\ Tail(s) \in Seq(Acp!Lines)
      /\ \A n : About(s, n) => About(Tail(s), n) /\ (Head(s) \notin Unasked => Head(s).id = n)
      /\ Lone(s) => Lone(Tail(s)) /\ (Head(s) \notin Unasked => Noise(Tail(s)))
      /\ Noise(s) => Noise(Tail(s)) /\ Head(s) \in Unasked
<1>2. ASSUME NEW s \in Seq(Acp!Lines), s # <<>> PROVE Taken(s)
  <2>1. /\ Head(s) = s[1] /\ 1 \in DOMAIN s /\ s[1] \in Acp!Lines /\ Tail(s) \in Seq(Acp!Lines)
        /\ \A i \in DOMAIN Tail(s) : i + 1 \in DOMAIN s /\ i + 1 # 1 /\ Tail(s)[i] = s[i + 1]
        /\ \A i \in DOMAIN Tail(s) : i \in Nat
    BY <1>2, HeadOff
  <2>2. ASSUME NEW n, About(s, n)
        PROVE  About(Tail(s), n) /\ (Head(s) \notin Unasked => Head(s).id = n)
    BY <2>1, <2>2 DEF About
  <2>3. Lone(s) => Lone(Tail(s)) /\ (Head(s) \notin Unasked => Noise(Tail(s)))
    BY <2>1 DEF Lone, Noise
  <2>4. Noise(s) => Noise(Tail(s)) /\ Head(s) \in Unasked
    BY <2>1 DEF Noise
  <2> QED
    BY <2>1, <2>2, <2>3, <2>4
<1>3. <<>> \in Seq(Acp!Lines) /\ Noise(<<>>) /\ Lone(<<>>) /\ \A n : About(<<>>, n)
  BY DEF Noise, Lone, About
<1>4. ~muddled =>
        /\ About(buffer, client.id) /\ About(pipe, client.id) /\ Lone(buffer) /\ Lone(pipe)
        /\ Noise(buffer) \/ Noise(pipe)
        /\ process = "running" => inbox = <<>> \/ (Noise(buffer) /\ Noise(pipe))
  BY DEF AcpInv, Outstanding
<1>5. CASE buffer # <<>> /\ line = Head(buffer) /\ buffer' = Tail(buffer) /\ pipe' = pipe
  <2>1. Taken(buffer)
    BY <1>1, <1>2, <1>5
  <2> QED
    BY <1>1, <1>4, <1>5, <2>1
<1>6. CASE buffer = <<>> /\ pipe # <<>> /\ line = Head(pipe) /\ buffer' = Tail(pipe) /\ pipe' = <<>>
  <2>1. Taken(pipe)
    BY <1>1, <1>2, <1>6
  <2> QED
    BY <1>1, <1>3, <1>4, <1>6, <2>1
<1> QED
  BY <1>5, <1>6

LEMMA AcpAnswers ==
  ASSUME AcpInv, Acp!AgentAnswers
  PROVE  AcpInv'
<1> DEFINE r == Head(inbox)
<1>1. /\ process = "running" /\ inbox # <<>> /\ inbox \in Seq(Acp!Requests) /\ inbox' = Tail(inbox)
      /\ UNCHANGED <<client, process, half, buffer, taken, muddled>>
  BY DEF Acp!AgentAnswers, AcpInv, AcpTyped, Acp!TypeOK
<1>2. r \in Acp!Requests /\ r = inbox[1] /\ inbox' \in Seq(Acp!Requests) /\ (Len(inbox) = 1 => inbox' = <<>>)
  BY <1>1
<1>3. open' \subseteq OcSpawns
  BY DEF Acp!AgentAnswers, AcpInv, AcpTyped, Acp!TypeOK
<1>4. PICK line \in Acp!Lines :
        line \notin Unasked /\ line.id = r.id /\ pipe' = Append(pipe, line)
  <2>1. PICK ok \in BOOLEAN :
          pipe' = Append(pipe, Acp!Response(r, ok, IF r.method = "session/list" /\ ok THEN open ELSE {}))
    BY DEF Acp!AgentAnswers
  <2>2. PICK ss \in SUBSET OcSpawns : ss = IF r.method = "session/list" /\ ok THEN open ELSE {}
    BY DEF AcpInv, AcpTyped, Acp!TypeOK
  <2> DEFINE line == Acp!Response(r, ok, ss)
  <2>3. r.id \in Nat /\ r.method \in Acp!Methods
    BY <1>2 DEF Acp!Requests
  <2>4. line \in Acp!Lines /\ line.id = r.id /\ line.kind = "response"
    BY <2>3 DEF Acp!Lines, Acp!Response
  <2>5. line \notin Unasked
    BY <2>4 DEF Unasked, Acp!Update, Acp!Garbage
  <2> QED
    BY <2>1, <2>2, <2>4, <2>5
<1>5. /\ pipe' \in Seq(Acp!Lines) /\ DOMAIN pipe' = DOMAIN pipe \cup {Len(pipe) + 1}
      /\ pipe'[Len(pipe) + 1] = line /\ \A i \in DOMAIN pipe : pipe'[i] = pipe[i]
  BY <1>4, PutLast DEF AcpInv, AcpTyped, Acp!TypeOK
<1>6. AcpTyped'
  BY <1>1, <1>2, <1>3, <1>5 DEF AcpInv, AcpTyped, Acp!TypeOK
<1>7. ASSUME ~muddled, client.phase # "idle"
      PROVE  /\ About(buffer, client.id) /\ Lone(buffer) /\ Noise(buffer) /\ Noise(pipe)
             /\ Len(inbox) = 1 /\ line.id = client.id
  BY <1>1, <1>2, <1>4, <1>7 DEF AcpInv, Outstanding
<1>8. Noise(pipe) => Lone(pipe') /\ (line.id = client.id => About(pipe', client.id))
  BY <1>5 DEF Noise, Lone, About
<1>9. Outstanding'
  BY <1>1, <1>2, <1>7, <1>8 DEF Outstanding
<1> QED
  BY <1>1, <1>6, <1>9 DEF AcpInv, Own

LEMMA AcpSends ==
  ASSUME AcpInv, NEW line \in Unasked, Acp!AgentSends(line)
  PROVE  AcpInv'
<1>1. /\ pipe' = Append(pipe, line)
      /\ UNCHANGED <<client, process, inbox, half, buffer, open, taken, muddled>>
  BY DEF Acp!AgentSends
<1>2. line \in Acp!Lines
  BY DEF Acp!Lines, Unasked
<1>3. /\ pipe' \in Seq(Acp!Lines) /\ DOMAIN pipe' = DOMAIN pipe \cup {Len(pipe) + 1}
      /\ pipe'[Len(pipe) + 1] = line /\ \A i \in DOMAIN pipe : pipe'[i] = pipe[i]
  BY <1>1, <1>2, PutLast DEF AcpInv, AcpTyped, Acp!TypeOK
<1>4. /\ Noise(pipe) => Noise(pipe')
      /\ Lone(pipe) => Lone(pipe')
      /\ \A n : About(pipe, n) => About(pipe', n)
  BY <1>3 DEF Noise, Lone, About
<1>5. AcpTyped'
  BY <1>1, <1>3 DEF AcpInv, AcpTyped, Acp!TypeOK
<1>6. Outstanding'
  BY <1>1, <1>4 DEF AcpInv, Outstanding, Noise, About, Lone
<1> QED
  BY <1>1, <1>5, <1>6 DEF AcpInv, Own

LEMMA AcpBegins ==
  ASSUME NEW f \in Acp!Flows, Acp!Begin(f)
  PROVE  AcpInv'
<1> DEFINE r == [id |-> 1, method |-> "initialize", session |-> NoRequest]
<1>1. /\ client' = [Acp!Idle EXCEPT !.flow = f, !.phase = "initialize", !.request = r, !.id = 1]
      /\ inbox' = <<r>> /\ process' = "running" /\ pipe' = <<>> /\ half' = FALSE /\ buffer' = <<>>
      /\ open' = OcSpawns /\ taken' = {} /\ muddled' = FALSE
  BY DEF Acp!Begin
<1>2. r \in Acp!Requests /\ r.id = 1
  BY DEF Acp!Requests, Acp!Methods
<1> HIDE DEF r
<1>3. client' = [flow |-> f, phase |-> "initialize", request |-> r, toClose |-> {}, id |-> 1]
  BY <1>1 DEF Acp!Idle
<1>4. client' \in ClientRecords
  BY <1>2, <1>3 DEF ClientRecords, Acp!Methods
<1>5. /\ inbox' \in Seq(Acp!Requests) /\ pipe' \in Seq(Acp!Lines) /\ buffer' \in Seq(Acp!Lines)
      /\ Len(inbox') = 1 /\ inbox'[1] = r
  BY <1>1, <1>2
<1>6. half' \in BOOLEAN /\ muddled' \in BOOLEAN
  BY <1>1
<1>7. Acp!TypeOK'
  BY <1>1, <1>3, <1>4, <1>5, <1>6 DEF Acp!TypeOK, ClientRecords
<1>8. AcpTyped'
  BY <1>2, <1>3, <1>7 DEF AcpTyped
<1>9. Outstanding'
  BY <1>1, <1>2, <1>3, <1>5 DEF Outstanding, Noise, About, Lone
<1> QED
  BY <1>1, <1>8, <1>9 DEF AcpInv, Own

\* Only its own response is taken as the answer, as long as nothing muddles.
LEMMA AcpReceives ==
  ASSUME AcpInv, Acp!Receive
  PROVE  AcpInv'
<1>1. client.phase # "idle" /\ UNCHANGED <<half, open>>
  BY DEF Acp!Receive
<1>2. PICK line :
        /\ Acp!Handle(line)
        /\ \/ buffer # <<>> /\ line = Head(buffer) /\ buffer' = Tail(buffer) /\ pipe' = pipe
           \/ buffer = <<>> /\ pipe # <<>> /\ line = Head(pipe) /\ buffer' = Tail(pipe) /\ pipe' = <<>>
  BY DEF Acp!Receive
<1>3. /\ line \in Acp!Lines /\ buffer' \in Seq(Acp!Lines) /\ pipe' \in Seq(Acp!Lines)
      /\ ~muddled =>
           /\ About(buffer', client.id) /\ About(pipe', client.id) /\ Lone(buffer') /\ Lone(pipe')
           /\ Noise(buffer') \/ Noise(pipe')
           /\ Noise(buffer) /\ Noise(pipe) => Noise(buffer') /\ Noise(pipe')
           /\ line \notin Unasked =>
                /\ line.id = client.id /\ Noise(buffer') /\ Noise(pipe')
                /\ process = "running" => inbox = <<>>
  BY <1>1, <1>2, AcpReads
<1>4. client \in ClientRecords /\ client.request \in Acp!Requests /\ client.request.id = client.id
  BY <1>1 DEF AcpInv, AcpTyped, Acp!TypeOK, ClientRecords
<1>5. CASE UNCHANGED <<client, process, inbox, taken, muddled>>
  <2>1. AcpTyped'
    BY <1>1, <1>3, <1>5 DEF AcpInv, AcpTyped, Acp!TypeOK
  <2>2. Outstanding'
    BY <1>1, <1>3, <1>5 DEF AcpInv, Outstanding
  <2> QED
    BY <1>5, <2>1, <2>2 DEF AcpInv, Own
<1>6. CASE line # Acp!Garbage /\ Acp!Answer(line)
  <2>1. /\ taken' = taken \cup {[request |-> client.request, line |-> line]}
        /\ muddled' = (muddled \/ line = Acp!Update)
        /\ Acp!Fail \/ Acp!Proceed(line)
    BY <1>6 DEF Acp!Answer
  <2>2. Stopped \/ Sent
    BY <1>3, <1>4, <1>6, <2>1, GoesOn
  <2>3. muddled' \in BOOLEAN
    BY <2>1
  <2>4. \A t \in taken' : t.request \in Acp!Requests /\ t.line \in Acp!Lines
    BY <1>3, <1>4, <2>1 DEF AcpInv, AcpTyped, Acp!TypeOK
  <2>5. ASSUME ~muddled'
        PROVE  /\ Noise(buffer') /\ Noise(pipe') /\ (process = "running" => inbox = <<>>)
               /\ \A t \in taken' : t.line # Acp!Update /\ t.line.id = t.request.id
    <3>1. ~muddled /\ line # Acp!Update /\ line \notin Unasked
      BY <1>6, <2>1, <2>5 DEF Unasked
    <3>2. \A t \in taken : t.line # Acp!Update /\ t.line.id = t.request.id
      BY <3>1 DEF AcpInv, Own
    <3> QED
      BY <1>3, <1>4, <2>1, <3>1, <3>2
  <2> QED
    BY <1>1, <1>3, <2>2, <2>3, <2>4, <2>5, AcpGoesOn
<1>7. CASE Acp!Raise
  <2>1. Acp!Fail /\ muddled' = TRUE /\ taken' = taken
    BY <1>7 DEF Acp!Raise
  <2>2. Stopped \/ Sent
    BY <1>4, <2>1, GoesOn
  <2>3. \A t \in taken' : t.request \in Acp!Requests /\ t.line \in Acp!Lines
    BY <2>1 DEF AcpInv, AcpTyped, Acp!TypeOK
  <2> QED
    BY <1>1, <1>3, <2>1, <2>2, <2>3, AcpGoesOn
<1> QED
  BY <1>2, <1>5, <1>6, <1>7 DEF Acp!Handle

LEMMA AcpNext == AcpInv /\ [Acp!Next]_acpVars => AcpInv'
<1> SUFFICES ASSUME AcpInv, [Acp!Next]_acpVars PROVE AcpInv'
  OBVIOUS
<1>1. client \in ClientRecords /\ buffer \in Seq(Acp!Lines) /\ pipe \in Seq(Acp!Lines)
      /\ muddled \in BOOLEAN /\ half \in BOOLEAN
      /\ \A t \in taken : t.request \in Acp!Requests /\ t.line \in Acp!Lines
  BY DEF AcpInv, AcpTyped, Acp!TypeOK, ClientRecords
<1>2. CASE Acp!AgentStalls
  <2>1. /\ half' \in BOOLEAN
        /\ UNCHANGED <<client, process, inbox, pipe, buffer, open, taken, muddled>>
    BY <1>2 DEF Acp!AgentStalls
  <2> QED
    BY <2>1 DEF AcpInv, AcpTyped, Acp!TypeOK, Outstanding, Noise, About, Lone, Own
<1>3. CASE Acp!AgentDies
  <2>1. /\ process = "running" /\ process' = "dead" /\ half' \in BOOLEAN
        /\ UNCHANGED <<client, inbox, pipe, buffer, open, taken, muddled>>
    BY <1>3 DEF Acp!AgentDies
  <2>2. Outstanding'
    BY <2>1 DEF AcpInv, Outstanding, Noise, About, Lone
  <2> QED
    BY <2>1, <2>2 DEF AcpInv, AcpTyped, Acp!TypeOK, Own
<1>4. CASE Acp!ReceiveEnd
  <2>1. /\ client.phase # "idle" /\ process = "dead" /\ pipe = <<>> /\ buffer = <<>> /\ Acp!Fail
        /\ UNCHANGED <<pipe, half, buffer, open, taken, muddled>>
    BY <1>4 DEF Acp!ReceiveEnd
  <2>2. Stopped \/ Sent
    BY <1>1, <2>1, GoesOn
  <2>3. Noise(buffer') /\ Noise(pipe')
    BY <2>1 DEF Noise
  <2>4. ~muddled => \A t \in taken : t.line # Acp!Update /\ t.line.id = t.request.id
    BY DEF AcpInv, Own
  <2> QED
    BY <1>1, <2>1, <2>2, <2>3, <2>4, AcpGoesOn
<1>5. CASE Acp!TimesOut
  <2>1. /\ client.phase # "idle" /\ Acp!Fail /\ muddled' = TRUE
        /\ UNCHANGED <<pipe, half, buffer, open, taken>>
    BY <1>5 DEF Acp!TimesOut, Acp!Raise
  <2>2. Stopped \/ Sent
    BY <1>1, <2>1, GoesOn
  <2> QED
    BY <1>1, <2>1, <2>2, AcpGoesOn
<1>6. CASE UNCHANGED acpVars
  BY <1>6 DEF acpVars, AcpInv, AcpTyped, Acp!TypeOK, Outstanding, Noise, About, Lone,
              Own
<1> QED
  BY <1>2, <1>3, <1>4, <1>5, <1>6, AcpAnswers, AcpSends, AcpBegins, AcpReceives
  DEF Acp!Next, Acp!Client, Acp!AgentUpdates, Acp!AgentGarbles, Unasked

\* The order of the responses, which no time-out disturbs: those on the way and the
\* requests behind them carry rising numbers, none above the client's and all above
\* those that were taken.
Says(s) == {i \in DOMAIN s : s[i] \notin Unasked}
Rising(s) == \A i, j \in Says(s) : i < j => s[i].id < s[j].id
Below(s, t) == \A i \in Says(s), j \in Says(t) : s[i].id < t[j].id
Above(s, n) == \A i \in Says(s) : n < s[i].id
Upto(s, n) == \A i \in Says(s) : s[i].id <= n

Lined(b, p, q, n) ==
  /\ Rising(b) /\ Rising(p) /\ Rising(q)
  /\ Below(b, p) /\ Below(b, q) /\ Below(p, q)
  /\ Upto(b, n) /\ Upto(p, n) /\ Upto(q, n)

Behind(n, b, p, q) == Above(b, n) /\ Above(p, n) /\ Above(q, n)

InOrder ==
  \A t \in taken :
    /\ t.line # Acp!Garbage
    /\ t.request.method = "session/prompt" => t.line # Acp!Update /\ t.line.id = t.request.id
    /\ t.line # Acp!Update =>
         /\ t.line.id <= t.request.id
         /\ \A u \in taken :
              u.line # Acp!Update /\ u.request.id < t.request.id => u.line.id < t.line.id

Ahead ==
  client.phase # "idle" =>
    /\ client.request.method = client.phase
    /\ Lined(buffer, pipe, inbox, client.id)
    /\ \A t \in taken :
         /\ t.request.id < client.id
         /\ t.line # Acp!Update => Behind(t.line.id, buffer, pipe, inbox)

AcpOrder == InOrder /\ Ahead

LEMMA Numbered ==
  /\ \A line \in Acp!Lines : line \notin Unasked => line.id \in Nat
  /\ \A r \in Acp!Requests : r.id \in Nat /\ r \notin Unasked
BY DEF Acp!Lines, Acp!Requests, Unasked, Acp!Update, Acp!Garbage

\* Without its first element a sequence is in order as it was; the first response
\* is below the others.
LEMMA OrderOff ==
  ASSUME NEW S, NEW s \in Seq(S), s # <<>>
  PROVE  /\ Rising(s) => Rising(Tail(s)) /\ (Head(s) \notin Unasked => Above(Tail(s), Head(s).id))
         /\ \A n : Above(s, n) => Above(Tail(s), n) /\ (Head(s) \notin Unasked => n < Head(s).id)
         /\ \A n : Upto(s, n) => Upto(Tail(s), n) /\ (Head(s) \notin Unasked => Head(s).id <= n)
         /\ \A t : Below(s, t) => Below(Tail(s), t) /\ (Head(s) \notin Unasked => Above(t, Head(s).id))
         /\ \A t : Below(t, s) =>
              Below(t, Tail(s)) /\ (Head(s) \notin Unasked => \A i \in Says(t) : t[i].id < Head(s).id)
<1>1. /\ Head(s) = s[1] /\ 1 \in DOMAIN s
      /\ \A i \in DOMAIN Tail(s) : i + 1 \in DOMAIN s /\ i + 1 # 1 /\ Tail(s)[i] = s[i + 1]
      /\ \A i \in DOMAIN Tail(s) : i \in Nat
  BY HeadOff
<1>2. \A i \in Says(Tail(s)) : i \in Nat /\ i + 1 \in Says(s) /\ Tail(s)[i] = s[i + 1]
  BY <1>1 DEF Says
<1>3. Head(s) \notin Unasked => 1 \in Says(s)
  BY <1>1 DEF Says
<1>4. \A i \in Says(Tail(s)) : 1 < i + 1
  <2>1. \A i \in DOMAIN Tail(s) : i \in Nat /\ i + 1 # 1
    BY <1>1
  <2> QED
    BY <2>1 DEF Says
<1>5. Rising(s) => Rising(Tail(s)) /\ (Head(s) \notin Unasked => Above(Tail(s), Head(s).id))
  <2> SUFFICES ASSUME Rising(s)
               PROVE  Rising(Tail(s)) /\ (Head(s) \notin Unasked => Above(Tail(s), Head(s).id))
    OBVIOUS
  <2>1. ASSUME NEW i \in Says(Tail(s)), NEW j \in Says(Tail(s)), i < j
        PROVE  Tail(s)[i].id < Tail(s)[j].id
    <3>1. i \in Nat /\ i + 1 \in Says(s) /\ Tail(s)[i] = s[i + 1]
      BY <1>2
    <3>2. j \in Nat /\ j + 1 \in Says(s) /\ Tail(s)[j] = s[j + 1]
      BY <1>2
    <3>3. i + 1 < j + 1
      BY <2>1, <3>1, <3>2
    <3> QED
      BY <3>1, <3>2, <3>3 DEF Rising
  <2>2. ASSUME Head(s) \notin Unasked, NEW j \in Says(Tail(s)) PROVE Head(s).id < Tail(s)[j].id
    BY <1>1, <1>2, <1>3, <1>4, <2>2 DEF Rising
  <2> QED
    BY <2>1, <2>2 DEF Rising, Above
<1>6. ASSUME NEW n PROVE Above(s, n) => Above(Tail(s), n) /\ (Head(s) \notin Unasked => n < Head(s).id)
  BY <1>1, <1>2, <1>3 DEF Above
<1>7. ASSUME NEW n PROVE Upto(s, n) => Upto(Tail(s), n) /\ (Head(s) \notin Unasked => Head(s).id <= n)
  BY <1>1, <1>2, <1>3 DEF Upto
<1>8. ASSUME NEW t PROVE Below(s, t) => Below(Tail(s), t) /\ (Head(s) \notin Unasked => Above(t, Head(s).id))
  BY <1>1, <1>2, <1>3 DEF Below, Above
<1>9. ASSUME NEW t
      PROVE  Below(t, s) =>
               Below(t, Tail(s)) /\ (Head(s) \notin Unasked => \A i \in Says(t) : t[i].id < Head(s).id)
  BY <1>1, <1>2, <1>3 DEF Below
<1> QED
  BY <1>5, <1>6, <1>7, <1>8, <1>9

\* Nor does an element at its end disturb it, if it is above what is there.
LEMMA OrderOn ==
  ASSUME NEW S, NEW s \in Seq(S), NEW x \in S
  PROVE  /\ Rising(s) /\ (x \notin Unasked => \A i \in Says(s) : s[i].id < x.id) => Rising(Append(s, x))
         /\ \A n : Above(s, n) /\ (x \notin Unasked => n < x.id) => Above(Append(s, x), n)
         /\ \A n : Upto(s, n) /\ (x \notin Unasked => x.id <= n) => Upto(Append(s, x), n)
         /\ \A t : Below(s, t) /\ (x \notin Unasked => Above(t, x.id)) => Below(Append(s, x), t)
         /\ \A t : Below(t, s) /\ (x \notin Unasked => \A i \in Says(t) : t[i].id < x.id) =>
              Below(t, Append(s, x))
<1>1. /\ DOMAIN Append(s, x) = DOMAIN s \cup {Len(s) + 1} /\ Append(s, x)[Len(s) + 1] = x
      /\ \A i \in DOMAIN s : Append(s, x)[i] = s[i]
      /\ \A i \in DOMAIN s : i \in Nat /\ i < Len(s) + 1
      /\ Len(s) + 1 \in Nat
  BY PutLast
<1>2. \A i \in Says(Append(s, x)) :
        \/ i \in Says(s) /\ Append(s, x)[i] = s[i] /\ i \in Nat /\ i < Len(s) + 1
        \/ i = Len(s) + 1 /\ Append(s, x)[i] = x /\ x \notin Unasked
  BY <1>1 DEF Says
<1>3. ASSUME Rising(s), x \notin Unasked => \A i \in Says(s) : s[i].id < x.id
      PROVE  Rising(Append(s, x))
  <2> SUFFICES ASSUME NEW i \in Says(Append(s, x)), NEW j \in Says(Append(s, x)), i < j
               PROVE  Append(s, x)[i].id < Append(s, x)[j].id
    BY DEF Rising
  <2>1. \/ j \in Says(s) /\ Append(s, x)[j] = s[j] /\ j \in Nat /\ j < Len(s) + 1
        \/ j = Len(s) + 1 /\ Append(s, x)[j] = x /\ x \notin Unasked
    BY <1>2
  <2>2. \/ i \in Says(s) /\ Append(s, x)[i] = s[i] /\ i \in Nat /\ i < Len(s) + 1
        \/ i = Len(s) + 1 /\ Append(s, x)[i] = x /\ x \notin Unasked
    BY <1>2
  <2>3. i \in Says(s) /\ Append(s, x)[i] = s[i]
    <3>1. j \in Nat /\ j <= Len(s) + 1 /\ Len(s) + 1 \in Nat
      BY <1>1, <2>1
    <3>2. i # Len(s) + 1
      BY <3>1
    <3> QED
      BY <2>2, <3>2
  <2> QED
    BY <1>3, <2>1, <2>3 DEF Rising
<1>4. ASSUME NEW n, Above(s, n), x \notin Unasked => n < x.id PROVE Above(Append(s, x), n)
  BY <1>2, <1>4 DEF Above
<1>5. ASSUME NEW n, Upto(s, n), x \notin Unasked => x.id <= n PROVE Upto(Append(s, x), n)
  BY <1>2, <1>5 DEF Upto
<1>6. ASSUME NEW t, Below(s, t), x \notin Unasked => Above(t, x.id) PROVE Below(Append(s, x), t)
  BY <1>2, <1>6 DEF Below, Above
<1>7. ASSUME NEW t, Below(t, s), x \notin Unasked => \A i \in Says(t) : t[i].id < x.id
      PROVE  Below(t, Append(s, x))
  BY <1>2, <1>7 DEF Below
<1> QED
  BY <1>3, <1>4, <1>5, <1>6, <1>7

\* Nothing is in order with everything.
LEMMA OrderNone ==
  /\ Rising(<<>>) /\ \A t : Below(<<>>, t) /\ Below(t, <<>>)
  /\ \A n : Above(<<>>, n) /\ Upto(<<>>, n)
BY DEF Rising, Below, Above, Upto, Says

\* What the responses taken so far are to those on the way, when a command goes on.
LEMMA OrderGoesOn ==
  ASSUME AcpTyped, client.phase # "idle", Stopped \/ Sent, InOrder',
         buffer' \in Seq(Acp!Lines), pipe' \in Seq(Acp!Lines),
         Lined(buffer', pipe', inbox, client.id),
         \A t \in taken' :
           /\ t.request.id \in Nat /\ t.request.id <= client.id
           /\ t.line # Acp!Update =>
                t.line.id \in Nat /\ t.line.id <= t.request.id /\ Behind(t.line.id, buffer', pipe', inbox)
  PROVE  AcpOrder'
<1>1. CASE Stopped
  BY <1>1 DEF AcpOrder, Ahead, Stopped, Acp!Idle
<1>2. CASE Sent
  <2>1. PICK r \in Acp!Requests :
          /\ r = client'.request /\ r.id = client'.id /\ r.method = client'.phase
          /\ inbox' = Append(inbox, r) /\ client'.id = client.id + 1 /\ r \notin Unasked
    BY <1>2, Numbered DEF Sent
  <2>2. inbox \in Seq(Acp!Requests) /\ client.id \in Nat
    BY DEF AcpTyped, Acp!TypeOK
  <2>3. ASSUME NEW s, Upto(s, client.id), \A i \in Says(s) : s[i].id \in Nat
        PROVE  Upto(s, client'.id) /\ \A i \in Says(s) : s[i].id < r.id
    BY <2>1, <2>2, <2>3 DEF Upto
  <2>4. /\ \A i \in Says(buffer') : buffer'[i].id \in Nat
        /\ \A i \in Says(pipe') : pipe'[i].id \in Nat
        /\ \A i \in Says(inbox) : inbox[i].id \in Nat
    <3>1. ASSUME NEW s \in Seq(Acp!Lines), NEW i \in Says(s) PROVE s[i].id \in Nat
      BY <3>1, EachIsIn, Numbered DEF Says
    <3>2. ASSUME NEW i \in Says(inbox) PROVE inbox[i].id \in Nat
      BY <2>2, <3>2, EachIsIn, Numbered DEF Says
    <3> QED
      BY <3>1, <3>2
  <2>5. Lined(buffer', pipe', inbox', client'.id)
    BY <2>1, <2>2, <2>3, <2>4, OrderOn DEF Lined
  <2>6. ASSUME NEW t \in taken'
        PROVE  /\ t.request.id < client'.id
               /\ t.line # Acp!Update => Behind(t.line.id, buffer', pipe', inbox')
    <3>1. t.request.id < client'.id
      BY <2>1, <2>2
    <3>2. ASSUME t.line # Acp!Update PROVE Behind(t.line.id, buffer', pipe', inbox')
      <4>1. Behind(t.line.id, buffer', pipe', inbox) /\ t.line.id \in Nat /\ t.line.id < r.id
        BY <2>1, <2>2, <3>2
      <4> QED
        BY <2>1, <2>2, <4>1, OrderOn DEF Behind
    <3> QED
      BY <3>1, <3>2
  <2> QED
    BY <2>1, <2>5, <2>6 DEF AcpOrder, Ahead
<1> QED
  BY <1>1, <1>2

\* The reader takes the next line: what is left is in order, and behind it.
LEMMA OrderReads ==
  ASSUME AcpTyped, AcpOrder, client.phase # "idle",
         NEW line,
         \/ buffer # <<>> /\ line = Head(buffer) /\ buffer' = Tail(buffer) /\ pipe' = pipe
         \/ buffer = <<>> /\ pipe # <<>> /\ line = Head(pipe) /\ buffer' = Tail(pipe) /\ pipe' = <<>>
  PROVE  /\ Lined(buffer', pipe', inbox, client.id)
         /\ line \notin Unasked => line.id <= client.id /\ Behind(line.id, buffer', pipe', inbox)
         /\ \A n : Behind(n, buffer, pipe, inbox) =>
              Behind(n, buffer', pipe', inbox) /\ (line \notin Unasked => n < line.id)
<1>1. buffer \in Seq(Acp!Lines) /\ pipe \in Seq(Acp!Lines)
  BY DEF AcpTyped, Acp!TypeOK
<1>2. Lined(buffer, pipe, inbox, client.id)
  BY DEF AcpOrder, Ahead
<1>3. CASE buffer # <<>> /\ line = Head(buffer) /\ buffer' = Tail(buffer) /\ pipe' = pipe
  BY <1>1, <1>2, <1>3, OrderOff DEF Lined, Behind
<1>4. CASE buffer = <<>> /\ pipe # <<>> /\ line = Head(pipe) /\ buffer' = Tail(pipe) /\ pipe' = <<>>
  BY <1>1, <1>2, <1>4, OrderOff, OrderNone DEF Lined, Behind
<1> QED
  BY <1>3, <1>4

LEMMA OrderAnswers == ASSUME AcpTyped, AcpOrder, Acp!AgentAnswers PROVE AcpOrder'
<1>1. /\ inbox # <<>> /\ inbox \in Seq(Acp!Requests) /\ pipe \in Seq(Acp!Lines) /\ inbox' = Tail(inbox)
      /\ UNCHANGED <<client, buffer, taken>>
  BY DEF Acp!AgentAnswers, AcpTyped, Acp!TypeOK
<1>2. PICK r \in Acp!Requests : r = Head(inbox) /\ r \notin Unasked /\ r.id \in Nat
  BY <1>1, Numbered
<1>3. PICK line \in Acp!Lines :
        line \notin Unasked /\ line.id = r.id /\ pipe' = Append(pipe, line)
  <2>1. PICK ok \in BOOLEAN :
          pipe' = Append(pipe, Acp!Response(r, ok, IF r.method = "session/list" /\ ok THEN open ELSE {}))
    BY <1>2 DEF Acp!AgentAnswers
  <2>2. PICK ss \in SUBSET OcSpawns : ss = IF r.method = "session/list" /\ ok THEN open ELSE {}
    BY DEF AcpTyped, Acp!TypeOK
  <2> DEFINE line == Acp!Response(r, ok, ss)
  <2>3. r.id \in Nat /\ r.method \in Acp!Methods
    BY <1>2 DEF Acp!Requests
  <2>4. line \in Acp!Lines /\ line.id = r.id /\ line.kind = "response"
    BY <2>3 DEF Acp!Lines, Acp!Response
  <2>5. line \notin Unasked
    BY <2>4 DEF Unasked, Acp!Update, Acp!Garbage
  <2> QED
    BY <2>1, <2>2, <2>4, <2>5
<1>4. ASSUME Lined(buffer, pipe, inbox, client.id)
      PROVE  /\ Lined(buffer, pipe', inbox', client.id)
             /\ \A n : Behind(n, buffer, pipe, inbox) => Behind(n, buffer, pipe', inbox')
  <2>1. /\ Rising(inbox') /\ Above(inbox', line.id) /\ Upto(inbox', client.id) /\ line.id <= client.id
        /\ Below(buffer, inbox') /\ \A i \in Says(buffer) : buffer[i].id < line.id
        /\ Below(pipe, inbox') /\ \A i \in Says(pipe) : pipe[i].id < line.id
        /\ \A n : Above(inbox, n) => Above(inbox', n) /\ n < line.id
    BY <1>1, <1>2, <1>3, <1>4, OrderOff DEF Lined
  <2>2. /\ Rising(pipe') /\ Upto(pipe', client.id) /\ Below(buffer, pipe') /\ Below(pipe', inbox')
        /\ \A n : Above(pipe, n) /\ n < line.id => Above(pipe', n)
    <3>1. Rising(pipe) /\ Upto(pipe, client.id) /\ Below(buffer, pipe)
      BY <1>4 DEF Lined
    <3>2. Rising(pipe')
      BY <1>1, <1>3, <2>1, <3>1, OrderOn
    <3>3. Upto(pipe', client.id)
      BY <1>1, <1>3, <2>1, <3>1, OrderOn
    <3>4. Below(buffer, pipe') /\ Below(pipe', inbox')
      BY <1>1, <1>3, <2>1, <3>1, OrderOn
    <3>5. ASSUME NEW n, Above(pipe, n), n < line.id PROVE Above(pipe', n)
      BY <1>1, <1>3, <3>5, OrderOn
    <3> QED
      BY <3>2, <3>3, <3>4, <3>5
  <2> QED
    BY <1>4, <2>1, <2>2 DEF Lined, Behind
<1> QED
  BY <1>1, <1>4 DEF AcpOrder, InOrder, Ahead

LEMMA OrderSends ==
  ASSUME AcpTyped, AcpOrder, NEW line \in Unasked, Acp!AgentSends(line)
  PROVE  AcpOrder'
<1>1. /\ pipe' = Append(pipe, line) /\ line \in Acp!Lines /\ pipe \in Seq(Acp!Lines)
      /\ UNCHANGED <<client, inbox, buffer, taken>>
  BY DEF Acp!AgentSends, AcpTyped, Acp!TypeOK, Acp!Lines, Unasked
<1>2. /\ Rising(pipe) => Rising(pipe')
      /\ \A n : (Above(pipe, n) => Above(pipe', n)) /\ (Upto(pipe, n) => Upto(pipe', n))
      /\ \A t : (Below(pipe, t) => Below(pipe', t)) /\ (Below(t, pipe) => Below(t, pipe'))
  BY <1>1, OrderOn
<1> QED
  BY <1>1, <1>2 DEF AcpOrder, InOrder, Ahead, Lined, Behind

LEMMA OrderBegins ==
  ASSUME NEW f \in Acp!Flows, Acp!Begin(f)
  PROVE  AcpOrder'
<1>1. PICK r \in Acp!Requests :
        /\ r.id = 1 /\ r.method = "initialize" /\ r \notin Unasked
        /\ client' = [Acp!Idle EXCEPT !.flow = f, !.phase = "initialize", !.request = r, !.id = 1]
        /\ inbox' = <<r>> /\ pipe' = <<>> /\ buffer' = <<>> /\ taken' = {}
  <2> DEFINE r == [id |-> 1, method |-> "initialize", session |-> NoRequest]
  <2>1. r \in Acp!Requests /\ r.id = 1 /\ r.method = "initialize"
    BY DEF Acp!Requests, Acp!Methods
  <2>2. /\ client' = [Acp!Idle EXCEPT !.flow = f, !.phase = "initialize", !.request = r, !.id = 1]
        /\ inbox' = <<r>> /\ pipe' = <<>> /\ buffer' = <<>> /\ taken' = {}
    BY DEF Acp!Begin
  <2> HIDE DEF r
  <2> QED
    BY <2>1, <2>2, Numbered
<1>2. client'.phase = "initialize" /\ client'.request = r /\ client'.id = 1
  BY <1>1 DEF Acp!Idle
<1>3. Lined(buffer', pipe', inbox', client'.id)
  BY <1>1, <1>2 DEF Lined, Rising, Below, Upto, Says
<1> QED
  BY <1>1, <1>2, <1>3 DEF AcpOrder, InOrder, Ahead

\* A line that is taken is late or in time; that of a prompt is its own.
LEMMA OrderReceives == ASSUME AcpInv, AcpOrder, Acp!Receive PROVE AcpOrder'
<1>0. AcpTyped /\ client.phase # "idle" /\ UNCHANGED <<half, open>>
  BY DEF AcpInv, Acp!Receive
<1>1. /\ client \in ClientRecords /\ client.request \in Acp!Requests /\ client.request.id = client.id
      /\ client.id \in Nat /\ client.request.method = client.phase
      /\ \A t \in taken : t.request \in Acp!Requests /\ t.line \in Acp!Lines
  BY <1>0 DEF AcpTyped, Acp!TypeOK, ClientRecords, AcpOrder, Ahead
<1>2. PICK line :
        /\ Acp!Handle(line)
        /\ \/ buffer # <<>> /\ line = Head(buffer) /\ buffer' = Tail(buffer) /\ pipe' = pipe
           \/ buffer = <<>> /\ pipe # <<>> /\ line = Head(pipe) /\ buffer' = Tail(pipe) /\ pipe' = <<>>
  BY DEF Acp!Receive
<1>3. line \in Acp!Lines /\ buffer' \in Seq(Acp!Lines) /\ pipe' \in Seq(Acp!Lines)
  BY <1>0, <1>2, AcpReads
<1>4. /\ Lined(buffer', pipe', inbox, client.id)
      /\ line \notin Unasked => line.id <= client.id /\ Behind(line.id, buffer', pipe', inbox)
      /\ \A n : Behind(n, buffer, pipe, inbox) =>
           Behind(n, buffer', pipe', inbox) /\ (line \notin Unasked => n < line.id)
  BY <1>0, <1>2, OrderReads
<1>5. \A t \in taken :
        /\ t.line # Acp!Garbage /\ t.request.id \in Nat /\ t.request.id < client.id
        /\ t.line # Acp!Update =>
             /\ t.line.id \in Nat /\ t.line.id <= t.request.id /\ Behind(t.line.id, buffer', pipe', inbox)
             /\ line \notin Unasked => t.line.id < line.id
  BY <1>0, <1>1, <1>4, Numbered DEF AcpOrder, InOrder, Ahead, Unasked
<1>6. CASE UNCHANGED <<client, process, inbox, taken, muddled>>
  BY <1>1, <1>4, <1>5, <1>6 DEF AcpOrder, InOrder, Ahead
<1>7. CASE line # Acp!Garbage /\ Acp!Answer(line)
           /\ (client.phase = "session/prompt" => line # Acp!Update /\ line.id = client.request.id)
  <2>1. PICK new : new = [request |-> client.request, line |-> line]
    OBVIOUS
  <2>2. taken' = taken \cup {new} /\ new.request = client.request /\ new.line = line
        /\ (Acp!Fail \/ Acp!Proceed(line))
    BY <1>7, <2>1 DEF Acp!Answer
  <2>3. Stopped \/ Sent
    BY <1>1, <1>3, <1>7, <2>2, GoesOn
  <2>4. line # Acp!Update => line \notin Unasked /\ line.id \in Nat
    BY <1>3, <1>7, Numbered DEF Unasked
  <2>5. InOrder'
    <3>1. ASSUME NEW t \in taken'
          PROVE  /\ t.line # Acp!Garbage
                 /\ t.request.method = "session/prompt" => t.line # Acp!Update /\ t.line.id = t.request.id
                 /\ t.line # Acp!Update => t.line.id <= t.request.id
      BY <1>1, <1>4, <1>5, <1>7, <2>2, <2>4 DEF AcpOrder, InOrder
    <3>2. ASSUME NEW t \in taken', NEW u \in taken', t.line # Acp!Update, u.line # Acp!Update,
                 u.request.id < t.request.id
          PROVE  u.line.id < t.line.id
      <4>1. CASE t \in taken /\ u \in taken
        BY <3>2, <4>1 DEF AcpOrder, InOrder
      <4>2. CASE t = new /\ u \in taken
        BY <1>5, <2>2, <2>4, <3>2, <4>2
      <4>3. CASE u = new
        <5>1. u.request.id = client.id /\ t.request.id <= client.id /\ t.request.id \in Nat
          BY <1>1, <1>5, <2>2, <4>3
        <5> QED
          BY <1>1, <3>2, <5>1
      <4> QED
        BY <2>2, <4>1, <4>2, <4>3
    <3> QED
      BY <3>1, <3>2 DEF InOrder
  <2>6. \A t \in taken' :
          /\ t.request.id \in Nat /\ t.request.id <= client.id
          /\ t.line # Acp!Update =>
               t.line.id \in Nat /\ t.line.id <= t.request.id /\ Behind(t.line.id, buffer', pipe', inbox)
    BY <1>1, <1>4, <1>5, <2>2, <2>4
  <2> QED
    BY <1>0, <1>3, <1>4, <2>3, <2>5, <2>6, OrderGoesOn
<1>8. CASE Acp!Raise
  <2>1. Acp!Fail /\ taken' = taken
    BY <1>8 DEF Acp!Raise
  <2>2. Stopped \/ Sent
    BY <1>1, <2>1, GoesOn
  <2>3. InOrder'
    BY <2>1 DEF AcpOrder, InOrder
  <2> QED
    BY <1>0, <1>1, <1>3, <1>4, <1>5, <2>1, <2>2, <2>3, OrderGoesOn
<1> QED
  BY <1>2, <1>6, <1>7, <1>8 DEF Acp!Handle, Acp!Mine

LEMMA AcpOrderInit == Acp!Init => AcpOrder
BY DEF Acp!Init, Acp!Idle, AcpOrder, InOrder, Ahead

LEMMA AcpOrderNext == AcpInv /\ AcpOrder /\ [Acp!Next]_acpVars => AcpOrder'
<1> SUFFICES ASSUME AcpInv, AcpOrder, [Acp!Next]_acpVars PROVE AcpOrder'
  OBVIOUS
<1>0. AcpTyped
  BY DEF AcpInv
<1>1. client \in ClientRecords /\ buffer \in Seq(Acp!Lines) /\ pipe \in Seq(Acp!Lines)
      /\ \A t \in taken : t.request \in Acp!Requests /\ t.line \in Acp!Lines
  BY <1>0 DEF AcpTyped, Acp!TypeOK, ClientRecords
<1>2. CASE UNCHANGED <<client, inbox, pipe, buffer, taken>>
  BY <1>2 DEF AcpOrder, InOrder, Ahead
<1>3. CASE Acp!ReceiveEnd \/ Acp!TimesOut
  <2>1. client.phase # "idle" /\ Acp!Fail /\ UNCHANGED <<pipe, buffer, taken>>
    BY <1>3 DEF Acp!ReceiveEnd, Acp!TimesOut, Acp!Raise
  <2>2. Stopped \/ Sent
    BY <1>1, <2>1, GoesOn
  <2>3. InOrder' /\ Lined(buffer', pipe', inbox, client.id)
    BY <2>1 DEF AcpOrder, InOrder, Ahead
  <2>4. client.id \in Nat
    BY <1>1 DEF ClientRecords
  <2>5. \A t \in taken' :
          /\ t.request.id \in Nat /\ t.request.id <= client.id
          /\ t.line # Acp!Update =>
               t.line.id \in Nat /\ t.line.id <= t.request.id /\ Behind(t.line.id, buffer', pipe', inbox)
    BY <1>1, <2>1, <2>4, Numbered DEF AcpOrder, InOrder, Ahead, Unasked
  <2> QED
    BY <1>0, <1>1, <2>1, <2>2, <2>3, <2>5, OrderGoesOn
<1>4. CASE Acp!AgentStalls \/ Acp!AgentDies \/ UNCHANGED acpVars
  BY <1>2, <1>4 DEF Acp!AgentStalls, Acp!AgentDies, acpVars
<1> QED
  BY <1>0, <1>3, <1>4, OrderAnswers, OrderSends, OrderBegins, OrderReceives
  DEF Acp!Next, Acp!Client, Acp!AgentUpdates, Acp!AgentGarbles, Unasked

LEMMA AcpBelongs == AcpInv /\ AcpOrder => Acp!AnswersBelong
BY DEF AcpInv, Own, AcpOrder, InOrder, Acp!AnswersBelong

-----------------------------------------------------------------------------
(* OpenClaw: spawns one after the other over one pipe                      *)

\* Responses are told from updates by their kind.
Final == {"response", "refusal"}

ClawTyped ==
  /\ gateway \in {"none", "running", "dead"}
  /\ clOpen \subseteq OpenClaw!Spawns /\ clUpdates \in [OpenClaw!Spawns -> 0..MaxUpdates]
  /\ clPipe \in Seq(OpenClaw!Line)
  /\ clSpawn \in 0..MaxSpawns /\ clPhase \in {"idle", "reading", "proposed"}
  /\ clPhase # "idle" => clSpawn # 0
  /\ yielded \in [OpenClaw!Spawns -> SUBSET OpenClaw!Spawns]
  /\ outcome \in [OpenClaw!Spawns -> {"none", "completed", "failed", "raised", "closed"}]
  /\ answered \in [OpenClaw!Spawns -> SUBSET OpenClaw!Spawns]
  /\ \A s \in OpenClaw!Spawns :
       outcome[s] = "none" <=> (s > clSpawn \/ (s = clSpawn /\ clPhase # "idle"))

\* What is in the pipe is about a prompt that was made; the response to a prompt
\* is the last of its lines, and so nothing follows it once it was read.
Piped ==
  /\ \A p \in clOpen : p <= clSpawn
  /\ \A i \in DOMAIN clPipe :
       /\ clPipe[i].of <= clSpawn
       /\ clPipe[i].kind \notin Final => clUpdates[clPipe[i].of] > 0
       /\ clPipe[i].kind \in Final =>
            /\ clPipe[i].of \notin clOpen
            /\ \A j \in DOMAIN clPipe : j > i => clPipe[j].of # clPipe[i].of

Read ==
  \A s \in OpenClaw!Spawns :
    /\ answered[s] \subseteq {s} /\ (s > clSpawn => answered[s] = {})
    /\ outcome[s] = "completed" => answered[s] = {s}
    /\ s \in answered[s] => s \notin clOpen /\ \A i \in DOMAIN clPipe : clPipe[i].of # s

\* A spawn yields what is about itself, or about an earlier prompt that sent
\* updates and whose response was not read.
Told ==
  \A s \in OpenClaw!Spawns : \A u \in yielded[s] :
    /\ u <= s /\ s <= clSpawn
    /\ u # s => clUpdates[u] > 0 /\ u \notin answered[u]

ClawInv == ClawTyped /\ Piped /\ Read /\ Told

LEMMA SpawnsAreNumbers == OpenClaw!Spawns \subseteq Nat /\ MaxSpawns \in Nat /\ MaxUpdates \in Nat
BY OpenClawAssumption DEF OpenClaw!OpenClawAssumption, OpenClaw!Spawns

LEMMA LinesAreAboutSpawns ==
  ASSUME ClawTyped
  PROVE  \A i \in DOMAIN clPipe : clPipe[i] \in OpenClaw!Line /\ clPipe[i].of \in OpenClaw!Spawns
<1>1. \A i \in DOMAIN clPipe : clPipe[i] \in OpenClaw!Line
  <2>1. clPipe \in Seq(OpenClaw!Line)
    BY DEF ClawTyped
  <2> QED
    BY <2>1, EachIsIn
<1>2. \A line \in OpenClaw!Line : line.of \in OpenClaw!Spawns
  BY DEF OpenClaw!Line
<1> QED
  BY <1>1, <1>2

LEMMA ClawInit == OpenClaw!Init => ClawInv
<1> SUFFICES ASSUME OpenClaw!Init PROVE ClawInv
  OBVIOUS
<1>1. clPipe \in Seq(OpenClaw!Line) /\ DOMAIN clPipe = {}
  BY DEF OpenClaw!Init
<1>2. \A s \in OpenClaw!Spawns : s > 0
  BY SpawnsAreNumbers DEF OpenClaw!Spawns
<1>3. clUpdates \in [OpenClaw!Spawns -> 0..MaxUpdates] /\ clSpawn \in 0..MaxSpawns
  BY SpawnsAreNumbers DEF OpenClaw!Init
<1>4. \A s \in OpenClaw!Spawns : outcome[s] = "none" /\ s > clSpawn
  BY <1>2 DEF OpenClaw!Init
<1>5. ClawTyped
  BY <1>1, <1>3, <1>4 DEF OpenClaw!Init, ClawTyped
<1> QED
  BY <1>1, <1>5 DEF OpenClaw!Init, ClawInv, Piped, Read, Told

\* The gateway says something about an open prompt.
LEMMA ClawSays ==
  ASSUME ClawInv, NEW p \in clOpen, NEW kind \in OpenClaw!Kinds, OpenClaw!Says(p, kind),
         UNCHANGED <<gateway, clSpawn, clPhase, yielded, outcome, answered>>,
         clUpdates' \in [OpenClaw!Spawns -> 0..MaxUpdates],
         \A q \in OpenClaw!Spawns : clUpdates[q] > 0 => clUpdates'[q] > 0,
         IF kind \in Final THEN clOpen' = clOpen \ {p} ELSE clOpen' = clOpen /\ clUpdates'[p] > 0
  PROVE  ClawInv'
<1> DEFINE n == Len(clPipe) + 1
           line == [of |-> p, kind |-> kind]
<1>1. p \in OpenClaw!Spawns /\ p <= clSpawn /\ p \notin answered[p]
  BY DEF ClawInv, ClawTyped, Piped, Read
<1>2. line \in OpenClaw!Line /\ line.of = p /\ line.kind = kind
  BY <1>1 DEF OpenClaw!Line
<1>3. clPipe' = Append(clPipe, line)
  BY DEF OpenClaw!Says
<1> HIDE DEF line
<1>4. /\ clPipe' \in Seq(OpenClaw!Line) /\ DOMAIN clPipe' = DOMAIN clPipe \cup {n}
      /\ clPipe'[n] = line /\ \A i \in DOMAIN clPipe : clPipe'[i] = clPipe[i] /\ i < n
      /\ n \in Nat /\ DOMAIN clPipe \subseteq Nat
  BY <1>2, <1>3, PutLast DEF ClawInv, ClawTyped
<1> HIDE DEF n
<1>5. \A i \in DOMAIN clPipe : clPipe[i].of \in OpenClaw!Spawns
  BY LinesAreAboutSpawns DEF ClawInv
<1>6. clOpen' \subseteq clOpen
  OBVIOUS
<1>7. ClawTyped'
  BY <1>4, <1>6 DEF ClawInv, ClawTyped
<1>8. Piped'
  <2>1. \A q \in clOpen' : q <= clSpawn'
    BY <1>6 DEF ClawInv, Piped
  <2>2. ASSUME NEW i \in DOMAIN clPipe
        PROVE  /\ clPipe'[i].of <= clSpawn'
               /\ clPipe'[i].kind \notin Final => clUpdates'[clPipe'[i].of] > 0
               /\ clPipe'[i].kind \in Final =>
                    /\ clPipe'[i].of \notin clOpen'
                    /\ \A j \in DOMAIN clPipe' : j > i => clPipe'[j].of # clPipe'[i].of
    <3>1. clPipe[i].kind \in Final => clPipe[i].of \notin clOpen /\ clPipe[i].of # p
      BY DEF ClawInv, Piped
    <3>2. clPipe[i].kind \in Final => \A j \in DOMAIN clPipe' : j > i => clPipe'[j].of # clPipe[i].of
      BY <1>2, <1>4, <3>1 DEF ClawInv, Piped
    <3> QED
      BY <1>4, <1>5, <1>6, <3>1, <3>2 DEF ClawInv, Piped
  <2>3. /\ clPipe'[n].of <= clSpawn'
        /\ clPipe'[n].kind \notin Final => clUpdates'[clPipe'[n].of] > 0
        /\ clPipe'[n].kind \in Final =>
             /\ clPipe'[n].of \notin clOpen'
             /\ \A j \in DOMAIN clPipe' : j > n => clPipe'[j].of # clPipe'[n].of
    <3>1. \A j \in DOMAIN clPipe' : ~(j > n)
      BY <1>4
    <3> QED
      BY <1>1, <1>2, <1>4, <3>1
  <2> QED
    BY <1>4, <2>1, <2>2, <2>3 DEF Piped
<1>9. Read'
  BY <1>1, <1>2, <1>4, <1>6 DEF ClawInv, Read
<1>10. Told'
  <2>1. \A s \in OpenClaw!Spawns : \A u \in yielded[s] : u \in OpenClaw!Spawns
    BY DEF ClawInv, ClawTyped
  <2> QED
    BY <2>1 DEF ClawInv, Told
<1> QED
  BY <1>7, <1>8, <1>9, <1>10 DEF ClawInv

\* The generator of the last spawn goes on, or ends it.
LEMMA ClawEnds ==
  ASSUME ClawInv, clPhase # "idle", clSpawn' = clSpawn,
         NEW how \in {"completed", "failed", "raised", "closed"},
         \/ clPhase' \in {"reading", "proposed"} /\ UNCHANGED outcome
         \/ OpenClaw!Ends(clSpawn, how)
  PROVE  /\ clSpawn \in OpenClaw!Spawns /\ clPhase' \in {"idle", "reading", "proposed"}
         /\ clPhase' # "idle" => clSpawn' # 0
         /\ outcome' \in [OpenClaw!Spawns -> {"none", "completed", "failed", "raised", "closed"}]
         /\ \A s \in OpenClaw!Spawns :
              outcome'[s] = "none" <=> (s > clSpawn' \/ (s = clSpawn' /\ clPhase' # "idle"))
         /\ \A s \in OpenClaw!Spawns : outcome'[s] = "completed" =>
              outcome[s] = "completed" \/ (s = clSpawn /\ how = "completed")
<1>1. clSpawn \in OpenClaw!Spawns
  BY SpawnsAreNumbers DEF ClawInv, ClawTyped, OpenClaw!Spawns
<1>2. CASE clPhase' \in {"reading", "proposed"} /\ UNCHANGED outcome
  BY <1>1, <1>2 DEF ClawInv, ClawTyped
<1>3. CASE OpenClaw!Ends(clSpawn, how)
  <2>1. clPhase' = "idle" /\ outcome' = [outcome EXCEPT ![clSpawn] = how]
    BY <1>3 DEF OpenClaw!Ends
  <2>2. outcome'[clSpawn] = how /\ \A s \in OpenClaw!Spawns : s # clSpawn => outcome'[s] = outcome[s]
    BY <1>1, <2>1 DEF ClawInv, ClawTyped
  <2> QED
    BY <1>1, <2>1, <2>2 DEF ClawInv, ClawTyped
<1> QED
  BY <1>2, <1>3

LEMMA ClawSpawns == ClawInv /\ OpenClaw!Spawn => ClawInv'
<1> SUFFICES ASSUME ClawInv, OpenClaw!Spawn PROVE ClawInv'
  OBVIOUS
<1>1. PICK s : s = clSpawn + 1
  OBVIOUS
<1>2. /\ clPhase = "idle" /\ clSpawn < MaxSpawns /\ clSpawn' = s
      /\ OpenClaw!Unreachable(s) \/ OpenClaw!Prompts(s) \/ OpenClaw!PipeIsBroken(s)
      /\ UNCHANGED <<clUpdates, clPipe, yielded, answered>>
  BY <1>1 DEF OpenClaw!Spawn
<1>3. /\ s \in OpenClaw!Spawns /\ s \in 0..MaxSpawns /\ s # 0 /\ clSpawn \in Nat /\ s > clSpawn
      /\ \A t \in OpenClaw!Spawns : t > clSpawn <=> (t > s \/ t = s)
      /\ \A t \in OpenClaw!Spawns : t <= clSpawn => t <= s /\ t # s
  BY <1>1, <1>2, SpawnsAreNumbers DEF ClawInv, ClawTyped, OpenClaw!Spawns
<1>4. /\ gateway' \in {"none", "running", "dead"} /\ clOpen' \subseteq clOpen \cup {s}
      /\ \/ clPhase' = "reading" /\ outcome' = outcome
         \/ clPhase' = "idle" /\ \E how \in {"failed", "raised"} : outcome' = [outcome EXCEPT ![s] = how]
  BY <1>2 DEF OpenClaw!Unreachable, OpenClaw!Prompts, OpenClaw!PipeIsBroken, OpenClaw!Ends,
              ClawInv, ClawTyped
<1>5. /\ outcome' \in [OpenClaw!Spawns -> {"none", "completed", "failed", "raised", "closed"}]
      /\ \A t \in OpenClaw!Spawns :
           /\ t # s => outcome'[t] = outcome[t]
           /\ outcome'[s] = "none" <=> clPhase' # "idle"
           /\ outcome'[t] = "completed" => outcome[t] = "completed"
  BY <1>2, <1>3, <1>4 DEF ClawInv, ClawTyped
<1>6. ClawTyped'
  BY <1>2, <1>3, <1>4, <1>5 DEF ClawInv, ClawTyped
<1>7. \A i \in DOMAIN clPipe : clPipe[i].of \in OpenClaw!Spawns
  BY LinesAreAboutSpawns DEF ClawInv
<1>8. Piped'
  <2>1. \A p \in clOpen : p \in OpenClaw!Spawns /\ p <= clSpawn
    BY DEF ClawInv, ClawTyped, Piped
  <2>2. s <= s
    BY <1>3, SpawnsAreNumbers
  <2>3. \A p \in clOpen' : p <= clSpawn'
    BY <1>2, <1>3, <1>4, <2>1, <2>2
  <2>4. \A i \in DOMAIN clPipe : clPipe[i].of <= s /\ clPipe[i].of # s
    BY <1>3, <1>7 DEF ClawInv, Piped
  <2> QED
    BY <1>2, <1>4, <2>3, <2>4 DEF ClawInv, Piped
<1>9. Read'
  BY <1>2, <1>3, <1>4, <1>5, <1>7 DEF ClawInv, ClawTyped, Read
<1>10. Told'
  BY <1>2, <1>3 DEF ClawInv, ClawTyped, Told
<1> QED
  BY <1>6, <1>8, <1>9, <1>10 DEF ClawInv

LEMMA ClawReads == ClawInv /\ OpenClaw!Read => ClawInv'
<1> SUFFICES ASSUME ClawInv, OpenClaw!Read PROVE ClawInv'
  OBVIOUS
<1>1. /\ clPhase = "reading" /\ clPipe # <<>> /\ clPipe' = Tail(clPipe)
      /\ OpenClaw!ReadUpdate(Head(clPipe)) \/ OpenClaw!ReadResponse(Head(clPipe))
      /\ UNCHANGED <<gateway, clOpen, clUpdates, clSpawn>>
  BY DEF OpenClaw!Read
<1>2. /\ Head(clPipe) = clPipe[1] /\ 1 \in DOMAIN clPipe /\ clPipe[1] \in OpenClaw!Line
      /\ clPipe' \in Seq(OpenClaw!Line)
      /\ \A i \in DOMAIN clPipe' : i + 1 \in DOMAIN clPipe /\ i \in Nat /\ clPipe'[i] = clPipe[i + 1]
  BY <1>1, HeadOff DEF ClawInv, ClawTyped
<1>3. PICK line : line = clPipe[1]
  OBVIOUS
<1>4. /\ line \in OpenClaw!Line /\ line.of \in OpenClaw!Spawns /\ line.of <= clSpawn
      /\ line.of \notin answered[line.of]
      /\ line.kind \notin Final => clUpdates[line.of] > 0
      /\ line.kind \in Final => line.of \notin clOpen /\ \A i \in DOMAIN clPipe' : clPipe'[i].of # line.of
  <2>1. \A i \in DOMAIN clPipe' : i + 1 > 1
    BY <1>2
  <2> QED
    BY <1>2, <1>3, <2>1 DEF ClawInv, Piped, Read, OpenClaw!Line
<1>5. clSpawn \in OpenClaw!Spawns
  BY <1>1, SpawnsAreNumbers DEF ClawInv, ClawTyped, OpenClaw!Spawns
<1>6. Piped'
  <2>1. \A i, j \in DOMAIN clPipe' : j > i => j + 1 > i + 1
    BY <1>2
  <2> QED
    BY <1>1, <1>2, <2>1 DEF ClawInv, Piped
<1>7. CASE OpenClaw!ReadUpdate(line)
  <2>1. /\ line.kind \notin Final /\ UNCHANGED answered
        /\ UNCHANGED yielded \/ yielded' = [yielded EXCEPT ![clSpawn] = @ \cup {line.of}]
        /\ \/ clPhase' \in {"reading", "proposed"} /\ UNCHANGED outcome
           \/ OpenClaw!Ends(clSpawn, "failed")
    BY <1>1, <1>7 DEF OpenClaw!ReadUpdate, OpenClaw!Yields, Final
  <2>2. /\ clPhase' \in {"idle", "reading", "proposed"}
        /\ clPhase' # "idle" => clSpawn' # 0
        /\ outcome' \in [OpenClaw!Spawns -> {"none", "completed", "failed", "raised", "closed"}]
        /\ \A s \in OpenClaw!Spawns :
             outcome'[s] = "none" <=> (s > clSpawn' \/ (s = clSpawn' /\ clPhase' # "idle"))
        /\ \A s \in OpenClaw!Spawns : outcome'[s] = "completed" => outcome[s] = "completed"
    BY <1>1, <2>1, ClawEnds
  <2>3. /\ yielded' \in [OpenClaw!Spawns -> SUBSET OpenClaw!Spawns]
        /\ \A s \in OpenClaw!Spawns : \A u \in yielded'[s] :
             u \in yielded[s] \/ (s = clSpawn /\ u = line.of)
    <3>1. CASE UNCHANGED yielded
      BY <3>1 DEF ClawInv, ClawTyped
    <3>2. CASE yielded' = [yielded EXCEPT ![clSpawn] = @ \cup {line.of}]
      <4>1. yielded[clSpawn] \cup {line.of} \in SUBSET OpenClaw!Spawns
        BY <1>4, <1>5 DEF ClawInv, ClawTyped
      <4> QED
        BY <1>5, <3>2, <4>1 DEF ClawInv, ClawTyped
    <3> QED
      BY <2>1, <3>1, <3>2
  <2>4. ClawTyped'
    BY <1>1, <1>2, <2>1, <2>2, <2>3 DEF ClawInv, ClawTyped
  <2>5. Read'
    BY <1>1, <1>2, <2>1, <2>2 DEF ClawInv, Read
  <2>6. clSpawn <= clSpawn
    BY SpawnsAreNumbers, <1>5
  <2>7. Told'
    BY <1>1, <1>4, <2>1, <2>3, <2>6 DEF ClawInv, Told
  <2> QED
    BY <1>6, <2>4, <2>5, <2>7 DEF ClawInv
<1>8. CASE OpenClaw!ReadResponse(line) /\ ~OpenClaw!Mine(line)
  <2>1. UNCHANGED <<answered, clPhase, outcome, yielded>>
    BY <1>8 DEF OpenClaw!ReadResponse
  <2>2. ClawTyped'
    BY <1>1, <1>2, <2>1 DEF ClawInv, ClawTyped
  <2>3. Read'
    BY <1>1, <1>2, <2>1 DEF ClawInv, Read
  <2>4. Told'
    BY <1>1, <2>1 DEF ClawInv, Told
  <2> QED
    BY <1>6, <2>2, <2>3, <2>4 DEF ClawInv
<1>9. CASE OpenClaw!ReadResponse(line) /\ OpenClaw!Mine(line)
  <2>1. /\ line.kind \in Final /\ line.of = clSpawn /\ UNCHANGED yielded
        /\ answered' = [answered EXCEPT ![clSpawn] = @ \cup {clSpawn}]
        /\ OpenClaw!Ends(clSpawn, IF line.kind = "response" THEN "completed" ELSE "failed")
    BY <1>9 DEF OpenClaw!ReadResponse, OpenClaw!Mine, Final
  <2>2. /\ clPhase' \in {"idle", "reading", "proposed"}
        /\ clPhase' # "idle" => clSpawn' # 0
        /\ outcome' \in [OpenClaw!Spawns -> {"none", "completed", "failed", "raised", "closed"}]
        /\ \A s \in OpenClaw!Spawns :
             outcome'[s] = "none" <=> (s > clSpawn' \/ (s = clSpawn' /\ clPhase' # "idle"))
        /\ \A s \in OpenClaw!Spawns : outcome'[s] = "completed" => outcome[s] = "completed" \/ s = clSpawn
    <3>1. CASE line.kind = "response"
      BY <1>1, <2>1, <3>1, ClawEnds
    <3>2. CASE line.kind # "response"
      BY <1>1, <2>1, <3>2, ClawEnds
    <3> QED
      BY <3>1, <3>2
  <2>3. /\ answered' \in [OpenClaw!Spawns -> SUBSET OpenClaw!Spawns] /\ answered'[clSpawn] = {clSpawn}
        /\ \A s \in OpenClaw!Spawns : s # clSpawn => answered'[s] = answered[s]
    BY <1>5, <2>1 DEF ClawInv, ClawTyped, Read
  <2>4. ClawTyped'
    BY <1>1, <1>2, <2>1, <2>2, <2>3 DEF ClawInv, ClawTyped
  <2>5. ~(clSpawn > clSpawn)
    BY SpawnsAreNumbers, <1>5
  <2>6. Read'
    BY <1>1, <1>2, <1>4, <1>5, <2>1, <2>2, <2>3, <2>5 DEF ClawInv, Read
  <2>7. Told'
    <3>1. ASSUME NEW s \in OpenClaw!Spawns, NEW u \in yielded[s], u # s
          PROVE  u # clSpawn /\ u \in OpenClaw!Spawns
      <4>1. u \in OpenClaw!Spawns /\ u <= s /\ s <= clSpawn
        BY DEF ClawInv, ClawTyped, Told
      <4> QED
        BY <1>5, <3>1, <4>1, SpawnsAreNumbers
    <3> QED
      BY <1>1, <2>1, <2>3, <3>1 DEF ClawInv, Told
  <2> QED
    BY <1>6, <2>4, <2>6, <2>7 DEF ClawInv
<1> QED
  BY <1>1, <1>2, <1>3, <1>7, <1>8, <1>9

LEMMA ClawNext == ClawInv /\ [OpenClaw!Next]_clVars => ClawInv'
<1> SUFFICES ASSUME ClawInv, [OpenClaw!Next]_clVars PROVE ClawInv'
  OBVIOUS
<1>1. ASSUME NEW p \in OpenClaw!Spawns, NEW kind \in OpenClaw!Kinds \ {"response", "refusal"},
             OpenClaw!GatewayUpdates(p, kind)
      PROVE  ClawInv'
  <2>1. /\ p \in clOpen /\ OpenClaw!Says(p, kind) /\ clUpdates[p] < MaxUpdates
        /\ clUpdates' = [clUpdates EXCEPT ![p] = @ + 1] /\ clOpen' = clOpen /\ kind \notin Final
        /\ UNCHANGED <<gateway, clSpawn, clPhase, yielded, outcome, answered>>
    BY <1>1 DEF OpenClaw!GatewayUpdates, Final
  <2>2. clUpdates[p] \in Nat /\ clUpdates[p] + 1 \in 0..MaxUpdates /\ clUpdates[p] + 1 > 0
    BY <2>1, SpawnsAreNumbers DEF ClawInv, ClawTyped
  <2>3. /\ clUpdates' \in [OpenClaw!Spawns -> 0..MaxUpdates] /\ clUpdates'[p] > 0
        /\ \A q \in OpenClaw!Spawns : q # p => clUpdates'[q] = clUpdates[q]
    BY <2>1, <2>2 DEF ClawInv, ClawTyped
  <2> QED
    BY <2>1, <2>3, ClawSays
<1>2. ASSUME NEW p \in OpenClaw!Spawns, NEW kind \in {"response", "refusal"},
             OpenClaw!GatewayResponds(p, kind)
      PROVE  ClawInv'
  <2>1. /\ p \in clOpen /\ OpenClaw!Says(p, kind) /\ clOpen' = clOpen \ {p} /\ kind \in Final
        /\ kind \in OpenClaw!Kinds
        /\ UNCHANGED <<gateway, clUpdates, clSpawn, clPhase, yielded, outcome, answered>>
    BY <1>2 DEF OpenClaw!GatewayResponds, Final, OpenClaw!Kinds
  <2>2. clUpdates' \in [OpenClaw!Spawns -> 0..MaxUpdates]
    BY <2>1 DEF ClawInv, ClawTyped
  <2> QED
    BY <2>1, <2>2, ClawSays
<1>3. CASE OpenClaw!GatewayDies
  BY <1>3 DEF OpenClaw!GatewayDies, ClawInv, ClawTyped, Piped, Read, Told
<1>4. ASSUME clPhase # "idle", NEW how \in {"failed", "raised", "closed"},
             \/ clPhase' \in {"reading", "proposed"} /\ UNCHANGED outcome
             \/ OpenClaw!Ends(clSpawn, how),
             UNCHANGED <<gateway, clOpen, clUpdates, clPipe, clSpawn, yielded, answered>>
      PROVE  ClawInv'
  <2>1. /\ clPhase' \in {"idle", "reading", "proposed"}
        /\ clPhase' # "idle" => clSpawn' # 0
        /\ outcome' \in [OpenClaw!Spawns -> {"none", "completed", "failed", "raised", "closed"}]
        /\ \A s \in OpenClaw!Spawns :
             outcome'[s] = "none" <=> (s > clSpawn' \/ (s = clSpawn' /\ clPhase' # "idle"))
        /\ \A s \in OpenClaw!Spawns : outcome'[s] = "completed" => outcome[s] = "completed"
    BY <1>4, ClawEnds
  <2> QED
    BY <1>4, <2>1 DEF ClawInv, ClawTyped, Piped, Read, Told
<1>5. CASE OpenClaw!ReadFails
  BY <1>4, <1>5 DEF OpenClaw!ReadFails
<1>6. ASSUME NEW how \in {"result", "raised", "closed"}, OpenClaw!Decide(how) PROVE ClawInv'
  BY <1>4, <1>6 DEF OpenClaw!Decide
<1>7. CASE UNCHANGED clVars
  BY <1>7 DEF clVars, ClawInv, ClawTyped, Piped, Read, Told
<1> QED
  BY <1>1, <1>2, <1>3, <1>5, <1>6, <1>7, ClawSpawns, ClawReads DEF OpenClaw!Next

LEMMA ClawKeeps == ClawInv => OpenClaw!TypeOK /\ OpenClaw!CompletionsAreOwn /\ OpenClaw!EventsAreOwn
<1> SUFFICES ASSUME ClawInv PROVE OpenClaw!TypeOK /\ OpenClaw!CompletionsAreOwn /\ OpenClaw!EventsAreOwn
  OBVIOUS
<1>1. OpenClaw!TypeOK
  BY DEF ClawInv, ClawTyped, OpenClaw!TypeOK
<1>2. OpenClaw!CompletionsAreOwn
  BY DEF ClawInv, Read, OpenClaw!CompletionsAreOwn
<1>3. ASSUME NEW s \in OpenClaw!Spawns, NEW u \in yielded[s], u # s,
             \A t \in 1..(s - 1) : answered[t] = {t} \/ (clUpdates[t] = 0 /\ t \notin clOpen)
      PROVE  FALSE
  <2>1. /\ u \in OpenClaw!Spawns /\ u <= s /\ clUpdates[u] > 0 /\ u \notin answered[u]
        /\ clUpdates[u] \in 0..MaxUpdates
    BY <1>3 DEF ClawInv, ClawTyped, Told
  <2>2. u \in 1..(s - 1)
    BY <1>3, <2>1, SpawnsAreNumbers DEF OpenClaw!Spawns
  <2>3. clUpdates[u] # 0
    BY <2>1, SpawnsAreNumbers
  <2> QED
    BY <1>3, <2>1, <2>2, <2>3
<1>4. OpenClaw!EventsAreOwn
  BY <1>3 DEF OpenClaw!EventsAreOwn
<1> QED
  BY <1>1, <1>2, <1>4

-----------------------------------------------------------------------------
\* What an adapter takes as the answer to a request is the answer to that request:
\* the results of raw turns and of the SDK's proxies always; a line of an ACP agent
\* until a request times out, meets garbage or meets a notification, from when on it
\* may be late but is never early, used twice or that of a prompt; and an event of
\* OpenClaw if the spawns before were read to their end.
THEOREM AnswersAreOwn == AdaptersSpec => []AnswersBelong
<1> DEFINE Each == TurnsInv /\ AcpInv /\ AcpOrder /\ SdkInv /\ ClawInv
<1>1. AdaptersInit => Each
  BY TurnsInit, AcpInit, AcpOrderInit, SdkInit, ClawInit DEF AdaptersInit
<1>2. Each /\ [AdaptersNext]_adapterVars => Each'
  BY EachMoves, TurnsNext, AcpNext, AcpOrderNext, SdkNext, ClawNext, SdkAssumption
<1>3. Each => AnswersBelong
  BY SdkKeeps, ClawKeeps, AcpBelongs DEF TurnsInv, AnswersBelong
<1> QED
  BY <1>1, <1>2, <1>3, PTL DEF AdaptersSpec

\* No behaviour of the app-server makes a Codex thread run an action its caller
\* did not approve, beside the other adapters too.
THEOREM NoneRunsUnapproved == AdaptersSpec => []NothingRunsUnapproved
BY CodexSpec, ApprovalsHold, PTL

-----------------------------------------------------------------------------
(* The harness that compares kernels                                       *)

Recorders ==
  [now : 0..Timeout, token : 0..Compare!Never, done : 0..Compare!Never, sent : 0..Compare!Never,
   due : Nat, overhead : Nat, proposals : Nat, text : Nat, failed : BOOLEAN]
Results == [pos : Compare!Positions, status : Compare!Statuses, text : Nat]

\* Between runs no generator is open, and during one its own is.
CompareTyped ==
  /\ plan \in Plans /\ cmPhase \in {"start", "kernel", "judge", "closing", "reported"}
  /\ cmPhase # "reported" => pos \in Compare!Positions
  /\ cmOpen = IF cmPhase \in {"start", "reported"} THEN {} ELSE {pos}
  /\ rec \in Recorders /\ judged \in Nat /\ cmVerdict \in Compare!Statuses
  /\ raw \in Seq(Results)
  /\ DOMAIN first \subseteq Compare!Kernels
  /\ DOMAIN summaries \subseteq (1..plan.tasks) \X Compare!Kernels
  /\ DOMAIN drift \subseteq 1..plan.tasks

\* What a pending send and a sleep of the judge leave of the time that passed.
Timed ==
  /\ rec.overhead + judged <= rec.now
  /\ rec.sent # Compare!Never => rec.overhead + judged <= rec.sent /\ rec.sent <= rec.now
  /\ cmPhase = "judge" =>
       rec.sent = Compare!Never /\ rec.overhead + judged + JudgeTime <= rec.due

CompareInv == CompareTyped /\ Timed

LEMMA CompareConstants ==
  /\ NKernels \in Nat \ {0} /\ Timeout \in Nat /\ JudgeTime \in Nat
  /\ Compare!Never = Timeout + 1 /\ Compare!Never \in Nat
  /\ \A p \in Plans : p.tasks \in Nat \ {0} /\ p.repeats \in Nat \ {0}
BY CompareAssumption DEF Compare!ComparisonAssumption, Compare!Never

LEMMA NewRecorderIsOne ==
  /\ Compare!NewRecorder \in Recorders /\ Compare!NewRecorder.now = 0
  /\ Compare!NewRecorder.overhead = 0 /\ Compare!NewRecorder.sent = Compare!Never
<1>1. 0 \in 0..Timeout /\ 0 \in Nat /\ Compare!Never \in 0..Compare!Never
  BY CompareConstants
<1> QED
  BY <1>1 DEF Compare!NewRecorder, Recorders

LEMMA CompareInit == Compare!Init => CompareInv
<1> SUFFICES ASSUME Compare!Init PROVE CompareInv
  OBVIOUS
<1>1. pos \in Compare!Positions
  <2>1. 1 \in 1..plan.tasks /\ 1 \in Compare!Kernels /\ 1 \in 1..plan.repeats
    BY CompareConstants DEF Compare!Init, Compare!Kernels
  <2> QED
    BY <2>1 DEF Compare!Init, Compare!Positions
<1>2. \A S : <<>> \in Seq(S) /\ DOMAIN <<>> \subseteq S
  OBVIOUS
<1>3. cmVerdict \in Compare!Statuses /\ judged \in Nat /\ rec \in Recorders
  BY NewRecorderIsOne DEF Compare!Init, Compare!Statuses
<1>4. CompareTyped
  BY <1>1, <1>2, <1>3 DEF Compare!Init, CompareTyped
<1>5. 0 + 0 <= 0
  OBVIOUS
<1>6. Timed
  BY <1>5, NewRecorderIsOne DEF Compare!Init, Timed
<1> QED
  BY <1>4, <1>6 DEF CompareInv

LEMMA RecorderHas ==
  ASSUME NEW r \in Recorders
  PROVE  /\ r.now \in 0..Timeout /\ r.now \in Nat /\ r.token \in 0..Compare!Never
         /\ r.done \in 0..Compare!Never /\ r.sent \in 0..Compare!Never /\ r.sent \in Nat
         /\ r.due \in Nat /\ r.overhead \in Nat /\ r.proposals \in Nat /\ r.text \in Nat
         /\ r.now \in 0..Compare!Never
<1>1. /\ r.now \in 0..Timeout /\ r.token \in 0..Compare!Never
      /\ r.done \in 0..Compare!Never /\ r.sent \in 0..Compare!Never
      /\ r.due \in Nat /\ r.overhead \in Nat /\ r.proposals \in Nat /\ r.text \in Nat
  BY DEF Recorders
<1> QED
  BY <1>1, CompareConstants

\* Every event ends the pending send, and only its time goes to the overhead.
LEMMA ObservedIs ==
  ASSUME CompareInv, NEW kind
  PROVE  /\ Compare!Observed(kind) \in Recorders
         /\ Compare!Observed(kind).now = rec.now /\ Compare!Observed(kind).sent = Compare!Never
         /\ Compare!Observed(kind).overhead + judged <= rec.now
<1> DEFINE o == Compare!Observed(kind)
<1>1. rec \in Recorders /\ judged \in Nat
  BY DEF CompareInv, CompareTyped
<1>2. PICK v : v = IF rec.sent = Compare!Never THEN rec.overhead ELSE rec.overhead + (rec.now - rec.sent)
  OBVIOUS
<1>3. PICK t : t = rec.text + 1
  OBVIOUS
<1>4. PICK p : p = rec.proposals + 1
  OBVIOUS
<1>5. v \in Nat /\ t \in Nat /\ p \in Nat /\ v + judged <= rec.now
  BY <1>1, <1>2, <1>3, <1>4, RecorderHas DEF CompareInv, Timed
<1>6. o = [rec EXCEPT
             !.overhead = v, !.sent = Compare!Never,
             !.text = IF kind = "text" THEN t ELSE @,
             !.token = IF kind = "text" /\ @ = Compare!Never THEN rec.now ELSE @,
             !.proposals = IF kind = "proposal" THEN p ELSE @,
             !.failed = @ \/ kind = "failed",
             !.done = IF kind \in {"failed", "completed"} THEN rec.now ELSE @]
  BY <1>2, <1>3, <1>4 DEF Compare!Observed
<1>7. /\ o = [now |-> o.now, token |-> o.token, done |-> o.done, sent |-> o.sent, due |-> o.due,
              overhead |-> o.overhead, proposals |-> o.proposals, text |-> o.text, failed |-> o.failed]
      /\ o.now = rec.now /\ o.token \in {rec.now, rec.token} /\ o.done \in {rec.now, rec.done}
      /\ o.sent = Compare!Never /\ o.due = rec.due /\ o.overhead = v
      /\ o.proposals \in {p, rec.proposals} /\ o.text \in {t, rec.text}
  BY <1>1, <1>6 DEF Recorders
<1>8. o.failed = (rec.failed \/ kind = "failed")
  BY <1>1, <1>6 DEF Recorders
<1> HIDE DEF o
<1>9. /\ o.now \in 0..Timeout /\ o.token \in 0..Compare!Never /\ o.done \in 0..Compare!Never
      /\ o.sent \in 0..Compare!Never /\ o.due \in Nat /\ o.overhead \in Nat
      /\ o.proposals \in Nat /\ o.text \in Nat
  BY <1>1, <1>5, <1>7, RecorderHas, CompareConstants
<1>10. o.failed \in BOOLEAN
  BY <1>8
<1>11. o \in Recorders
  BY <1>7, <1>9, <1>10, Zenon DEF Recorders
<1> QED
  BY <1>5, <1>7, <1>11 DEF o

\* The run is recorded at its position, and the next one is of the plan.
LEMMA CompareRecords ==
  ASSUME CompareInv, NEW status \in Compare!Statuses, cmPhase # "reported",
         Compare!Record(status), UNCHANGED plan
  PROVE  /\ cmPhase' \in {"start", "reported"} /\ (cmPhase' # "reported" => pos' \in Compare!Positions)
         /\ raw' \in Seq(Results)
         /\ DOMAIN first' \subseteq Compare!Kernels
         /\ DOMAIN summaries' \subseteq (1..plan.tasks) \X Compare!Kernels
         /\ DOMAIN drift' \subseteq 1..plan.tasks
<1> DEFINE result == [pos |-> pos, status |-> Compare!Status(status), text |-> rec.text]
           lastRun == pos.index = plan.repeats
           lastKernel == lastRun /\ pos.kernel = NKernels
<1>1. /\ pos \in Compare!Positions /\ plan.tasks \in Nat /\ plan.repeats \in Nat
      /\ pos = [task |-> pos.task, kernel |-> pos.kernel, index |-> pos.index]
      /\ pos.task \in 1..plan.tasks /\ pos.kernel \in Compare!Kernels /\ pos.index \in 1..plan.repeats
  BY CompareConstants DEF CompareInv, CompareTyped, Compare!Positions
<1>2. result \in Results
  <2>1. Compare!Status(status) \in Compare!Statuses
    BY DEF Compare!Status, Compare!Statuses
  <2>2. rec.text \in Nat
    BY RecorderHas DEF CompareInv, CompareTyped
  <2> QED
    BY <1>1, <2>1, <2>2 DEF Results
<1>3. raw' = Append(raw, result)
  BY DEF Compare!Record
<1>4. raw' \in Seq(Results)
  <2> HIDE DEF result
  <2>1. raw \in Seq(Results)
    BY DEF CompareInv, CompareTyped
  <2> QED
    BY <1>2, <1>3, <2>1, AppendProperties
<1>5. ASSUME NEW S, NEW dict, DOMAIN dict \subseteq S, NEW key \in S, NEW value
      PROVE  DOMAIN Compare!With(dict, key, value) \subseteq S
  BY <1>5 DEF Compare!With
<1>6. DOMAIN first' \subseteq Compare!Kernels
  <2>1. first' \in {<<>>, first, Compare!FirstSuccess(result)}
    BY DEF Compare!Record
  <2>2. \A S : DOMAIN <<>> \subseteq S
    OBVIOUS
  <2>3. DOMAIN Compare!FirstSuccess(result) \subseteq Compare!Kernels
    BY <1>1, <1>5 DEF CompareInv, CompareTyped, Compare!FirstSuccess
  <2> QED
    BY <2>1, <2>2, <2>3 DEF CompareInv, CompareTyped
<1>7. DOMAIN summaries' \subseteq (1..plan.tasks) \X Compare!Kernels
  <2> DEFINE Rows == (1..plan.tasks) \X Compare!Kernels
  <2>1. PICK key : key = <<pos.task, pos.kernel>>
    OBVIOUS
  <2>2. key \in Rows
    BY <1>1, <2>1
  <2>3. summaries' = summaries \/ \E value : summaries' = Compare!With(summaries, key, value)
    BY <2>1 DEF Compare!Record
  <2>4. DOMAIN summaries \subseteq Rows
    BY DEF CompareInv, CompareTyped
  <2> HIDE DEF Rows
  <2>5. \A value : DOMAIN Compare!With(summaries, key, value) \subseteq Rows
    BY <1>5, <2>2, <2>4
  <2>6. DOMAIN summaries' \subseteq Rows
    BY <2>3, <2>4, <2>5
  <2> QED
    BY <2>6 DEF Rows
<1>8. DOMAIN drift' \subseteq 1..plan.tasks
  <2>1. drift' = drift \/ \E value : drift' = Compare!With(drift, pos.task, value)
    BY DEF Compare!Record
  <2>2. DOMAIN drift \subseteq 1..plan.tasks
    BY DEF CompareInv, CompareTyped
  <2>3. \A value : DOMAIN Compare!With(drift, pos.task, value) \subseteq 1..plan.tasks
    BY <1>1, <1>5, <2>2
  <2> QED
    BY <2>1, <2>2, <2>3
<1>9. PICK i : i = pos.index + 1
  OBVIOUS
<1>10. PICK k : k = pos.kernel + 1
  OBVIOUS
<1>11. PICK t : t = pos.task + 1
  OBVIOUS
<1>12. /\ ~lastRun => i \in 1..plan.repeats
       /\ pos.kernel # NKernels => k \in Compare!Kernels
       /\ pos.task # plan.tasks => t \in 1..plan.tasks
       /\ 1 \in 1..plan.repeats /\ 1 \in Compare!Kernels
  BY <1>1, <1>9, <1>10, <1>11, CompareConstants DEF Compare!Kernels
<1>13. /\ pos' = IF ~lastRun THEN [pos EXCEPT !.index = i]
                 ELSE IF ~lastKernel THEN [pos EXCEPT !.index = 1, !.kernel = k]
                 ELSE [task |-> t, kernel |-> 1, index |-> 1]
       /\ cmPhase' = IF lastKernel /\ pos.task = plan.tasks THEN "reported" ELSE "start"
  BY <1>9, <1>10, <1>11 DEF Compare!Record
<1>14. cmPhase' # "reported" => pos' \in Compare!Positions
  <2>1. CASE ~lastRun
    <3>1. pos' = [task |-> pos.task, kernel |-> pos.kernel, index |-> i]
      BY <1>1, <1>13, <2>1
    <3> QED
      BY <1>1, <1>12, <2>1, <3>1 DEF Compare!Positions
  <2>2. CASE lastRun /\ pos.kernel # NKernels
    <3>1. pos' = [task |-> pos.task, kernel |-> k, index |-> 1]
      BY <1>1, <1>13, <2>2
    <3> QED
      BY <1>1, <1>12, <2>2, <3>1 DEF Compare!Positions
  <2>3. CASE lastKernel
    BY <1>12, <1>13, <2>3 DEF Compare!Positions
  <2> QED
    BY <2>1, <2>2, <2>3
<1> QED
  BY <1>4, <1>6, <1>7, <1>8, <1>13, <1>14

LEMMA CompareEnds ==
  ASSUME CompareInv, NEW status \in Compare!Statuses, cmPhase \notin {"start", "reported"},
         Compare!Record(status), cmOpen' = cmOpen \ {pos},
         UNCHANGED <<plan, script, rec, judged, cmVerdict>>
  PROVE  CompareInv'
<1>1. /\ cmPhase' \in {"start", "reported"} /\ (cmPhase' # "reported" => pos' \in Compare!Positions)
      /\ raw' \in Seq(Results)
      /\ DOMAIN first' \subseteq Compare!Kernels
      /\ DOMAIN summaries' \subseteq (1..plan.tasks) \X Compare!Kernels
      /\ DOMAIN drift' \subseteq 1..plan.tasks
  BY CompareRecords
<1>2. Compare!Positions' = Compare!Positions /\ Results' = Results
  BY DEF Compare!Positions, Results
<1>3. cmOpen' = {}
  BY DEF CompareInv, CompareTyped
<1>4. CompareTyped'
  BY <1>1, <1>2, <1>3 DEF CompareInv, CompareTyped
<1>5. Timed'
  BY <1>1 DEF CompareInv, Timed
<1> QED
  BY <1>4, <1>5 DEF CompareInv

\* Within a run the report does not change.
LEMMA CompareGoesOn ==
  ASSUME CompareInv, cmPhase # "reported", UNCHANGED <<plan, pos, raw, first, summaries, drift>>,
         cmPhase' \in {"kernel", "judge", "closing"}, cmOpen' = {pos},
         rec' \in Recorders, judged' \in Nat, cmVerdict' \in Compare!Statuses
  PROVE  CompareTyped'
<1>1. Compare!Positions' = Compare!Positions /\ Results' = Results
  BY DEF Compare!Positions, Results
<1> QED
  BY <1>1 DEF CompareInv, CompareTyped

LEMMA CompareNext == CompareInv /\ [Compare!Next]_cmVars => CompareInv'
<1> SUFFICES ASSUME CompareInv, [Compare!Next]_cmVars PROVE CompareInv'
  OBVIOUS
<1>1. /\ rec \in Recorders /\ judged \in Nat /\ cmVerdict \in Compare!Statuses
      /\ cmPhase \in {"kernel", "judge", "closing"} => cmOpen = {pos}
  BY DEF CompareInv, CompareTyped
<1>2. CASE Compare!Start
  <2>1. /\ cmPhase = "start" /\ cmPhase' = "kernel" /\ cmOpen' = cmOpen \cup {pos}
        /\ rec' = Compare!NewRecorder /\ judged' = 0
        /\ UNCHANGED <<plan, pos, cmVerdict, raw, first, summaries, drift>>
    BY <1>2 DEF Compare!Start, Compare!report
  <2>2. cmOpen' = {pos}
    BY <2>1 DEF CompareInv, CompareTyped
  <2>3. CompareTyped'
    BY <1>1, <2>1, <2>2, NewRecorderIsOne, CompareGoesOn
  <2>4. 0 + 0 <= 0
    OBVIOUS
  <2>5. Timed'
    BY <2>1, <2>4, NewRecorderIsOne DEF Timed
  <2> QED
    BY <2>3, <2>5 DEF CompareInv
<1>3. CASE Compare!KernelYields
  <2>1. /\ cmPhase = "kernel"
        /\ UNCHANGED <<plan, pos, cmOpen, judged, cmVerdict, raw, first, summaries, drift>>
        /\ IF Head(script) = "proposal"
           THEN cmPhase' = "judge" /\ rec' = [Compare!Observed("proposal") EXCEPT !.due = rec.now + JudgeTime]
           ELSE rec' = Compare!Observed(Head(script)) /\ UNCHANGED cmPhase
    BY <1>3 DEF Compare!KernelYields, Compare!report
  <2>2. CASE Head(script) = "proposal"
    <3>1. PICK due : due = rec.now + JudgeTime
      OBVIOUS
    <3>2. due \in Nat
      BY <1>1, <3>1, RecorderHas, CompareConstants
    <3>3. PICK o : o = Compare!Observed("proposal")
      OBVIOUS
    <3>4. /\ o \in Recorders /\ o.now = rec.now /\ o.sent = Compare!Never
          /\ o.overhead + judged <= rec.now
      BY <3>3, ObservedIs
    <3>5. rec' = [o EXCEPT !.due = due]
      BY <2>1, <2>2, <3>1, <3>3
    <3>6. /\ rec' \in Recorders /\ rec'.now = rec.now /\ rec'.sent = Compare!Never
          /\ rec'.overhead = o.overhead /\ rec'.due = due
      BY <3>2, <3>4, <3>5 DEF Recorders
    <3>7. CompareTyped'
      BY <1>1, <2>1, <2>2, <3>6, CompareGoesOn
    <3>8. o.overhead + judged + JudgeTime <= due
      BY <1>1, <3>1, <3>4, RecorderHas, CompareConstants
    <3>9. Timed'
      BY <2>1, <2>2, <3>4, <3>6, <3>8 DEF Timed
    <3> QED
      BY <3>7, <3>9 DEF CompareInv
  <2>3. CASE Head(script) # "proposal"
    <3>1. /\ rec' \in Recorders /\ rec'.now = rec.now /\ rec'.sent = Compare!Never
          /\ rec'.overhead + judged <= rec.now
      BY <2>1, <2>3, ObservedIs
    <3>2. CompareTyped'
      BY <1>1, <2>1, <2>3, <3>1, CompareGoesOn
    <3>3. Timed'
      BY <2>1, <2>3, <3>1 DEF Timed
    <3> QED
      BY <3>2, <3>3 DEF CompareInv
  <2> QED
    BY <2>2, <2>3
<1>4. CASE Compare!JudgeAnswers
  <2>1. /\ cmPhase = "judge" /\ rec.now >= rec.due /\ rec' = [rec EXCEPT !.sent = rec.now]
        /\ judged' = judged + JudgeTime /\ cmPhase' = "kernel"
        /\ UNCHANGED <<plan, pos, cmOpen, cmVerdict, raw, first, summaries, drift>>
    BY <1>4 DEF Compare!JudgeAnswers, Compare!MarkSend, Compare!report
  <2>2. /\ rec' \in Recorders /\ rec'.now = rec.now /\ rec'.sent = rec.now /\ rec'.overhead = rec.overhead
    BY <1>1, <2>1, RecorderHas DEF Recorders
  <2>3. judged' \in Nat /\ rec.overhead + judged' <= rec.now /\ rec.now <= rec.now
    BY <1>1, <2>1, RecorderHas, CompareConstants DEF CompareInv, Timed
  <2>4. CompareTyped'
    BY <1>1, <2>1, <2>2, <2>3, CompareGoesOn
  <2>5. Timed'
    BY <2>1, <2>2, <2>3 DEF Timed
  <2> QED
    BY <2>4, <2>5 DEF CompareInv
<1>5. CASE Compare!Tick
  <2>1. /\ rec.now < Timeout /\ cmPhase \in {"kernel", "judge"}
        /\ rec' = [rec EXCEPT !.now = @ + 1]
        /\ UNCHANGED <<plan, pos, cmPhase, cmOpen, judged, cmVerdict, raw, first, summaries, drift>>
    BY <1>5 DEF Compare!Tick, Compare!report
  <2>2. PICK n : n = rec.now + 1
    OBVIOUS
  <2>3. n \in 0..Timeout /\ \A x \in Nat : x <= rec.now => x <= n
    BY <1>1, <2>1, <2>2, RecorderHas, CompareConstants
  <2>4. rec' = [rec EXCEPT !.now = n]
    BY <2>1, <2>2
  <2>5. /\ rec' \in Recorders /\ rec'.now = n /\ rec'.sent = rec.sent /\ rec'.overhead = rec.overhead
        /\ rec'.due = rec.due
    BY <1>1, <2>3, <2>4 DEF Recorders
  <2>6. CompareTyped'
    BY <1>1, <2>1, <2>5, CompareGoesOn
  <2>7. rec.overhead + judged \in Nat /\ rec.sent \in Nat
    BY <1>1, RecorderHas
  <2>8. Timed'
    BY <2>1, <2>3, <2>5, <2>7 DEF CompareInv, Timed
  <2> QED
    BY <2>6, <2>8 DEF CompareInv
<1>6. ASSUME NEW status \in Compare!Statuses, Compare!Closes(status), cmPhase \in {"kernel", "judge"}
      PROVE  CompareInv'
  <2>1. /\ cmPhase' = "closing" /\ cmVerdict' = status
        /\ UNCHANGED <<plan, pos, cmOpen, rec, judged, raw, first, summaries, drift>>
    BY <1>6 DEF Compare!Closes, Compare!report
  <2>2. CompareTyped'
    BY <1>1, <1>6, <2>1, CompareGoesOn
  <2>3. Timed'
    BY <2>1 DEF CompareInv, Timed
  <2> QED
    BY <2>2, <2>3 DEF CompareInv
<1>7. CASE Compare!Expire \/ Compare!KernelRaises \/ Compare!JudgeRaises
  BY <1>6, <1>7 DEF Compare!Expire, Compare!KernelRaises, Compare!JudgeRaises, Compare!Statuses
<1>8. CASE Compare!KernelEnds
  BY <1>8, CompareEnds DEF Compare!KernelEnds, Compare!Statuses
<1>9. CASE Compare!Close
  BY <1>1, <1>9, CompareEnds DEF Compare!Close
<1>10. CASE UNCHANGED cmVars
  BY <1>10 DEF cmVars, CompareInv, CompareTyped, Timed, Results, Compare!Positions
<1> QED
  BY <1>2, <1>3, <1>4, <1>5, <1>7, <1>8, <1>9, <1>10 DEF Compare!Next

LEMMA CompareKeeps == CompareInv => Compare!TypeOK /\ Compare!RunsAreAlone
<1> SUFFICES ASSUME CompareInv PROVE Compare!TypeOK /\ Compare!RunsAreAlone
  OBVIOUS
<1>1. Compare!RunsAreAlone
  BY DEF CompareInv, CompareTyped, Timed, Compare!RunsAreAlone
<1>2. rec.failed \in BOOLEAN
  BY DEF CompareInv, CompareTyped, Recorders
<1>3. rec \in Recorders /\ judged \in Nat /\ rec.overhead + judged <= rec.now
  BY DEF CompareInv, CompareTyped, Timed
<1>4. {rec.now, rec.overhead, judged} \subseteq 0..Timeout
  BY <1>3, RecorderHas, CompareConstants
<1>5. /\ {rec.token, rec.done, rec.sent} \subseteq 0..Compare!Never
      /\ {rec.proposals, rec.text} \subseteq Nat
  BY <1>3, RecorderHas
<1>6. \A i \in DOMAIN raw : raw[i].pos \in Compare!Positions /\ raw[i].status \in Compare!Statuses
  <2>1. \A i \in DOMAIN raw : raw[i] \in Results
    BY EachIsIn DEF CompareInv, CompareTyped
  <2> QED
    BY <2>1 DEF Results
<1>7. cmOpen \subseteq Compare!Positions
  BY DEF CompareInv, CompareTyped
<1>8. Compare!TypeOK
  BY <1>2, <1>4, <1>5, <1>6, <1>7 DEF CompareInv, CompareTyped, Compare!TypeOK
<1> QED
  BY <1>1, <1>8

-----------------------------------------------------------------------------
(* The report of a comparison                                              *)

\* The loops have left a kernel's runs at a task behind.
CmDone(t, k) == cmPhase = "reported" \/ t < pos.task \/ (t = pos.task /\ k < pos.kernel)

CmNow(t, k) == cmPhase # "reported" /\ t = pos.task /\ k = pos.kernel

\* The runs of a kernel at a task follow one another in the list; nothing is run
\* ahead of the loops.
CmRuns ==
  \A t \in 1..plan.tasks, k \in Compare!Kernels :
    /\ Compare!Of(t, k) # {} => CmDone(t, k) \/ CmNow(t, k)
    /\ CmNow(t, k) =>
         \E b \in Nat : Len(raw) + 1 = b + pos.index /\ Compare!Of(t, k) = (b + 1)..Len(raw)
    /\ CmDone(t, k) => \E b \in Nat : Compare!Of(t, k) = (b + 1)..(b + plan.repeats)

CmSummaries ==
  \A t \in 1..plan.tasks, k \in Compare!Kernels :
    /\ <<t, k>> \in DOMAIN summaries <=> CmDone(t, k)
    /\ CmDone(t, k) => summaries[<<t, k>>] = Compare!Summary(raw, Compare!Of(t, k))

\* Of each kernel that completed a run at a task, the text of the first.
CmHolds(t, texts) ==
  /\ DOMAIN texts = Compare!Lucky(t)
  /\ \A k \in Compare!Lucky(t) : Compare!IsFirst(t, k, texts[k])

CmFirst == \A t \in 1..plan.tasks : cmPhase # "reported" /\ t = pos.task => CmHolds(t, first)

CmDrift ==
  \A t \in 1..plan.tasks :
    /\ t \in DOMAIN drift <=> (cmPhase = "reported" \/ t < pos.task) /\ Compare!Lucky(t) # {}
    /\ t \in DOMAIN drift => CmHolds(t, drift[t])

ReportInv == CompareInv /\ CmRuns /\ CmSummaries /\ CmFirst /\ CmDrift

\* One run more: the list of its kernel and task is longer, the others are not.
LEMMA CmAppends ==
  ASSUME CompareInv, NEW status, cmPhase # "reported", Compare!Record(status), UNCHANGED plan
  PROVE  /\ Len(raw) \in Nat /\ DOMAIN raw = 1..Len(raw)
         /\ Len(raw') = Len(raw) + 1 /\ DOMAIN raw' = 1..(Len(raw) + 1)
         /\ \A i \in 1..Len(raw) : raw'[i] = raw[i]
         /\ raw'[Len(raw) + 1].pos = pos /\ raw'[Len(raw) + 1].status = Compare!Status(status)
         /\ raw'[Len(raw) + 1].text = rec.text
<1> DEFINE result == [pos |-> pos, status |-> Compare!Status(status), text |-> rec.text]
<1>1. raw' = Append(raw, result)
  BY DEF Compare!Record
<1>2. raw \in Seq(Results)
  BY DEF CompareInv, CompareTyped
<1> HIDE DEF result
<1>3. /\ Len(raw) \in Nat /\ DOMAIN raw = 1..Len(raw)
      /\ Len(raw') = Len(raw) + 1 /\ DOMAIN raw' = 1..(Len(raw) + 1)
      /\ \A i \in 1..Len(raw) : raw'[i] = raw[i]
      /\ raw'[Len(raw) + 1] = result
  BY <1>1, <1>2
<1> QED
  BY <1>3 DEF result

LEMMA CmOf ==
  ASSUME CompareInv, NEW status, cmPhase # "reported", Compare!Record(status), UNCHANGED plan
  PROVE  /\ \A t, k : t # pos.task \/ k # pos.kernel =>
              /\ Compare!Of(t, k)' = Compare!Of(t, k)
              /\ Compare!Successes(t, k)' = Compare!Successes(t, k)
         /\ \A t, k : t = pos.task /\ k = pos.kernel =>
              /\ Compare!Of(t, k)' = Compare!Of(t, k) \cup {Len(raw) + 1}
              /\ Compare!Successes(t, k)' =
                   Compare!Successes(t, k) \cup
                     (IF Compare!Status(status) = "completed" THEN {Len(raw) + 1} ELSE {})
         /\ \A t, k : Compare!Successes(t, k) \subseteq Compare!Of(t, k)
         /\ \A t, k : Compare!Of(t, k) \subseteq 1..Len(raw)
<1>1. PICK n \in Nat : n = Len(raw)
  BY CmAppends
<1>2. /\ DOMAIN raw = 1..n /\ DOMAIN raw' = 1..(n + 1)
      /\ \A i \in 1..n : raw'[i] = raw[i]
      /\ raw'[n + 1].pos = pos /\ raw'[n + 1].status = Compare!Status(status)
      /\ 1..(n + 1) = 1..n \cup {n + 1} /\ n + 1 \notin 1..n
  <2>1. 1..(n + 1) = 1..n \cup {n + 1} /\ n + 1 \notin 1..n
    BY <1>1
  <2> QED
    BY <1>1, <2>1, CmAppends
<1>3. \A t, k : t # pos.task \/ k # pos.kernel =>
        /\ Compare!Of(t, k)' = Compare!Of(t, k)
        /\ Compare!Successes(t, k)' = Compare!Successes(t, k)
  BY <1>2 DEF Compare!Of, Compare!Successes
<1>4. \A t, k : t = pos.task /\ k = pos.kernel => Compare!Of(t, k)' = Compare!Of(t, k) \cup {n + 1}
  BY <1>2 DEF Compare!Of
<1>5. \A t, k : t = pos.task /\ k = pos.kernel =>
        Compare!Successes(t, k)' =
          Compare!Successes(t, k) \cup (IF Compare!Status(status) = "completed" THEN {n + 1} ELSE {})
  BY <1>2, <1>4 DEF Compare!Successes, Compare!Of
<1>6. /\ \A t, k : Compare!Successes(t, k) \subseteq Compare!Of(t, k)
      /\ \A t, k : Compare!Of(t, k) \subseteq 1..Len(raw)
  BY <1>1, <1>2 DEF Compare!Successes, Compare!Of
<1> QED
  BY <1>1, <1>3, <1>4, <1>5, <1>6

\* A kernel's first success at a task stays the first.
LEMMA CmFirstStays ==
  ASSUME CompareInv, NEW status, cmPhase # "reported", Compare!Record(status), UNCHANGED plan,
         NEW t, NEW k, NEW text, Compare!IsFirst(t, k, text)
  PROVE  Compare!IsFirst(t, k, text)'
<1>1. PICK i \in Compare!Successes(t, k) :
        (\A j \in Compare!Successes(t, k) : i <= j) /\ text = raw[i].text
  BY DEF Compare!IsFirst
<1>2. /\ i \in Compare!Successes(t, k)' /\ i \in 1..Len(raw)
      /\ \A j \in Compare!Successes(t, k)' : j \in Compare!Successes(t, k) \/ j = Len(raw) + 1
  BY CmOf
<1>3. raw'[i].text = raw[i].text /\ Len(raw) \in Nat
  BY <1>2, CmAppends
<1>4. \A j \in Compare!Successes(t, k)' : i <= j
  BY <1>1, <1>2, <1>3
<1> QED
  BY <1>1, <1>2, <1>3, <1>4 DEF Compare!IsFirst

\* And the run just recorded is the first if it is the only one.
LEMMA CmFirstIs ==
  ASSUME CompareInv, NEW status, cmPhase # "reported", Compare!Record(status), UNCHANGED plan,
         NEW t, NEW k, t = pos.task, k = pos.kernel, Compare!Status(status) = "completed",
         Compare!Successes(t, k) = {}, NEW text, text = rec.text
  PROVE  Compare!IsFirst(t, k, text)'
<1>1. Compare!Successes(t, k)' = {Len(raw) + 1} /\ Len(raw) + 1 <= Len(raw) + 1
  BY CmOf, CmAppends
<1>2. raw'[Len(raw) + 1].text = text
  BY CmAppends
<1> QED
  BY <1>1, <1>2 DEF Compare!IsFirst

LEMMA CmPos ==
  ASSUME CompareInv, cmPhase # "reported"
  PROVE  /\ pos = [task |-> pos.task, kernel |-> pos.kernel, index |-> pos.index]
         /\ pos.task \in 1..plan.tasks /\ pos.kernel \in Compare!Kernels
         /\ pos.index \in 1..plan.repeats
         /\ plan.tasks \in Nat /\ plan.repeats \in Nat /\ NKernels \in Nat
BY CompareConstants DEF CompareInv, CompareTyped, Compare!Positions

\* Where the loops go from a run: to the kernel's next, or to the next kernel, the
\* next task or the end, and never to a kernel and task they left.
LEMMA CmMoves ==
  ASSUME CompareInv, NEW status \in Compare!Statuses, cmPhase # "reported",
         Compare!Record(status), UNCHANGED plan
  PROVE  /\ pos.index # plan.repeats =>
              /\ cmPhase' = "start" /\ pos'.task = pos.task /\ pos'.kernel = pos.kernel
              /\ pos'.index = pos.index + 1
         /\ pos.index = plan.repeats =>
              /\ \A t \in 1..plan.tasks, k \in Compare!Kernels :
                   CmDone(t, k)' <=> CmDone(t, k) \/ (t = pos.task /\ k = pos.kernel)
              /\ cmPhase' # "reported" =>
                   /\ pos'.index = 1
                   /\ \A t, k : t = pos'.task /\ k = pos'.kernel => ~CmDone(t, k)'
         /\ \A t \in 1..plan.tasks :
              cmPhase' = "reported" \/ t < pos'.task <=>
                \/ t < pos.task
                \/ t = pos.task /\ pos.index = plan.repeats /\ pos.kernel = NKernels
         /\ cmPhase' # "reported" =>
              pos'.task = IF pos.index = plan.repeats /\ pos.kernel = NKernels
                          THEN pos.task + 1 ELSE pos.task
         /\ \A t, k : t = pos.task /\ k = pos.kernel => ~CmDone(t, k)
<1> DEFINE lastRun == pos.index = plan.repeats
           lastKernel == lastRun /\ pos.kernel = NKernels
<1>1. PICK t0, k0, i0 : pos = [task |-> t0, kernel |-> k0, index |-> i0]
  BY CmPos
<1>2. /\ t0 \in 1..plan.tasks /\ k0 \in 1..NKernels /\ i0 \in 1..plan.repeats
      /\ plan.tasks \in Nat /\ plan.repeats \in Nat /\ NKernels \in Nat
      /\ pos.task = t0 /\ pos.kernel = k0 /\ pos.index = i0
  BY <1>1, CmPos DEF Compare!Kernels
<1>3. PICK t1, k1, i1 : t1 = t0 + 1 /\ k1 = k0 + 1 /\ i1 = i0 + 1
  OBVIOUS
<1>4. /\ t1 \in Nat /\ k1 \in Nat /\ i1 \in Nat /\ t0 \in Nat /\ k0 \in Nat /\ i0 \in Nat
      /\ i0 # plan.repeats => i1 \in 1..plan.repeats
      /\ k0 # NKernels => k1 \in 1..NKernels
      /\ t0 # plan.tasks => t1 \in 1..plan.tasks
      /\ 1 \in 1..NKernels
  BY <1>2, <1>3
<1>5. /\ pos' = IF ~lastRun THEN [pos EXCEPT !.index = i1]
                ELSE IF ~lastKernel THEN [pos EXCEPT !.index = 1, !.kernel = k1]
                ELSE [task |-> t1, kernel |-> 1, index |-> 1]
      /\ cmPhase' = IF lastKernel /\ t0 = plan.tasks THEN "reported" ELSE "start"
  BY <1>2, <1>3 DEF Compare!Record
<1>6. \A t, k : CmDone(t, k) <=> t < t0 \/ (t = t0 /\ k < k0)
  BY <1>2 DEF CmDone
<1>7. CASE ~lastRun
  <2>1. pos' = [task |-> t0, kernel |-> k0, index |-> i1] /\ cmPhase' = "start"
    BY <1>1, <1>5, <1>7
  <2>2. pos'.task = t0 /\ pos'.kernel = k0 /\ pos'.index = i1
    BY <2>1
  <2> QED
    BY <1>2, <1>3, <1>4, <1>6, <1>7, <2>1, <2>2
<1>8. CASE lastRun /\ ~lastKernel
  <2>1. pos' = [task |-> t0, kernel |-> k1, index |-> 1] /\ cmPhase' = "start"
    BY <1>1, <1>5, <1>8
  <2>2. pos'.task = t0 /\ pos'.kernel = k1 /\ pos'.index = 1
    BY <2>1
  <2>3. \A t, k : CmDone(t, k)' <=> t < t0 \/ (t = t0 /\ k < k1)
    BY <2>1, <2>2 DEF CmDone
  <2>4. \A k \in 1..NKernels : k < k1 <=> k < k0 \/ k = k0
    BY <1>2, <1>3
  <2>5. ~(t0 < t0) /\ ~(k1 < k1) /\ ~(k0 < k0)
    BY <1>4
  <2>6. \A t, k : t = pos'.task /\ k = pos'.kernel => ~CmDone(t, k)'
    BY <2>1, <2>2, <2>5 DEF CmDone
  <2> QED
    BY <1>2, <1>4, <1>6, <1>8, <2>1, <2>2, <2>3, <2>4, <2>5, <2>6 DEF Compare!Kernels
<1>9. CASE lastKernel /\ t0 = plan.tasks
  <2>1. cmPhase' = "reported"
    BY <1>5, <1>9
  <2>2. \A t, k : CmDone(t, k)'
    BY <2>1 DEF CmDone
  <2>3. /\ \A t \in 1..plan.tasks : t < t0 \/ t = t0
        /\ \A k \in 1..NKernels : k < k0 \/ k = k0
        /\ ~(t0 < t0) /\ ~(k0 < k0)
    BY <1>2, <1>9
  <2> QED
    BY <1>2, <1>6, <1>9, <2>1, <2>2, <2>3 DEF Compare!Kernels
<1>10. CASE lastKernel /\ t0 # plan.tasks
  <2>1. pos' = [task |-> t1, kernel |-> 1, index |-> 1] /\ cmPhase' = "start"
    BY <1>5, <1>10
  <2>2. pos'.task = t1 /\ pos'.kernel = 1 /\ pos'.index = 1
    BY <2>1
  <2>3. \A t, k : CmDone(t, k)' <=> t < t1 \/ (t = t1 /\ k < 1)
    BY <2>1, <2>2 DEF CmDone
  <2>4. /\ \A t \in 1..plan.tasks : t < t1 <=> t < t0 \/ t = t0
        /\ \A k \in 1..NKernels : ~(k < 1) /\ (k < k0 \/ k = k0)
    BY <1>2, <1>3, <1>10
  <2>5. ~(t0 < t0) /\ ~(t1 < t1) /\ ~(1 < 1) /\ ~(k0 < k0)
    BY <1>4
  <2>6. \A t, k : t = pos'.task /\ k = pos'.kernel => ~CmDone(t, k)'
    BY <2>1, <2>2, <2>5 DEF CmDone
  <2> QED
    BY <1>2, <1>3, <1>4, <1>6, <1>10, <2>1, <2>2, <2>3, <2>4, <2>5, <2>6 DEF Compare!Kernels
<1> QED
  BY <1>7, <1>8, <1>9, <1>10

LEMMA CmRunsNext ==
  ASSUME CompareInv, CmRuns, NEW status \in Compare!Statuses, cmPhase # "reported",
         Compare!Record(status), UNCHANGED plan
  PROVE  CmRuns'
<1>1. PICK t0, k0, i0, n : t0 = pos.task /\ k0 = pos.kernel /\ i0 = pos.index /\ n = Len(raw)
  OBVIOUS
<1>2. /\ t0 \in 1..plan.tasks /\ k0 \in Compare!Kernels /\ i0 \in 1..plan.repeats
      /\ n \in Nat /\ plan.repeats \in Nat /\ Len(raw') = n + 1
  BY <1>1, CmPos, CmAppends
<1>3. PICK b \in Nat : n + 1 = b + i0 /\ Compare!Of(t0, k0) = (b + 1)..n
  BY <1>1, <1>2 DEF CmRuns, CmNow
<1>4. /\ Compare!Of(t0, k0)' = (b + 1)..(n + 1)
      /\ \A t, k : t # t0 \/ k # k0 => Compare!Of(t, k)' = Compare!Of(t, k)
  <2>1. Compare!Of(t0, k0)' = Compare!Of(t0, k0) \cup {n + 1}
    BY <1>1, CmOf
  <2>2. (b + 1)..(n + 1) = ((b + 1)..n) \cup {n + 1}
    BY <1>2, <1>3
  <2> QED
    BY <1>1, <1>3, <2>1, <2>2, CmOf
<1>5. ~CmDone(t0, k0)
  BY <1>1, CmMoves
<1>6. SUFFICES ASSUME NEW t \in 1..plan.tasks, NEW k \in Compare!Kernels
               PROVE  /\ Compare!Of(t, k)' # {} => CmDone(t, k)' \/ CmNow(t, k)'
                      /\ CmNow(t, k)' =>
                           \E c \in Nat : /\ Len(raw') + 1 = c + pos'.index
                                          /\ Compare!Of(t, k)' = (c + 1)..Len(raw')
                      /\ CmDone(t, k)' =>
                           \E c \in Nat : Compare!Of(t, k)' = (c + 1)..(c + plan.repeats)
  BY DEF CmRuns, Compare!Kernels
<1>7. ASSUME ~(t = t0 /\ k = k0)
      PROVE  /\ Compare!Of(t, k)' # {} => CmDone(t, k)
             /\ CmDone(t, k) => \E c \in Nat : Compare!Of(t, k)' = (c + 1)..(c + plan.repeats)
  <2>1. Compare!Of(t, k)' = Compare!Of(t, k)
    BY <1>4, <1>7
  <2>2. ~CmNow(t, k)
    BY <1>1, <1>7 DEF CmNow
  <2> QED
    BY <2>1, <2>2 DEF CmRuns
<1>8. CASE i0 # plan.repeats
  <2>1. cmPhase' = "start" /\ pos'.task = t0 /\ pos'.kernel = k0 /\ pos'.index = i0 + 1
    BY <1>1, <1>8, CmMoves
  <2>2. (CmDone(t, k)' <=> CmDone(t, k)) /\ (CmNow(t, k)' <=> t = t0 /\ k = k0)
    BY <1>1, <2>1 DEF CmDone, CmNow
  <2>3. n + 1 + 1 = b + (i0 + 1)
    BY <1>2, <1>3
  <2>4. CASE t = t0 /\ k = k0
    BY <1>2, <1>3, <1>4, <1>5, <2>1, <2>2, <2>3, <2>4
  <2>5. CASE ~(t = t0 /\ k = k0)
    BY <1>7, <2>2, <2>5
  <2> QED
    BY <2>4, <2>5
<1>9. CASE i0 = plan.repeats
  <2>1. /\ CmDone(t, k)' <=> CmDone(t, k) \/ (t = t0 /\ k = k0)
        /\ CmNow(t, k)' => pos'.index = 1 /\ ~CmDone(t, k)'
    BY <1>1, <1>9, CmMoves DEF CmNow
  <2>2. CASE t = t0 /\ k = k0
    <3>1. n + 1 = b + plan.repeats
      BY <1>3, <1>9
    <3> QED
      BY <1>3, <1>4, <2>1, <2>2, <3>1
  <2>3. CASE ~(t = t0 /\ k = k0)
    <3>1. Compare!Of(t, k)' # {} => CmDone(t, k)'
      BY <1>7, <2>1, <2>3
    <3>2. CmDone(t, k)' => \E c \in Nat : Compare!Of(t, k)' = (c + 1)..(c + plan.repeats)
      BY <1>7, <2>1, <2>3
    <3>3. n + 1 + 1 = (n + 1) + 1 /\ (n + 1 + 1)..(n + 1) = {} /\ n + 1 \in Nat
      BY <1>2
    <3>4. CmNow(t, k)' => \E c \in Nat : /\ Len(raw') + 1 = c + pos'.index
                                         /\ Compare!Of(t, k)' = (c + 1)..Len(raw')
      BY <1>2, <2>1, <3>1, <3>3
    <3> QED
      BY <3>1, <3>2, <3>4
  <2> QED
    BY <2>2, <2>3
<1> QED
  BY <1>8, <1>9

\* A summary counts what is in the list at its places.
LEMMA CmSummaryStays ==
  ASSUME NEW runs, NEW more, NEW S, \A i \in S : more[i] = runs[i]
  PROVE  Compare!Summary(more, S) = Compare!Summary(runs, S)
<1>1. \A s : {i \in S : more[i].status = s} = {i \in S : runs[i].status = s}
  OBVIOUS
<1> QED
  BY <1>1 DEF Compare!Summary

LEMMA CmSummariesNext ==
  ASSUME CompareInv, CmRuns, CmSummaries, NEW status \in Compare!Statuses, cmPhase # "reported",
         Compare!Record(status), UNCHANGED plan
  PROVE  CmSummaries'
<1>1. PICK t0, k0, i0, n : t0 = pos.task /\ k0 = pos.kernel /\ i0 = pos.index /\ n = Len(raw)
  OBVIOUS
<1>2. /\ t0 \in 1..plan.tasks /\ k0 \in Compare!Kernels /\ i0 \in 1..plan.repeats
      /\ n \in Nat /\ plan.repeats \in Nat
      /\ DOMAIN raw = 1..n /\ Len(raw') = n + 1
      /\ \A i \in 1..n : raw'[i] = raw[i]
  BY <1>1, CmPos, CmAppends
<1>3. ~CmDone(t0, k0)
  BY <1>1, CmMoves
<1>4. \A t, k : t # t0 \/ k # k0 => /\ Compare!Of(t, k)' = Compare!Of(t, k)
                                    /\ Compare!Of(t, k) \subseteq 1..n
  BY <1>1, CmOf
<1>5. \A t, k : t # t0 \/ k # k0 =>
        Compare!Summary(raw, Compare!Of(t, k))' = Compare!Summary(raw, Compare!Of(t, k))
  BY <1>2, <1>4, CmSummaryStays
<1>6. CASE i0 # plan.repeats
  <2>1. /\ summaries' = summaries
        /\ cmPhase' = "start" /\ pos'.task = t0 /\ pos'.kernel = k0
    BY <1>1, <1>6, CmMoves DEF Compare!Record
  <2>2. \A t, k : CmDone(t, k)' <=> CmDone(t, k)
    BY <1>1, <2>1 DEF CmDone
  <2>3. ASSUME NEW t \in 1..plan.tasks, NEW k \in Compare!Kernels
        PROVE  /\ <<t, k>> \in DOMAIN summaries' <=> CmDone(t, k)'
               /\ CmDone(t, k)' => summaries'[<<t, k>>] = Compare!Summary(raw, Compare!Of(t, k))'
    BY <1>3, <1>5, <2>1, <2>2 DEF CmSummaries
  <2> QED
    BY <2>3 DEF CmSummaries, Compare!Kernels
<1>7. CASE i0 = plan.repeats
  <2>1. \A t \in 1..plan.tasks, k \in Compare!Kernels :
          CmDone(t, k)' <=> CmDone(t, k) \/ (t = t0 /\ k = k0)
    BY <1>1, <1>7, CmMoves
  <2>2. PICK key, value : /\ key = <<t0, k0>>
                          /\ value = Compare!Summary(raw', (Len(raw') - plan.repeats + 1)..Len(raw'))
    OBVIOUS
  <2>3. summaries' = Compare!With(summaries, key, value)
    BY <1>1, <1>7, <2>2 DEF Compare!Record
  <2>4. /\ DOMAIN summaries' = DOMAIN summaries \cup {key}
        /\ \A x \in DOMAIN summaries : summaries'[x] = summaries[x]
        /\ key \notin DOMAIN summaries => summaries'[key] = value
    BY <2>3 DEF Compare!With
  <2>5. key \notin DOMAIN summaries
    BY <1>2, <1>3, <2>2 DEF CmSummaries
  <2>6. \A t, k : <<t, k>> = key <=> t = t0 /\ k = k0
    BY <2>2
  <2>7. Compare!Of(t0, k0)' = (Len(raw') - plan.repeats + 1)..Len(raw')
    <3>1. PICK b \in Nat : n + 1 = b + i0 /\ Compare!Of(t0, k0) = (b + 1)..n
      BY <1>1, <1>2 DEF CmRuns, CmNow
    <3>2. Compare!Of(t0, k0)' = Compare!Of(t0, k0) \cup {n + 1}
      BY <1>1, CmOf
    <3>3. n + 1 = b + plan.repeats
      BY <1>7, <3>1
    <3>4. (b + 1)..(n + 1) = ((b + 1)..n) \cup {n + 1}
      BY <1>2, <3>3
    <3>5. n + 1 - plan.repeats + 1 = b + 1
      BY <1>2, <3>3
    <3> QED
      BY <1>2, <3>1, <3>2, <3>4, <3>5
  <2>8. value = Compare!Summary(raw, Compare!Of(t0, k0))'
    BY <2>2, <2>7
  <2>9. ASSUME NEW t \in 1..plan.tasks, NEW k \in Compare!Kernels
        PROVE  /\ <<t, k>> \in DOMAIN summaries' <=> CmDone(t, k)'
               /\ CmDone(t, k)' => summaries'[<<t, k>>] = Compare!Summary(raw, Compare!Of(t, k))'
    <3>1. CASE t = t0 /\ k = k0
      BY <2>1, <2>2, <2>4, <2>5, <2>8, <3>1
    <3>2. CASE ~(t = t0 /\ k = k0)
      BY <1>5, <2>1, <2>4, <2>6, <3>2 DEF CmSummaries
    <3> QED
      BY <3>1, <3>2
  <2> QED
    BY <2>9 DEF CmSummaries, Compare!Kernels
<1> QED
  BY <1>6, <1>7

\* first_success with the run just recorded: what compare looks for, of the task.
LEMMA CmSucceeded ==
  ASSUME CompareInv, CmFirst, NEW status \in Compare!Statuses, cmPhase # "reported",
         Compare!Record(status), UNCHANGED plan, NEW t, t = pos.task,
         NEW succeeded,
         succeeded = IF Compare!Status(status) = "completed"
                     THEN [k \in DOMAIN first \cup {pos.kernel} |->
                             IF k \in DOMAIN first THEN first[k] ELSE rec.text]
                     ELSE first
  PROVE  CmHolds(t, succeeded)'
<1>1. PICK k0, text, old : k0 = pos.kernel /\ text = rec.text /\ old = first
  OBVIOUS
<1>2. t \in 1..plan.tasks /\ k0 \in Compare!Kernels /\ Compare!Kernels' = Compare!Kernels
  BY <1>1, CmPos DEF Compare!Kernels
<1>3. /\ DOMAIN old = Compare!Lucky(t)
      /\ \A k \in Compare!Lucky(t) : Compare!IsFirst(t, k, old[k])'
  <2>1. CmHolds(t, old)
    BY <1>1, <1>2 DEF CmFirst
  <2> QED
    BY <2>1, CmFirstStays DEF CmHolds
<1>4. /\ \A k : k # k0 => Compare!Successes(t, k)' = Compare!Successes(t, k)
      /\ Compare!Successes(t, k0)' =
           Compare!Successes(t, k0) \cup
             (IF Compare!Status(status) = "completed" THEN {Len(raw) + 1} ELSE {})
  BY <1>1, CmOf
<1>5. CASE Compare!Status(status) = "completed"
  <2>1. Compare!Lucky(t)' = Compare!Lucky(t) \cup {k0}
    BY <1>2, <1>4, <1>5 DEF Compare!Lucky
  <2>2. /\ DOMAIN succeeded = DOMAIN old \cup {k0}
        /\ \A k \in DOMAIN old : succeeded[k] = old[k]
        /\ k0 \notin DOMAIN old => succeeded[k0] = text
    BY <1>1, <1>5
  <2>3. k0 \notin Compare!Lucky(t) => Compare!IsFirst(t, k0, text)'
    BY <1>1, <1>2, <1>5, CmFirstIs DEF Compare!Lucky
  <2>4. ASSUME NEW k \in Compare!Lucky(t)' PROVE Compare!IsFirst(t, k, succeeded[k])'
    BY <1>3, <2>1, <2>2, <2>3
  <2> QED
    BY <1>3, <2>1, <2>2, <2>4 DEF CmHolds
<1>6. CASE Compare!Status(status) # "completed"
  <2>1. Compare!Lucky(t)' = Compare!Lucky(t)
    BY <1>2, <1>4, <1>6 DEF Compare!Lucky
  <2>2. succeeded = old
    BY <1>1, <1>6
  <2> QED
    BY <1>3, <2>1, <2>2 DEF CmHolds
<1> QED
  BY <1>5, <1>6

LEMMA CmFirstNext ==
  ASSUME CompareInv, CmRuns, CmFirst, CmRuns', NEW status \in Compare!Statuses,
         cmPhase # "reported", Compare!Record(status), UNCHANGED plan
  PROVE  CmFirst'
<1>1. SUFFICES ASSUME NEW t \in 1..plan.tasks, cmPhase' # "reported", t = pos'.task,
                      NEW texts, texts = first'
               PROVE  CmHolds(t, texts)'
  BY DEF CmFirst, CmHolds, Compare!IsFirst
<1>2. CASE pos.index = plan.repeats /\ pos.kernel = NKernels
  <2>1. first' = <<>> /\ t = pos.task + 1
    BY <1>1, <1>2, CmMoves DEF Compare!Record
  <2>2. pos.task \in Nat
    BY CmPos
  <2>3. \A k \in Compare!Kernels : Compare!Of(t, k)' = {}
    <3>1. SUFFICES ASSUME NEW k \in Compare!Kernels PROVE Compare!Of(t, k)' = {}
      OBVIOUS
    <3>2. ~CmDone(t, k) /\ ~CmNow(t, k)
      BY <2>1, <2>2 DEF CmDone, CmNow
    <3>3. Compare!Of(t, k) = {}
      BY <3>2 DEF CmRuns
    <3>4. t # pos.task
      BY <2>1, <2>2
    <3> QED
      BY <3>3, <3>4, CmOf
  <2>4. Compare!Lucky(t)' = {}
    BY <2>3 DEF Compare!Lucky, Compare!Successes, Compare!Kernels
  <2>5. DOMAIN texts = {}
    BY <1>1, <2>1
  <2> QED
    BY <2>4, <2>5 DEF CmHolds
<1>3. CASE ~(pos.index = plan.repeats /\ pos.kernel = NKernels)
  <2>1. t = pos.task
    BY <1>1, <1>3, CmMoves
  <2>2. PICK succeeded :
          succeeded = IF Compare!Status(status) = "completed"
                      THEN [k \in DOMAIN first \cup {pos.kernel} |->
                              IF k \in DOMAIN first THEN first[k] ELSE rec.text]
                      ELSE first
    OBVIOUS
  <2>3. texts = succeeded
    BY <1>1, <1>3, <2>2 DEF Compare!Record, Compare!FirstSuccess
  <2> QED
    BY <2>1, <2>2, <2>3, CmSucceeded
<1> QED
  BY <1>2, <1>3

LEMMA CmDriftNext ==
  ASSUME CompareInv, CmFirst, CmDrift, NEW status \in Compare!Statuses,
         cmPhase # "reported", Compare!Record(status), UNCHANGED plan
  PROVE  CmDrift'
<1>1. PICK t0, last : t0 = pos.task /\ last = (pos.index = plan.repeats /\ pos.kernel = NKernels)
  OBVIOUS
<1>2. PICK succeeded :
        succeeded = IF Compare!Status(status) = "completed"
                    THEN [k \in DOMAIN first \cup {pos.kernel} |->
                            IF k \in DOMAIN first THEN first[k] ELSE rec.text]
                    ELSE first
  OBVIOUS
<1>3. CmHolds(t0, succeeded)' /\ DOMAIN succeeded = Compare!Lucky(t0)'
  BY <1>1, <1>2, CmSucceeded DEF CmHolds
<1>4. drift' = IF last /\ DOMAIN succeeded # {} THEN Compare!With(drift, t0, succeeded) ELSE drift
  BY <1>1, <1>2 DEF Compare!Record, Compare!FirstSuccess
<1>5. t0 \in 1..plan.tasks /\ t0 \in Nat /\ Compare!Kernels' = Compare!Kernels
  BY <1>1, CmPos DEF Compare!Kernels
<1>6. t0 \notin DOMAIN drift
  BY <1>1, <1>5 DEF CmDrift
<1>7. /\ DOMAIN drift' = DOMAIN drift \cup (IF last /\ DOMAIN succeeded # {} THEN {t0} ELSE {})
      /\ \A t \in DOMAIN drift : drift'[t] = drift[t]
      /\ last /\ DOMAIN succeeded # {} => drift'[t0] = succeeded
  BY <1>4, <1>6 DEF Compare!With
<1>8. \A t \in 1..plan.tasks :
        cmPhase' = "reported" \/ t < pos'.task <=> t < t0 \/ (t = t0 /\ last)
  BY <1>1, CmMoves
<1>9. SUFFICES ASSUME NEW t \in 1..plan.tasks, NEW texts, texts = drift'[t]
               PROVE  /\ t \in DOMAIN drift' <=>
                           (cmPhase' = "reported" \/ t < pos'.task) /\ Compare!Lucky(t)' # {}
                      /\ t \in DOMAIN drift' => CmHolds(t, texts)'
  BY DEF CmDrift, CmHolds, Compare!IsFirst
<1>10. CASE t = t0
  <2>1. t0 \in DOMAIN drift' <=> last /\ Compare!Lucky(t0)' # {}
    BY <1>3, <1>6, <1>7
  <2>2. t0 \in DOMAIN drift' => texts = succeeded
    BY <1>3, <1>6, <1>7, <1>9, <1>10, <2>1
  <2> QED
    BY <1>3, <1>5, <1>8, <1>10, <2>1, <2>2
<1>11. CASE t # t0
  <2>1. Compare!Lucky(t)' = Compare!Lucky(t)
    BY <1>1, <1>5, <1>11, CmOf DEF Compare!Lucky
  <2>2. \A k, x : Compare!IsFirst(t, k, x) => Compare!IsFirst(t, k, x)'
    BY CmFirstStays
  <2>3. t \in DOMAIN drift <=> t < t0 /\ Compare!Lucky(t) # {}
    BY <1>1 DEF CmDrift
  <2>4. t \in DOMAIN drift => drift'[t] = drift[t] /\ CmHolds(t, texts)
    BY <1>7, <1>9 DEF CmDrift
  <2>5. CmHolds(t, texts) => CmHolds(t, texts)'
    BY <2>1, <2>2 DEF CmHolds
  <2> QED
    BY <1>7, <1>8, <1>11, <2>1, <2>3, <2>4, <2>5
<1> QED
  BY <1>10, <1>11

LEMMA ReportRecorded ==
  ASSUME ReportInv, NEW status \in Compare!Statuses, cmPhase \notin {"start", "reported"},
         Compare!Record(status), cmOpen' = cmOpen \ {pos},
         UNCHANGED <<plan, script, rec, judged, cmVerdict>>
  PROVE  ReportInv'
<1>1. CompareInv'
  BY CompareEnds DEF ReportInv
<1>2. CmRuns'
  BY CmRunsNext DEF ReportInv
<1>3. CmSummaries' /\ CmFirst' /\ CmDrift'
  BY <1>2, CmSummariesNext, CmFirstNext, CmDriftNext DEF ReportInv
<1> QED
  BY <1>1, <1>2, <1>3 DEF ReportInv

LEMMA ReportFirst == Compare!Init => ReportInv
<1> SUFFICES ASSUME Compare!Init PROVE ReportInv
  OBVIOUS
<1>1. /\ cmPhase = "start" /\ pos.task = 1 /\ pos.kernel = 1 /\ pos.index = 1
      /\ Len(raw) = 0 /\ DOMAIN raw = {} /\ DOMAIN first = {}
      /\ DOMAIN summaries = {} /\ DOMAIN drift = {}
  BY DEF Compare!Init
<1>2. plan.tasks \in Nat /\ NKernels \in Nat
  BY CompareConstants DEF Compare!Init
<1>3. \A t, k : Compare!Of(t, k) = {} /\ Compare!Successes(t, k) = {}
  BY <1>1 DEF Compare!Of, Compare!Successes
<1>4. \A t : Compare!Lucky(t) = {}
  BY <1>3 DEF Compare!Lucky
<1>5. \A t \in 1..plan.tasks, k \in Compare!Kernels : ~CmDone(t, k)
  BY <1>1, <1>2 DEF CmDone, Compare!Kernels
<1>6. CmRuns
  <2>1. 0 + 1 = 0 + 1 /\ (0 + 1)..0 = {} /\ 0 \in Nat
    OBVIOUS
  <2> QED
    BY <1>1, <1>3, <1>5, <2>1 DEF CmRuns
<1>7. CmSummaries /\ CmFirst /\ CmDrift
  BY <1>1, <1>4, <1>5 DEF CmSummaries, CmFirst, CmDrift, CmHolds
<1> QED
  BY <1>6, <1>7, CompareInit DEF ReportInv

LEMMA ReportNext == ReportInv /\ [Compare!Next]_cmVars => ReportInv'
<1> SUFFICES ASSUME ReportInv, [Compare!Next]_cmVars PROVE ReportInv'
  OBVIOUS
<1>1. CompareInv' /\ cmVerdict \in Compare!Statuses
  BY CompareNext DEF ReportInv, CompareInv, CompareTyped
<1>2. CASE Compare!KernelEnds \/ Compare!Close
  BY <1>1, <1>2, ReportRecorded DEF Compare!KernelEnds, Compare!Close, Compare!Statuses
<1>3. CASE ~(Compare!KernelEnds \/ Compare!Close)
  <2>1. /\ UNCHANGED <<plan, pos, raw, first, summaries, drift>>
        /\ cmPhase' = "reported" <=> cmPhase = "reported"
    BY <1>3 DEF Compare!Next, Compare!Start, Compare!KernelYields, Compare!JudgeAnswers, Compare!Tick,
         Compare!Expire, Compare!KernelRaises, Compare!JudgeRaises, Compare!Closes, Compare!report, cmVars
  <2>2. /\ \A t, k : CmDone(t, k)' = CmDone(t, k) /\ CmNow(t, k)' = CmNow(t, k)
        /\ \A t, k : Compare!Of(t, k)' = Compare!Of(t, k)
        /\ Compare!Kernels' = Compare!Kernels
    BY <2>1 DEF CmDone, CmNow, Compare!Of, Compare!Kernels
  <2>3. \A t, k, x : /\ Compare!Successes(t, k)' = Compare!Successes(t, k)
                     /\ Compare!IsFirst(t, k, x)' = Compare!IsFirst(t, k, x)
                     /\ Compare!Lucky(t)' = Compare!Lucky(t)
    BY <2>1, <2>2 DEF Compare!Successes, Compare!IsFirst, Compare!Lucky
  <2>4. \A t, texts : CmHolds(t, texts)' = CmHolds(t, texts)
    BY <2>3 DEF CmHolds
  <2>5. CmRuns'
    BY <2>1, <2>2 DEF ReportInv, CmRuns
  <2>6. CmSummaries'
    <3>1. \A t, k : Compare!Summary(raw, Compare!Of(t, k))' = Compare!Summary(raw, Compare!Of(t, k))
      BY <2>1, <2>2 DEF Compare!Summary, Compare!Statuses
    <3>2. ASSUME NEW t \in 1..plan.tasks, NEW k \in Compare!Kernels
          PROVE  /\ <<t, k>> \in DOMAIN summaries' <=> CmDone(t, k)'
                 /\ CmDone(t, k)' => summaries'[<<t, k>>] = Compare!Summary(raw, Compare!Of(t, k))'
      BY <2>1, <2>2, <3>1 DEF ReportInv, CmSummaries
    <3> QED
      BY <2>1, <2>2, <3>2 DEF CmSummaries
  <2>7. CmFirst'
    BY <2>1, <2>4 DEF ReportInv, CmFirst, CmHolds, Compare!IsFirst
  <2>8. CmDrift'
    BY <2>1, <2>3, <2>4 DEF ReportInv, CmDrift, CmHolds, Compare!IsFirst
  <2> QED
    BY <1>1, <2>5, <2>6, <2>7, <2>8 DEF ReportInv
<1> QED
  BY <1>2, <1>3

LEMMA CmSizes == \A S : Compare!Cardinality(S) = Cardinality(S)
BY Zenon DEF Compare!Cardinality, Cardinality

LEMMA ReportKeeps == ReportInv => ComparisonsAreFair
<1> SUFFICES ASSUME ReportInv PROVE ComparisonsAreFair
  OBVIOUS
<1>1. Compare!RunsAreAlone
  BY CompareKeeps DEF ReportInv
<1>2. ASSUME cmPhase = "reported", NEW t \in 1..plan.tasks, NEW k \in Compare!Kernels
      PROVE  /\ Compare!Cardinality(Compare!Of(t, k)) = plan.repeats
             /\ summaries[<<t, k>>] = Compare!Summary(raw, Compare!Of(t, k))
  <2>1. CmDone(t, k)
    BY <1>2 DEF CmDone
  <2>2. PICK b \in Nat : Compare!Of(t, k) = (b + 1)..(b + plan.repeats)
    BY <2>1 DEF ReportInv, CmRuns
  <2>3. plan.repeats \in Nat \ {0}
    BY CompareConstants DEF ReportInv, CompareInv, CompareTyped
  <2>4. Cardinality((b + 1)..(b + plan.repeats)) = plan.repeats
    <3>1. PICK lo, hi \in Int : lo = b + 1 /\ hi = b + plan.repeats
      BY <2>3
    <3>2. Cardinality(lo..hi) = IF lo > hi THEN 0 ELSE hi - lo + 1
      BY FS_Interval
    <3>3. ~(lo > hi) /\ hi - lo + 1 = plan.repeats
      BY <2>3, <3>1
    <3> QED
      BY <3>1, <3>2, <3>3
  <2> QED
    BY <2>1, <2>2, <2>4, CmSizes DEF ReportInv, CmSummaries
<1>3. ASSUME cmPhase = "reported", NEW t \in 1..plan.tasks
      PROVE  /\ (t \in DOMAIN drift) = (Compare!Lucky(t) # {})
             /\ t \in DOMAIN drift =>
                  /\ DOMAIN drift[t] = Compare!Lucky(t)
                  /\ \A k \in Compare!Lucky(t) : Compare!IsFirst(t, k, drift[t][k])
  BY <1>3 DEF ReportInv, CmDrift, CmHolds
<1> QED
  BY <1>1, <1>2, <1>3 DEF ComparisonsAreFair, Compare!ReportIsRight

\* A comparison times a kernel while no generator of another run is open and does
\* not count the judge's latency as the kernel's; its report counts every run of
\* the plan once, under its kernel and its task, and compares the first successes,
\* for any number of kernels, tasks and repeats, any scripts and any timeout.
THEOREM ComparisonsFair == AdaptersSpec => []ComparisonsAreFair
<1>1. AdaptersInit => ReportInv
  BY ReportFirst DEF AdaptersInit
<1>2. ReportInv /\ [AdaptersNext]_adapterVars => ReportInv'
  BY EachMoves, ReportNext
<1> QED
  BY <1>1, <1>2, ReportKeeps, PTL DEF AdaptersSpec

\* Every adapter keeps its objects well formed.
THEOREM AdaptersAreTyped == AdaptersSpec => []TypesOK
<1> DEFINE Each == SdkInv /\ TurnsInv /\ AcpInv /\ ClawInv /\ CompareInv /\ Channel!Inv
<1>1. AdaptersInit => Each
  BY SdkInit, TurnsInit, AcpInit, ClawInit, CompareInit, ChannelInit DEF AdaptersInit
<1>2. Each /\ [AdaptersNext]_adapterVars => Each'
  BY EachMoves, SdkNext, TurnsNext, AcpNext, ClawNext, CompareNext, ChannelNext, SdkAssumption
<1>3. AdaptersSpec => []TypeOK
  BY CodexSpec, TypeCorrect
<1>4. SdkInv => Sdk!TypeOK
  BY DEF SdkInv, SdkTyped, Sdk!TypeOK
<1>5. TurnsInv => Turns!TypeOK
  BY DEF TurnsInv, TurnsTyped, Turns!TypeOK
<1>6. AcpInv => Acp!TypeOK
  BY DEF AcpInv, AcpTyped
<1>7. Channel!Inv => OpenCode!TypeOK
  BY Channel!InvIsTyped, ChannelIsOpenCode
<1>8. Each /\ TypeOK => TypesOK
  BY <1>4, <1>5, <1>6, <1>7, ClawKeeps, CompareKeeps DEF TypesOK
<1> QED
  BY <1>1, <1>2, <1>3, <1>8, PTL DEF AdaptersSpec
=============================================================================
