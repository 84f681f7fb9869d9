------------------------- MODULE StateManager_proofs -------------------------
(***************************************************************************)
(* What StateManager guarantees for every number of stages, any set of     *)
(* processes and commands, every gate configuration and every combination  *)
(* of faults.                                                              *)
(***************************************************************************)
EXTENDS StateManager, WellFoundedInduction, TLAPS

-----------------------------------------------------------------------------
(* Type correctness                                                        *)

\* Whatever the checks return, the normalised results of a stage's gates are
\* a map from gates to result statuses.
LEMMA GateRunsType ==
  ASSUME NEW s \in Stages, NEW results \in GateRuns(s)
  PROVE  results \in ResultMaps
<1> DEFINE App == ApplicableGates(s)
<1>1. App \in SUBSET Gates
  BY DEF ApplicableGates
<1>2. PICK raw \in [App -> {"pass", "fail", "error"}] :
        results = [g \in App |-> Normalise(raw[g], GateConfig[g].severity)]
  BY DEF GateRuns
<1>3. ASSUME NEW g \in App
      PROVE  Normalise(raw[g], GateConfig[g].severity) \in ResultStatus
  <2>1. raw[g] \in {"pass", "fail", "error"}
    BY <1>2
  <2> QED
    BY <2>1 DEF Normalise, ResultStatus
<1>4. results \in [App -> ResultStatus]
  BY <1>2, <1>3
<1> QED
  BY <1>1, <1>4 DEF ResultMaps

\* Every transition maps documents to documents.
LEMMA RulesType ==
  ASSUME NEW d \in Documents, NEW s \in Stages
  PROVE  /\ Start(d, s) \in Documents
         /\ Complete(d, s) \in Documents
         /\ Block(d, s) \in Documents
         /\ Override(d, s) \in Documents
         /\ [d EXCEPT !.current = NoStage] \in Documents
BY DEF Documents, StageStatus, Start, Complete, Block, Override

LEMMA InitialFileType == InitialFile \in Documents
<1>1. NoResults \in [{} -> ResultStatus]
  BY DEF NoResults
<1>2. NoResults \in ResultMaps
  BY <1>1 DEF ResultMaps
<1>3. 1 \in Stages
  BY NAssumption DEF Stages
<1> QED
  BY <1>2, <1>3 DEF InitialFile, Documents, InitialStatus, InitialCurrent, StageStatus

LEMMA RenderedType ==
  ASSUME NEW d \in Documents
  PROVE  Rendered(d) \in [status : [Stages -> StageStatus], current : Stages \union {NoStage}]
BY DEF Documents, Rendered

\* A running command has a stage unless it is an advance that has not loaded
\* yet, and log_transition only runs with an event to emit.
Shape(p) ==
  /\ pc[p] # "idle" => \/ cmd[p].stage \in Stages
                       \/ cmd[p].op = "advance" /\ pc[p] = "load"
  /\ pc[p] \in {"emit", "event_id"} => cmd[p].event # NoEvent

CommandsOK ==
  /\ pc \in [Procs -> Labels]
  /\ cmd \in [Procs -> Commands]
  /\ mem \in [Procs -> Documents]
  /\ \A p \in Procs : Shape(p)

LEMMA NoCmdType == NoCmd \in Commands
BY DEF NoCmd, Commands, NoEvent

\* The ways a step moves its process on keep the commands well formed.
LEMMA MoveReturn ==
  ASSUME CommandsOK, NEW p \in Procs, Return(p)
  PROVE  CommandsOK'
<1>1. /\ pc' \in [Procs -> Labels]
      /\ cmd' \in [Procs -> Commands]
      /\ mem' \in [Procs -> Documents]
  BY InitialFileType, NoCmdType DEF CommandsOK, Return, Goto, Labels
<1>2. ASSUME NEW q \in Procs PROVE Shape(q)'
  BY DEF CommandsOK, Return, Goto, Shape
<1> QED
  BY <1>1, <1>2 DEF CommandsOK

LEMMA MoveCall ==
  ASSUME CommandsOK, NEW p \in Procs, NEW c \in Commands, Call(p, c),
         c.stage \in Stages \/ c.op = "advance"
  PROVE  CommandsOK'
<1>1. /\ pc' \in [Procs -> Labels]
      /\ cmd' \in [Procs -> Commands]
      /\ mem' \in [Procs -> Documents]
  BY InitialFileType DEF CommandsOK, Call, Goto, Labels
<1>2. ASSUME NEW q \in Procs PROVE Shape(q)'
  BY DEF CommandsOK, Call, Goto, Shape
<1> QED
  BY <1>1, <1>2 DEF CommandsOK

LEMMA MoveSave ==
  ASSUME CommandsOK, NEW p \in Procs, NEW d \in Documents,
         NEW e \in TransitionEvents \union {NoEvent}, Save(p, d, e), cmd[p].stage \in Stages
  PROVE  CommandsOK'
<1>1. [cmd[p] EXCEPT !.event = e] \in Commands
  BY DEF CommandsOK, Commands
<1>2. cmd' = [cmd EXCEPT ![p] = [cmd[p] EXCEPT !.event = e]]
  BY DEF Save
<1>3. /\ pc' \in [Procs -> Labels]
      /\ cmd' \in [Procs -> Commands]
      /\ mem' \in [Procs -> Documents]
  BY <1>1, <1>2 DEF CommandsOK, Save, Goto, Labels
<1>4. [cmd[p] EXCEPT !.event = e].stage \in Stages
  BY DEF CommandsOK, Commands
<1>5. ASSUME NEW q \in Procs PROVE Shape(q)'
  <2>1. CASE q = p
    BY <2>1, <1>2, <1>4 DEF CommandsOK, Save, Goto, Shape
  <2>2. CASE q # p
    BY <2>2, <1>2 DEF CommandsOK, Save, Goto, Shape
  <2> QED
    BY <2>1, <2>2
<1> QED
  BY <1>3, <1>5 DEF CommandsOK

LEMMA MoveGoto ==
  ASSUME CommandsOK, NEW p \in Procs, NEW l \in Labels, NEW d \in Documents,
         Goto(p, l), cmd' = cmd, mem' = [mem EXCEPT ![p] = d],
         cmd[p].stage \in Stages,
         l \in {"emit", "event_id"} => cmd[p].event # NoEvent
  PROVE  CommandsOK'
<1>1. ASSUME NEW q \in Procs PROVE Shape(q)'
  BY DEF CommandsOK, Goto, Shape
<1> QED
  BY <1>1 DEF CommandsOK, Goto

\* A process that only moves on keeps the document it has.
LEMMA MoveOn ==
  ASSUME CommandsOK, NEW p \in Procs, NEW l \in Labels,
         Goto(p, l), UNCHANGED <<cmd, mem>>, cmd[p].stage \in Stages,
         l \in {"emit", "event_id"} => cmd[p].event # NoEvent
  PROVE  CommandsOK'
<1>1. mem[p] \in Documents /\ mem' = [mem EXCEPT ![p] = mem[p]]
  BY DEF CommandsOK
<1> QED
  BY <1>1, MoveGoto

\* The files, apart from the running commands.
DiskOK ==
  /\ file \in Documents
  /\ mirror \in [status : [Stages -> StageStatus], current : Stages \union {NoStage}]
  /\ store \in Seq(Documents)
  /\ log \in Seq(Events)
  /\ issued \in 0..MaxCmds

TypeInv == DiskOK /\ CommandsOK

LEMMA TypeInvInit == Init => TypeInv
<1> SUFFICES ASSUME Init PROVE TypeInv
  OBVIOUS
<1>1. DiskOK
  BY InitialFileType, RenderedType, ConstantsAssumption DEF Init, DiskOK
<1>2. CommandsOK
  BY InitialFileType, NoCmdType DEF Init, CommandsOK, Shape, Labels
<1> QED
  BY <1>1, <1>2 DEF TypeInv

LEMMA TypeInvNext == TypeInv /\ [Next]_vars => TypeInv'
<1> SUFFICES ASSUME TypeInv, [Next]_vars PROVE TypeInv'
  OBVIOUS
<1> USE DEF TypeInv
<1>A. CASE UNCHANGED vars
  BY <1>A DEF vars, DiskOK, CommandsOK, Shape
<1>B. ASSUME NEW p \in Procs, Invoke(p) \/ Step(p) \/ Crash(p)
      PROVE  TypeInv'
  <2> DEFINE s == cmd[p].stage
  <2>0. /\ cmd[p] \in Commands
        /\ mem[p] \in Documents
        /\ pc[p] \in Labels
        /\ Shape(p)
    BY DEF CommandsOK
  <2>1. CASE Invoke(p)
    <3>1. PICK op \in Ops : \E t \in IF op = "advance" THEN {NoStage} ELSE Stages :
                              Call(p, Command(op, t, FALSE))
      BY <2>1 DEF Invoke
    <3>2. PICK t \in IF op = "advance" THEN {NoStage} ELSE Stages : Call(p, Command(op, t, FALSE))
      BY <3>1
    <3>3. Command(op, t, FALSE) \in Commands
      BY ConstantsAssumption DEF Command, Commands, NoEvent
    <3>4. \/ Command(op, t, FALSE).stage \in Stages
          \/ Command(op, t, FALSE).op = "advance"
      BY DEF Command
    <3>5. CommandsOK'
      BY <3>2, <3>3, <3>4, MoveCall
    <3> QED
      BY <3>5, <2>1, ConstantsAssumption DEF Invoke, DiskOK, disk
  <2>2. CASE LoadStart(p)
    <3>1. s \in Stages
      BY <2>0, <2>2 DEF LoadStart, At, Shape
    <3>2. Start(file, s) \in Documents
      BY <3>1, RulesType DEF DiskOK
    <3>3. CommandsOK'
      BY <3>1, <3>2, <2>2, MoveSave, MoveReturn DEF LoadStart, TransitionEvents
    <3> QED
      BY <3>3, <2>2 DEF LoadStart, DiskOK, disk
  <2>3. CASE LoadOverride(p)
    <3>1. s \in Stages
      BY <2>0, <2>3 DEF LoadOverride, At, Shape
    <3>2. Override(file, s) \in Documents
      BY <3>1, RulesType DEF DiskOK
    <3>3. CommandsOK'
      BY <3>1, <3>2, <2>3, MoveSave DEF LoadOverride, TransitionEvents
    <3> QED
      BY <3>3, <2>3 DEF LoadOverride, DiskOK, disk
  <2>4. CASE LoadComplete(p)
    <3>1. s \in Stages
      BY <2>0, <2>4 DEF LoadComplete, At, Shape
    <3>2. CommandsOK'
      BY <3>1, <2>4, MoveGoto, MoveReturn DEF LoadComplete, DiskOK, Labels
    <3> QED
      BY <3>2, <2>4 DEF LoadComplete, DiskOK, disk
  <2>5. CASE LoadGateCheck(p)
    <3>1. s \in Stages
      BY <2>0, <2>5 DEF LoadGateCheck, At, Shape
    <3>2. CommandsOK'
      BY <3>1, <2>5, MoveGoto DEF LoadGateCheck, DiskOK, Labels
    <3> QED
      BY <3>2, <2>5 DEF LoadGateCheck, DiskOK, disk
  <2>6. CASE LoadAdvance(p)
    <3>1. ASSUME NEW t \in Stages, NEW c \in BOOLEAN, NEW op \in {"start", "complete"}
          PROVE  Command(op, t, c) \in Commands /\ Command(op, t, c).stage \in Stages
      BY DEF Command, Commands, NoEvent, AllOps
    <3>2. CommandsOK'
      <4>1. CASE Return(p)
        BY <4>1, MoveReturn
      <4>2. CASE \E t \in FirstNotStarted(file) : Call(p, Command("start", t, FALSE))
        BY <4>2, <3>1, MoveCall DEF FirstNotStarted
      <4>3. CASE file.current # NoStage /\ Call(p, Command("complete", file.current, TRUE))
        <5>1. file.current \in Stages
          BY <4>3 DEF DiskOK, Documents
        <5> QED
          BY <5>1, <4>3, <3>1, MoveCall
      <4> QED
        BY <4>1, <4>2, <4>3, <2>6 DEF LoadAdvance
    <3> QED
      BY <3>2, <2>6 DEF LoadAdvance, DiskOK, disk
  <2>7. CASE LoadFinish(p)
    <3>1. s \in Stages
      BY <2>0, <2>7 DEF LoadFinish, At, Shape
    <3>2. [file EXCEPT !.current = NoStage] \in Documents
      BY <3>1, RulesType DEF DiskOK
    <3>3. CommandsOK'
      BY <3>1, <3>2, <2>7, MoveSave DEF LoadFinish
    <3> QED
      BY <3>3, <2>7 DEF LoadFinish, DiskOK, disk
  <2>8. CASE EmitGateStarted(p)
    <3>1. s \in Stages
      BY <2>0, <2>8 DEF EmitGateStarted, At, Shape
    <3>2. CommandsOK'
      BY <3>1, <2>8, MoveOn, MoveReturn DEF EmitGateStarted, Labels
    <3>3. log' \in Seq(Events)
      BY <3>1, <2>8 DEF EmitGateStarted, DiskOK, Event, Events, GateEvents
    <3> QED
      BY <3>2, <3>3, <2>8 DEF EmitGateStarted, DiskOK
  <2>9. CASE EvaluateGates(p)
    <3>1. s \in Stages
      BY <2>0, <2>9 DEF EvaluateGates, At, Shape
    <3>2. ASSUME NEW results \in GateRuns(s)
          PROVE  [mem[p] EXCEPT !.gates[s] = results] \in Documents
      BY <3>1, <2>0, GateRunsType DEF Documents
    <3>3. CommandsOK'
      <4>1. CASE Return(p)
        BY <4>1, MoveReturn
      <4>2. ASSUME NEW results \in GateRuns(s),
                   mem' = [mem EXCEPT ![p].gates[s] = results],
                   Goto(p, "gated"), UNCHANGED cmd
            PROVE  CommandsOK'
        <5>1. mem' = [mem EXCEPT ![p] = [mem[p] EXCEPT !.gates[s] = results]]
          BY <4>2
        <5> QED
          BY <5>1, <4>2, <3>1, <3>2, MoveGoto DEF Labels
      <4> QED
        BY <4>1, <4>2, <2>9 DEF EvaluateGates
    <3> QED
      BY <3>3, <2>9 DEF EvaluateGates, DiskOK, disk
  <2>10. CASE EmitGateCompleted(p)
    <3>1. s \in Stages
      BY <2>0, <2>10 DEF EmitGateCompleted, At, Shape
    <3>2. Block(mem[p], s) \in Documents /\ Complete(mem[p], s) \in Documents
      BY <3>1, <2>0, RulesType
    <3>3. CommandsOK'
      <4>1. CASE Return(p)
        BY <4>1, MoveReturn
      <4>2. CASE Save(p, mem[p], NoEvent)
        BY <4>2, <3>1, <2>0, MoveSave
      <4>3. CASE Save(p, Block(mem[p], s), "StageBlocked")
        BY <4>3, <3>1, <3>2, MoveSave DEF TransitionEvents
      <4>4. CASE Save(p, Complete(mem[p], s), "StageCompleted")
        BY <4>4, <3>1, <3>2, MoveSave DEF TransitionEvents
      <4> QED
        BY <4>1, <4>2, <4>3, <4>4, <2>10 DEF EmitGateCompleted
    <3>4. log' \in Seq(Events)
      BY <3>1, <2>10 DEF EmitGateCompleted, DiskOK, Event, Events, GateEvents
    <3> QED
      BY <3>3, <3>4, <2>10 DEF EmitGateCompleted, DiskOK
  <2>11. CASE WriteState(p)
    <3>1. s \in Stages
      BY <2>0, <2>11 DEF WriteState, At, Shape
    <3>2. CommandsOK'
      BY <3>1, <2>11, MoveOn, MoveReturn DEF WriteState, Labels
    <3> QED
      BY <3>2, <2>11, <2>0 DEF WriteState, DiskOK
  <2>12. CASE WriteMirror(p)
    <3>1. s \in Stages
      BY <2>0, <2>12 DEF WriteMirror, At, Shape
    <3>2. CommandsOK'
      BY <3>1, <2>12, MoveOn, MoveReturn DEF WriteMirror, Labels
    <3> QED
      BY <3>2, <2>12, <2>0, RenderedType DEF WriteMirror, DiskOK
  <2>13. CASE DualWrite(p)
    <3>1. s \in Stages
      BY <2>0, <2>13 DEF DualWrite, At, Shape
    <3>2. CommandsOK'
      BY <3>1, <2>13, MoveOn, MoveReturn DEF DualWrite, Labels
    <3>3. store' \in Seq(Documents)
      <4>1. store \in Seq(Documents) /\ mem[p] \in Documents
        BY <2>0 DEF DiskOK
      <4> QED
        BY <4>1, <2>13 DEF DualWrite
    <3> QED
      BY <3>2, <3>3, <2>13 DEF DualWrite, DiskOK
  <2>14. CASE EmitTransition(p)
    <3>1. s \in Stages /\ cmd[p].event # NoEvent
      BY <2>0, <2>14 DEF EmitTransition, At, Shape
    <3>2. log' \in Seq(Events)
      BY <3>1, <2>0, <2>14 DEF EmitTransition, DiskOK, Event, Events, Commands
    <3>3. [mem[p] EXCEPT !.lastEvent = Len(log')] \in Documents
      BY <3>2, <2>0 DEF Documents
    <3>4. CommandsOK'
      <4>1. CASE Return(p)
        BY <4>1, MoveReturn
      <4>2. CASE /\ mem' = [mem EXCEPT ![p].lastEvent = Len(log')]
                 /\ Goto(p, "event_id")
                 /\ UNCHANGED cmd
        <5>1. mem' = [mem EXCEPT ![p] = [mem[p] EXCEPT !.lastEvent = Len(log')]]
          BY <4>2
        <5> QED
          BY <5>1, <4>2, <3>1, <3>3, MoveGoto DEF Labels
      <4> QED
        BY <4>1, <4>2, <2>14 DEF EmitTransition
    <3> QED
      BY <3>2, <3>4, <2>14 DEF EmitTransition, DiskOK
  <2>15. CASE WriteEventId(p)
    <3>1. s \in Stages
      BY <2>0, <2>15 DEF WriteEventId, At, Shape
    <3>2. CommandsOK'
      BY <3>1, <2>15, MoveOn, MoveReturn DEF WriteEventId, Labels
    <3> QED
      BY <3>2, <2>15, <2>0 DEF WriteEventId, DiskOK
  <2>16. CASE Reflect(p)
    <3>1. s \in Stages
      BY <2>0, <2>16 DEF Reflect, At, Shape
    <3>2. ASSUME NEW t \in Stages, NEW op \in {"start", "finish"}
          PROVE  Command(op, t, FALSE) \in Commands /\ Command(op, t, FALSE).stage \in Stages
      BY DEF Command, Commands, NoEvent, AllOps
    <3>3. CommandsOK'
      <4>1. CASE Return(p)
        BY <4>1, MoveReturn
      <4>2. CASE s < N /\ Call(p, Command("start", s + 1, FALSE))
        <5>1. s + 1 \in Stages
          BY <4>2, <3>1, NAssumption DEF Stages
        <5> QED
          BY <5>1, <4>2, <3>2, MoveCall
      <4>3. CASE Call(p, Command("finish", s, FALSE))
        BY <4>3, <3>1, <3>2, MoveCall
      <4> QED
        BY <4>1, <4>2, <4>3, <2>16 DEF Reflect
    <3> QED
      BY <3>3, <2>16 DEF Reflect, DiskOK, disk
  <2>17. CASE Crash(p)
    BY <2>17, MoveReturn DEF Crash, DiskOK, disk
  <2> QED
    BY <1>B, <2>1, <2>2, <2>3, <2>4, <2>5, <2>6, <2>7, <2>8, <2>9, <2>10, <2>11, <2>12,
       <2>13, <2>14, <2>15, <2>16, <2>17 DEF Step
<1> QED
  BY <1>A, <1>B DEF Next

\* The files and the running commands stay within their schemas.
THEOREM TypeCorrect == Spec => []TypeOK
<1>1. TypeInv => TypeOK
  BY DEF TypeInv, DiskOK, CommandsOK, TypeOK
<1> QED
  BY <1>1, TypeInvInit, TypeInvNext, PTL DEF Spec
-----------------------------------------------------------------------------
(* Safety: at most one active stage, completion in order, and a            *)
(* last_event_id that never dangles                                        *)
(*                                                                         *)
(* None of the three is inductive: a document reaches state.json through   *)
(* the copy a process holds, possibly long after another process wrote a   *)
(* newer one.  The invariant therefore holds of every copy, not only of    *)
(* the file, and says what a process has already checked about its copy.   *)

\* What is true of every document with respect to a log l.
Sound(l, d) ==
  /\ OneActive(d)
  /\ "override" \notin Ops => InOrder(d)
  /\ d.lastEvent # 0 => d.lastEvent <= Len(l) /\ l[d.lastEvent].type \in TransitionEvents

\* The stages for which complete_stage has checked the status of its copy.
Gating == {"gate", "checks", "gated"}

Checked(c, label, d) ==
  /\ c.op = "override" => "override" \in Ops
  /\ c.op = "complete" /\ label \in Gating => d.status[c.stage] = "active"

SafeInv ==
  /\ Sound(log, file)
  /\ \A p \in Procs : Sound(log, mem[p]) /\ Checked(cmd[p], pc[p], mem[p])

\* The transitions preserve what is true of a document.  Only an override
\* may disturb the order; the others rely on the checks made before them.
LEMMA StartSound ==
  ASSUME NEW l, NEW d \in Documents, NEW s \in Stages, Sound(l, d), CanStart(d, s)
  PROVE  Sound(l, Start(d, s))
<1>1. OneActive(Start(d, s))
  BY DEF Documents, CanStart, Start, OneActive
<1>2. ASSUME InOrder(d) PROVE InOrder(Start(d, s))
  <2> SUFFICES ASSUME NEW u \in Stages, Start(d, s).status[u] # "not_started",
                      NEW t \in 1..(u - 1)
               PROVE  Start(d, s).status[t] = "complete"
    BY DEF InOrder
  <2>1. t \in Stages /\ t # u /\ t < u
    BY NAssumption DEF Stages
  <2>2. CASE u = s
    <3>1. s > 1 /\ s - 1 \in Stages /\ d.status[s - 1] = "complete"
      BY <2>1, <2>2, NAssumption DEF CanStart, Stages
    <3>2. d.status[t] = "complete"
      BY <3>1, <2>1, <2>2, <1>2, NAssumption DEF InOrder, Stages
    <3> QED
      BY <3>2, <2>1, <2>2 DEF Start, Documents
  <2>3. CASE u # s
    <3>1. d.status[u] # "not_started"
      BY <2>3 DEF Start, Documents
    <3>2. d.status[t] = "complete"
      BY <3>1, <1>2 DEF InOrder
    <3>3. t # s
      BY <3>2 DEF CanStart
    <3> QED
      BY <3>2, <3>3, <2>1 DEF Start, Documents
  <2> QED
    BY <2>2, <2>3
<1>3. Start(d, s).lastEvent = d.lastEvent
  BY DEF Start, Documents
<1> QED
  BY <1>1, <1>2, <1>3 DEF Sound

LEMMA FinishGatesSound ==
  ASSUME NEW l, NEW d \in Documents, NEW s \in Stages, Sound(l, d), d.status[s] = "active"
  PROVE  Sound(l, Complete(d, s)) /\ Sound(l, Block(d, s))
<1>1. OneActive(Complete(d, s)) /\ OneActive(Block(d, s))
  BY DEF Documents, Complete, Block, OneActive, Sound
<1>2. ASSUME InOrder(d) PROVE InOrder(Complete(d, s)) /\ InOrder(Block(d, s))
  <2>1. ASSUME NEW u \in Stages, d.status[u] # "not_started", NEW t \in 1..(u - 1)
        PROVE  t \in Stages /\ d.status[t] = "complete" /\ t # s
    <3>1. t \in Stages
      BY NAssumption DEF Stages
    <3> QED
      BY <3>1, <2>1, <1>2 DEF InOrder
  <2>2. ASSUME NEW u \in Stages, Complete(d, s).status[u] # "not_started" \/ Block(d, s).status[u] # "not_started"
        PROVE  d.status[u] # "not_started"
    BY <2>2 DEF Complete, Block, Documents
  <2>3. ASSUME NEW t \in Stages, d.status[t] = "complete", t # s
        PROVE  Complete(d, s).status[t] = "complete" /\ Block(d, s).status[t] = "complete"
    BY <2>3 DEF Complete, Block, Documents
  <2> QED
    BY <2>1, <2>2, <2>3 DEF InOrder
<1>3. Complete(d, s).lastEvent = d.lastEvent /\ Block(d, s).lastEvent = d.lastEvent
  BY DEF Complete, Block, Documents
<1> QED
  BY <1>1, <1>2, <1>3 DEF Sound

LEMMA OverrideSound ==
  ASSUME NEW l, NEW d \in Documents, NEW s \in Stages, Sound(l, d), "override" \in Ops
  PROVE  Sound(l, Override(d, s))
BY DEF Sound, Override, Documents, OneActive

\* Recording gate results or clearing the current stage touches no status.
LEMMA SameStatusSound ==
  ASSUME NEW l, NEW d \in Documents, NEW e \in Documents, Sound(l, d),
         e.status = d.status, e.lastEvent = d.lastEvent
  PROVE  Sound(l, e)
BY DEF Sound, OneActive, InOrder

LEMMA InitialSound == ASSUME NEW l PROVE Sound(l, InitialFile)
<1>1. OneActive(InitialFile)
  BY DEF InitialFile, InitialStatus, OneActive
<1>2. InOrder(InitialFile)
  BY NAssumption DEF InitialFile, InitialStatus, InOrder, Stages
<1> QED
  BY <1>1, <1>2 DEF Sound, InitialFile

\* The log only grows, so what it says of a document stays true.
LEMMA GrowSound ==
  ASSUME NEW l \in Seq(Events), NEW d \in Documents, NEW e \in Events, Sound(l, d)
  PROVE  Sound(Append(l, e), d)
BY DEF Sound, Documents

\* One process moves: the file is unchanged or becomes its copy, and what it
\* holds next is sound.
LEMMA SafeMove ==
  ASSUME TypeInv, SafeInv, NEW p \in Procs,
         log' = log \/ \E e \in Events : log' = Append(log, e),
         file' = file \/ file' = mem[p],
         NEW d \in Documents, Sound(log', d),
         mem' = [mem EXCEPT ![p] = d],
         NEW label, pc' = [pc EXCEPT ![p] = label],
         NEW c, cmd' = [cmd EXCEPT ![p] = c], Checked(c, label, d)
  PROVE  SafeInv'
<1>1. ASSUME NEW x \in Documents, Sound(log, x) PROVE Sound(log', x)
  BY <1>1, GrowSound DEF TypeInv, DiskOK
<1>2. file \in Documents /\ \A q \in Procs : mem[q] \in Documents
  BY DEF TypeInv, DiskOK, CommandsOK
<1>3. Sound(log', file')
  BY <1>1, <1>2 DEF SafeInv
<1>4. ASSUME NEW q \in Procs PROVE Sound(log', mem'[q]) /\ Checked(cmd'[q], pc'[q], mem'[q])
  <2>1. CASE q = p
    BY <2>1 DEF TypeInv, CommandsOK
  <2>2. CASE q # p
    BY <2>2, <1>1, <1>2 DEF TypeInv, CommandsOK, SafeInv
  <2> QED
    BY <2>1, <2>2
<1> QED
  BY <1>3, <1>4 DEF SafeInv
LEMMA SafeInit == Init => SafeInv
<1> SUFFICES ASSUME Init PROVE SafeInv
  OBVIOUS
<1>1. Sound(log, file) /\ \A p \in Procs : Sound(log, mem[p])
  BY InitialSound DEF Init
<1>2. \A p \in Procs : Checked(cmd[p], pc[p], mem[p])
  BY DEF Init, Checked, NoCmd, Gating
<1> QED
  BY <1>1, <1>2 DEF SafeInv

\* A process that returns drops its copy, one that calls another operation
\* has not loaded yet.
LEMMA SafeReturn ==
  ASSUME TypeInv, SafeInv, NEW p \in Procs, Return(p),
         log' = log \/ \E e \in Events : log' = Append(log, e),
         file' = file \/ file' = mem[p]
  PROVE  SafeInv'
<1>1. Checked(NoCmd, "idle", InitialFile)
  BY DEF Checked, NoCmd
<1> QED
  BY <1>1, SafeMove, InitialSound, InitialFileType DEF Return, Goto

LEMMA SafeCall ==
  ASSUME TypeInv, SafeInv, NEW p \in Procs, NEW c, Call(p, c),
         c.op = "override" => "override" \in Ops,
         UNCHANGED <<log, file>>
  PROVE  SafeInv'
<1>1. Checked(c, "load", InitialFile)
  BY DEF Checked, Gating
<1> QED
  BY <1>1, SafeMove, InitialSound, InitialFileType DEF Call, Goto

LEMMA SafeSave ==
  ASSUME TypeInv, SafeInv, NEW p \in Procs, NEW d \in Documents, NEW e, Save(p, d, e),
         log' = log \/ \E x \in Events : log' = Append(log, x),
         file' = file, Sound(log', d)
  PROVE  SafeInv'
<1> DEFINE c == [cmd[p] EXCEPT !.event = e]
<1>1. cmd[p] \in Commands /\ (cmd[p].op = "override" => "override" \in Ops)
  BY DEF TypeInv, CommandsOK, SafeInv, Checked
<1>2. Checked(c, "write", d)
  BY <1>1 DEF Checked, Gating, Commands
<1>3. cmd' = [cmd EXCEPT ![p] = c]
  BY DEF Save
<1> HIDE DEF c
<1> QED
  BY <1>2, <1>3, SafeMove DEF Save, Goto

\* The command is unchanged and the copy is d.
LEMMA SafeGoto ==
  ASSUME TypeInv, SafeInv, NEW p \in Procs, NEW label, Goto(p, label), cmd' = cmd,
         log' = log \/ \E x \in Events : log' = Append(log, x),
         file' = file \/ file' = mem[p],
         NEW d \in Documents, mem' = [mem EXCEPT ![p] = d], Sound(log', d),
         cmd[p].op = "complete" /\ label \in Gating => d.status[cmd[p].stage] = "active"
  PROVE  SafeInv'
<1>1. Checked(cmd[p], label, d)
  BY DEF Checked, SafeInv
<1>2. cmd' = [cmd EXCEPT ![p] = cmd[p]]
  BY DEF TypeInv, CommandsOK
<1> QED
  BY <1>1, <1>2, SafeMove DEF Goto

LEMMA SafeOn ==
  ASSUME TypeInv, SafeInv, NEW p \in Procs, NEW label, Goto(p, label), UNCHANGED <<cmd, mem>>,
         log' = log \/ \E x \in Events : log' = Append(log, x),
         file' = file \/ file' = mem[p],
         label \in Gating => pc[p] \in Gating
  PROVE  SafeInv'
<1>1. mem[p] \in Documents /\ mem' = [mem EXCEPT ![p] = mem[p]]
  BY DEF TypeInv, CommandsOK
<1>2. Sound(log', mem[p])
  BY <1>1, GrowSound DEF SafeInv, TypeInv, DiskOK
<1>3. cmd[p].op = "complete" /\ label \in Gating => mem[p].status[cmd[p].stage] = "active"
  BY DEF SafeInv, Checked
<1> QED
  BY <1>1, <1>2, <1>3, SafeGoto

LEMMA SafeNext == TypeInv /\ SafeInv /\ [Next]_vars => SafeInv'
<1> SUFFICES ASSUME TypeInv, SafeInv, [Next]_vars PROVE SafeInv'
  OBVIOUS
<1>A. CASE UNCHANGED vars
  BY <1>A DEF vars, SafeInv
<1>B. ASSUME NEW p \in Procs, Invoke(p) \/ Step(p) \/ Crash(p)
      PROVE  SafeInv'
  <2> DEFINE s == cmd[p].stage
  <2>0. /\ cmd[p] \in Commands
        /\ mem[p] \in Documents
        /\ file \in Documents
        /\ Sound(log, mem[p])
        /\ Sound(log, file)
        /\ Checked(cmd[p], pc[p], mem[p])
        /\ pc[p] # "idle" => s \in Stages \/ (cmd[p].op = "advance" /\ pc[p] = "load")
        /\ pc[p] \in {"emit", "event_id"} => cmd[p].event # NoEvent
    BY DEF TypeInv, DiskOK, CommandsOK, SafeInv, Shape
  <2>1. CASE Invoke(p)
    <3>0. PICK op \in Ops : \E t : Call(p, Command(op, t, FALSE))
      BY <2>1 DEF Invoke
    <3>1. PICK t : Call(p, Command(op, t, FALSE))
      BY <3>0
    <3>2. Command(op, t, FALSE).op = op
      BY DEF Command
    <3> QED
      BY <3>1, <3>2, <2>1, SafeCall DEF Invoke, disk
  <2>2. CASE LoadStart(p)
    <3>1. CASE CanStart(file, s)
      <4>1. s \in Stages
        BY <2>0, <2>2 DEF LoadStart, At
      <4>2. Start(file, s) \in Documents /\ Sound(log, Start(file, s))
        BY <4>1, <3>1, <2>0, StartSound, RulesType
      <4> QED
        BY <4>2, <3>1, <2>2, SafeSave DEF LoadStart, disk
    <3>2. CASE ~CanStart(file, s)
      BY <3>2, <2>2, SafeReturn DEF LoadStart, disk
    <3> QED
      BY <3>1, <3>2
  <2>3. CASE LoadOverride(p)
    <3>1. s \in Stages /\ "override" \in Ops
      BY <2>0, <2>3 DEF LoadOverride, At, Checked
    <3>2. Override(file, s) \in Documents /\ Sound(log, Override(file, s))
      BY <3>1, <2>0, OverrideSound, RulesType
    <3> QED
      BY <3>2, <2>3, SafeSave DEF LoadOverride, disk
  <2>4. CASE LoadComplete(p)
    <3>1. CASE CanComplete(file, s)
      BY <3>1, <2>0, <2>4, SafeGoto DEF LoadComplete, CanComplete, disk
    <3>2. CASE ~CanComplete(file, s)
      BY <3>2, <2>4, SafeReturn DEF LoadComplete, disk
    <3> QED
      BY <3>1, <3>2
  <2>5. CASE LoadGateCheck(p)
    <3>1. cmd[p].op # "complete"
      BY <2>5 DEF LoadGateCheck
    <3> QED
      BY <3>1, <2>0, <2>5, SafeGoto DEF LoadGateCheck, disk
  <2>6. CASE LoadAdvance(p)
    <3>1. ASSUME NEW op \in {"start", "complete"}, NEW t, NEW ch, Call(p, Command(op, t, ch))
          PROVE  SafeInv'
      <4>1. Command(op, t, ch).op # "override"
        BY DEF Command
      <4> QED
        BY <4>1, <3>1, <2>6, SafeCall DEF LoadAdvance, disk
    <3>2. CASE Return(p)
      BY <3>2, <2>6, SafeReturn DEF LoadAdvance, disk
    <3> QED
      BY <3>1, <3>2, <2>6 DEF LoadAdvance
  <2>7. CASE LoadFinish(p)
    <3> DEFINE d == [file EXCEPT !.current = NoStage]
    <3>1. d \in Documents /\ d.status = file.status /\ d.lastEvent = file.lastEvent
      BY <2>0 DEF Documents
    <3>2. Sound(log, d)
      BY <3>1, <2>0, SameStatusSound
    <3> HIDE DEF d
    <3>3. Save(p, d, NoEvent) /\ UNCHANGED disk
      BY <2>7 DEF LoadFinish, d
    <3> QED
      BY <3>1, <3>2, <3>3, SafeSave DEF disk
  <2>8. CASE EmitGateStarted(p)
    <3>1. Event("GateStarted", s) \in Events
      BY <2>0, <2>8 DEF EmitGateStarted, At, Event, Events, GateEvents
    <3>2. CASE Return(p)
      BY <3>1, <3>2, <2>8, SafeReturn DEF EmitGateStarted
    <3>3. CASE Goto(p, "checks") /\ UNCHANGED <<cmd, mem>>
      BY <3>1, <3>3, <2>8, SafeOn DEF EmitGateStarted, At, Gating
    <3> QED
      BY <3>2, <3>3, <2>8 DEF EmitGateStarted
  <2>9. CASE EvaluateGates(p)
    <3>1. CASE Return(p)
      BY <3>1, <2>9, SafeReturn DEF EvaluateGates, disk
    <3>2. ASSUME NEW results \in GateRuns(s), mem' = [mem EXCEPT ![p].gates[s] = results],
                 Goto(p, "gated"), UNCHANGED cmd
          PROVE  SafeInv'
      <4> DEFINE d == [mem[p] EXCEPT !.gates[s] = results]
      <4>1. s \in Stages
        BY <2>0, <2>9 DEF EvaluateGates, At
      <4>2. /\ d \in Documents
            /\ d.status = mem[p].status
            /\ d.lastEvent = mem[p].lastEvent
        BY <4>1, <2>0, GateRunsType DEF Documents
      <4>3. Sound(log, d)
        BY <4>2, <2>0, SameStatusSound
      <4>4. mem' = [mem EXCEPT ![p] = d]
        BY <3>2
      <4>5. cmd[p].op = "complete" => d.status[s] = "active"
        BY <4>2, <2>0, <2>9 DEF EvaluateGates, At, Checked, Gating
      <4> HIDE DEF d
      <4> QED
        BY <4>2, <4>3, <4>4, <4>5, <3>2, <2>9, SafeGoto DEF EvaluateGates, disk
    <3> QED
      BY <3>1, <3>2, <2>9 DEF EvaluateGates
  <2>10. CASE EmitGateCompleted(p)
    <3>1. s \in Stages /\ Event("GateCompleted", s) \in Events
      BY <2>0, <2>10 DEF EmitGateCompleted, At, Event, Events, GateEvents
    <3>2. log' = Append(log, Event("GateCompleted", s)) /\ file' = file
      BY <2>10 DEF EmitGateCompleted
    <3>3. Sound(log', mem[p])
      BY <3>1, <3>2, <2>0, GrowSound DEF TypeInv, DiskOK
    <3>4. CASE Return(p)
      BY <3>4, <3>1, <3>2, SafeReturn
    <3>5. CASE Save(p, mem[p], NoEvent)
      BY <3>5, <3>1, <3>2, <3>3, <2>0, SafeSave
    <3>6. CASE cmd[p].op = "complete"
      <4>1. mem[p].status[s] = "active"
        BY <3>6, <2>0, <2>10 DEF EmitGateCompleted, At, Checked, Gating
      <4>2. Sound(log', Complete(mem[p], s)) /\ Sound(log', Block(mem[p], s))
        BY <4>1, <3>1, <3>3, <2>0, FinishGatesSound
      <4>3. Complete(mem[p], s) \in Documents /\ Block(mem[p], s) \in Documents
        BY <3>1, <2>0, RulesType
      <4>4. CASE Save(p, Block(mem[p], s), "StageBlocked")
        BY <4>2, <4>3, <4>4, <3>1, <3>2, SafeSave
      <4>5. CASE Save(p, Complete(mem[p], s), "StageCompleted")
        BY <4>2, <4>3, <4>5, <3>1, <3>2, SafeSave
      <4> QED
        BY <4>4, <4>5, <3>4, <3>6, <2>10 DEF EmitGateCompleted
    <3> QED
      BY <3>4, <3>5, <3>6, <2>10 DEF EmitGateCompleted
  <2>11. CASE WriteState(p)
    <3>1. CASE Return(p)
      BY <3>1, <2>11, SafeReturn DEF WriteState
    <3>2. CASE file' = mem[p] /\ Goto(p, "mirror") /\ UNCHANGED <<cmd, mem>>
      BY <3>2, <2>11, SafeOn DEF WriteState, Gating
    <3> QED
      BY <3>1, <3>2, <2>11 DEF WriteState
  <2>12. CASE WriteMirror(p)
    <3>1. CASE Return(p)
      BY <3>1, <2>12, SafeReturn DEF WriteMirror
    <3>2. CASE Goto(p, "store") /\ UNCHANGED <<cmd, mem>>
      BY <3>2, <2>12, SafeOn DEF WriteMirror, Gating
    <3> QED
      BY <3>1, <3>2, <2>12 DEF WriteMirror
  <2>13. CASE DualWrite(p)
    <3>1. CASE Return(p)
      BY <3>1, <2>13, SafeReturn DEF DualWrite
    <3>2. CASE Goto(p, "emit") /\ UNCHANGED <<cmd, mem>>
      BY <3>2, <2>13, SafeOn DEF DualWrite, Gating
    <3> QED
      BY <3>1, <3>2, <2>13 DEF DualWrite
  <2>14. CASE EmitTransition(p)
    <3>1. /\ s \in Stages
          /\ cmd[p].event \in TransitionEvents
          /\ Event(cmd[p].event, s) \in Events
      BY <2>0, <2>14 DEF EmitTransition, At, Event, Events, Commands
    <3>2. log' = Append(log, Event(cmd[p].event, s)) /\ file' = file
      BY <2>14 DEF EmitTransition
    <3>3. CASE Return(p)
      BY <3>3, <3>1, <3>2, SafeReturn
    <3>4. CASE mem' = [mem EXCEPT ![p].lastEvent = Len(log')] /\ Goto(p, "event_id") /\ UNCHANGED cmd
      <4>1. /\ log \in Seq(Events)
            /\ Len(log') = Len(log) + 1
            /\ log'[Len(log')] = Event(cmd[p].event, s)
        BY <3>1, <3>2 DEF TypeInv, DiskOK
      <4>2. [mem[p] EXCEPT !.lastEvent = Len(log')] \in Documents
        BY <4>1, <2>0 DEF Documents
      <4>3. PICK d \in Documents : d = [mem[p] EXCEPT !.lastEvent = Len(log')]
        BY <4>2
      <4>4. d.status = mem[p].status /\ d.lastEvent = Len(log')
        BY <4>3, <2>0 DEF Documents
      <4>5. Sound(log', d)
        <5>1. OneActive(d) /\ ("override" \notin Ops => InOrder(d))
          BY <4>4, <2>0 DEF Sound, OneActive, InOrder
        <5>2. d.lastEvent <= Len(log') /\ log'[d.lastEvent].type \in TransitionEvents
          BY <4>1, <4>4, <3>1 DEF Event
        <5> QED
          BY <5>1, <5>2 DEF Sound
      <4>6. mem' = [mem EXCEPT ![p] = d]
        BY <4>3, <3>4
      <4> QED
        <5>1. log' = log \/ \E x \in Events : log' = Append(log, x)
          BY <3>1, <3>2
        <5>2. "event_id" \notin Gating
          BY DEF Gating
        <5>3. Goto(p, "event_id") /\ cmd' = cmd /\ file' = file
          BY <3>2, <3>4
        <5> QED
          BY <4>5, <4>6, <5>1, <5>2, <5>3, SafeGoto
    <3> QED
      BY <3>3, <3>4, <2>14 DEF EmitTransition
  <2>15. CASE WriteEventId(p)
    <3>1. CASE Return(p)
      BY <3>1, <2>15, SafeReturn DEF WriteEventId
    <3>2. CASE file' = mem[p] /\ Goto(p, "reflect") /\ UNCHANGED <<cmd, mem>>
      BY <3>2, <2>15, SafeOn DEF WriteEventId, Gating
    <3> QED
      BY <3>1, <3>2, <2>15 DEF WriteEventId
  <2>16. CASE Reflect(p)
    <3>1. CASE Return(p)
      BY <3>1, <2>16, SafeReturn DEF Reflect, disk
    <3>2. ASSUME NEW op \in {"start", "finish"}, NEW t, Call(p, Command(op, t, FALSE))
          PROVE  SafeInv'
      <4>1. Command(op, t, FALSE).op # "override"
        BY DEF Command
      <4> QED
        BY <4>1, <3>2, <2>16, SafeCall DEF Reflect, disk
    <3> QED
      BY <3>1, <3>2, <2>16 DEF Reflect
  <2>17. CASE Crash(p)
    BY <2>17, SafeReturn DEF Crash, disk
  <2> QED
    BY <1>B, <2>1, <2>2, <2>3, <2>4, <2>5, <2>6, <2>7, <2>8, <2>9, <2>10, <2>11, <2>12,
       <2>13, <2>14, <2>15, <2>16, <2>17 DEF Step
<1> QED
  BY <1>A, <1>B DEF Next

LEMMA SafeAlways == Spec => [](TypeInv /\ SafeInv)
BY TypeInvInit, TypeInvNext, SafeInit, SafeNext, PTL DEF Spec

\* Two stages are never active at once in state.json, however many
\* processes run commands without a lock and whatever fails.
THEOREM OneActiveStage == Spec => []AtMostOneActive
<1>1. SafeInv => AtMostOneActive
  BY DEF SafeInv, Sound, AtMostOneActive
<1> QED
  BY <1>1, SafeAlways, PTL

\* Where overrides are not used, every stage before one that has been
\* touched is complete, even after lost updates.
THEOREM CompletionInOrder == Spec => []CompletesInOrder
<1>1. SafeInv => CompletesInOrder
  BY DEF SafeInv, Sound, CompletesInOrder
<1> QED
  BY <1>1, SafeAlways, PTL

\* last_event_id names a transition that is in the event log.
THEOREM LastEventLogged == Spec => []LastEventIsLogged
<1>1. SafeInv => LastEventIsLogged
  BY DEF SafeInv, Sound, LastEventIsLogged
<1> QED
  BY <1>1, SafeAlways, PTL

-----------------------------------------------------------------------------
(* One command at a time: the writes of a command implement one abstract   *)
(* transition, a completion honours its gates, the current stage is the    *)
(* active one, and the event log, the mirror and the event store agree     *)
(* with state.json unless a save was cut.  With two processes all of them  *)
(* fail.                                                                   *)

OneProcess == \A p, q \in Procs : p = q

-----------------------------------------------------------------------------
(* The inductive invariant                                                 *)

\* The abstract transitions from document d to document e, or none.
Moves(d, e) ==
  \/ e = d
  \/ \E s \in Stages :
       \/ CanStart(d, s) /\ e = Start(d, s)
       \/ CanComplete(d, s) /\ e \in {Complete(d, s), Block(d, s)}
       \/ e = Override(d, s)

\* What becomes complete from d to e passed its gates.
Honest(d, e) ==
  \A s \in Stages :
    d.status[s] # "complete" /\ e.status[s] = "complete" =>
      \A g \in ApplicableGates(s) :
        GateConfig[g].severity = "blocking" => g \in DOMAIN e.gates[s] /\ e.gates[s][g] = "pass"

Writing == {"write", "mirror", "store", "emit", "event_id"}

\* How the document d of command c at a label relates to the file f: until its
\* write it derives from f, after its write it is f.
Fits(f, c, label, d) ==
  /\ label \in Gating => Rendered(d) = Rendered(f)
  /\ label \in Gating /\ c.op = "complete" => CanComplete(f, c.stage)
  /\ label = "gated" => d.gates[c.stage] \in GateRuns(c.stage)
  /\ label = "write" => Moves(Rendered(f), Rendered(d)) /\ CurrentAgrees(d) /\ Honest(f, d)
  /\ label \in Writing \ {"write"} => Rendered(d) = Rendered(f)
  /\ label \in Writing /\ c.event = "StageCompleted" => d.current = NoStage
  /\ label = "reflect" \/ (label = "load" /\ c.op = "finish") => f.current = NoStage

Alone == CurrentAgrees(file) /\ \A p \in Procs : Fits(file, cmd[p], pc[p], mem[p])

-----------------------------------------------------------------------------
(* The rules                                                               *)

\* A rule sees of a document only what the mirror shows.
LEMMA RenderedRules ==
  ASSUME NEW d \in Documents, NEW s \in Stages
  PROVE  /\ CanStart(Rendered(d), s) <=> CanStart(d, s)
         /\ CanComplete(Rendered(d), s) <=> CanComplete(d, s)
         /\ Rendered(Start(d, s)) = Start(Rendered(d), s)
         /\ Rendered(Complete(d, s)) = Complete(Rendered(d), s)
         /\ Rendered(Block(d, s)) = Block(Rendered(d), s)
         /\ Rendered(Override(d, s)) = Override(Rendered(d), s)
<1>0. Rendered(d) = [status |-> d.status, current |-> d.current]
  BY DEF Rendered
<1>1. Rendered(d).status = d.status /\ Rendered(d).current = d.current
  BY <1>0
<1>2. (CanStart(Rendered(d), s) <=> CanStart(d, s)) /\ (CanComplete(Rendered(d), s) <=> CanComplete(d, s))
  BY <1>1 DEF CanStart, CanComplete
<1>3. Rendered(Start(d, s)) = Start(Rendered(d), s)
  <2> DEFINE status == [d.status EXCEPT ![s] = "active"]
  <2>1. Start(d, s).status = status /\ Start(d, s).current = s
    BY DEF Documents, Start
  <2>2. Start(Rendered(d), s) = [Rendered(d) EXCEPT !.status = status, !.current = s]
    BY <1>1 DEF Start
  <2> HIDE DEF status
  <2>3. Start(Rendered(d), s) = [status |-> status, current |-> s]
    BY <1>0, <2>2
  <2> QED
    BY <2>1, <2>3 DEF Rendered
<1>4. Rendered(Complete(d, s)) = Complete(Rendered(d), s)
  <2> DEFINE status == [d.status EXCEPT ![s] = "complete"]
  <2>1. Complete(d, s).status = status /\ Complete(d, s).current = NoStage
    BY DEF Documents, Complete
  <2>2. Complete(Rendered(d), s) = [Rendered(d) EXCEPT !.status = status, !.current = NoStage]
    BY <1>1 DEF Complete
  <2> HIDE DEF status
  <2>3. Complete(Rendered(d), s) = [status |-> status, current |-> NoStage]
    BY <1>0, <2>2
  <2> QED
    BY <2>1, <2>3 DEF Rendered
<1>5. Rendered(Block(d, s)) = Block(Rendered(d), s)
  <2>1. Block(d, s).status = [d.status EXCEPT ![s] = "blocked"] /\ Block(d, s).current = d.current
    BY DEF Documents, Block
  <2>2. Block(Rendered(d), s) = [status |-> [d.status EXCEPT ![s] = "blocked"], current |-> d.current]
    BY <1>0 DEF Block
  <2> QED
    BY <2>1, <2>2 DEF Rendered
<1>6. Rendered(Override(d, s)) = Override(Rendered(d), s)
  <2> DEFINE status == [t \in Stages |-> IF t = s THEN "active"
                                         ELSE IF d.status[t] = "active" THEN "blocked" ELSE d.status[t]]
  <2>1. Override(d, s).status = status /\ Override(d, s).current = s
    BY DEF Documents, Override
  <2>2. Override(Rendered(d), s) = [Rendered(d) EXCEPT !.status = status, !.current = s]
    BY <1>1 DEF Override
  <2> HIDE DEF status
  <2>3. Override(Rendered(d), s) = [status |-> status, current |-> s]
    BY <1>0, <2>2
  <2> QED
    BY <2>1, <2>3 DEF Rendered
<1> QED
  BY <1>2, <1>3, <1>4, <1>5, <1>6

LEMMA SameRendered ==
  ASSUME NEW d \in Documents, NEW e \in Documents, Rendered(d) = Rendered(e)
  PROVE  d.status = e.status /\ d.current = e.current
BY DEF Rendered

\* The rules keep the active stage and the current one in agreement.
LEMMA RulesAgree ==
  ASSUME NEW d \in Documents, NEW s \in Stages, CurrentAgrees(d)
  PROVE  /\ CanStart(d, s) => CurrentAgrees(Start(d, s))
         /\ CanComplete(d, s) => CurrentAgrees(Complete(d, s)) /\ CurrentAgrees(Block(d, s))
         /\ CurrentAgrees(Override(d, s))
<1>0. s # NoStage
  BY DEF Stages, NoStage
<1>1. ASSUME CanStart(d, s) PROVE CurrentAgrees(Start(d, s))
  BY <1>0, <1>1 DEF Documents, CanStart, CurrentAgrees, Start
<1>2. ASSUME CanComplete(d, s) PROVE CurrentAgrees(Complete(d, s))
  BY <1>0, <1>2 DEF Documents, CanComplete, CurrentAgrees, Complete
<1>3. ASSUME CanComplete(d, s) PROVE CurrentAgrees(Block(d, s))
  BY <1>0, <1>3 DEF Documents, CanComplete, CurrentAgrees, Block
<1>4. CurrentAgrees(Override(d, s))
  BY <1>0 DEF Documents, CurrentAgrees, Override
<1> QED
  BY <1>1, <1>2, <1>3, <1>4

\* Only Complete makes a stage complete.
LEMMA RulesHonest ==
  ASSUME NEW d \in Documents, NEW s \in Stages
  PROVE  Honest(d, Start(d, s)) /\ Honest(d, Override(d, s))
BY DEF Documents, Honest, Start, Override

\* Gates that do not block passed, those that are blocking.
LEMMA NotBlocked ==
  ASSUME NEW s \in Stages, NEW results \in GateRuns(s), ~HasBlockingFailures(results),
         NEW g \in ApplicableGates(s), GateConfig[g].severity = "blocking"
  PROVE  g \in DOMAIN results /\ results[g] = "pass"
<1> DEFINE App == ApplicableGates(s)
<1>1. PICK raw \in [App -> {"pass", "fail", "error"}] :
        results = [h \in App |-> Normalise(raw[h], GateConfig[h].severity)]
  BY DEF GateRuns
<1>2. g \in DOMAIN results /\ results[g] = Normalise(raw[g], "blocking") /\ raw[g] \in {"pass", "fail", "error"}
  BY <1>1
<1>3. results[g] \in {"pass", "fail", "error"}
  BY <1>2 DEF Normalise
<1>4. results[g] \notin {"fail", "error"}
  BY <1>2 DEF HasBlockingFailures, IsBlocking
<1> QED
  BY <1>2, <1>3, <1>4

LEMMA CompletionHonest ==
  ASSUME NEW f \in Documents, NEW d \in Documents, NEW s \in Stages, Rendered(d) = Rendered(f),
         d.gates[s] \in GateRuns(s), ~HasBlockingFailures(d.gates[s])
  PROVE  Honest(f, Complete(d, s))
<1>1. d.status = f.status
  BY SameRendered
<1>2. ASSUME NEW t \in Stages, f.status[t] # "complete", Complete(d, s).status[t] = "complete"
      PROVE  t = s
  BY <1>1, <1>2 DEF Complete, Documents
<1>3. Complete(d, s).gates = d.gates
  BY DEF Complete, Documents
<1> QED
  BY <1>2, <1>3, NotBlocked DEF Honest

-----------------------------------------------------------------------------
(* The ways a step moves its process on                                    *)

LEMMA AloneMove ==
  ASSUME OneProcess, NEW p \in Procs, CurrentAgrees(file'),
         Fits(file', cmd'[p], pc'[p], mem'[p])
  PROVE  Alone'
BY DEF OneProcess, Alone

LEMMA AloneReturn ==
  ASSUME TypeInv, OneProcess, NEW p \in Procs, Return(p), CurrentAgrees(file')
  PROVE  Alone'
<1>1. pc'[p] = "idle"
  BY DEF Return, Goto, TypeInv, CommandsOK
<1>2. Fits(file', cmd'[p], pc'[p], mem'[p])
  BY <1>1 DEF Fits, Gating, Writing
<1> QED
  BY <1>2, AloneMove

LEMMA AloneCall ==
  ASSUME TypeInv, OneProcess, NEW p \in Procs, NEW c, Call(p, c), CurrentAgrees(file'),
         c.op = "finish" => file'.current = NoStage
  PROVE  Alone'
<1>1. pc'[p] = "load" /\ cmd'[p] = c
  BY DEF Call, Goto, TypeInv, CommandsOK
<1>2. Fits(file', cmd'[p], pc'[p], mem'[p])
  BY <1>1 DEF Fits, Gating, Writing
<1> QED
  BY <1>2, AloneMove

LEMMA AloneSave ==
  ASSUME TypeInv, OneProcess, NEW p \in Procs, NEW d, NEW e, Save(p, d, e), file' = file,
         CurrentAgrees(file), Moves(Rendered(file), Rendered(d)), CurrentAgrees(d), Honest(file, d),
         e = "StageCompleted" => d.current = NoStage
  PROVE  Alone'
<1>1. pc'[p] = "write" /\ cmd'[p] = [cmd[p] EXCEPT !.event = e] /\ mem'[p] = d
  BY DEF Save, Goto, TypeInv, CommandsOK
<1>2. cmd'[p].event = e
  BY <1>1 DEF TypeInv, CommandsOK, Commands
<1>3. Fits(file', cmd'[p], pc'[p], mem'[p])
  BY <1>1, <1>2 DEF Fits, Gating, Writing
<1> QED
  BY <1>3, AloneMove

\* From label to label with the same document.
LEMMA AloneOn ==
  ASSUME TypeInv, OneProcess, Alone, NEW p \in Procs, NEW l \in Labels, Goto(p, l),
         UNCHANGED <<file, cmd, mem>>, Fits(file, cmd[p], l, mem[p])
  PROVE  Alone'
<1>1. pc'[p] = l
  BY DEF Goto, TypeInv, CommandsOK
<1> QED
  BY <1>1, AloneMove DEF Alone

-----------------------------------------------------------------------------
(* Every step keeps the invariant                                          *)

LEMMA AloneInit == Init => Alone
<1> SUFFICES ASSUME Init PROVE Alone
  OBVIOUS
<1>1. CurrentAgrees(file)
  BY NAssumption
  DEF Init, InitialFile, InitialStatus, InitialCurrent, CurrentAgrees, Stages, NoStage
<1>2. ASSUME NEW p \in Procs PROVE Fits(file, cmd[p], pc[p], mem[p])
  BY DEF Init, Fits, Gating, Writing
<1> QED
  BY <1>1, <1>2 DEF Alone

\* The commands that decide on what they load.
LEMMA LoadsKeep ==
  ASSUME TypeInv, OneProcess, Alone, NEW p \in Procs,
         \/ Invoke(p) \/ LoadStart(p) \/ LoadOverride(p) \/ LoadComplete(p)
         \/ LoadGateCheck(p) \/ LoadAdvance(p) \/ LoadFinish(p)
  PROVE  Alone'
<1> DEFINE s == cmd[p].stage
<1>0. file \in Documents /\ cmd[p] \in Commands /\ Shape(p) /\ CurrentAgrees(file)
      /\ Fits(file, cmd[p], pc[p], mem[p])
  BY DEF TypeInv, DiskOK, CommandsOK, Alone
<1>1. CASE Invoke(p)
  <2>1. PICK op \in Ops : \E t \in IF op = "advance" THEN {NoStage} ELSE Stages :
                            Call(p, Command(op, t, FALSE))
    BY <1>1 DEF Invoke
  <2>2. PICK t : Call(p, Command(op, t, FALSE))
    BY <2>1
  <2>3. Command(op, t, FALSE).op # "finish"
    BY ConstantsAssumption DEF Command, AllOps
  <2> QED
    BY <1>0, <1>1, <2>2, <2>3, AloneCall DEF Invoke, disk
<1>2. CASE LoadStart(p)
  <2>1. s \in Stages /\ file' = file
    BY <1>0, <1>2 DEF LoadStart, At, Shape, disk
  <2>2. CASE CanStart(file, s) /\ Save(p, Start(file, s), "StageStarted")
    <3>1. Moves(Rendered(file), Rendered(Start(file, s)))
      BY <1>0, <2>1, <2>2, RenderedRules DEF Moves
    <3>2. CurrentAgrees(Start(file, s)) /\ Honest(file, Start(file, s))
      BY <1>0, <2>1, <2>2, RulesAgree, RulesHonest
    <3> QED
      BY <1>0, <2>1, <2>2, <3>1, <3>2, AloneSave
  <2> QED
    BY <1>0, <1>2, <2>1, <2>2, AloneReturn DEF LoadStart
<1>3. CASE LoadOverride(p)
  <2>1. s \in Stages /\ file' = file /\ Save(p, Override(file, s), "StageOverride")
    BY <1>0, <1>3 DEF LoadOverride, At, Shape, disk
  <2>2. Moves(Rendered(file), Rendered(Override(file, s)))
    BY <1>0, <2>1, RenderedRules DEF Moves
  <2>3. CurrentAgrees(Override(file, s)) /\ Honest(file, Override(file, s))
    BY <1>0, <2>1, RulesAgree, RulesHonest
  <2> QED
    BY <1>0, <2>1, <2>2, <2>3, AloneSave
<1>4. CASE LoadComplete(p)
  <2>1. file' = file
    BY <1>4 DEF LoadComplete, disk
  <2>2. CASE CanComplete(file, s) /\ mem' = [mem EXCEPT ![p] = file] /\ Goto(p, "gate") /\ UNCHANGED cmd
    <3>1. pc'[p] = "gate" /\ mem'[p] = file /\ cmd'[p] = cmd[p]
      BY <2>2 DEF Goto, TypeInv, CommandsOK
    <3>2. Fits(file', cmd'[p], pc'[p], mem'[p])
      BY <2>1, <2>2, <3>1 DEF Fits, Gating, Writing
    <3> QED
      BY <1>0, <2>1, <3>2, AloneMove
  <2> QED
    BY <1>0, <1>4, <2>1, <2>2, AloneReturn DEF LoadComplete
<1>5. CASE LoadGateCheck(p)
  <2>1. pc'[p] = "gate" /\ mem'[p] = file /\ cmd'[p] = cmd[p] /\ file' = file
        /\ cmd[p].op # "complete"
    BY <1>5 DEF LoadGateCheck, Goto, TypeInv, CommandsOK, disk
  <2>2. Fits(file', cmd'[p], pc'[p], mem'[p])
    BY <2>1 DEF Fits, Gating, Writing
  <2> QED
    BY <1>0, <2>1, <2>2, AloneMove
<1>6. CASE LoadAdvance(p)
  <2>1. file' = file
    BY <1>6 DEF LoadAdvance, disk
  <2>2. \A t, c : Command("start", t, c).op # "finish" /\ Command("complete", t, c).op # "finish"
    BY DEF Command
  <2> QED
    BY <1>0, <1>6, <2>1, <2>2, AloneReturn, AloneCall DEF LoadAdvance
<1>7. CASE LoadFinish(p)
  <2> DEFINE d == [file EXCEPT !.current = NoStage]
  <2>1. file.current = NoStage /\ file' = file /\ Save(p, d, NoEvent)
    BY <1>0, <1>7 DEF LoadFinish, At, Fits, disk
  <2>2. d = file
    BY <1>0, <2>1 DEF Documents
  <2>3. Moves(Rendered(file), Rendered(d)) /\ CurrentAgrees(d) /\ Honest(file, d)
    BY <1>0, <2>2 DEF Moves, Honest
  <2> QED
    BY <1>0, <2>1, <2>3, AloneSave DEF NoEvent
<1> QED
  BY <1>1, <1>2, <1>3, <1>4, <1>5, <1>6, <1>7

\* The gates: state.json is not written, and nobody else writes it.
LEMMA GatesKeep ==
  ASSUME TypeInv, OneProcess, Alone, NEW p \in Procs,
         EmitGateStarted(p) \/ EvaluateGates(p) \/ EmitGateCompleted(p)
  PROVE  Alone'
<1> DEFINE s == cmd[p].stage
<1>0. file \in Documents /\ mem[p] \in Documents /\ cmd[p] \in Commands /\ Shape(p)
      /\ CurrentAgrees(file) /\ Fits(file, cmd[p], pc[p], mem[p])
  BY DEF TypeInv, DiskOK, CommandsOK, Alone
<1>1. pc[p] \in Gating /\ s \in Stages /\ file' = file
  BY <1>0 DEF EmitGateStarted, EvaluateGates, EmitGateCompleted, At, Gating, Shape, disk
<1>2. Rendered(mem[p]) = Rendered(file) /\ (cmd[p].op = "complete" => CanComplete(file, s))
  BY <1>0, <1>1 DEF Fits
<1>3. mem[p].status = file.status /\ mem[p].current = file.current
  BY <1>0, <1>2, SameRendered
<1>4. CASE EmitGateStarted(p)
  <2>1. Fits(file, cmd[p], "checks", mem[p])
    BY <1>2 DEF Fits, Gating, Writing
  <2> QED
    BY <1>0, <1>1, <1>4, <2>1, AloneOn, AloneReturn DEF EmitGateStarted, Labels
<1>5. CASE EvaluateGates(p)
  <2>1. ASSUME NEW results \in GateRuns(s), mem' = [mem EXCEPT ![p].gates[s] = results],
               Goto(p, "gated"), UNCHANGED cmd
        PROVE  Alone'
    <3>1. pc'[p] = "gated" /\ cmd'[p] = cmd[p] /\ mem'[p] = [mem[p] EXCEPT !.gates[s] = results]
      BY <2>1 DEF Goto, TypeInv, CommandsOK
    <3>2. mem'[p].gates[s] = results /\ mem'[p].status = mem[p].status /\ mem'[p].current = mem[p].current
      BY <1>0, <1>1, <3>1 DEF Documents
    <3>3. Rendered(mem'[p]) = Rendered(file)
      BY <1>2, <3>2 DEF Rendered
    <3>4. Fits(file', cmd'[p], pc'[p], mem'[p])
      BY <1>1, <1>2, <2>1, <3>1, <3>2, <3>3 DEF Fits, Gating, Writing
    <3> QED
      BY <1>0, <1>1, <3>4, AloneMove
  <2> QED
    BY <1>0, <1>1, <1>5, <2>1, AloneReturn DEF EvaluateGates
<1>6. CASE EmitGateCompleted(p)
  <2>0. mem[p].gates[s] \in GateRuns(s)
    BY <1>0, <1>6 DEF EmitGateCompleted, At, Fits
  <2>1. CurrentAgrees(mem[p])
    BY <1>0, <1>3 DEF CurrentAgrees
  <2>2. CASE Save(p, mem[p], NoEvent)
    <3>1. Moves(Rendered(file), Rendered(mem[p])) /\ Honest(file, mem[p])
      BY <1>2, <1>3 DEF Moves, Honest
    <3> QED
      BY <1>0, <1>1, <2>1, <2>2, <3>1, AloneSave DEF NoEvent
  <2>3. CASE cmd[p].op = "complete" /\ Save(p, Block(mem[p], s), "StageBlocked")
    <3>1. CanComplete(mem[p], s)
      BY <1>2, <1>3, <2>3 DEF CanComplete
    <3>2. Moves(Rendered(file), Rendered(Block(mem[p], s)))
      BY <1>0, <1>1, <1>2, <2>3, <3>1, RenderedRules DEF Moves
    <3>3. Honest(file, Block(mem[p], s))
      BY <1>0, <1>3 DEF Honest, Block, Documents
    <3> QED
      BY <1>0, <1>1, <2>1, <2>3, <3>1, <3>2, <3>3, RulesAgree, AloneSave
  <2>4. CASE cmd[p].op = "complete" /\ ~HasBlockingFailures(mem[p].gates[s])
             /\ Save(p, Complete(mem[p], s), "StageCompleted")
    <3>1. CanComplete(mem[p], s)
      BY <1>2, <1>3, <2>4 DEF CanComplete
    <3>2. Moves(Rendered(file), Rendered(Complete(mem[p], s)))
      BY <1>0, <1>1, <1>2, <2>4, <3>1, RenderedRules DEF Moves
    <3>3. Honest(file, Complete(mem[p], s))
      BY <1>0, <1>1, <1>2, <2>0, <2>4, CompletionHonest
    <3>4. Complete(mem[p], s).current = NoStage
      BY <1>0 DEF Complete, Documents
    <3> QED
      BY <1>0, <1>1, <2>1, <2>4, <3>1, <3>2, <3>3, <3>4, RulesAgree, AloneSave
  <2> QED
    BY <1>0, <1>1, <1>6, <2>2, <2>3, <2>4, AloneReturn DEF EmitGateCompleted
<1> QED
  BY <1>4, <1>5, <1>6

\* The writes of save() and log_transition, and what follows a completion.
LEMMA WritesKeep ==
  ASSUME TypeInv, OneProcess, Alone, NEW p \in Procs,
         \/ WriteState(p) \/ WriteMirror(p) \/ DualWrite(p) \/ EmitTransition(p)
         \/ WriteEventId(p) \/ Reflect(p) \/ Crash(p)
  PROVE  Alone'
<1>0. file \in Documents /\ mem[p] \in Documents /\ CurrentAgrees(file)
      /\ Fits(file, cmd[p], pc[p], mem[p])
  BY DEF TypeInv, DiskOK, CommandsOK, Alone
<1>1. CASE WriteState(p)
  <2>1. CASE file' = mem[p] /\ Goto(p, "mirror") /\ UNCHANGED <<cmd, mem>>
    <3>1. pc'[p] = "mirror" /\ pc[p] = "write"
      BY <1>1, <2>1 DEF Goto, WriteState, At, TypeInv, CommandsOK
    <3>2. Fits(file', cmd'[p], pc'[p], mem'[p])
      BY <1>0, <2>1, <3>1 DEF Fits, Gating, Writing
    <3> QED
      BY <1>0, <2>1, <3>1, <3>2, AloneMove DEF Fits
  <2> QED
    BY <1>0, <1>1, <2>1, AloneReturn DEF WriteState
<1>2. CASE WriteMirror(p)
  <2>1. pc[p] = "mirror" /\ file' = file
    BY <1>2 DEF WriteMirror, At
  <2>2. Fits(file, cmd[p], "store", mem[p])
    BY <1>0, <2>1 DEF Fits, Gating, Writing
  <2> QED
    BY <1>0, <1>2, <2>1, <2>2, AloneOn, AloneReturn DEF WriteMirror, Labels
<1>3. CASE DualWrite(p)
  <2>1. pc[p] = "store" /\ file' = file
    BY <1>3 DEF DualWrite, At
  <2>2. Fits(file, cmd[p], "emit", mem[p])
    BY <1>0, <2>1 DEF Fits, Gating, Writing
  <2> QED
    BY <1>0, <1>3, <2>1, <2>2, AloneOn, AloneReturn DEF DualWrite, Labels
<1>4. CASE EmitTransition(p)
  <2>1. pc[p] = "emit" /\ file' = file
    BY <1>4 DEF EmitTransition, At
  <2>2. CASE mem' = [mem EXCEPT ![p].lastEvent = Len(log')] /\ Goto(p, "event_id") /\ UNCHANGED cmd
    <3>1. pc'[p] = "event_id" /\ cmd'[p] = cmd[p] /\ mem'[p] = [mem[p] EXCEPT !.lastEvent = Len(log')]
      BY <2>2 DEF Goto, TypeInv, CommandsOK
    <3>2. mem'[p].status = mem[p].status /\ mem'[p].current = mem[p].current
      BY <1>0, <3>1 DEF Documents
    <3>3. Rendered(mem'[p]) = Rendered(mem[p])
      BY <3>2 DEF Rendered
    <3>4. Fits(file', cmd'[p], pc'[p], mem'[p])
      BY <1>0, <2>1, <3>1, <3>2, <3>3 DEF Fits, Gating, Writing
    <3> QED
      BY <1>0, <2>1, <3>4, AloneMove
  <2> QED
    BY <1>0, <1>4, <2>1, <2>2, AloneReturn DEF EmitTransition
<1>5. CASE WriteEventId(p)
  <2>1. pc[p] = "event_id"
    BY <1>5 DEF WriteEventId, At
  <2>2. Rendered(mem[p]) = Rendered(file) /\ (cmd[p].event = "StageCompleted" => mem[p].current = NoStage)
    BY <1>0, <2>1 DEF Fits, Writing
  <2>3. CurrentAgrees(mem[p])
    BY <1>0, <2>2, SameRendered DEF CurrentAgrees
  <2>4. CASE file' = mem[p] /\ cmd[p].event = "StageCompleted" /\ Goto(p, "reflect") /\ UNCHANGED <<cmd, mem>>
    <3>1. pc'[p] = "reflect"
      BY <2>4 DEF Goto, TypeInv, CommandsOK
    <3>2. Fits(file', cmd'[p], pc'[p], mem'[p])
      BY <2>2, <2>4, <3>1 DEF Fits, Gating, Writing
    <3> QED
      BY <2>3, <2>4, <3>2, AloneMove
  <2> QED
    BY <1>0, <1>5, <2>3, <2>4, AloneReturn DEF WriteEventId
<1>6. CASE Reflect(p)
  <2>1. file.current = NoStage /\ file' = file
    BY <1>0, <1>6 DEF Reflect, At, Fits, disk
  <2> QED
    BY <1>0, <1>6, <2>1, AloneReturn, AloneCall DEF Reflect
<1>7. CASE Crash(p)
  BY <1>0, <1>7, AloneReturn DEF Crash, disk
<1> QED
  BY <1>1, <1>2, <1>3, <1>4, <1>5, <1>6, <1>7

LEMMA AloneNext == ASSUME TypeInv, OneProcess, Alone, [Next]_vars PROVE Alone'
<1>1. CASE UNCHANGED vars
  BY <1>1 DEF vars, Alone
<1> QED
  BY <1>1, LoadsKeep, GatesKeep, WritesKeep DEF Next, Step

-----------------------------------------------------------------------------
(* The theorems                                                            *)

\* Only the two writes change state.json, and only the first what it shows.
LEMMA StepMoves ==
  ASSUME TypeInv, Alone, [Next]_vars
  PROVE  Moves(Rendered(file), Rendered(file')) /\ Honest(file, file')
<1>1. ASSUME file' = file PROVE Moves(Rendered(file), Rendered(file')) /\ Honest(file, file')
  BY <1>1 DEF Moves, Honest
<1>2. ASSUME NEW p \in Procs, WriteState(p), file' = mem[p]
      PROVE  Moves(Rendered(file), Rendered(file')) /\ Honest(file, file')
  BY <1>2 DEF WriteState, At, Alone, Fits
<1>3. ASSUME NEW p \in Procs, WriteEventId(p), file' = mem[p]
      PROVE  Moves(Rendered(file), Rendered(file')) /\ Honest(file, file')
  <2>1. Rendered(mem[p]) = Rendered(file)
    BY <1>3 DEF WriteEventId, At, Alone, Fits, Writing
  <2>2. mem[p].status = file.status
    BY <2>1 DEF Rendered
  <2> QED
    BY <1>3, <2>1, <2>2 DEF Moves, Honest
<1>4. ASSUME NEW p \in Procs, Invoke(p) \/ Step(p) \/ Crash(p)
      PROVE  \/ file' = file
             \/ file' = mem[p] /\ (WriteState(p) \/ WriteEventId(p))
  BY <1>4
  DEF Invoke, Step, Crash, disk, LoadStart, LoadOverride, LoadComplete, LoadGateCheck, LoadAdvance,
      LoadFinish, EmitGateStarted, EvaluateGates, EmitGateCompleted, WriteState, WriteMirror,
      DualWrite, EmitTransition, WriteEventId, Reflect
<1>5. CASE UNCHANGED vars
  BY <1>1, <1>5 DEF vars
<1> QED
  BY <1>1, <1>2, <1>3, <1>4, <1>5 DEF Next

LEMMA AloneAlways == OneProcess => (Spec => [](TypeInv /\ Alone))
<1>1. OneProcess /\ TypeInv /\ Alone /\ [Next]_vars => Alone'
  BY AloneNext
<1>2. CASE OneProcess
  BY <1>1, <1>2, TypeInvInit, TypeInvNext, AloneInit, PTL DEF Spec
<1> QED
  BY <1>2

\* current_stage_id is the active stage, and a stage that is current can still
\* be worked on, through every failure between the writes of one process.
THEOREM CurrentStageAgrees == OneProcess => (Spec => []CurrentIsConsistent)
<1>1. Alone => CurrentIsConsistent
  BY DEF Alone, CurrentIsConsistent
<1>2. CASE OneProcess
  BY <1>1, <1>2, AloneAlways, PTL
<1> QED
  BY <1>2

\* No stage becomes complete beside a blocking gate that failed, could not run
\* or was not run, when one process runs the commands.
THEOREM CompletionsPassTheirGates == OneProcess => (Spec => CompletionHonoursGates)
<1> DEFINE Honoured ==
      \A s \in Stages :
        file.status[s] # "complete" /\ file'.status[s] = "complete" =>
          \A g \in ApplicableGates(s) :
            GateConfig[g].severity = "blocking" =>
              g \in DOMAIN file'.gates[s] /\ file'.gates[s][g] = "pass"
<1>1. TypeInv /\ Alone /\ [Next]_vars => Honoured
  BY StepMoves DEF Honest
<1> HIDE DEF Honoured
<1>2. CASE OneProcess
  <2>1. Spec => [][Honoured]_file
    BY <1>1, <1>2, AloneAlways, PTL DEF Spec
  <2> QED
    BY <2>1 DEF CompletionHonoursGates, Honoured
<1> QED
  BY <1>2

\* Whatever fails between its writes, a command of one process changes the
\* pipeline by one legal transition or not at all.
THEOREM ImplementsThePipeline == OneProcess => (Spec => ImplementsPipeline)
<1>1. Init => Abstract!PipelineInit
  BY DEF Init, Abstract!PipelineInit, Abstract!InitialStatus, Abstract!InitialCurrent,
         Abstract!Stages, InitialFile, InitialStatus, InitialCurrent, Stages, Rendered
<1>2. TypeInv /\ Alone /\ [Next]_vars => [Abstract!PipelineNext]_(Rendered(file))
  <2> SUFFICES ASSUME TypeInv, Alone, [Next]_vars
               PROVE  [Abstract!PipelineNext]_(Rendered(file))
    OBVIOUS
  <2>1. Moves(Rendered(file), Rendered(file'))
    BY StepMoves
  <2>2. Rendered(file)' = Rendered(file')
    BY DEF Rendered
  <2> QED
    BY <2>1, <2>2
    DEF Moves, Abstract!PipelineNext, Abstract!StartStage, Abstract!CompleteStage,
        Abstract!BlockStage, Abstract!OverrideStage, Abstract!CanStart, Abstract!CanComplete,
        Abstract!Start, Abstract!Complete, Abstract!Block, Abstract!Override, Abstract!Stages,
        Abstract!NoStage, CanStart, CanComplete, Start, Complete, Block, Override, Stages, NoStage
<1>3. CASE OneProcess
  <2>1. Spec => [][Abstract!PipelineNext]_(Rendered(file))
    BY <1>2, <1>3, AloneAlways, PTL DEF Spec
  <2> QED
    BY <1>1, <2>1, PTL DEF Spec, ImplementsPipeline, Abstract!PipelineSpec
<1> QED
  BY <1>3
-----------------------------------------------------------------------------
(* Replaying the event log                                                 *)

\* Induction over the naturals, for the members of a set.
LEMMA NatSetInduction ==
  ASSUME NEW S, 0 \in S, \A n \in Nat : n \in S => n + 1 \in S
  PROVE  Nat \subseteq S
<1> DEFINE T == {n \in Nat : n \notin S}
<1>1. CASE T = {}
  BY <1>1
<1>2. CASE T # {}
  <2>1. PICK x \in T : \A y \in T : ~(<<y, x>> \in OpToRel(<, Nat))
    BY <1>2, NatLessThanWellFounded, WFMin
  <2>2. x # 0
    OBVIOUS
  <2>3. x - 1 \in Nat /\ x - 1 < x
    BY <2>2
  <2>4. <<x - 1, x>> \in OpToRel(<, Nat)
    BY <2>3 DEF OpToRel
  <2>5. x - 1 \in S
    BY <2>1, <2>3, <2>4
  <2> QED
    BY <2>3, <2>5
<1> QED
  BY <1>1, <1>2

\* f lists the pipelines that the first k events tell of, one after the other.
Unfolds(events, k, f) ==
  f = [n \in 0..k |-> IF n = 0 THEN Rendered(InitialFile) ELSE Apply(f[n - 1], events[n])]

LEMMA UnfoldingExists == ASSUME NEW events, NEW k \in Nat PROVE \E f : Unfolds(events, k, f)
<1> DEFINE S == {n \in Nat : \E f : Unfolds(events, n, f)}
<1>1. 0 \in S
  <2> DEFINE f == [n \in 0..0 |-> Rendered(InitialFile)]
  <2>1. Unfolds(events, 0, f)
    BY DEF Unfolds
  <2> QED
    BY <2>1
<1>2. ASSUME NEW n \in Nat, n \in S PROVE n + 1 \in S
  <2>1. PICK f : Unfolds(events, n, f)
    BY <1>2
  <2> DEFINE g == [m \in 0..(n + 1) |-> IF m = n + 1 THEN Apply(f[n], events[m]) ELSE f[m]]
  <2>2. ASSUME NEW m \in 0..(n + 1)
        PROVE  g[m] = IF m = 0 THEN Rendered(InitialFile) ELSE Apply(g[m - 1], events[m])
    BY <2>1 DEF Unfolds
  <2>3. Unfolds(events, n + 1, g)
    BY <2>2 DEF Unfolds
  <2> QED
    BY <2>3
<1> HIDE DEF S
<1>3. Nat \subseteq S
  BY <1>1, <1>2, NatSetInduction
<1> QED
  BY <1>3 DEF S

\* Two unfoldings agree as far as their events do.
LEMMA UnfoldingUnique ==
  ASSUME NEW events, NEW more, NEW k \in Nat, NEW l \in Nat, NEW f, NEW g,
         Unfolds(events, k, f), Unfolds(more, l, g), k <= l,
         \A n \in 1..k : more[n] = events[n]
  PROVE  \A n \in 0..k : g[n] = f[n]
<1> DEFINE S == {n \in Nat : n <= k => g[n] = f[n]}
<1>1. 0 \in S
  BY DEF Unfolds
<1>2. ASSUME NEW n \in Nat, n \in S PROVE n + 1 \in S
  <2>1. CASE n + 1 <= k
    <3>1. f[n + 1] = Apply(f[n], events[n + 1])
      BY <2>1 DEF Unfolds
    <3>2. g[n + 1] = Apply(g[n], more[n + 1])
      BY <2>1 DEF Unfolds
    <3> QED
      BY <1>2, <2>1, <3>1, <3>2
  <2> QED
    BY <2>1
<1> HIDE DEF S
<1>3. Nat \subseteq S
  BY <1>1, <1>2, NatSetInduction
<1> QED
  BY <1>3 DEF S

LEMMA ReplayUnfolds ==
  ASSUME NEW events, Len(events) \in Nat
  PROVE  \E f : Unfolds(events, Len(events), f) /\ ReplayOf(events) = f[Len(events)]
<1> DEFINE f == CHOOSE g : Unfolds(events, Len(events), g)
<1>1. Unfolds(events, Len(events), f)
  BY UnfoldingExists
<1>2. ReplayOf(events) = f[Len(events)]
  BY DEF ReplayOf, Unfolds
<1> HIDE DEF f
<1> QED
  BY <1>1, <1>2

LEMMA ReplayEmpty == ReplayOf(<<>>) = Rendered(InitialFile)
<1>1. Len(<<>>) = 0
  OBVIOUS
<1>2. PICK f : Unfolds(<<>>, 0, f) /\ ReplayOf(<<>>) = f[0]
  BY <1>1, ReplayUnfolds
<1> QED
  BY <1>2 DEF Unfolds

\* An auditor who has read the log applies the next event to what it told.
LEMMA ReplayAppend ==
  ASSUME NEW events \in Seq(Events), NEW e \in Events
  PROVE  ReplayOf(Append(events, e)) = Apply(ReplayOf(events), e)
<1> DEFINE k == Len(events)
           more == Append(events, e)
<1>1. k \in Nat /\ Len(more) = k + 1 /\ more[k + 1] = e /\ \A n \in 1..k : more[n] = events[n]
  OBVIOUS
<1>2. PICK f : Unfolds(events, k, f) /\ ReplayOf(events) = f[k]
  BY <1>1, ReplayUnfolds
<1> HIDE DEF k, more
<1>3. PICK g : Unfolds(more, k + 1, g) /\ ReplayOf(more) = g[k + 1]
  <2>1. Len(more) \in Nat /\ Len(more) = k + 1
    BY <1>1
  <2>2. PICK g : Unfolds(more, Len(more), g) /\ ReplayOf(more) = g[Len(more)]
    BY <2>1, ReplayUnfolds
  <2> QED
    BY <2>1, <2>2
<1>4. g[k] = f[k]
  BY <1>1, <1>2, <1>3, UnfoldingUnique
<1>5. g[k + 1] = Apply(g[k], more[k + 1])
  BY <1>1, <1>3 DEF Unfolds
<1> QED
  BY <1>1, <1>2, <1>3, <1>4, <1>5 DEF more

-----------------------------------------------------------------------------
(* The copies of the state while a command runs                            *)

InFlight == {"mirror", "store", "emit"}

UpToEvent(d, f) == [d EXCEPT !.lastEvent = f.lastEvent] = f

\* What the log will tell once command c has emitted its event.
AfterEvent(doc, c) == IF c.event = NoEvent THEN doc ELSE Apply(doc, Event(c.event, c.stage))

StoredAgrees == store # <<>> => UpToEvent(store[Len(store)], file)

Settled == mirror = Rendered(file) /\ StoredAgrees /\ Replayed = Rendered(file)

\* Until state.json is written the copies agree with it and the event to come
\* tells of the copy in memory; from then on they catch up one at a time.
CatchesUp(label, c, d) ==
  /\ label # "mirror" => mirror = Rendered(file)
  /\ label \notin {"mirror", "store"} => StoredAgrees
  /\ label \notin InFlight => Replayed = Rendered(file)
  /\ label = "write" => AfterEvent(Rendered(file), c) = Rendered(d)
  /\ label \in InFlight => d = file /\ AfterEvent(Replayed, c) = Rendered(file)
  /\ label = "event_id" => UpToEvent(d, file)

Copied ==
  /\ (\A p \in Procs : pc[p] = "idle") => Settled
  /\ \A p \in Procs : CatchesUp(pc[p], cmd[p], mem[p])

CopyInv == ~torn => Copied

LEMMA CopiedInit == Init => Copied
<1> SUFFICES ASSUME Init PROVE Copied
  OBVIOUS
<1>1. Settled
  BY ReplayEmpty DEF Init, Settled, StoredAgrees, Replayed
<1>2. ASSUME NEW p \in Procs PROVE CatchesUp(pc[p], cmd[p], mem[p])
  BY <1>1 DEF Init, CatchesUp, InFlight, Settled
<1> QED
  BY <1>1, <1>2 DEF Copied

\* With one process it is enough to look at the one that moves.
LEMMA CopiedMove ==
  ASSUME OneProcess, NEW p \in Procs, CatchesUp(pc[p], cmd[p], mem[p])'
  PROVE  Copied'
<1>1. pc'[p] = "idle" => Settled'
  BY DEF CatchesUp, Settled, InFlight
<1> QED
  BY <1>1 DEF OneProcess, Copied

Resting == Labels \ (InFlight \cup {"write", "event_id"})

LEMMA CopiedRest ==
  ASSUME OneProcess, NEW p \in Procs, pc'[p] \in Resting, Settled'
  PROVE  Copied'
<1>1. CatchesUp(pc[p], cmd[p], mem[p])'
  BY DEF CatchesUp, Settled, Resting, InFlight
<1> QED
  BY <1>1, CopiedMove

LEMMA SettledBefore ==
  ASSUME Copied, NEW p \in Procs, pc[p] \notin InFlight
  PROVE  Settled
BY DEF Copied, CatchesUp, Settled, InFlight

LEMMA SettledStays ==
  ASSUME Settled, UNCHANGED <<file, mirror, store>>, ReplayOf(log') = ReplayOf(log)
  PROVE  Settled'
BY DEF Settled, StoredAgrees, Replayed, UpToEvent

\* A command returns or calls, after steps that the copies do not notice.
LEMMA CopiedLeave ==
  ASSUME TypeInv, OneProcess, NEW p \in Procs, Return(p) \/ (\E c : Call(p, c)), Settled'
  PROVE  Copied'
<1>1. pc'[p] \in Resting
  BY DEF TypeInv, CommandsOK, Return, Call, Goto, Resting, Labels, InFlight
<1> QED
  BY <1>1, CopiedRest

LEMMA CopiedSave ==
  ASSUME TypeInv, OneProcess, NEW p \in Procs, NEW d, NEW e, Save(p, d, e), Settled', file' = file,
         AfterEvent(Rendered(file), [event |-> e, stage |-> cmd[p].stage]) = Rendered(d)
  PROVE  Copied'
<1>1. pc'[p] = "write" /\ cmd'[p] = [cmd[p] EXCEPT !.event = e] /\ mem'[p] = d
  BY DEF Save, Goto, TypeInv, CommandsOK
<1>2. cmd'[p].event = e /\ cmd'[p].stage = cmd[p].stage
  BY <1>1 DEF TypeInv, CommandsOK, Commands
<1>3. AfterEvent(Rendered(file'), cmd'[p]) = Rendered(mem'[p])
  BY <1>1, <1>2 DEF AfterEvent
<1>4. CatchesUp(pc[p], cmd[p], mem[p])'
  BY <1>1, <1>3 DEF CatchesUp, Settled, InFlight
<1> QED
  BY <1>4, CopiedMove

-----------------------------------------------------------------------------
(* Every step that does not tear a save keeps them                         *)

\* The event of a transition tells what the transition did.
LEMMA EventsTell ==
  ASSUME NEW d \in Documents, NEW s \in Stages
  PROVE  /\ Apply(Rendered(d), Event("StageStarted", s)) = Rendered(Start(d, s))
         /\ Apply(Rendered(d), Event("StageCompleted", s)) = Rendered(Complete(d, s))
         /\ Apply(Rendered(d), Event("StageBlocked", s)) = Rendered(Block(d, s))
         /\ Apply(Rendered(d), Event("StageOverride", s)) = Rendered(Override(d, s))
<1>1. \A type : Event(type, s).type = type /\ Event(type, s).stage = s
  BY DEF Event
<1> QED
  BY <1>1, RenderedRules DEF Apply

\* The evaluation of gates is logged, and tells nothing of the pipeline.
LEMMA GateEventsTellNothing ==
  ASSUME TypeInv, NEW s \in Stages, NEW type \in GateEvents, log' = Append(log, Event(type, s))
  PROVE  ReplayOf(log') = ReplayOf(log)
<1>1. Event(type, s) \in Events /\ Event(type, s).type = type
  BY DEF Event, Events
<1>2. Apply(ReplayOf(log), Event(type, s)) = ReplayOf(log)
  BY <1>1 DEF Apply, GateEvents
<1> QED
  BY <1>1, <1>2, ReplayAppend DEF TypeInv, DiskOK

LEMMA LoadsCopied ==
  ASSUME TypeInv, OneProcess, Alone, Copied, NEW p \in Procs,
         \/ Invoke(p) \/ LoadStart(p) \/ LoadOverride(p) \/ LoadComplete(p)
         \/ LoadGateCheck(p) \/ LoadAdvance(p) \/ LoadFinish(p)
  PROVE  Copied'
<1> DEFINE s == cmd[p].stage
<1>0. /\ file \in Documents /\ cmd[p] \in Commands /\ Shape(p)
      /\ Fits(file, cmd[p], pc[p], mem[p])
  BY DEF TypeInv, DiskOK, CommandsOK, Alone
<1>1. pc[p] \in {"idle", "load"} /\ UNCHANGED disk
  BY DEF Invoke, LoadStart, LoadOverride, LoadComplete, LoadGateCheck, LoadAdvance, LoadFinish, At
<1>2. UNCHANGED <<file, mirror, store, log>>
  BY <1>1 DEF disk
<1>3. Settled /\ Settled'
  <2>1. Settled
    BY <1>1, SettledBefore DEF InFlight
  <2> QED
    BY <1>2, <2>1, SettledStays
<1>4. CASE Return(p) \/ \E c : Call(p, c)
  BY <1>3, <1>4, CopiedLeave
<1>5. CASE Goto(p, "gate")
  <2>1. pc'[p] \in Resting
    BY <1>5 DEF Goto, TypeInv, CommandsOK, Resting, Labels, InFlight
  <2> QED
    BY <1>3, <2>1, CopiedRest
<1>6. CASE LoadStart(p) /\ Save(p, Start(file, s), "StageStarted")
  <2>1. s \in Stages
    BY <1>0, <1>6 DEF LoadStart, At, Shape
  <2>2. AfterEvent(Rendered(file), [event |-> "StageStarted", stage |-> s]) = Rendered(Start(file, s))
    BY <1>0, <2>1, EventsTell DEF AfterEvent, NoEvent
  <2> QED
    BY <1>2, <1>3, <1>6, <2>2, CopiedSave
<1>7. CASE LoadOverride(p)
  <2>1. s \in Stages /\ Save(p, Override(file, s), "StageOverride")
    BY <1>0, <1>7 DEF LoadOverride, At, Shape
  <2>2. AfterEvent(Rendered(file), [event |-> "StageOverride", stage |-> s]) = Rendered(Override(file, s))
    BY <1>0, <2>1, EventsTell DEF AfterEvent, NoEvent
  <2> QED
    BY <1>2, <1>3, <2>1, <2>2, CopiedSave
<1>8. CASE LoadFinish(p)
  <2>1. Save(p, [file EXCEPT !.current = NoStage], NoEvent) /\ file.current = NoStage
    BY <1>0, <1>8 DEF LoadFinish, At, Fits
  <2>2. [file EXCEPT !.current = NoStage] = file
    BY <1>0, <2>1 DEF Documents
  <2>3. AfterEvent(Rendered(file), [event |-> NoEvent, stage |-> s]) = Rendered(file)
    BY DEF AfterEvent
  <2> QED
    BY <1>2, <1>3, <2>1, <2>2, <2>3, CopiedSave
<1> QED
  BY <1>4, <1>5, <1>6, <1>7, <1>8
  DEF Invoke, LoadStart, LoadComplete, LoadGateCheck, LoadAdvance

LEMMA GatesCopied ==
  ASSUME TypeInv, OneProcess, Alone, Copied, NEW p \in Procs,
         EmitGateStarted(p) \/ EvaluateGates(p) \/ EmitGateCompleted(p)
  PROVE  Copied'
<1> DEFINE s == cmd[p].stage
<1>0. /\ file \in Documents /\ mem[p] \in Documents /\ Shape(p)
      /\ Fits(file, cmd[p], pc[p], mem[p])
  BY DEF TypeInv, DiskOK, CommandsOK, Alone
<1>1. pc[p] \in Gating /\ s \in Stages /\ UNCHANGED <<file, mirror, store>>
  BY <1>0 DEF EmitGateStarted, EvaluateGates, EmitGateCompleted, At, Gating, Shape, disk
<1>2. Rendered(mem[p]) = Rendered(file)
  BY <1>0, <1>1 DEF Fits
<1>3. ReplayOf(log') = ReplayOf(log)
  <2>1. CASE log' = log
    BY <2>1
  <2> QED
    BY <1>1, <2>1, GateEventsTellNothing
    DEF EmitGateStarted, EvaluateGates, EmitGateCompleted, GateEvents, disk
<1>4. Settled'
  <2>1. Settled
    BY <1>1, SettledBefore DEF InFlight, Gating
  <2> QED
    BY <1>1, <1>3, <2>1, SettledStays
<1>5. CASE Return(p)
  BY <1>4, <1>5, CopiedLeave
<1>6. CASE Goto(p, "checks") \/ Goto(p, "gated")
  <2>1. pc'[p] \in Resting
    BY <1>6 DEF Goto, TypeInv, CommandsOK, Resting, Labels, InFlight
  <2> QED
    BY <1>4, <2>1, CopiedRest
<1>7. CASE Save(p, mem[p], NoEvent)
  <2>1. AfterEvent(Rendered(file), [event |-> NoEvent, stage |-> s]) = Rendered(mem[p])
    BY <1>2 DEF AfterEvent
  <2> QED
    BY <1>1, <1>4, <1>7, <2>1, CopiedSave
<1>8. CASE Save(p, Block(mem[p], s), "StageBlocked")
  <2>1. AfterEvent(Rendered(file), [event |-> "StageBlocked", stage |-> s]) = Rendered(Block(mem[p], s))
    BY <1>0, <1>1, <1>2, EventsTell DEF AfterEvent, NoEvent
  <2> QED
    BY <1>1, <1>4, <1>8, <2>1, CopiedSave
<1>9. CASE Save(p, Complete(mem[p], s), "StageCompleted")
  <2>1. AfterEvent(Rendered(file), [event |-> "StageCompleted", stage |-> s]) = Rendered(Complete(mem[p], s))
    BY <1>0, <1>1, <1>2, EventsTell DEF AfterEvent, NoEvent
  <2> QED
    BY <1>1, <1>4, <1>9, <2>1, CopiedSave
<1> QED
  BY <1>5, <1>6, <1>7, <1>8, <1>9 DEF EmitGateStarted, EvaluateGates, EmitGateCompleted

\* The writes of one save, in their order.
LEMMA WritesCopied ==
  ASSUME TypeInv, OneProcess, Copied, ~Tears, NEW p \in Procs,
         \/ WriteState(p) \/ WriteMirror(p) \/ DualWrite(p) \/ EmitTransition(p)
         \/ WriteEventId(p) \/ Reflect(p) \/ Crash(p)
  PROVE  Copied'
<1>0. /\ file \in Documents /\ mem[p] \in Documents /\ store \in Seq(Documents) /\ log \in Seq(Events)
      /\ cmd[p] \in Commands /\ pc[p] \in Labels /\ Shape(p)
      /\ CatchesUp(pc[p], cmd[p], mem[p])
  BY DEF TypeInv, DiskOK, CommandsOK, Copied
<1>1. pc[p] \in {"mirror", "emit", "event_id"} /\ Return(p) => ~UNCHANGED disk
  BY DEF Tears, Return, Goto, TypeInv, CommandsOK
<1>2. pc[p] = "store" /\ pc'[p] # "store" => ~UNCHANGED store
  BY DEF Tears
<1>3. ASSUME pc[p] \notin InFlight, UNCHANGED disk PROVE Settled'
  BY <1>3, SettledBefore, SettledStays DEF disk
<1>4. CASE WriteState(p)
  <2>1. pc[p] = "write"
    BY <1>4 DEF WriteState, At
  <2>2. CASE file' = mem[p] /\ Goto(p, "mirror") /\ UNCHANGED <<cmd, mem>>
    <3>1. pc'[p] = "mirror" /\ cmd'[p] = cmd[p] /\ mem'[p] = mem[p] /\ log' = log
      BY <1>4, <2>2 DEF Goto, WriteState, TypeInv, CommandsOK
    <3>2. AfterEvent(Replayed, cmd[p]) = Rendered(mem[p])
      BY <1>0, <2>1 DEF CatchesUp, InFlight
    <3>3. Replayed' = Replayed
      BY <3>1 DEF Replayed
    <3>4. CatchesUp(pc[p], cmd[p], mem[p])'
      BY <2>2, <3>1, <3>2, <3>3 DEF CatchesUp, InFlight
    <3> QED
      BY <3>4, CopiedMove
  <2>3. CASE Return(p) /\ UNCHANGED file
    BY <1>3, <1>4, <2>1, <2>3, CopiedLeave DEF WriteState, disk, InFlight
  <2> QED
    BY <1>4, <2>2, <2>3 DEF WriteState
<1>5. CASE WriteMirror(p)
  <2>1. pc[p] = "mirror" /\ mirror' = Rendered(mem[p]) /\ Goto(p, "store")
        /\ UNCHANGED <<file, store, log, cmd, mem>>
    BY <1>1, <1>5 DEF WriteMirror, At, disk
  <2>2. pc'[p] = "store"
    BY <2>1 DEF Goto, TypeInv, CommandsOK
  <2>3. mem[p] = file /\ AfterEvent(Replayed, cmd[p]) = Rendered(file)
    BY <1>0, <2>1 DEF CatchesUp, InFlight
  <2>4. CatchesUp(pc[p], cmd[p], mem[p])'
    BY <2>1, <2>2, <2>3 DEF CatchesUp, InFlight, Replayed
  <2> QED
    BY <2>4, CopiedMove
<1>6. CASE DualWrite(p)
  <2>0. pc[p] = "store" /\ UNCHANGED <<file, mirror, log>>
    BY <1>6 DEF DualWrite, At
  <2>1. mem[p] = file /\ AfterEvent(Replayed, cmd[p]) = Rendered(file) /\ mirror = Rendered(file)
    BY <1>0, <2>0 DEF CatchesUp, InFlight
  <2>2. pc'[p] \in {"idle", "emit"}
    BY <1>6 DEF DualWrite, Return, Goto, TypeInv, CommandsOK
  <2>3. store' = Append(store, mem[p])
    BY <1>2, <1>6, <2>0, <2>2 DEF DualWrite
  <2>4. store'[Len(store')] = file
    BY <1>0, <2>1, <2>3
  <2>5. UpToEvent(file, file)
    BY <1>0 DEF UpToEvent, Documents
  <2>6. StoredAgrees'
    BY <2>0, <2>4, <2>5 DEF StoredAgrees
  <2>7. CASE cmd[p].event = NoEvent
    <3>1. Settled'
      BY <2>0, <2>1, <2>6, <2>7 DEF Settled, AfterEvent, Replayed
    <3> QED
      BY <1>6, <2>7, <3>1, CopiedLeave DEF DualWrite
  <2>8. CASE cmd[p].event # NoEvent
    <3>1. pc'[p] = "emit" /\ UNCHANGED <<cmd, mem>>
      BY <1>6, <2>8 DEF DualWrite, Goto, TypeInv, CommandsOK
    <3>2. CatchesUp(pc[p], cmd[p], mem[p])'
      BY <2>0, <2>1, <2>6, <3>1 DEF CatchesUp, InFlight, Replayed
    <3> QED
      BY <3>2, CopiedMove
  <2> QED
    BY <2>7, <2>8
<1>7. CASE EmitTransition(p)
  <2> DEFINE e == Event(cmd[p].event, cmd[p].stage)
  <2>0. pc[p] = "emit" /\ UNCHANGED <<file, mirror, store>> /\ log' = Append(log, e)
    BY <1>7 DEF EmitTransition, At
  <2>1. cmd[p].event # NoEvent /\ e \in Events
    BY <1>0, <2>0 DEF Shape, Event, Events, Commands
  <2>2. Replayed' = Rendered(file)
    <3>1. AfterEvent(Replayed, cmd[p]) = Rendered(file)
      BY <1>0, <2>0 DEF CatchesUp, InFlight
    <3>2. ReplayOf(log') = Apply(ReplayOf(log), e)
      BY <1>0, <2>0, <2>1, ReplayAppend
    <3> QED
      BY <2>1, <3>1, <3>2 DEF AfterEvent, Replayed
  <2>3. mirror = Rendered(file) /\ StoredAgrees /\ mem[p] = file
    BY <1>0, <2>0 DEF CatchesUp, InFlight
  <2>4. Settled'
    BY <2>0, <2>2, <2>3 DEF Settled, StoredAgrees, UpToEvent
  <2>5. CASE mem' = [mem EXCEPT ![p].lastEvent = Len(log')] /\ Goto(p, "event_id") /\ UNCHANGED cmd
    <3>1. pc'[p] = "event_id" /\ mem'[p] = [mem[p] EXCEPT !.lastEvent = Len(log')]
      BY <2>5 DEF Goto, TypeInv, CommandsOK
    <3>2. UpToEvent(mem'[p], file)
      BY <1>0, <2>3, <3>1 DEF UpToEvent, Documents
    <3>3. UpToEvent(mem[p], file)'
      BY <2>0, <3>2 DEF UpToEvent
    <3>4. CatchesUp(pc[p], cmd[p], mem[p])'
      BY <2>4, <3>1, <3>3 DEF CatchesUp, InFlight, Settled
    <3> QED
      BY <3>4, CopiedMove
  <2> QED
    BY <1>7, <2>4, <2>5, CopiedLeave DEF EmitTransition
<1>8. CASE WriteEventId(p)
  <2>0. pc[p] = "event_id" /\ UNCHANGED <<mirror, store, log>>
    BY <1>8 DEF WriteEventId, At
  <2>1. mirror = Rendered(file) /\ StoredAgrees /\ Replayed = Rendered(file) /\ UpToEvent(mem[p], file)
    BY <1>0, <2>0 DEF CatchesUp, InFlight
  <2>2. file' = mem[p]
    BY <1>1, <1>8, <2>0 DEF WriteEventId, disk
  <2>3. mem[p].status = file.status /\ mem[p].current = file.current
    BY <1>0, <2>1 DEF UpToEvent, Documents
  <2>4. Rendered(mem[p]) = Rendered(file)
    BY <2>3 DEF Rendered
  <2>5. ASSUME store # <<>> PROVE UpToEvent(store[Len(store)], mem[p])
    <3>1. UpToEvent(store[Len(store)], file) /\ store[Len(store)] \in Documents
      BY <1>0, <2>1, <2>5 DEF StoredAgrees
    <3> QED
      BY <1>0, <2>1, <3>1 DEF UpToEvent, Documents
  <2>6. Settled'
    BY <2>0, <2>1, <2>2, <2>4, <2>5 DEF Settled, StoredAgrees, Replayed
  <2>7. CASE Goto(p, "reflect")
    <3>1. pc'[p] \in Resting
      BY <2>7 DEF Goto, TypeInv, CommandsOK, Resting, Labels, InFlight
    <3> QED
      BY <2>6, <3>1, CopiedRest
  <2> QED
    BY <1>8, <2>6, <2>7, CopiedLeave DEF WriteEventId
<1>9. CASE Reflect(p)
  BY <1>3, <1>9, CopiedLeave DEF Reflect, At, InFlight
<1>10. CASE Crash(p)
  <2>1. Return(p) /\ UNCHANGED disk
    BY <1>10 DEF Crash
  <2>2. pc'[p] = "idle" /\ store' = store
    BY <2>1 DEF Return, Goto, TypeInv, CommandsOK, disk
  <2>3. pc[p] \notin InFlight
    BY <1>1, <1>2, <2>1, <2>2 DEF InFlight
  <2> QED
    BY <1>3, <2>1, <2>3, CopiedLeave
<1> QED
  BY <1>4, <1>5, <1>6, <1>7, <1>8, <1>9, <1>10

LEMMA CopyInvNext ==
  ASSUME TypeInv, OneProcess, Alone, CopyInv, [TornNext]_<<vars, torn>>
  PROVE  CopyInv'
<1>1. CASE UNCHANGED <<vars, torn>>
  <2>1. UNCHANGED <<file, mirror, store, log, pc, cmd, mem, torn>>
    BY <1>1 DEF vars
  <2> QED
    BY <2>1 DEF CopyInv, Copied, CatchesUp, Settled, StoredAgrees, Replayed, UpToEvent, AfterEvent
<1>2. CASE TornNext /\ ~torn'
  <2>1. Copied /\ ~Tears
    BY <1>2 DEF TornNext, CopyInv
  <2>2. PICK p \in Procs : Invoke(p) \/ Step(p) \/ Crash(p)
    BY <1>2 DEF TornNext, Next
  <2>3. Copied'
    BY <2>1, <2>2, LoadsCopied, GatesCopied, WritesCopied DEF Step
  <2> QED
    BY <2>3 DEF CopyInv
<1> QED
  BY <1>1, <1>2 DEF CopyInv

LEMMA CopiesAlways == OneProcess => (TornSpec => [](TypeInv /\ Alone /\ CopyInv))
<1>1. TornInit => Init /\ CopyInv
  BY CopiedInit DEF TornInit, CopyInv
<1>2. [TornNext]_<<vars, torn>> => [Next]_vars
  BY DEF TornNext, vars
<1>3. OneProcess /\ TypeInv /\ Alone /\ [TornNext]_<<vars, torn>> => Alone'
  BY <1>2, AloneNext
<1>4. OneProcess /\ TypeInv /\ Alone /\ CopyInv /\ [TornNext]_<<vars, torn>> => CopyInv'
  BY CopyInvNext
<1>5. CASE OneProcess
  BY <1>1, <1>2, <1>3, <1>4, <1>5, TypeInvInit, TypeInvNext, AloneInit, PTL DEF TornSpec
<1> QED
  BY <1>5

LEMMA CopiedQuiet == ASSUME Copied, Quiet PROVE Settled
BY DEF Copied, Quiet, At

\* An auditor who replays the event log finds the stages of state.json, unless
\* a save was cut between its writes.
THEOREM LogTellsTheState == OneProcess => (TornSpec => []AuditTrail)
<1>1. CopyInv => AuditTrail
  BY CopiedQuiet DEF CopyInv, AuditTrail, AuditReplaysToState, Settled
<1>2. CASE OneProcess
  BY <1>1, <1>2, CopiesAlways, PTL
<1> QED
  BY <1>2

\* The mirror and the event store follow state.json, unless a save was cut
\* between its writes or the append to the store failed.
THEOREM CopiesFollowTheState == OneProcess => (TornSpec => []CopiesFollow)
<1>1. CopyInv => CopiesFollow
  BY CopiedQuiet DEF CopyInv, CopiesFollow, MirrorIsFresh, StoreIsCurrent, Settled, StoredAgrees, UpToEvent
<1>2. CASE OneProcess
  BY <1>1, <1>2, CopiesAlways, PTL
<1> QED
  BY <1>2
=============================================================================
