---------------------------- MODULE StateManager ----------------------------
(***************************************************************************)
(* The stage commands of Forge OS, one step per externally visible effect. *)
(*                                                                         *)
(* A command is a CLI process (or an embedding caller) that builds its own *)
(* StateManager: it loads `.forge/state.json`, decides on the loaded copy, *)
(* and writes the WHOLE copy back.  There is no lock, so several processes *)
(* may be between their load and their writes at once, and a process may   *)
(* be killed between any two writes.  For one transition the effects are,  *)
(* in order: state.json, the mirror pipeline/state.md, the event store     *)
(* (best effort), the event log with its hooks, and state.json again, to   *)
(* record last_event_id.                                                   *)
(***************************************************************************)
EXTENDS StageRules, GateRules, Sequences

CONSTANTS
  Procs,    \* processes that run stage commands on one project
  Ops,      \* the commands they may run, a subset of AllOps
  Faults,   \* what may go wrong, a subset of AllFaults
  MaxCmds   \* bound on the commands run, keeps the event log finite

AllOps == {"start", "complete", "advance", "override", "gate_check", "gate_report"}

\* crash:  a process dies between two steps
\* hook:   a hook registered as blocking fails or times out
\* gates:  pipeline/gates.yaml cannot be loaded
\* disk:   an atomic write of state.json fails
\* config: .forge/config.yaml cannot be loaded
\* store:  the SQLite append fails
\* memory: the lesson or reflection store fails
AllFaults == {"crash", "hook", "gates", "disk", "config", "store", "memory"}

ASSUME ConstantsAssumption ==
  /\ Ops \subseteq AllOps
  /\ Faults \subseteq AllFaults
  /\ MaxCmds \in Nat

VARIABLES
  file,    \* .forge/state.json
  mirror,  \* pipeline/state.md
  store,   \* the StateSaved payloads of .forge/events.db, in order
  log,     \* .forge/events.jsonl; an event id is its position here
  pc,      \* what each process does next
  cmd,     \* the command each process is running
  mem,     \* the document each process loaded and mutates
  issued   \* how many commands were run so far

vars == <<file, mirror, store, log, pc, cmd, mem, issued>>
disk == <<file, mirror, store, log>>

NoEvent == "none"
TransitionEvents == {"StageStarted", "StageCompleted", "StageBlocked", "StageOverride"}
GateEvents == {"GateStarted", "GateCompleted"}

Event(type, s) == [type |-> type, stage |-> s]

\* op: the operation in progress; stage: its stage; event: the transition
\* event to emit after the save; chained: complete_stage was called by
\* advance, which goes on to the next stage.
NoCmd == [op |-> "none", stage |-> NoStage, event |-> NoEvent, chained |-> FALSE]

Command(op, s, chained) ==
  [op |-> op, stage |-> s, event |-> NoEvent, chained |-> chained]

NoResults == [g \in {} |-> "pass"]

InitialFile ==
  [status |-> InitialStatus, current |-> InitialCurrent,
   gates |-> [s \in Stages |-> NoResults], lastEvent |-> 0]

\* What a human reads in the mirror.
Rendered(doc) == [status |-> doc.status, current |-> doc.current]

Init ==
  /\ file = InitialFile
  /\ mirror = Rendered(InitialFile)
  /\ store = <<>>
  /\ log = <<>>
  /\ pc = [p \in Procs |-> "idle"]
  /\ cmd = [p \in Procs |-> NoCmd]
  /\ mem = [p \in Procs |-> InitialFile]
  /\ issued = 0

Goto(p, label) == pc' = [pc EXCEPT ![p] = label]

At(p, label) == pc[p] = label

\* The command ends, with an error or normally; the process keeps nothing.
Return(p) ==
  /\ Goto(p, "idle")
  /\ cmd' = [cmd EXCEPT ![p] = NoCmd]
  /\ mem' = [mem EXCEPT ![p] = InitialFile]

\* Tail-call of another operation, which starts with its own load.
Call(p, c) ==
  /\ Goto(p, "load")
  /\ cmd' = [cmd EXCEPT ![p] = c]
  /\ mem' = [mem EXCEPT ![p] = InitialFile]

\* Mutant: the event id is reserved before the event is appended.
Save_ReservesId(p, doc, event) ==
  /\ mem' = [mem EXCEPT ![p] = IF event = NoEvent THEN doc
                               ELSE [doc EXCEPT !.lastEvent = Len(log) + 1]]
  /\ cmd' = [cmd EXCEPT ![p].event = event]
  /\ Goto(p, "write")

\* The loaded document with one transition applied goes to save().
Save(p, doc, event) ==
  /\ mem' = [mem EXCEPT ![p] = doc]
  /\ cmd' = [cmd EXCEPT ![p].event = event]
  /\ Goto(p, "write")

-----------------------------------------------------------------------------
(* Commands                                                                *)

Invoke(p) ==
  /\ At(p, "idle")
  /\ issued < MaxCmds
  /\ issued' = issued + 1
  /\ \E op \in Ops :
       \E s \in IF op = "advance" THEN {NoStage} ELSE Stages : Call(p, Command(op, s, FALSE))
  /\ UNCHANGED disk

\* Mutant: start_stage skips its checks.
LoadStart_Unchecked(p) ==
  /\ At(p, "load") /\ cmd[p].op = "start"
  /\ Save(p, Start(file, cmd[p].stage), "StageStarted")
  /\ UNCHANGED <<disk, issued>>

LoadStart(p) ==
  /\ At(p, "load") /\ cmd[p].op = "start"
  /\ IF CanStart(file, cmd[p].stage)
       THEN Save(p, Start(file, cmd[p].stage), "StageStarted")
       ELSE Return(p)
  /\ UNCHANGED <<disk, issued>>

\* Mutant: an override is not logged.
LoadOverride_Silent(p) ==
  /\ At(p, "load") /\ cmd[p].op = "override"
  /\ Save(p, Override(file, cmd[p].stage), NoEvent)
  /\ UNCHANGED <<disk, issued>>

LoadOverride(p) ==
  /\ At(p, "load") /\ cmd[p].op = "override"
  /\ Save(p, Override(file, cmd[p].stage), "StageOverride")
  /\ UNCHANGED <<disk, issued>>

LoadComplete(p) ==
  /\ At(p, "load") /\ cmd[p].op = "complete"
  /\ IF CanComplete(file, cmd[p].stage)
       THEN /\ mem' = [mem EXCEPT ![p] = file]
            /\ Goto(p, "gate")
            /\ UNCHANGED cmd
       ELSE Return(p)
  /\ UNCHANGED <<disk, issued>>

\* `forge gate check` and `forge gate report` load, then evaluate the gates;
\* check goes on to save the whole document with the new results.
LoadGateCheck(p) ==
  /\ At(p, "load") /\ cmd[p].op \in {"gate_check", "gate_report"}
  /\ mem' = [mem EXCEPT ![p] = file]
  /\ Goto(p, "gate")
  /\ UNCHANGED <<disk, cmd, issued>>

\* advance() decides on its own load and hands the stage id to an operation
\* that loads again.
LoadAdvance(p) ==
  /\ At(p, "load") /\ cmd[p].op = "advance"
  /\ IF file.current = NoStage
       THEN IF FirstNotStarted(file) = {}
              THEN Return(p)
              ELSE \E s \in FirstNotStarted(file) : Call(p, Command("start", s, FALSE))
       ELSE IF file.status[file.current] = "active"
              THEN Call(p, Command("complete", file.current, TRUE))
              ELSE Return(p)
  /\ UNCHANGED <<disk, issued>>

-----------------------------------------------------------------------------
(* Gates: GateStarted and its hooks, the checks, GateCompleted and its     *)
(* hooks, all on the copy loaded before the first of them.                 *)

EmitGateStarted(p) ==
  /\ At(p, "gate")
  /\ log' = Append(log, Event("GateStarted", cmd[p].stage))
  /\ \/ Goto(p, "checks") /\ UNCHANGED <<cmd, mem>>
     \/ "hook" \in Faults /\ Return(p)
  /\ UNCHANGED <<file, mirror, store, issued>>

EvaluateGates(p) ==
  /\ At(p, "checks")
  /\ \/ \E results \in GateRuns(cmd[p].stage) :
          /\ mem' = [mem EXCEPT ![p].gates[cmd[p].stage] = results]
          /\ Goto(p, "gated")
          /\ UNCHANGED cmd
     \/ "gates" \in Faults /\ Return(p)
  /\ UNCHANGED <<disk, issued>>

EmitGateCompleted(p) ==
  LET s       == cmd[p].stage
      blocked == HasBlockingFailures(mem[p].gates[s])
  IN  /\ At(p, "gated")
      /\ log' = Append(log, Event("GateCompleted", s))
      /\ \/ cmd[p].op = "gate_report" /\ Return(p)
         \/ /\ cmd[p].op = "gate_check"
            /\ Save(p, mem[p], NoEvent)
         \/ /\ cmd[p].op = "complete" /\ blocked
            /\ Save(p, Block(mem[p], s), "StageBlocked")
         \/ /\ cmd[p].op = "complete" /\ ~blocked
            /\ Save(p, Complete(mem[p], s), "StageCompleted")
         \/ "hook" \in Faults /\ Return(p)
      /\ UNCHANGED <<file, mirror, store, issued>>

-----------------------------------------------------------------------------
(* save()                                                                  *)

\* Mutant: the mirror is not synchronised after a write.
WriteState_NoMirror(p) ==
  /\ At(p, "write")
  /\ file' = mem[p] /\ Goto(p, "store")
  /\ UNCHANGED <<cmd, mem, mirror, store, log, issued>>

WriteState(p) ==
  /\ At(p, "write")
  /\ \/ file' = mem[p] /\ Goto(p, "mirror") /\ UNCHANGED <<cmd, mem>>
     \/ "disk" \in Faults /\ Return(p) /\ UNCHANGED file
  /\ UNCHANGED <<mirror, store, log, issued>>

\* The mirror needs the project name, so the config is loaded only now.
WriteMirror(p) ==
  /\ At(p, "mirror")
  /\ \/ mirror' = Rendered(mem[p]) /\ Goto(p, "store") /\ UNCHANGED <<cmd, mem>>
     \/ "config" \in Faults /\ Return(p) /\ UNCHANGED mirror
  /\ UNCHANGED <<file, store, log, issued>>

\* Best effort: a failed append is swallowed.
DualWrite(p) ==
  /\ At(p, "store")
  /\ \/ store' = Append(store, mem[p])
     \/ "store" \in Faults /\ UNCHANGED store
  /\ IF cmd[p].event = NoEvent
       THEN Return(p)
       ELSE Goto(p, "emit") /\ UNCHANGED <<cmd, mem>>
  /\ UNCHANGED <<file, mirror, log, issued>>

-----------------------------------------------------------------------------
(* log_transition()                                                        *)

\* The event is appended, then the hooks run; a blocking hook that fails
\* raises out of the command.
EmitTransition(p) ==
  /\ At(p, "emit")
  /\ log' = Append(log, Event(cmd[p].event, cmd[p].stage))
  /\ \/ /\ mem' = [mem EXCEPT ![p].lastEvent = Len(log')]
        /\ Goto(p, "event_id")
        /\ UNCHANGED cmd
     \/ "hook" \in Faults /\ Return(p)
  /\ UNCHANGED <<file, mirror, store, issued>>

\* The second write of state.json: the whole in-memory copy again.
WriteEventId(p) ==
  /\ At(p, "event_id")
  /\ \/ /\ file' = mem[p]
        /\ IF cmd[p].event = "StageCompleted"
             THEN Goto(p, "reflect") /\ UNCHANGED <<cmd, mem>>
             ELSE Return(p)
     \/ "disk" \in Faults /\ Return(p) /\ UNCHANGED file
  /\ UNCHANGED <<mirror, store, log, issued>>

-----------------------------------------------------------------------------
(* After a completion                                                      *)

\* The reflector queues a lesson; if it fails, advance() stops here.
Reflect(p) ==
  LET s == cmd[p].stage
  IN  /\ At(p, "reflect")
      /\ \/ ~cmd[p].chained /\ Return(p)
         \/ cmd[p].chained /\ s < N /\ Call(p, Command("start", s + 1, FALSE))
         \/ cmd[p].chained /\ s = N /\ Call(p, Command("finish", s, FALSE))
         \/ "memory" \in Faults /\ Return(p)
      /\ UNCHANGED <<disk, issued>>

\* advance() past the last stage: load, clear the current stage, save.
LoadFinish(p) ==
  /\ At(p, "load") /\ cmd[p].op = "finish"
  /\ Save(p, [file EXCEPT !.current = NoStage], NoEvent)
  /\ UNCHANGED <<disk, issued>>

Crash(p) ==
  /\ "crash" \in Faults
  /\ ~At(p, "idle")
  /\ Return(p)
  /\ UNCHANGED <<disk, issued>>

-----------------------------------------------------------------------------
Step(p) ==
  \/ LoadStart(p) \/ LoadOverride(p) \/ LoadComplete(p) \/ LoadGateCheck(p)
  \/ LoadAdvance(p) \/ LoadFinish(p)
  \/ EmitGateStarted(p) \/ EvaluateGates(p) \/ EmitGateCompleted(p)
  \/ WriteState(p) \/ WriteMirror(p) \/ DualWrite(p)
  \/ EmitTransition(p) \/ WriteEventId(p) \/ Reflect(p)

Next == \E p \in Procs : Invoke(p) \/ Step(p) \/ Crash(p)

Spec == Init /\ [][Next]_vars

-----------------------------------------------------------------------------
(* Types                                                                   *)

\* Normalised results of the gates of some stage.
ResultMaps == UNION {[D -> ResultStatus] : D \in SUBSET Gates}

Documents ==
  [status : [Stages -> StageStatus], current : Stages \union {NoStage},
   gates : [Stages -> ResultMaps],
   lastEvent : Nat]

Commands ==
  [op : AllOps \union {"none", "finish"}, stage : Stages \union {NoStage},
   event : TransitionEvents \union {NoEvent}, chained : BOOLEAN]

Events == [type : TransitionEvents \union GateEvents, stage : Stages]

Labels ==
  {"idle", "load", "gate", "checks", "gated", "write", "mirror", "store",
   "emit", "event_id", "reflect"}

\* Every variable holds what the schema of its file, or of the running
\* command, allows.
TypeOK ==
  /\ file \in Documents
  /\ mirror \in [status : [Stages -> StageStatus], current : Stages \union {NoStage}]
  /\ store \in Seq(Documents)
  /\ log \in Seq(Events)
  /\ pc \in [Procs -> Labels]
  /\ cmd \in [Procs -> Commands]
  /\ mem \in [Procs -> Documents]
  /\ issued \in 0..MaxCmds

-----------------------------------------------------------------------------
(* Safety                                                                  *)

Quiet == \A p \in Procs : At(p, "idle")

\* However commands of different processes interleave, fail or are killed,
\* state.json never holds two active stages: each write is a whole document
\* that one process derived from a document another one wrote.
AtMostOneActive == OneActive(file)

\* Run by one process at a time, the commands keep the active stage and
\* current_stage_id in agreement through every failure between the writes;
\* advance relies on it to decide which stage it completes.
CurrentIsConsistent == CurrentAgrees(file)

\* Without overrides stages complete in configured order, even when stale
\* documents are written back over newer ones.
CompletesInOrder == "override" \notin Ops => InOrder(file)

\* last_event_id never dangles: it names an event that is already in the log,
\* and a transition, not a gate event.
LastEventIsLogged ==
  file.lastEvent # 0 =>
    /\ file.lastEvent <= Len(log)
    /\ log[file.lastEvent].type \in TransitionEvents

\* What one event of the log says happened.
Apply(doc, e) ==
  CASE e.type = "StageStarted"   -> Start(doc, e.stage)
    [] e.type = "StageCompleted" -> Complete(doc, e.stage)
    [] e.type = "StageBlocked"   -> Block(doc, e.stage)
    [] e.type = "StageOverride"  -> Override(doc, e.stage)
    [] OTHER -> doc

\* The pipeline that a list of events tells of, from the scaffold on.
ReplayOf(events) ==
  LET After[n \in 0..Len(events)] ==
        IF n = 0 THEN Rendered(InitialFile) ELSE Apply(After[n - 1], events[n])
  IN  After[Len(events)]

\* The pipeline an auditor reconstructs from events.jsonl alone.
Replayed == ReplayOf(log)

\* With no command running, the event log explains state.json: replaying its
\* transitions from the scaffold gives the stages and the current stage.
AuditReplaysToState == Quiet => Replayed = Rendered(file)

\* With no command running, the mirror shows the state that is on disk.
MirrorIsFresh == Quiet => mirror = Rendered(file)

\* With no command running, the newest payload of the event store is the
\* document on disk, up to last_event_id.
StoreIsCurrent ==
  Quiet /\ store # <<>> => [store[Len(store)] EXCEPT !.lastEvent = file.lastEvent] = file

-----------------------------------------------------------------------------
(* Action properties                                                       *)

\* A stage becomes complete only together with gate results in which every
\* enabled blocking gate that applies to it passed: neither a failed check
\* nor one that could not run lets it through.
CompletionHonoursGates ==
  [][\A s \in Stages :
       file.status[s] # "complete" /\ file'.status[s] = "complete" =>
         \A g \in ApplicableGates(s) :
           GateConfig[g].severity = "blocking" =>
             g \in DOMAIN file'.gates[s] /\ file'.gates[s][g] = "pass"]_file

\* The commands of one process implement the abstract pipeline: the write in
\* save() is the transition, everything else is invisible.
Abstract == INSTANCE Pipeline WITH doc <- Rendered(file)

ImplementsPipeline == Abstract!PipelineSpec

-----------------------------------------------------------------------------
(***************************************************************************)
(* The three copies of the pipeline state, beside `.forge/state.json`: the *)
(* event log, the mirror and the event store.  A save writes them one      *)
(* after the other and nothing repairs a save that was cut short, so a     *)
(* history variable records whether one was.                               *)
(***************************************************************************)
VARIABLE torn  \* whether some save was cut between its writes

\* The command ends, or its store append fails, with a later write missing.
Tears ==
  \E p \in Procs :
    \/ pc[p] \in {"mirror", "emit", "event_id"} /\ pc'[p] = "idle" /\ UNCHANGED disk
    \/ pc[p] = "store" /\ pc'[p] # "store" /\ UNCHANGED store

TornInit == Init /\ torn = FALSE
TornNext == Next /\ torn' = (torn \/ Tears)
TornSpec == TornInit /\ [][TornNext]_<<vars, torn>>

\* The three copies of the state agree whenever no command runs, unless a save
\* was cut short before: neither later commands nor hooks, gates and memory
\* that fail drive them apart.
AuditTrail == ~torn => AuditReplaysToState
CopiesFollow == ~torn => MirrorIsFresh /\ StoreIsCurrent
=============================================================================
