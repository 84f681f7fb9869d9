------------------------------ MODULE AgentRun -------------------------------
(* agents/executor.py with agents/loader.py, agents/models.py,             *)
(* adapters/registry.py, adapters/dummy.py and `forge agent run`: a stage  *)
(* agent is spawned and its run left in three files that are written one   *)
(* after the other: artifacts.yaml, agent-runs.jsonl, events.jsonl.        *)
EXTENDS FiniteSets, Sequences

CONSTANTS
  Runs,      \* commands that run an agent of the same stage
  AsyncRuns, \* ... of which these call run_stage_agent_async
  Paths,     \* files an agent may leave
  Required,  \* the blocking outputs of the stage's contract
  Default,   \* the path the dummy adapter writes
  Stream     \* "(stream)", under which a bridged adapter lists what its agent said

AgentRunAssumption ==
  AsyncRuns \subseteq Runs /\ Required \subseteq Paths /\ Default \in Paths /\ Stream \notin Paths

VARIABLES
  kernel,     \* the configured default adapter
  files,      \* the project's files
  run,        \* run[r]: how far it is, the handle its adapter returned, the contract's verdict
  registered, \* the paths in artifacts.yaml
  records,    \* agent-runs.jsonl: of each line the run and its status
  events,     \* events.jsonl: the SubagentStop events, and the status each tells
  exit        \* exit[r]: how the command ended

vars == <<kernel, files, run, registered, records, events, exit>>

Kernels == {"dummy", "claude_code", "bridged", "disabled", "missing"}
Outputs == Paths \cup {Stream}
NoHandle == [status |-> "none", outputs |-> {}]
Fresh == [at |-> "start", handle |-> NoHandle, left |-> {}, passed |-> FALSE]

TypeOK ==
  /\ kernel \in Kernels /\ files \subseteq Paths
  /\ \A r \in Runs :
       /\ run[r].at \in {"start", "prepared", "ready", "ended", "register", "log", "tell", "done"}
       /\ run[r].handle.status \in {"none", "completed", "failed"}
       /\ run[r].handle.outputs \subseteq Outputs /\ run[r].left \subseteq Outputs
       /\ run[r].passed \in BOOLEAN
  /\ registered \subseteq Outputs
  /\ \A log \in {records, events} : log \in Seq([run : Runs, status : {"completed", "contract_failed"}])
  /\ exit \in [Runs -> {"none", "ok", "error", "traceback", "killed"}]

Init ==
  /\ kernel \in Kernels
  /\ files \in SUBSET Paths /\ run = [r \in Runs |-> Fresh]
  /\ registered = {} /\ records = <<>> /\ events = <<>>
  /\ exit = [r \in Runs |-> "none"]

At(r, step) == run[r].at = step
Goto(r, step) == run' = [run EXCEPT ![r].at = step]

\* AgentExecutionError is printed; LessonStoreError, ArtifactRegistryError,
\* OSError and most of what an adapter raises are not caught.
End(r, how) == exit' = [exit EXCEPT ![r] = how] /\ run' = [run EXCEPT ![r].at = "done"]
Fails(r, how) == End(r, how) /\ UNCHANGED <<kernel, files, registered, records, events>>

(***************************************************************************)
(* Before the spawn.                                                       *)
(***************************************************************************)

\* create_adapter_from_config: an enabled adapter whose factory succeeds.  One
\* whose dependency is missing is a placeholder, which fails when it spawns.
Constructs == kernel # "disabled"

\* Configuration, persona and contract are read; they may be bad.
Prepare(r) ==
  /\ At(r, "start") /\ r \notin AsyncRuns /\ Constructs /\ Goto(r, "prepared")
  /\ UNCHANGED <<kernel, files, registered, records, events, exit>>

\* The asynchronous variant reads no configuration and never opens the event store.
PrepareAsync(r) ==
  /\ At(r, "start") /\ r \in AsyncRuns /\ Goto(r, "prepared")
  /\ UNCHANGED <<kernel, files, registered, records, events, exit>>

PrepareFails(r) == At(r, "start") /\ Fails(r, "error")

\* render_context, ContextPruner.select, the token monitor and the lazy context;
\* the last two never fail a run.
GatherContext(r) ==
  /\ At(r, "prepared") /\ Goto(r, "ready")
  /\ UNCHANGED <<kernel, files, registered, records, events, exit>>

LessonsFail(r) == At(r, "prepared") /\ Fails(r, "traceback")
PrunerFails(r) == At(r, "prepared") /\ \E how \in {"error", "traceback"} : Fails(r, how)

(***************************************************************************)
(* spawn_agent, and the contract.                                          *)
(***************************************************************************)

Returns(r, status, outputs) ==
  run' = [run EXCEPT ![r].at = "ended", ![r].handle = [status |-> status, outputs |-> outputs]]

\* DummyAdapter writes its path unless something is there.
WritesDefault(r) ==
  /\ files' = files \cup {Default} /\ Returns(r, "completed", {Default})
  /\ UNCHANGED <<kernel, registered, records, events, exit>>

DummySpawns(r) ==
  At(r, "ready") /\ kernel = "dummy" /\ r \notin AsyncRuns /\ WritesDefault(r)

\* The asynchronous variant always spawns the AsyncDummyAdapter.
AsyncDummySpawns(r) == At(r, "ready") /\ r \in AsyncRuns /\ WritesDefault(r)

\* A real kernel leaves what it leaves.  Claude Code lists the paths its agent asked
\* to write, and raises unless it completed; a bridged adapter lists what was said.
KernelSpawns(r) ==
  /\ At(r, "ready") /\ r \notin AsyncRuns
  /\ \/ kernel = "claude_code" /\ \E asked \in SUBSET Paths : Returns(r, "completed", asked)
     \/ /\ kernel = "bridged"
        /\ \E status \in {"completed", "failed"}, said \in SUBSET {Stream} : Returns(r, status, said)
  /\ \E left \in SUBSET Paths : files' = files \cup left
  /\ UNCHANGED <<kernel, registered, records, events, exit>>

\* A placeholder raises AdapterRegistryError, the others what they raise; the bridge
\* makes a failed handle of that.
SpawnFails(r) ==
  /\ At(r, "ready")
  /\ \/ kernel = "missing" /\ r \notin AsyncRuns /\ Fails(r, "error")
     \/ (kernel \in {"dummy", "claude_code"} \/ r \in AsyncRuns) /\ Fails(r, "traceback")

\* validate_contract: the blocking outputs exist, whoever wrote them and when.
Validates(present) == Required \subseteq present

Validate(r) ==
  /\ At(r, "ended")
  /\ run' = [run EXCEPT ![r].at = "register", ![r].left = run[r].handle.outputs,
                        ![r].passed = Validates(files)]
  /\ UNCHANGED <<kernel, files, registered, records, events, exit>>

\* Mutant: the record tells what the contract says.
Status_OfContract(r) == IF run[r].passed THEN "completed" ELSE "contract_failed"

Status(r) ==
  IF run[r].passed /\ run[r].handle.status = "completed" THEN "completed" ELSE "contract_failed"

(***************************************************************************)
(* The run's traces, one file after the other.                             *)
(***************************************************************************)

\* register_stage_outputs: path by path, each saved before the next.
Register(r) ==
  /\ At(r, "register")
  /\ \E path \in run[r].left :
       registered' = registered \cup {path} /\ run' = [run EXCEPT ![r].left = @ \ {path}]
  /\ UNCHANGED <<kernel, files, records, events, exit>>

\* The run has happened, and no record will say so.
RegisterFails(r) == At(r, "register") /\ run[r].left # {} /\ Fails(r, "error")

Line(r) == [run |-> r, status |-> Status(r)]

\* _append_agent_record.
AppendRecord(r) ==
  /\ At(r, "register") /\ run[r].left = {}
  /\ records' = Append(records, Line(r)) /\ Goto(r, "log")
  /\ UNCHANGED <<kernel, files, registered, events, exit>>

RecordFails(r) == At(r, "register") /\ run[r].left = {} /\ Fails(r, "traceback")

\* _append_agent_event, after the record.
AppendEvent(r) ==
  /\ At(r, "log") /\ events' = Append(events, Line(r)) /\ Goto(r, "tell")
  /\ UNCHANGED <<kernel, files, registered, records, exit>>

EventFails(r) == At(r, "log") /\ Fails(r, "traceback")

\* Only a failed contract is an error.
Tell(r) ==
  /\ At(r, "tell") /\ End(r, IF run[r].passed THEN "ok" ELSE "error")
  /\ UNCHANGED <<kernel, files, registered, records, events>>

Kill(r) == run[r].at # "done" /\ Fails(r, "killed")

\* The user and other agents.
RemoveFile(path) ==
  /\ path \in files /\ files' = files \ {path}
  /\ UNCHANGED <<kernel, run, registered, records, events, exit>>

Next ==
  \/ \E r \in Runs :
       \/ Prepare(r) \/ PrepareAsync(r) \/ PrepareFails(r)
       \/ GatherContext(r) \/ LessonsFail(r) \/ PrunerFails(r)
       \/ DummySpawns(r) \/ AsyncDummySpawns(r) \/ KernelSpawns(r) \/ SpawnFails(r) \/ Validate(r)
       \/ Register(r) \/ RegisterFails(r) \/ AppendRecord(r) \/ RecordFails(r)
       \/ AppendEvent(r) \/ EventFails(r) \/ Tell(r) \/ Kill(r)
  \/ \E path \in Paths : RemoveFile(path)

Spec == Init /\ [][Next]_vars

(***************************************************************************)
(* Properties.                                                             *)
(***************************************************************************)

Lines(log, r) == {i \in DOMAIN log : log[i].run = r}

\* However runs overlap and wherever one is cut: the logs tell a run at most
\* once, and the event log tells what the record does; a run is told "completed"
\* exactly when its agent completed and its contract was met; and a command that
\* ends well met its contract and is in both logs.  Such a command may leave a record
\* that says "contract_failed": its agent failed, and the files were there.
RunsAreRecorded ==
  \A r \in Runs :
    /\ \A log \in {records, events} : \A i, j \in Lines(log, r) : i = j
    /\ \A i \in Lines(events, r) : \E j \in Lines(records, r) : events[i] = records[j]
    /\ \A i \in Lines(records, r) :
         records[i].status = "completed" <=> run[r].handle.status = "completed" /\ run[r].passed
    /\ exit[r] = "ok" => run[r].passed /\ Lines(events, r) # {}
=============================================================================
