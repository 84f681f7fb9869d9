# forge-os: a verification project

TLA+ models of forge-os (`src/src/forge_os`), the TLC configurations that check them on small
instances, and TLAPS proofs of what matters most for every instance. `PROJECT.json` maps every
definition to the lines it translates, lists the runs, and gives for every property a mutant: a
plausible bug in the code, written next to the definition it replaces, under which the property fails.

forge-os drives a software project through a configured pipeline of stages. Agents (Codex, Claude,
OpenCode, ...) do the work of a stage; gates decide whether a stage is complete; hooks, an event log
and a memory observe it; a daemon runs health checks, the cost throttle and the observer in the
background. All durable state is files under `.forge/` and `~/.forge/`, written by short-lived CLI
processes and one daemon, mostly without locks. The parts that are genuinely concurrent are the file
protocols between processes, the daemon's start and stop, and the adapters, which connect an agent's
own process to the caller's validator through queues, pipes and Futures.

## 1. Inventory

| Part (code) | State | Operations | What is hard | What makes it correct |
|---|---|---|---|---|
| State manager (`core/state_manager.py`) | `state.json`, its mirror `state.md`, `last_event_id` | start, complete, advance, override, gate check and report | whole-document read-modify-write without a lock; hooks and gates in the middle; a command killed between its writes | one active stage; completions in order and through their gates; three copies that agree |
| Gates (`gates/`) | results inside `state.json` | selection, evaluation, severity | errors are not failures; severity may soften only failures | a blocking gate that did not pass blocks |
| Events and hooks (`events/bus.py`, `hooks/`) | `events.jsonl` | append, run hooks, dual write | hooks fail after the state is on disk | the log explains the state |
| Event store (`events/store.py`) | `events.db`: rows, snapshots | append, checkpoint, replay | the version is chosen outside the transaction; an open transaction after a failed INSERT | no gaps; replay gives what was committed |
| Daemon process (`daemon/process.py`, `runner.py`, `state.py`) | `start.lock`, daemon `state.json`, the processes | start, stop, boot, record, crash | two starts at once; stale locks; zombies; several writers of one file | one daemon, the recorded one; every start and stop ends |
| Scheduler (`daemon/scheduler.py`) | next due time of each task | pass, run, sleep, stop | the clock moves while tasks run; tasks and callbacks raise | no task early, none starved, a stop ends the loop |
| Alerts, sweep, throttle (`daemon/state.py`, `daemon/throttle.py`, `health/monitor.py`) | a capped list of alerts | add, sweep, gate a task | suppression against a cap; alerts that cannot be stored; unreadable cost data | a stored throttle alert keeps its place among the newest; no data never reads as no cost |
| Observer (`observer/monitor.py`) | `metrics.json`, restart counts in memory | probe, restart, collect, clean up sessions | lost writes; a daemon and a manual run at once | restarts counted once, none invented |
| Adapters (`adapters/`, `kernel/types.py`) | sessions, queues, Futures, pending calls | spawn, propose, decide, answer, time out, close | several parties race to answer one call; processes die; identifiers and clients are shared | the model is told once: the decision about that very call, or an error |
| Claude Code (`adapters/claude_code/`) | `.claude/settings.json`, a stream of `events.db` | install, run, restore, replay | overlapping spawns restore out of order | the user's settings come back; a replay is no more than the run |
| ACP client (`kernel/acp_client.py`) | two pipes, a message counter | initialize, list, close, prompt | late responses, garbage, partial lines, an agent that dies | an answer belongs to its request, and after a time-out is late but never early; a call returns |
| Comparison harness (`harness/`) | recorder of a run, raw records | run, judge, summarise | a timeout, a judge and a clean-up in one run | latencies are a kernel's own; every run is reported |
| Stage agents (`agents/`, `adapters/registry.py`) | `artifacts.yaml`, `agent-runs.jsonl`, `events.jsonl` | run, async run | any of three writes may fail or be cut | record and event agree; a good exit means the contract was met |
| Agent context (`context/pruner.py`, `lazy.py`, `token_monitor.py`) | a selection | prioritise, select, trim, grade | cycles; files that change between refresh and reading | nearest first, fresh and within the budget by what the refresh measured, not emptier than needed |
| Artifact registry (`context/registry.py`) | hash, status, dependencies | register, refresh | propagation over a graph with cycles, in document order | what depends on a change is not fresh until somebody looks at it |
| Backtrack tickets (`project/rework_planner.py`) | `backtrack.json` | create, approve, run, resolve | two files per command; an unreadable store reads as empty | a ticket's status follows its artifacts |
| Lessons, dreamer (`memory/`, `dreamer/`) | `lessons.yaml` | propose, approve, deprecate, revive, inject, decay, re-ingest | truncating rewrites without a lock; decay compounds | what is injected somebody approved; decisions outlive the dreamer |
| User memory (`memory/global_store.py`, `project_profiles.py`, `use_cases/skills.py`) | `~/.forge/*.yaml` | promote, suggest, profile, install a skill | unreadable stores read as empty | nothing is invented, no promotion is lost |
| ACP registry (`kernel/acp_registry_adapter.py`) | `installed.json`, archives, binaries | fetch, install, remove | downloads are memoised by name and unpacked in place; kills between steps | what is recorded is there, and whole after an install that nothing disturbed |
| Extensions, security (`extensions/`, `project/security_*.py`) | index, audit log | install, remove, validate, run | checks and records read the index separately; cut log lines | what is installed passed its gates, with an audit |
| Channels (`channels/`) | identity file, feedback queue | pair, confirm, submit | check, then append | a binding is lost to nothing but a pairing begun before; feedback exceeds its bounds by no more than overlaps |
| Doctor (`use_cases/doctor.py`, `health/remediation.py`) | the project's files | plan, approve, repair | a plan goes stale; repairs are cut; a file is looked at and written apart | the operator's work survives; "ready" has its files |
| Tracing and cost (`tracing/`, `use_cases/observability.py`, `use_cases/cost.py`, `cost/`) | a sink; reports | project, emit, list, sum | two sources read one after the other, stamped by two clocks | no failure hidden; spend is whole |
| HTTP client, configuration, scaffold, rest of the CLI | | | sequential, no state of their own | section 7 |

How they interact: the CLI calls the state manager, which calls the gate coordinator, saves
`state.json` and its mirror, appends to the event store, emits the event (which runs hooks), and
rewrites `state.json` with the event's id. Stage agents select context, spawn an adapter through the
bridge, which passes each proposal to the validator and sends the result back, and register the
outputs. The daemon runs the scheduler; its tasks decay lessons, add alerts, probe agents over ACP and
write metrics. Tickets read the registry's graph and rewrite its statuses. Traces and cost reports
read the event store and the audit log. `hazards` in PROJECT.json lists where each of them is hard to
test, with the properties that would catch it going wrong.

## 2. Modules

| Module | Models | State and steps |
|---|---|---|
| StageRules | the pure transition rules of a stage document | operators used by Pipeline and StateManager |
| Pipeline | abstract: one atomic step per transition | the document; implemented by StateManager |
| GateRules | gate selection, normalisation, blocking | operators used by StateManager |
| StateManager | every command, for any number of processes, with faults; `TornSpec` adds a history variable, whether a save was ever cut between its writes | a program counter per process, one label per external write |
| DaemonProcess | start, stop, boot, the daemon's writes | a step is one system call on a shared file, or a signal |
| Scheduler | passes, due times, failures, stop | time left and time since, saturated; a step is a phase of the loop |
| Alerts, Observer | the daemon's writers of alerts and of metrics | the list; the metrics file and each monitor's copy of it |
| ProposalBoundary | abstract: decide once, tell once | the fate of each call; implemented by the next four |
| BackChannel | OpenCode: SSE consumer, HTTP handler, MCP proxy, generator | a step is what runs between two awaits |
| ResultQueue | Claude SDK: parallel proxies over one result queue | the same |
| AppServer | Codex: JSON-RPC client, thread queues, approvals | the same |
| TurnTaking | the raw and the human kernel under the bridge | one task; a step is a reply, a proposal or a decision |
| OpenClaw | consecutive spawns over one kept gateway client | the pipe is a sequence of lines |
| AcpClient | the observer's and the sessions' commands over two pipes | the same, with partial lines, garbage and notifications without end |
| Comparison | the harness's loops, recorder, timeout, judge, mock kernel | a step is one event of a kernel's generator |
| ClaudeCode | settings file and event stream of overlapping spawns | one file step at a time |
| EventStore | several connections to `events.db` | a step is a statement; a row carries a state |
| Artifacts | registry and tickets | a command up to the save of its first file |
| AgentRun | a stage agent from configuration to exit code | one file write at a time |
| ContextSelection | priorities, selection, menus, the monitor | the recursive `visit` as a stack of calls, one call a step; then one file, or one menu entry, at a time |
| Lessons, UserStores | stores rewritten as a whole | load, truncate, fill |
| AcpRegistry, Extensions, Channels | installs and pairings | one read, check or write at a time; a file is opened and filled apart |
| Doctor | plans, approvals and repairs by two commands and an operator | one file step at a time |
| Tracing, Costs | two reads of growing sources, and what is made of them | a step is a read, an append or an emission |
| DaemonTasks, KernelAdapters, ProjectFiles | several components in one specification, for any constants | the lens, and the properties a run shares |
| MC* | instances for TLC | constants, initial faults, symmetry |
| *_proofs | theorems of the module they extend | section 5 |

**State.** A variable is a file, an in-memory table or an object's attribute of the code, and its
comment names it. Hashes, texts, timestamps and payloads are model values or dropped. History
variables (`wanted`, `vetted`, `settled`, `undone`, `raced`, `muddled`, ...) remember what happened for a
property and never guard a step.

**Faults** are actions or outcomes. In StateManager and DaemonProcess a constant switches them on:
`crash` (killed between two writes), `hook`, `gates`, `disk`, `config`, `store`, `memory`; `boot`, `daemon`,
`host`, `timeout`, `age`, `orphan`. In the stores a process may be killed between any two file steps, and
a write that is not atomic in the code may be cut after it has truncated the file. Adapters face
servers that die, answer late, err, or hang within a line.

**Refinement.** StateManager implements Pipeline with state.json read as the abstract document
(`ImplementsPipeline`); Codex, OpenCode, the Claude SDK and the two turn-taking kernels implement
ProposalBoundary with a mapping from Futures, responses or queue entries to what the model was told
(`AdaptersImplementBoundary`).

## 3. Runs

| Run | Instance | Question it answers |
|---|---|---|
| StateManagerFaults | 1 process, 3 stages, 4 gates of every kind and severity, 3 commands, all faults | do the writes implement the pipeline, do completions honour gates, do the copies agree |
| StateManagerConcurrent | 2 processes, 2 stages, 3 commands, failing hooks | what survives lost updates |
| StateManagerRace (violation) | 2 processes, complete, override, gate check | a stale document completes a stage whose gate fails |
| DaemonRecovery | 1 starter, 1 stopper, 3 daemons, kills, old and orphaned locks | one recorded daemon; recovery; termination |
| DaemonLock | 2 starters, an alert writer, 2 daemons, kills, time-outs | the lock excludes |
| DaemonDoubleStart (violation) | 2 starters, no faults | two daemons |
| DaemonTasks | 3 tasks of intervals 2, 3, 5, runs of 0, 1, 4, sleeps of 1, 7; 2 checkers, 3 levels, 4 alerts of which any may not be stored; 2 agents, 2 restarts, time to 3 | timing, starvation, stop; the reasons of a throttle; restarts |
| KernelAdapters | 2 Codex actions of one thread, one of them without an integer id; 3 SDK calls; 2 OpenCode spawns sharing an id and 3 calls; 2 turns of 2 calls; 2 ACP sessions and 2 lines in the pipe before the agent sends more unasked; 2 OpenClaw spawns; 2 kernels, 2 plans | the boundary, whose answer is whose, which calls end, what is measured |
| SdkStaleResult (violation) | 2 SDK calls | a timer restarted for ever |
| RawTimeout (violation) | 1 call, 1 turn | a deadline nobody reports |
| ProjectFiles | 2 processes at each store: 4 events and 2 states; 3 artifacts and a ticket; 2 spawns; 2 lessons; 2 projects; an agent with 2 releases, packed in each way; 3 sources of 2 extensions; 3 texts and 2 codes; 2 runs; 3 artifacts and one unregistered, edited to a size of 5 or 9; 2 repairs; 2 audited commands; 2 priced spawns | does each store keep what its users rely on |
| ArtifactReregister (violation) | 3 artifacts | registering again hides a change |

**Lens.** DaemonTasks, KernelAdapters and ProjectFiles put components that share no variable
in one specification: a variable `lens` chooses, once, the one whose steps a behaviour takes. Every property
speaks of one component, so nothing is lost by not interleaving them, and the others contribute a
single initial state.

**Bounds.** Three stages are the least with a stage that is neither first nor last, which overrides displace
in both directions; three commands are the least in which a third acts on what two interleaved ones left.
The gates are one of each severity, one of an unknown type and one that is off. Three daemon pids let a
daemon be replaced, and its successor too. The longest run and sleep of the scheduler exceed an interval, so
due times pile up; waiting times are saturated at Horizon, the longest interval. The alert cap is 4 instead
of 100: a full list of distinct warnings and one more. Two actions of one thread are the least for a session
grant to matter; three SDK calls the least for a result to be passed on by two proxies; two turns the least
for results to be sent with the wrong request. Three artifacts are the least for an indirect dependent, and
for a cycle through it; the context's budget of 12 fits two of its three artifacts of 4, 8 and 8. Four
events fit two snapshots and two rival appends. A window of two items with two processes is the least in
which overlapping submissions exceed it, and three texts let the window bite before the repetition does.
MaxCmds, MaxEvents, MaxItems, MaxCodes, MaxTime, MaxVersion, MaxCommands, MaxEntries, MaxListings,
MaxUpdates, MaxTurn(s), MaxSpawns, MaxLessons and MaxRestarts keep the state space finite; a guard names
each, and none is a bound of the code (MaxPerWindow, Cap, Budget, Timeout are). MaxUpdates bounds the
updates of an OpenClaw prompt; an ACP agent's notifications have no bound, only the lines it leaves unread
(MaxPipe).

MCProjectFiles narrows three components further: once a second lesson was made the days stand still and no
revival or decay begins; two repairs overlap only on a host whose command runs inside a virtual environment
that has pip; and two listings of traces do not stand finished side by side, because each is judged by
itself. The theorems hold without any of it.

**Deadlock** is checked for the daemon's processes. The other models end: commands are
bounded, the scheduler loop stops, generators finish, a context is selected once, a store may be quiescent.

**Symmetry** of the processes is used in StateManagerConcurrent and in ProjectFiles, where only
safety is checked.

## 4. Fairness

- DaemonProcess: weak fairness for every step of a host's start and stop and of a daemon's boot and
  save, because each is straight-line code in a running process; strong fairness for a
  signalled daemon's exit, because the loop tests the stop event only between tasks, and is back
  there again and again. Starting a command, crashing and sending a signal are not fair.
- Scheduler: weak fairness of the loop alone; a stop request need not come. A task's run is assumed
  to end (each bounds its own subprocesses and requests).
- Codex and OpenCode: weak fairness of each generator and HTTP handler: the event loop runs what is
  ready, and the bridge decides every proposal it gets. Servers and models owe nothing,
  nor do time-outs: CallsAreAnswered holds without any of them.
- ACP: weak fairness of the client's own steps, its timeouts and reads at end of file among them; the
  agent owes nothing. A call ends unless the agent hangs within a line, where `readline` has no timeout,
  or sends notifications for ever during a prompt, whose loop reads on while they come.
- Codex: an approval request whose id is no integer is logged and never answered; ApprovalsAreAnswered names it.
- Claude SDK: only the violation run needs fairness: the proxies run, and a time-out that stays
  enabled fires. The counterexample keeps a proxy's timer from ever staying enabled.

The other runs check safety only, under specifications without fairness.

## 5. Proofs

| Theorem | Statement, for all values of the constants | Argument |
|---|---|---|
| StateManager_proofs!TypeCorrect | `Spec => []TypeOK` | TypeInv: the files are well-formed documents and each command is well formed at its label (`Shape`) |
| StateManager_proofs!OneActiveStage | `Spec => []AtMostOneActive` | SafeInv: not only state.json but the document in every process's memory is Sound, and a process past its checks holds a document in which they hold (`Checked`). Lost updates only replace one sound document by another, which is why the property survives without a lock |
| StateManager_proofs!CompletionInOrder | without the override command, stages complete in configured order | the same invariant |
| StateManager_proofs!LastEventLogged | `Spec => []LastEventIsLogged` | the same invariant: every document is sound with respect to the log, which only grows |
| StateManager_proofs!CurrentStageAgrees, CompletionsPassTheirGates, ImplementsThePipeline | `OneProcess => (Spec => ...)` of the three properties of StateManagerFaults | Alone: until its write a command's document comes from state.json by one legal move, and after the write it shows the same as state.json. The hypothesis is needed: StateManagerRace violates the second with two processes |
| DaemonProcess_proofs!TypeCorrect | `Spec => []TypeOK` | inductive as it stands |
| DaemonProcess_proofs!StartLockExcludes | `NoOldLocks => (Spec => []StartsAreExclusive)` | LockInv: while a host is in the locked part the lock file exists, since whoever leaves removes whatever lock is there, and nobody is about to remove it as stale. Stealing an old lock takes two steps, hence the hypothesis |
| DaemonProcess_proofs!OneDaemonServes, ServingDaemonIsRecorded, RefusalsAreJustified | `SoleStarter => (Spec => ...)`: `[]OneDaemon`, `[]ServingIsRecorded`, `RefusalIsJustified` | ServeInv: the starter stands at its poll while a daemon boots, what it read is still recorded when it probes, nothing serves when it spawns, what a daemon is about to write back is what is there, and only the starter has zombies. SoleStarter (one starter that is neither killed nor gives up, no other writer of the file) is what the run assumes; DaemonDoubleStart shows it is needed |
| StateManager_proofs!LogTellsTheState, CopiesFollowTheState | `OneProcess => (TornSpec => ...)` of AuditTrail and CopiesFollow | CopyInv: while no save was cut, what each label of a save has still to write is all that a copy lacks: the log replayed up to the command's own event is the state before it, the mirror and the newest payload of the store follow in turn. A replay of a longer log extends the replay of a shorter one (induction on its length, through well-foundedness of `<`) |
| DaemonTasks_proofs!SchedulerTypeCorrect, TasksAreNotEarly | `TasksSpec => ...`: the scheduler's types, `[]NoEarlyPass` | TimeInv: what a task has left to wait and what has passed since the pass that ran it make at least its interval |
| DaemonTasks_proofs!TasksTypeCorrect, ThrottlingExplained | `[]TypesOK`, `[]ThrottleIsExplained` | along a sweep over any number of checkers the list stays within its cap, and an alert at most n places from its end is at most n + 1 places from it after the next was stored, suppressed or dropped |
| DaemonTasks_proofs!RestartsCounted | `[]RestartsAreCounted` | ObsInv and CountInv: what the file, every monitor's copy and its pending counts say about an agent add up to its attempts while nothing was lost, and to no more ever |
| KernelAdapters_proofs!TypeCorrect, ApprovalsHold, ImplementsTheBoundary | `[]TypeOK`, `[]NothingRunsUnapproved`, `ImplementsBoundary` | SafeInv: an action waits in at most one place, the queue of its own thread or the proposal its generator has yielded, and is undecided and unanswered while it waits; only the caller's decision and the response change what the mapping shows |
| BackChannel_proofs!TypeCorrect, ImplementsTheBoundary | the same of OpenCode, from BackChannelAssumption | a call is in at most one place, a queue or a yielded proposal, and undecided there; a Future belongs to one spawn and holds nothing but the decision about its own call, although spawns may share a session id |
| KernelAdapters_proofs!AdaptersKeepTheBoundary | `AdaptersSpec => AdaptersImplementBoundary`, five refinements | Codex and OpenCode from their own modules. SdkInv: a call is proposed at most once, and its result is on the shared queue exactly once from its decision until its proxy takes it or gives up. TurnsInv: what is left of a reply, and the blocks that wait for the next request, make up the turn, each call once |
| KernelAdapters_proofs!AnswersAreOwn | `[]AnswersBelong` | the same two; AcpInv and AcpOrder: the lines in both pipes and the buffer answer requests that were made, in the order of their ids, and none that was taken; before anything muddles the pipe the answer to the open request is the only one there may be, and afterwards those that wait are of earlier requests, so what is taken is late at worst and each later one is of a later request. A prompt compares ids. ClawInv: the response to a prompt is the last of its lines, so nothing of a prompt follows once its response was read |
| KernelAdapters_proofs!NoneRunsUnapproved, AdaptersAreTyped | `[]NothingRunsUnapproved`, `[]TypesOK` | the components' invariants together: a component moves alone |
| KernelAdapters_proofs!ComparisonsFair | `[]ComparisonsAreFair` | ReportInv: CompareInv (outside a run no generator is open; a pending send and the judge's deadline bound what overhead and judge have used of the clock), and what is reported of the runs so far is a summary of each pair that was run, in order, whose first successful one is what the drift is measured from |
| ProjectFiles_proofs!TypeCorrect, ReplayCorrect | `Spec => []TypeOK`, `Spec => []ReplayFollowsLog` | the versions of every prefix of the log are 1 to some k, the version a connection has read follows those of some prefix, and every snapshot, one that an older checkpoint wrote last included, has the version and, while none is taken twice, the state of some prefix |
| Channels_proofs!TypeCorrect, FeedbackStaysBounded | `ChannelsAssumption => (Spec => []TypeOK)`, and `Instance => (Spec => []FeedbackIsBounded)` for finitely many processes | what is being submitted counts as if it were already on the queue, so overlapping submissions exceed a bound by at most the other processes; a binding that is there when no pairing begun before it is under way has nothing left that may replace it, because a pairing begins only with a sender that is not bound |
| ProjectFiles_proofs!FeedbackBounded | `IsFiniteSet(Procs) /\ Procs # {} => (FilesSpec => []FeedbackIsBounded)` | the channels of the composition are those of Channels_proofs |
| ProjectFiles_proofs!TicketsFollow | `FilesSpec => TicketsFollowArtifacts` | TicketInv: between the two saves of a rework the registry already is as the ticket will say |
| ProjectFiles_proofs!InstallsGated | `FilesSpec => []InstallsAreGated` | AcpInv: what a document on disk or in a process's memory calls a binary is one; an archive that is opened is being filled, or torn; and an install that runs alone fills the very binary it opened, from the archive it records; ExtInv: at each of its steps an installation has either a capability still to check or the audit entry of its check |
| ProjectFiles_proofs!MemoryFollows | `FilesSpec => []MemoryFollowsDecisions` | LsInv: a document on disk or in a process's memory approves nothing but what somebody approved or is about to; while nothing is disturbed it is what the file will hold, with every decision that returned; UsInv: the same of promotions, with what its holder adds |
| ProjectFiles_proofs!RunsRecorded | `FilesSpec => []RunsAreRecorded` | RunInv: how far a run has come says which of its two lines there are, and both say what its handle and contract do, whatever a kernel lists as its outputs |
| ProjectFiles_proofs!RepairsKeep | `FilesSpec => []RepairsKeepWork` | DrInv: the repair under way is the first of those left, a rebuild is of a project that has a state, and (Promises) a forced repair that has not failed has a project, or still an init to run, with what each look of an init found still true while no other overlaps; nothing the operator wrote is one of the texts that are overwritten |
| ProjectFiles_proofs!SessionsHonest | `FilesSpec => []SessionsAreHonest` | CcInv: every open spawn holds what the settings were when it began, so the outermost of nested ones holds what was there before all; what a session has replayed of its own stream is a fold over the lines read |
| ProjectRecords_proofs!StalenessHonest | `FilesSpec => StalenessIsHonest` | ArtInv (each path once, tickets about registered artifacts) makes Refresh's loop computable: after i artifacts those Seen have changed are exactly the first i that differ, and every artifact downstream of one of them is Held stale (induction along the loop). Downstream is the least set that is closed under dependents, so it is the same before and after a refresh, which touches no dependency |
| ProjectRecords_proofs!ReportsTrue, context | `FilesSpec => []ReportsAreRight` | CtxWalk: to every artifact found, and to every visit on the stack, there is a walk from the stage as long as its priority; and whatever a root or an artifact found leads to is Due: found at least as near, or on the stack at least as near. With an empty stack, by induction along a walk, no walk is shorter than what was found, however the graph is cyclic. CtxSelect: what was taken, with the sizes the refresh measured, what was omitted and what is still to be looked at part the candidates, in their order, and a fresh one was omitted only when it did not fit a total that has grown since. CtxLazy: what is left of a menu is a suffix of the lessons, a prefix of the skills, and each entry trimmed was over the budget with all that was worth more |
| the same, traces and costs | | TraceInv: the lines that stand are at least the entries logged less the cuts; rows are in the order of time, a reader's spans are those of the first rows there were, and every failure among them has its entry in what is listed, but for runs when the rows could not be read (Unread: no span of a row is there then). CostInv: a spawn starts once and completes once, and the second read of a report sees no less than the first; a sum over completions is the sum, over their stages, of the sums in each (SumByKey) |
| ProjectRecords_proofs!FilesAreTyped | `FilesSpec => [](AllTyped /\ TypesOK)`: the types of every store, where the run looks only at those under the lens | WellFormed: per store, the form of the file and of what every process holds at each of its steps (LsForm, UsForm, ExtForm, RunForm, DrForm), with the invariants above, which say the rest. That the doctor audits no more repairs than commands were begun needs a count (DrCount): the processes that may still repair the configuration and the repairs audited are together at most the commands, because a plan holds that repair once, and last |

A strengthening that was in doubt was checked by TLC before it was proved. The assumptions on constants are
the `ASSUME`s of StateManager, DaemonProcess, Scheduler, DaemonTasks, AppServer, KernelAdapters, EventStore
and ProjectFiles (finite sets of projects and artifacts, words and ids that tell apart what the code tells
apart, positive budgets, registered artifacts that are not also unregistered ones; the bounds of Channels
need a finite set of processes besides); TLC evaluates each. With these, and the hypotheses the table names,
every safety property of the seven passing runs is proved.

The proofs over the project's files are in two modules, ProjectFiles_proofs for the stores and what
processes do to them, ProjectRecords_proofs for the registry, what is made from the files, and the types.
A component's invariant is proved for its own Next; FilesInit, FilesNext and the lens then give that of the
composition, where the other components stutter.

Induction over data is done through the library's theorems on well-founded relations: `<` is well founded on
Nat, so a counterexample would have a least one; sums over a finite set and walks of any length are reasoned
about in that way. Nothing that a proof rests on is recursive by declaration. Only model-checked: liveness
(StopSucceeds, OldLockIsRecovered, EveryTaskRuns, StopIsHonoured, CallsAreAnswered), which this prover cannot do.

## 6. What the checks show

Five runs end in a counterexample; each contradicts a sentence of the repository.

1. StateManagerRace: `forge gate check` saves the document it loaded before the gates ran. With an
   override in between, a stage is complete beside the failing result of its gate (SRS.md:182).
2. DaemonDoubleStart: start.lock is removed before the child has saved its pid; a second start in
   that window spawns a second daemon (docstring of start_daemon).
3. SdkStaleResult: the late result of a timed-out call is passed from proxy to proxy, and each pass
   restarts the timer of whoever takes it (docstring of spawn_agent).
4. RawTimeout: the deadline of a raw run spans its yields, so when it passes while the caller decides
   a proposal, the cancellation is raised in the caller and no AGENT_FAILED follows (docstring of spawn_agent).
5. ArtifactReregister: registering an edited artifact records its new hash and marks nothing stale; the
   next refresh sees no change (SRS.md:204).

Seen while modelling, represented in the models unless said otherwise, and not kept as runs:

State and events
- A blocking hook that fails does so after state.json is written, while SECURITY_BASELINE.md:109 has
  no transition happen; AuditTrail is therefore stated for saves that were not cut short.
- An unreadable config.yaml fails a save after state.json was replaced: no mirror, no event.
- The rewrite of `last_event_id` does not reach the event store (compare ARCHITECTURE.md:223).
- A blocked stage stays current (compare SCHEMAS.md:126). advance's last save clears
  `current_stage_id` on a fresh load, so CurrentIsConsistent needs one process.
- Two processes may append the same version to `events.db` (compare plan/v4/SRSv4.1.md:432,
  FR-ES-005); ReplayIsCurrent holds while none did. A failed INSERT leaves its BEGIN open.

Daemon
- Due times count from the start of a pass, so a task that ran late in a slow pass is due again
  earlier than its interval after its own run; NoEarlyPass is stated accordingly.
- Only consecutive duplicates of an alert are suppressed: two that alternate flood the list.
- An alert of the sweep or of the throttle that cannot be stored is dropped with a log line
  (throttle.py:179-183, monitor.py:106-110); a throttled task then leaves no reason, as `best-effort` says.
- Metrics that fail to be written take the pending restart counts with them.
- A stale start lock is checked and removed in two steps; two starters can both end up inside.

Adapters
- Codex: when the server dies nothing wakes the generators, `timeout_s` is unused, and a result that
  contains the word "session" grants the rest of the thread; a request whose id is no integer is never
  answered (adapter.py:702-706), and its thread waits. A failed initialize leaks its process (not modelled).
- OpenCode: a call whose proxy timed out is still decided, and executed, later; a spawn that fails
  before its `try` leaves its session registered.
- OpenClaw: a client that died is never replaced, decisions are only logged, the gateway is never
  stopped; what a spawn leaves unread is the next one's, hence the premise of EventsAreOwn.
- Human: Ctrl-C under `asyncio.run` arrives as CancelledError, not as the adapter's AGENT_FAILED.
- ACP: only prompt compares ids, so a late response is taken for the answer of the next request, and that
  one's for the next again (AnswersBelong says how far this may go); a line that is no JSON raises out of the
  client (acp_client.py:251); a prompt waits for as long as notifications come; `readline` blocks on a
  partial line despite `response_timeout`; `forge acp` leaves the process if start() raises once it was
  spawned (acp.py:81 and 107), which the daemon's paths do not.
- Claude Code: overlapping spawns that do not nest restore the wrong settings; SettingsComeBack is
  stated for nesting ones.
- Harness: the judge's latency is no overhead but counts toward wall clock and timeout;
  `harness/__init__.py` imports names that do not exist.

Stores
- Lessons: every decay pass decays from the same last use, so the half-life compounds with the number of
  passes; reviving restores no confidence; apply_decay's docstring promises an untouched store on failure,
  but the write truncates; render_context raises KeyError if a selected lesson has vanished. Commands that
  overlap, the dreamer's decay among them, overwrite each other's decisions; DecisionsAreKept begins anew
  with the next one that runs alone.
- User memory: an unreadable global store is read as an empty one, so the next promotion replaces it
  (PromotionsAreKept begins anew after a cut or an overlap); promoting approves whatever the local status is.
- Agent runs: a failed handle whose contract is met by older outputs is recorded as contract_failed and
  still exits 0, because the exit speaks of the contract alone (executor.py:116-119); Claude Code's handles
  list the paths its agent asked to write, a bridged one's the text that was streamed; a failed registration
  leaves no record of a run; a non-UTF-8 artifact raises out of the pruner.
- Context: an artifact edited after the refresh is injected as it is then, of whatever size, under the
  estimate and the freshness of the refresh (pruner.py:57-76); `given` in the model shows the difference.
  The monitor's "error" is reported only when the budget is used up exactly, since the pruner never exceeds
  it.
- Tickets: resolve and approve look at no status; resolving one clears the flags of artifacts it
  shares with another; an unreadable backtrack.json is an empty one. A stale artifact that is removed
  and comes back is fresh, because missing replaces stale.
- ACP registry: archives are unpacked in place (acp_registry_adapter.py:369-378), so a failed or killed
  install leaves part of a binary that installed.json still lists from before; an archive that does not hold
  the command is recorded all the same (298-303).
- Channels: a pairing that was begun before a confirmation was written destroys the binding, although
  identity.py:54-56 says a re-pair cannot silently destroy it, and overlapping submissions pass
  intake.py:48's window and repeat a text; BindingsStay and QueueIsBounded state by how much. One sender is
  modelled: the entries of others, which _upsert reads and writes back (identity.py:86-96), may be lost to
  an overlap as well.
- Doctor: an init looks for `.forge` and for each file before it writes (scaffold.py:147, 33-36), so the
  later of two may write a new state.json over a pipeline under way; an empty state.json passes every check.
  Killed between its replace and its write a repair leaves a project that an unforced fix calls ready, and
  only --force initialises again; a stale plan rewrites a config the operator repaired meanwhile (it is in a
  backup); two overlapping fixes can overwrite a backup.
- Tracing: emission is called by tests only; an unreadable events.db makes it drop every run, failed ones
  too (TracesAreTrue excepts them); audit ids collide within a millisecond; `forge security audit` raises on
  one torn line.
- Cost: `forge cost` counts negative prices that the cap skips; a spawn that starts and
  completes between its two reads is charged to no stage.

## 7. Not modelled

Times of day, texts, token counts and layouts; the order of individual hooks and their time-outs; the
log tail; the content of prompts; subprocess output; torn writes other than those named (state.json is
replaced atomically; a torn artifacts.json makes every command fail); `Popen` itself failing. Of the components:

- HTTP client: one bounded retry loop without state that no module of the repository calls.
- Configuration and schemas, project detection, profiles and scaffold: parsing, validation, file-name
  heuristics and templates; an unreadable configuration is a fault of StateManager, the scaffold's
  initial state is Pipeline's, and what the doctor does with both is in Doctor.
- Command line: commands other than `forge gate check`, `forge agent run` and `forge doctor` parse, call
  one use case and print.
- Partly modelled: hooks are one step of the commands; the health checkers are the level they report;
  of the dreamer the digest is a report and tensions compare words; of the channels rendering and
  normalisation are formatting; of Codex the first start of its process and injected events are left out.

External code (agent servers and the models behind them, pip, the operator) is an environment that may
do anything its protocol allows.

## 8. Plan

Done, in this order, the most important behaviour first:

1. StageRules, Pipeline, GateRules, StateManager and their proofs; DaemonProcess and its lock;
   Scheduler; Alerts and Observer; ProposalBoundary and the three concurrent adapters; Artifacts.
2. EventStore and the proof of replay; Lessons and UserStores; ClaudeCode, AcpClient, OpenClaw and
   TurnTaking; AgentRun and ContextSelection; AcpRegistry, Extensions, Channels; Doctor; Comparison;
   Tracing and Costs.
3. Proofs: the pipeline's refinement, gates and copies; one recorded daemon; the scheduler's times,
   restarts and the reasons of a throttle; the boundary of all five kernels and what the other adapters keep; the
   harness's reports; and of every store, what its users rely on and its types.

Hazards without a property: an unreadable store under a cost cap (one branch decides it), what a Codex
server that dies leaves waiting, the agent process `forge acp` may leave, a partial ACP line. Next, in this
order: the second and third of these; the Codex client's first start and its leak on a failed initialize;
hooks one at a time with their time-outs. Components are cheap to add to a run through the lens while its
time allows: ProjectFiles and KernelAdapters are the two that are long. A store that is added brings an
invariant of its own and one conjunct of WellFormed; no other proof changes.
