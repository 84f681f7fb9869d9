----------------------------- MODULE ProjectFiles -----------------------------
(***************************************************************************)
(* What commands, agents and the daemon keep in a project's and a user's   *)
(* files.  The stores share nothing: a behaviour looks at one of them,     *)
(* `lens`, and leaves the others where they start.                         *)
(***************************************************************************)
EXTENDS EventStore, Integers

CONSTANTS
  Stages,                                                  \* of a project
  ArtPaths, ArtContents, NoFile, StageOf, Given, TicketIds, \* Artifacts
  Inside, Outside, Transcripts, NoReplay,                  \* Claude Code
  Topics, MaxLessons, MaxDays, Weak, Faint, PerUnit, IdleLimit,  \* lessons
  Projects, Patterns, MinProjects,                         \* a user's memory
  Agents, AgentKinds, MaxVersion,                          \* ACP agents
  ExtNames, Sources, NameOf, Permissions, Policies,        \* extensions
  Messages, MaxPerWindow, MaxCodes, MaxItems,              \* channels
  Runs, AsyncRuns, OutPaths, Required, Default, Stream,    \* agent runs
  Broken, Backups, MaxRepairs,                             \* doctor
  Spawned, Verdicts, Offset, MaxTime, MaxEntries, MaxListings, \* tracing
  Billed, NoStage, NoPrice, Unreadable, Prices,            \* costs
  CtxPaths, Foreign, Tokens, Sizes, Budget, Graphs, MenuCosts, WarnPercent \* context

VARIABLES
  lens,
  files, order, art, tickets, rework,
  dir, settings, pc, original, created, recorded, handle, nesting, before, ccDisturbed,
  lessons, lsProc, lsNow, lsMade, wanted, vetted, injected, lsDisturbed,
  memory, profiles, skill, usProc, promoted, returned, blessed, usDisturbed,
  latest, renames, form, memo, archive, binary, installed, acpProc, acpDisturbed,
  settled, torn,
  index, exProc, exAudit, exRecorded,
  identity, queue, chProc, issued, confirmed, overtaken, undone,
  kernel, present, run, registered, records, runEvents, exit,
  host, pip, forge, config, state, backup, audits, fix, commands, mine, begun, forced,
  drOverlapped, raced, misled,
  now, rows, lines, open, running, reader, sink, logged, cuts, shown, trBegun, excused,
  spending, report,
  ctxAt, ctxOwn, ctxDeps, ctxFresh, ctxCalls, ctxFound, ctxDisk, ctxTodo, ctxSelected, ctxOmitted,
  ctxTotal, ctxGiven, ctxLevel, ctxLessons, ctxSkills, ctxIndex, ctxMenu

Art == INSTANCE Artifacts WITH Paths <- ArtPaths, Contents <- ArtContents, Absent <- NoFile

CC == INSTANCE ClaudeCode WITH Spawns <- Procs, NoHandle <- NoReplay, disturbed <- ccDisturbed

LS == INSTANCE Lessons WITH
  MaxTime <- MaxDays,
  file <- lessons, proc <- lsProc, now <- lsNow, made <- lsMade, disturbed <- lsDisturbed

US == INSTANCE UserStores WITH Texts <- Topics, proc <- usProc, disturbed <- usDisturbed

ACP == INSTANCE AcpRegistry WITH Kinds <- AgentKinds, proc <- acpProc, disturbed <- acpDisturbed

Ext == INSTANCE Extensions WITH
  Names <- ExtNames, proc <- exProc, audit <- exAudit, recorded <- exRecorded

Chan == INSTANCE Channels WITH Texts <- Messages, proc <- chProc

Run == INSTANCE AgentRun WITH Paths <- OutPaths, files <- present, events <- runEvents

Doc == INSTANCE Doctor WITH
  Names <- Backups, MaxCommands <- MaxRepairs, deps <- pip, overlapped <- drOverlapped

Tr == INSTANCE Tracing WITH Runs <- Spawned, MaxCommands <- MaxListings, begun <- trBegun

Cost == INSTANCE Costs WITH Stages <- Billed, events <- spending

Ctx == INSTANCE ContextSelection WITH
  Paths <- CtxPaths, Costs <- MenuCosts,
  at <- ctxAt, own <- ctxOwn, deps <- ctxDeps, fresh <- ctxFresh, calls <- ctxCalls,
  found <- ctxFound, disk <- ctxDisk, todo <- ctxTodo, selected <- ctxSelected,
  omitted <- ctxOmitted, total <- ctxTotal, given <- ctxGiven, level <- ctxLevel,
  lessons <- ctxLessons, skills <- ctxSkills, index <- ctxIndex, menu <- ctxMenu

ASSUME ArtifactAssumption == Art!ArtifactsAssumption
ASSUME ClaudeAssumption == CC!ClaudeCodeAssumption
ASSUME LessonsAssumption == LS!LessonsAssumption
ASSUME UserAssumption == US!UserStoresAssumption
ASSUME AcpAssumption == ACP!AcpRegistryAssumption
ASSUME ExtensionsAssumption == Ext!ExtensionsAssumption
ASSUME ChannelsAssumption == Chan!ChannelsAssumption
ASSUME RunsAssumption == Run!AgentRunAssumption
ASSUME DoctorAssumption == Doc!DoctorAssumption
ASSUME TracingAssumption == Tr!TracingAssumption
ASSUME CostsAssumption == Cost!CostsAssumption
ASSUME ContextAssumption == Ctx!ContextAssumption

artVars == <<files, order, art, tickets, rework>>
ccVars == <<dir, settings, pc, original, created, recorded, handle, nesting, before, ccDisturbed>>
lsVars == <<lessons, lsProc, lsNow, lsMade, wanted, vetted, injected, lsDisturbed>>
usVars == <<memory, profiles, skill, usProc, promoted, returned, blessed, usDisturbed>>
acpVars ==
  <<latest, renames, form, memo, archive, binary, installed, acpProc, acpDisturbed, settled, torn>>
exVars == <<index, exProc, exAudit, exRecorded>>
chVars == <<identity, queue, chProc, issued, confirmed, overtaken, undone>>
runVars == <<kernel, present, run, registered, records, runEvents, exit>>

drVars ==
  <<host, pip, forge, config, state, backup, audits, fix, commands, mine, begun, forced,
    drOverlapped, raced, misled>>
trVars == <<now, rows, lines, open, running, reader, sink, logged, cuts, shown, trBegun, excused>>
costVars == <<spending, report>>
ctxVars ==
  <<ctxAt, ctxOwn, ctxDeps, ctxFresh, ctxCalls, ctxFound, ctxDisk, ctxTodo, ctxSelected,
    ctxOmitted, ctxTotal, ctxGiven, ctxLevel, ctxLessons, ctxSkills, ctxIndex, ctxMenu>>

filesVars ==
  <<lens, vars, artVars, ccVars, lsVars, usVars, acpVars, exVars, chVars, runVars, drVars,
    trVars, costVars, ctxVars>>

\* Of a component with several initial states one is fixed where it is not looked
\* at.
FilesInit ==
  /\ lens \in {"events", "artifacts", "claude", "lessons", "user", "acp", "extensions",
               "channels", "run", "context", "doctor", "tracing", "costs"}
  /\ Init /\ LS!Init /\ US!Init /\ Ext!Init /\ Chan!Init /\ Tr!Init /\ Cost!Init
  /\ Art!Init
  /\ lens # "artifacts" => \A p \in ArtPaths : files[p] = CHOOSE c \in ArtContents[p] : TRUE
  /\ CC!Init /\ (lens # "claude" => ~dir)
  /\ ACP!Init /\ (lens # "acp" => renames /\ form = [a \in Agents |-> "bare"])
  /\ Run!Init /\ (lens # "run" => kernel = "dummy" /\ present = {})
  /\ Doc!Init /\ (lens # "doctor" => host = "inside" /\ begun)
  /\ ctxAt \in {"refreshed", "lazy"} /\ (lens # "context" => ctxAt = "lazy")
  /\ Ctx!Init /\ (lens # "context" => ctxLessons = {} /\ ctxSkills = {})

FilesNext ==
  /\ UNCHANGED lens
  /\ IF lens = "events" THEN Next ELSE UNCHANGED vars
  /\ IF lens = "artifacts" THEN Art!Next ELSE UNCHANGED artVars
  /\ IF lens = "claude" THEN CC!Next ELSE UNCHANGED ccVars
  /\ IF lens = "lessons" THEN LS!Next ELSE UNCHANGED lsVars
  /\ IF lens = "user" THEN US!Next ELSE UNCHANGED usVars
  /\ IF lens = "acp" THEN ACP!Next ELSE UNCHANGED acpVars
  /\ IF lens = "extensions" THEN Ext!Next ELSE UNCHANGED exVars
  /\ IF lens = "channels" THEN Chan!Next ELSE UNCHANGED chVars
  /\ IF lens = "run" THEN Run!Next ELSE UNCHANGED runVars
  /\ IF lens = "doctor" THEN Doc!Next ELSE UNCHANGED drVars
  /\ IF lens = "tracing" THEN Tr!Next ELSE UNCHANGED trVars
  /\ IF lens = "costs" THEN Cost!Next ELSE UNCHANGED costVars
  /\ IF lens = "context" THEN Ctx!Next ELSE UNCHANGED ctxVars

FilesSpec == FilesInit /\ [][FilesNext]_filesVars

-----------------------------------------------------------------------------
\* The artifact registry: a refresh marks everything downstream of what changed,
\* and what is stale stays so until it is rewritten, registered again, or listed
\* by a ticket that is resolved.
StalenessIsHonest == Art!RefreshMarksDownstream /\ Art!StaleUntilRevisited

\* Backtrack tickets: a status is saved after the artifacts it speaks of.
TicketsFollowArtifacts == Art!TicketsFollowArtifacts

\* Claude Code: spawns that nest leave the user's settings as they were, and what
\* is replayed from the events of a spawn is no more than it did.
SessionsAreHonest == CC!SettingsComeBack /\ CC!ReplayIsHonest

\* Lessons, of a project and of a user: agents are given only what was approved at
\* some time, and nobody's promotion or skill is invented, whatever overlaps.  Overlaps
\* and cut writes lose decisions and promotions; what returns since the last of them
\* outlives kills, decay, use, re-ingestion and what is decided of other lessons.
MemoryFollowsDecisions ==
  /\ LS!InjectedWasApproved /\ LS!DecisionsAreKept
  /\ US!NothingIsInvented /\ US!PromotionsAreKept

\* Agent runs: the record and the event of a run agree, "completed" means that its
\* agent completed and left what its contract asks for, and the exit code speaks of
\* the contract alone.
RunsAreRecorded == Run!RunsAreRecorded

\* What is made for a reader: an agent's context is nearest first and no emptier than
\* it must be, fresh and within the budget by what the refresh had found; traces of
\* events, and of audit lines that may be cut, hide no failure of a source that can be
\* read, lose no more than was cut, and do not go back; and `forge cost` and the cap
\* charge the same spend.
ReportsAreRight ==
  /\ Ctx!PrioritiesAreDistances /\ Ctx!SelectionIsFull /\ Ctx!LazyIsTrimmed
  /\ Tr!TracesAreTrue /\ Tr!TornLinesCostOne /\ Tr!SinkGoesForward /\ Cost!SpendIsWhole

\* Installed agents and extensions: what installed.json lists was put there, and is
\* whole unless a download or an extraction in place was cut or overlapped; and an
\* extension that is listed has passed its gates.
InstallsAreGated == ACP!InstalledIsThere /\ Ext!IndexIsGated

\* Channels: a binding is lost only to a pairing that began before it was written, and
\* overlapping feedback exceeds its limit by no more than the other commands.
FeedbackIsBounded == Chan!FeedbackIsBounded

\* `forge doctor --fix`: without --force, and two initializations apart, repairs keep
\* what the operator had; and a forced one that succeeds, overlapping none, leaves both
\* files of a project and a configuration that is read.
RepairsKeepWork == Doc!RepairsKeepWork /\ Doc!ReadyIsReady

\* The store that is looked at keeps its documents and its callers' progress well
\* formed; the others are where they start.
TypesOK ==
  /\ lens = "events" => TypeOK
  /\ lens = "artifacts" => Art!TypeOK
  /\ lens = "claude" => CC!TypeOK
  /\ lens = "lessons" => LS!TypeOK
  /\ lens = "user" => US!TypeOK
  /\ lens = "acp" => ACP!TypeOK
  /\ lens = "extensions" => Ext!TypeOK
  /\ lens = "channels" => Chan!TypeOK
  /\ lens = "run" => Run!TypeOK
  /\ lens = "doctor" => Doc!TypeOK
  /\ lens = "tracing" => Tr!TypeOK
  /\ lens = "costs" => Cost!TypeOK
  /\ lens = "context" => Ctx!TypeOK
=============================================================================
