---------------------------- MODULE KernelAdapters ----------------------------
(***************************************************************************)
(* The kernel adapters, the ACP client and the harness that compares       *)
(* kernels.  They share nothing: a behaviour looks at one of them, `lens`, *)
(* and leaves the others where they start.                                 *)
(***************************************************************************)
EXTENDS AppServer

CONSTANTS
  SdkCalls, NoCall,                                         \* Claude SDK
  OcSpawns, OcCalls, OcOwner, McpCalls, OcAggregate, NoSpawn, \* OpenCode
  MaxTurn, MaxTurns,                                        \* Claude raw, human
  NoRequest, MaxPipe,                                       \* ACP
  MaxSpawns, MaxUpdates,                                    \* OpenClaw
  NKernels, Scripts, Plans, Timeout, JudgeTime              \* comparison

VARIABLES
  lens,
  sdkPhase, driver, events, sdkCurrent, results, proxy, sdkDecided, sdkTold,
  ocPhase, sessions, queue, ocCurrent, running, sse, ocAsked, pending, handler, ocDecided, ocTold,
  kernel, policy, ttPhase, ttTurn, left, blocks, messages, expired, terminal, handle, ttDecided, ttTold,
  client, process, inbox, pipe, half, buffer, open, taken, muddled,
  gateway, clOpen, clUpdates, clPipe, clSpawn, clPhase, yielded, outcome, answered,
  plan, pos, cmPhase, script, cmOpen, rec, judged, cmVerdict, raw, first, summaries, drift

Sdk == INSTANCE ResultQueue WITH
  Calls <- SdkCalls,
  phase <- sdkPhase, current <- sdkCurrent, decided <- sdkDecided, told <- sdkTold

OpenCode == INSTANCE BackChannel WITH
  Spawns <- OcSpawns, Calls <- OcCalls, Owner <- OcOwner, Aggregate <- OcAggregate,
  phase <- ocPhase, current <- ocCurrent, asked <- ocAsked, decided <- ocDecided, told <- ocTold

Turns == INSTANCE TurnTaking WITH
  Calls <- OcCalls,
  phase <- ttPhase, turn <- ttTurn, decided <- ttDecided, told <- ttTold

Acp == INSTANCE AcpClient WITH Sessions <- OcSpawns

OpenClaw == INSTANCE OpenClaw WITH
  open <- clOpen, updates <- clUpdates, pipe <- clPipe, spawn <- clSpawn, phase <- clPhase

Compare == INSTANCE Comparison WITH
  phase <- cmPhase, open <- cmOpen, verdict <- cmVerdict

ASSUME SdkAssumption == Sdk!ResultQueueAssumption
ASSUME OpenCodeAssumption == OpenCode!BackChannelAssumption
ASSUME TurnsAssumption == Turns!TurnTakingAssumption
ASSUME OpenClawAssumption == OpenClaw!OpenClawAssumption
ASSUME CompareAssumption == Compare!ComparisonAssumption

sdkVars == <<sdkPhase, driver, events, sdkCurrent, results, proxy, sdkDecided, sdkTold>>
ocVars ==
  <<ocPhase, sessions, queue, ocCurrent, running, sse, ocAsked, pending, handler, ocDecided, ocTold>>

ttVars ==
  <<kernel, policy, ttPhase, ttTurn, left, blocks, messages, expired, terminal, handle, ttDecided, ttTold>>
acpVars == <<client, process, inbox, pipe, half, buffer, open, taken, muddled>>
clVars == <<gateway, clOpen, clUpdates, clPipe, clSpawn, clPhase, yielded, outcome, answered>>

cmVars ==
  <<plan, pos, cmPhase, script, cmOpen, rec, judged, cmVerdict, raw, first, summaries, drift>>

adapterVars == <<vars, sdkVars, ocVars, ttVars, acpVars, clVars, cmVars, lens>>

AdaptersInit ==
  /\ lens \in {"codex", "sdk", "opencode", "turns", "acp", "openclaw", "compare"}
  /\ Init /\ Sdk!Init /\ OpenCode!Init /\ Acp!Init /\ OpenClaw!Init
  /\ Turns!Init /\ (lens # "turns" => kernel = "raw" /\ policy = "none")
  /\ Compare!Init /\ (lens # "compare" => plan.tasks = 1)

AdaptersNext ==
  /\ UNCHANGED lens
  /\ IF lens = "codex" THEN Next ELSE UNCHANGED vars
  /\ IF lens = "sdk" THEN Sdk!Next ELSE UNCHANGED sdkVars
  /\ IF lens = "opencode" THEN OpenCode!Next ELSE UNCHANGED ocVars
  /\ IF lens = "turns" THEN Turns!Next ELSE UNCHANGED ttVars
  /\ IF lens = "acp" THEN Acp!Next ELSE UNCHANGED acpVars
  /\ IF lens = "openclaw" THEN OpenClaw!Next ELSE UNCHANGED clVars
  /\ IF lens = "compare" THEN Compare!Next ELSE UNCHANGED cmVars

\* Nothing is enabled by fairness where an adapter starts, so that the ones a
\* behaviour does not look at owe no step.
AdaptersSpec ==
  /\ AdaptersInit /\ [][AdaptersNext]_adapterVars
  /\ Fairness /\ OpenCode!Fairness /\ WF_acpVars(Acp!Client)

-----------------------------------------------------------------------------
\* Every adapter keeps its objects well formed.
TypesOK ==
  /\ lens = "codex" => TypeOK
  /\ lens = "sdk" => Sdk!TypeOK
  /\ lens = "opencode" => OpenCode!TypeOK
  /\ lens = "turns" => Turns!TypeOK
  /\ lens = "acp" => Acp!TypeOK
  /\ lens = "openclaw" => OpenClaw!TypeOK
  /\ lens = "compare" => Compare!TypeOK

\* Under every adapter the model is told about a call once: the decision about
\* that very call, or an error.
AdaptersImplementBoundary ==
  /\ ImplementsBoundary /\ Sdk!ImplementsBoundary /\ OpenCode!ImplementsBoundary
  /\ Turns!ImplementsBoundary

\* What is taken as the answer to a request is its own: the results of a raw
\* turn, the lines of an ACP agent until a request times out, reads garbage or
\* reads a notification nobody waits for (and once it is late it is neither early,
\* nor used twice, nor the result of a prompt), and the events of an OpenClaw spawn
\* whose predecessors were read to their end.  And however the
\* SDK's proxies pass the results around, the one for a proxy that still waits is
\* on the queue once.
AnswersBelong ==
  /\ Turns!TurnsAreAnswered /\ Acp!AnswersBelong /\ Sdk!ResultsAreKept
  /\ OpenClaw!CompletionsAreOwn /\ OpenClaw!EventsAreOwn

\* A comparison times kernels alone, without the judge, and reports every run.
ComparisonsAreFair == Compare!RunsAreAlone /\ Compare!ReportIsRight

\* What was asked is answered without any timeout: Codex approvals with an integer
\* id, OpenCode calls posted to a spawn that drains its queue.  And an ACP command
\* returns, unless the agent never ends a line or a prompt's notifications.
CallsAreAnswered ==
  ApprovalsAreAnswered /\ OpenCode!CallsAreAnswered /\ Acp!CallsReturn
=============================================================================
