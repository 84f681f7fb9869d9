SPECIFICATION MCSpec
CONSTANTS
  r1 = r1
  r2 = r2
  f1 = f1
  f2 = f2
  f3 = f3
  v1 = v1
  v2 = v2
  srs = srs
  build = build
  out = out
  beyond = beyond
  bot = bot
  e1 = e1
  e2 = e2
  e3 = e3
  n1 = n1
  n2 = n2
  k1 = k1
  k2 = k2
  NoOne = NoOne
  NoSnapshot = NoSnapshot
  NoFile = NoFile
  NoReplay = NoReplay
  NoStage = NoStage
  NoPrice = NoPrice
  Unreadable = Unreadable
  Procs = {p1, p2}
  States = {s1, s2}
  MaxEvents = 4
  Stages = {srs, build}
  ArtPaths = {f1, f2, f3}
  ArtContents <- MCContents
  StageOf <- MCStageOf
  Given <- MCGiven
  TicketIds = {t1}
  Inside = {out}
  Outside = {beyond}
  Transcripts <- MCTranscripts
  Topics = {note}
  MaxLessons = 2
  MaxDays = 1
  Weak = 2
  Faint = 3
  PerUnit = 1
  IdleLimit = 0
  Projects = {x1, x2}
  Patterns = {skills}
  MinProjects = 2
  Agents = {bot}
  AgentKinds <- MCKinds
  MaxVersion = 2
  ExtNames = {n1, n2}
  Sources = {e1, e2, e3}
  NameOf <- MCNameOf
  Policies <- MCPolicies
  Permissions <- MCPermissions
  Messages = {m1, m2, m3}
  MaxPerWindow = 2
  MaxCodes = 2
  MaxItems = 3
  Runs = {r1, r2}
  AsyncRuns = {r2}
  OutPaths = {f1, f2}
  Required = {f1}
  Default = f2
  Stream = stream
  Broken = {b1}
  Backups = {1, 2}
  MaxRepairs = 2
  Spawned = {r1}
  Verdicts = {"allowed", "denied"}
  Offset = 1
  MaxTime = 1
  MaxEntries = 2
  MaxListings = 2
  Billed = {srs}
  Prices <- MCPrices
  CtxPaths = {1, 2, 3}
  Foreign = {4}
  Tokens <- MCTokens
  Sizes = {5, 9}
  Budget = 12
  Graphs <- CtxGraphs
  MenuCosts <- MCMenuCosts
  WarnPercent = 80
SYMMETRY Symmetry
INVARIANTS
  TypesOK
  ReplayFollowsLog
  SessionsAreHonest
  MemoryFollowsDecisions
  RunsAreRecorded
  ReportsAreRight
  InstallsAreGated
  FeedbackIsBounded
  RepairsKeepWork
PROPERTIES
  StalenessIsHonest
  TicketsFollowArtifacts
\* Operations end, bounds are reached, and a context is selected once.
CHECK_DEADLOCK FALSE
