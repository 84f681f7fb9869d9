SPECIFICATION AdaptersSpec
CONSTANTS
  t1 = t1
  a1 = a1
  a2 = a2
  Threads = {t1, t2}
  Actions = {a1, a2}
  Unnumbered = {a2}
  Owner <- MCOwner
  NoAction = NoAction
  SdkCalls = {k1, k2, k3}
  NoCall = NoCall
  s1 = s1
  s2 = s2
  c1 = c1
  c2 = c2
  c3 = c3
  OcSpawns = {s1, s2}
  OcCalls = {c1, c2, c3}
  OcOwner <- MCOcOwner
  OcAggregate <- MCAggregate
  McpCalls = {c1, c2}
  NoSpawn = NoSpawn
  MaxTurn = 2
  MaxTurns = 2
  NoRequest = NoRequest
  MaxPipe = 2
  MaxSpawns = 2
  MaxUpdates = 1
  NKernels = 2
  Scripts <- MCScripts
  Plans <- MCPlans
  Timeout = 2
  JudgeTime = 1
INVARIANTS
  TypesOK
  NothingRunsUnapproved
  AnswersBelong
  ComparisonsAreFair
PROPERTIES
  AdaptersImplementBoundary
  CallsAreAnswered
CHECK_DEADLOCK FALSE
