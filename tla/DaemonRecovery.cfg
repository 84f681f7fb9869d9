SPECIFICATION FairSpec
CONSTANTS
  h1 = h1
  h2 = h2
  d1 = d1
  d2 = d2
  d3 = d3
  NoPid = NoPid
  InitProcess = InitProcess
  Hosts = {h1, h2}
  Starters = {h1}
  Writers = {}
  Embedded = {h1}
  Pids = {d1, d2, d3}
  Faults = {"boot", "daemon", "age", "orphan"}
INVARIANTS
  TypeOK
  OneDaemon
  ServingIsRecorded
PROPERTIES
  RefusalIsJustified
  StopSucceeds
  OldLockIsRecovered
