------------------------- MODULE DaemonProcess_proofs -------------------------
(***************************************************************************)
(* The start lock is mutually exclusive for any number of hosts, daemons   *)
(* and every fault, as long as no lock gets old enough to be stolen; and   *)
(* with one process that starts daemons there is one daemon, the recorded  *)
(* one, and no dead one blocks a start, for any number of stops, daemons   *)
(* and deaths of daemons.                                                  *)
(***************************************************************************)
EXTENDS DaemonProcess, FiniteSetTheorems, TLAPS

\* No start lock is ever old: starts take less than _STALE_LOCK_SECONDS, and
\* none was killed while holding the lock long ago.
NoOldLocks == Faults \intersect {"age", "orphan"} = {}

\* Exclusion alone is not inductive: a start that reaches `finally` removes
\* whatever lock is there, so the lock must exist while anybody is inside, and
\* nobody may be about to remove it as stale.
LockInv ==
  /\ lock \in {"absent", "fresh"}
  /\ hpc \in [Hosts -> HostLabels]
  /\ \A h \in Hosts : hpc[h] # "steal"
  /\ \A h \in Hosts : Locked(h) => lock = "fresh"
  /\ StartsAreExclusive

LEMMA LockInit == NoOldLocks /\ Init => LockInv
BY DEF NoOldLocks, Init, LockInv, StartsAreExclusive, Locked, HostLabels

\* A host that leaves, or moves without entering the locked part, keeps the
\* invariant when the lock is unchanged.
LEMMA MoveOutside ==
  ASSUME LockInv, NEW h \in Hosts, NEW label \in HostLabels,
         hpc' = [hpc EXCEPT ![h] = label], lock' = lock,
         label # "steal",
         label \in {"check", "probe", "refuse", "spawn", "release"} => Locked(h)
  PROVE  LockInv'
BY DEF LockInv, StartsAreExclusive, Locked

\* Ageing and daemons do not concern the lock.
LEMMA HostsUnchanged ==
  ASSUME LockInv, UNCHANGED <<lock, hpc>>
  PROVE  LockInv'
BY DEF LockInv, StartsAreExclusive, Locked

LEMMA LockNext == NoOldLocks /\ LockInv /\ [Next]_vars => LockInv'
<1> SUFFICES ASSUME NoOldLocks, LockInv, [Next]_vars PROVE LockInv'
  OBVIOUS
<1> USE DEF At, Goto, Return, Forget, hostVars
<1>1. CASE UNCHANGED vars
  BY <1>1, HostsUnchanged DEF vars
<1>2. ASSUME NEW h \in Hosts, StartCall(h) \/ StartStep(h) PROVE LockInv'
  <2>1. CASE StartCall(h)
    BY <2>1, MoveOutside DEF StartCall, HostLabels
  <2>2. CASE CreateLock(h)
    <3>1. CASE lock = "absent"
      \* Nobody is inside: the lock would exist.
      BY <2>2, <3>1 DEF CreateLock, LockInv, StartsAreExclusive, Locked, HostLabels
    <3>2. CASE lock # "absent"
      BY <2>2, <3>2, MoveOutside DEF CreateLock, HostLabels
    <3> QED
      BY <3>1, <3>2
  <2>3. CASE StatLock(h)
    \* The lock is not old, so this host does not go on to steal it.
    BY <2>3, MoveOutside DEF StatLock, LockInv, HostLabels
  <2>4. CASE StealLock(h)
    BY <2>4 DEF StealLock, LockInv
  <2>5. CASE LoadExisting(h)
    BY <2>5, MoveOutside DEF LoadExisting, Locked, HostLabels
  <2>6. CASE ProbeExisting(h)
    BY <2>6, MoveOutside DEF ProbeExisting, Locked, HostLabels
  <2>7. CASE Spawn(h)
    BY <2>7, MoveOutside DEF Spawn, Locked, HostLabels
  <2>8. CASE ReleaseLock(h)
    \* The lock it removes is its own: no other start is inside.
    <3>1. Locked(h) /\ \A g \in Hosts : Locked(g) => g = h
      BY <2>8 DEF ReleaseLock, Locked, LockInv, StartsAreExclusive
    <3>2. lock' = "absent" /\ hpc' \in [Hosts -> HostLabels]
          /\ hpc'[h] \in {"await", "idle"}
          /\ \A g \in Hosts : g # h => hpc'[g] = hpc[g]
      BY <2>8 DEF ReleaseLock, LockInv, HostLabels
    <3>3. \A g \in Hosts : ~Locked(g)'
      BY <3>1, <3>2 DEF Locked
    <3> QED
      BY <3>2, <3>3 DEF LockInv, StartsAreExclusive
  <2>9. CASE AwaitReady(h)
    BY <2>9, MoveOutside DEF AwaitReady, HostLabels
  <2> QED
    BY <1>2, <2>1, <2>2, <2>3, <2>4, <2>5, <2>6, <2>7, <2>8, <2>9 DEF StartStep
<1>3. ASSUME NEW h \in Hosts,
             StopCall(h) \/ StopStep(h) \/ AlertLoad(h) \/ AlertSave(h) \/ HostCrash(h)
      PROVE  LockInv'
  <2>1. CASE StopCall(h)
    BY <2>1, MoveOutside DEF StopCall, HostLabels
  <2>2. CASE Signal(h)
    BY <2>2, MoveOutside DEF Signal, HostLabels
  <2>3. CASE AwaitStopped(h)
    <3>1. CASE UNCHANGED <<lock, hpc>>
      BY <3>1, HostsUnchanged
    <3>2. CASE Return(h) /\ lock' = lock
      BY <3>2, MoveOutside DEF HostLabels
    <3> QED
      BY <2>3, <3>1, <3>2 DEF AwaitStopped
  <2>4. CASE AlertLoad(h)
    BY <2>4, MoveOutside DEF AlertLoad, HostLabels
  <2>5. CASE AlertSave(h)
    BY <2>5, MoveOutside DEF AlertSave, HostLabels
  <2>6. CASE HostCrash(h)
    BY <2>6, MoveOutside DEF HostCrash, HostLabels
  <2> QED
    BY <1>3, <2>1, <2>2, <2>3, <2>4, <2>5, <2>6 DEF StopStep
<1>4. ASSUME NEW d \in Pids, DaemonStep(d) \/ LoadState(d) \/ DaemonCrash(d) PROVE LockInv'
  BY <1>4, HostsUnchanged
     DEF DaemonStep, Boot, InstallHandlers, SaveState, Stop, LoadState, DaemonCrash
<1>5. CASE LockAges
  BY <1>5 DEF LockAges, NoOldLocks
<1> QED
  BY <1>1, <1>2, <1>3, <1>4, <1>5 DEF Next

\* While no lock gets old, two starts are never both inside the locked part,
\* even when hosts are killed there.
THEOREM StartLockExcludes == NoOldLocks => (Spec => []StartsAreExclusive)
<1>1. LockInv => StartsAreExclusive
  BY DEF LockInv
<1>2. NoOldLocks /\ Init => LockInv
  BY LockInit
<1>3. NoOldLocks /\ LockInv /\ [Next]_vars => LockInv'
  BY LockNext
<1>4. CASE NoOldLocks
  BY <1>1, <1>2, <1>3, <1>4, PTL DEF Spec
<1> QED
  BY <1>4

-----------------------------------------------------------------------------
(* Types                                                                   *)

\* What a call that returns does to the processes.
LEMMA ReturnTypes ==
  ASSUME TypeOK, NEW h \in Hosts, Return(h)
  PROVE  /\ hpc' \in [Hosts -> HostLabels]
         /\ attempt' \in [Hosts -> {1, 2}]
         /\ target' \in [Hosts -> Pids \union {NoPid}]
         /\ proc' \in [Pids -> Serving \union {"zombie", "gone"}]
         /\ parent' \in [Pids -> Hosts \union {InitProcess}]
BY DEF TypeOK, Return, Forget, Goto, HostExit, HostLabels

LEMMA ReapedTypes ==
  ASSUME TypeOK, NEW h, NEW d
  PROVE  Reaped(h, d) \in [Pids -> Serving \union {"zombie", "gone"}]
BY DEF TypeOK, Reaped

LEMMA ExitTypes ==
  ASSUME TypeOK, NEW exited
  PROVE  AfterExit(exited) \in [Pids -> Serving \union {"zombie", "gone"}]
BY DEF TypeOK, AfterExit

LEMMA TypeInit == Init => TypeOK
BY ConstantsAssumption DEF Init, TypeOK, HostLabels

LEMMA TypeNext == TypeOK /\ [Next]_vars => TypeOK'
<1> SUFFICES ASSUME TypeOK, [Next]_vars PROVE TypeOK'
  OBVIOUS
<1> USE DEF At, Goto
<1>1. CASE UNCHANGED vars
  BY <1>1 DEF vars, hostVars, TypeOK
<1>2. ASSUME NEW h \in Hosts, StartCall(h) \/ StartStep(h) PROVE TypeOK'
  <2>1. CASE StartCall(h) \/ CreateLock(h) \/ StealLock(h) \/ LoadExisting(h)
    BY <2>1 DEF StartCall, CreateLock, StealLock, LoadExisting, TypeOK, HostLabels
  <2>2. CASE StatLock(h)
    BY <2>2, ReturnTypes DEF StatLock, TypeOK, HostLabels
  <2>3. CASE ProbeExisting(h)
    BY <2>3, ReapedTypes DEF ProbeExisting, TypeOK, HostLabels
  <2>4. CASE Spawn(h)
    BY <2>4 DEF Spawn, Recyclable, TypeOK, HostLabels, Serving
  <2>5. CASE ReleaseLock(h)
    BY <2>5, ReturnTypes DEF ReleaseLock, TypeOK, HostLabels
  <2>6. CASE AwaitReady(h)
    BY <2>6, ReturnTypes, ReapedTypes DEF AwaitReady, Forget, TypeOK, HostLabels
  <2> QED
    BY <1>2, <2>1, <2>2, <2>3, <2>4, <2>5, <2>6 DEF StartStep
<1>3. ASSUME NEW h \in Hosts,
             StopCall(h) \/ StopStep(h) \/ AlertLoad(h) \/ AlertSave(h) \/ HostCrash(h)
      PROVE  TypeOK'
  <2>1. CASE StopCall(h)
    BY <2>1, ReturnTypes DEF StopCall, TypeOK, HostLabels
  <2>2. CASE Signal(h)
    <3>1. CASE Return(h)
      BY <2>2, <3>1, ReturnTypes DEF Signal, TypeOK
    <3>2. CASE ~Return(h)
      BY <2>2, <3>2, ExitTypes DEF Signal, TypeOK, HostLabels, Serving
    <3> QED
      BY <3>1, <3>2
  <2>3. CASE AwaitStopped(h)
    BY <2>3, ReturnTypes, ReapedTypes DEF AwaitStopped, hostVars, TypeOK
  <2>4. CASE AlertLoad(h)
    BY <2>4 DEF AlertLoad, TypeOK, HostLabels
  <2>5. CASE AlertSave(h)
    BY <2>5, ReturnTypes DEF AlertSave, TypeOK
  <2>6. CASE HostCrash(h)
    BY <2>6 DEF HostCrash, Forget, HostExit, TypeOK, HostLabels
  <2> QED
    BY <1>3, <2>1, <2>2, <2>3, <2>4, <2>5, <2>6 DEF StopStep
<1>4. ASSUME NEW d \in Pids, DaemonStep(d) \/ LoadState(d) \/ DaemonCrash(d) PROVE TypeOK'
  BY <1>4, ExitTypes
     DEF DaemonStep, Boot, InstallHandlers, SaveState, Stop, LoadState, DaemonCrash,
         hostVars, TypeOK, Serving
<1>5. CASE LockAges
  BY <1>5 DEF LockAges, hostVars, TypeOK
<1> QED
  BY <1>1, <1>2, <1>3, <1>4, <1>5 DEF Next

\* The lock, state.json, the processes and the calls stay within their types,
\* for any hosts, daemons and faults.
THEOREM TypeCorrect == Spec => []TypeOK
BY TypeInit, TypeNext, PTL DEF Spec

-----------------------------------------------------------------------------
(* One daemon                                                              *)

\* What the run assumes too: one process starts daemons, waits until each has
\* booted or died and is not killed meanwhile, and nobody else writes the
\* state file.  Otherwise the lock is free before the new daemon is recorded.
SoleStarter ==
  /\ \A g, h \in Starters : g = h
  /\ Writers = {}
  /\ Faults \intersect {"host", "timeout"} = {}

\* At most one process serves, a booted one is recorded, and what a daemon is
\* about to write back is what is there.
Daemons ==
  /\ \A d, e \in Pids : proc[d] \in Serving /\ proc[e] \in Serving => d = e
  /\ ServingIsRecorded
  /\ \A d \in Pids : copy[d] # NoPid => /\ copy[d] = recorded
                                        /\ proc[d] \in {"running", "stopping"}

StartLabels == {"acquire", "stat", "steal", "check", "probe", "refuse", "spawn", "release", "await"}

\* The starter is there for a daemon that boots, knows what is recorded when it
\* probes, and spawns only when nothing serves.
Starts ==
  /\ \A d \in Pids : proc[d] = "booting" =>
       recorded # d /\ \E h \in Starters : hpc[h] \in {"release", "await"} /\ target[h] = d
  /\ \A h \in Hosts :
       /\ hpc[h] \in StartLabels => h \in Starters
       /\ hpc[h] # "alert"
       /\ hpc[h] = "probe" => target[h] = recorded
       /\ hpc[h] = "spawn" => \A d \in Pids : proc[d] \notin Serving

\* Only the starter has children, and it outlives its zombies.
Children ==
  \A d \in Pids : /\ parent[d] \in Starters \union {InitProcess}
                  /\ proc[d] = "zombie" => parent[d] # InitProcess

ServeInv == TypeOK /\ Daemons /\ Starts /\ Children

LEMMA ServeInit == Init => ServeInv
BY TypeInit, ConstantsAssumption
   DEF Init, ServeInv, Daemons, ServingIsRecorded, Starts, StartLabels, Children, Serving

\* Reaping disturbs neither the state file nor its readers.
LEMMA DaemonsReaped ==
  ASSUME Daemons, UNCHANGED <<recorded, copy>>,
         \A d \in Pids : proc'[d] = proc[d] \/ (proc[d] = "zombie" /\ proc'[d] = "gone")
  PROVE  Daemons'
BY DEF Daemons, ServingIsRecorded, Serving

\* While no daemon boots, a host may go anywhere but to the probe, the spawn
\* and the alert; a start is the starter's.
LEMMA HostMoves ==
  ASSUME ServeInv, NEW h \in Hosts, recorded' = recorded, TypeOK',
         \A d \in Pids : proc'[d] = proc[d] \/ proc'[d] \notin Serving,
         \A d \in Pids : proc[d] = "booting" =>
           \/ proc'[d] # "booting"
           \/ h \notin Starters
           \/ hpc'[h] \in {"release", "await"} /\ target'[h] = target[h],
         \A g \in Hosts : g # h => hpc'[g] = hpc[g] /\ target'[g] = target[g],
         hpc'[h] \notin {"probe", "spawn", "alert"},
         hpc'[h] \in StartLabels => h \in Starters,
         SoleStarter
  PROVE  Starts'
<1>1. ASSUME NEW d \in Pids, proc'[d] = "booting"
      PROVE  recorded' # d /\ \E g \in Starters : hpc'[g] \in {"release", "await"} /\ target'[g] = d
  <2>1. proc[d] = "booting"
    BY <1>1 DEF Serving
  <2>2. recorded # d
    BY <2>1 DEF ServeInv, Starts
  <2>3. PICK g \in Starters : hpc[g] \in {"release", "await"} /\ target[g] = d
    BY <2>1 DEF ServeInv, Starts
  <2>4. g \in Hosts
    BY ConstantsAssumption
  <2> QED
    BY <1>1, <2>1, <2>2, <2>3, <2>4 DEF SoleStarter
<1>2. ASSUME NEW g \in Hosts
      PROVE  /\ hpc'[g] \in StartLabels => g \in Starters
             /\ hpc'[g] # "alert"
             /\ hpc'[g] = "probe" => target'[g] = recorded'
             /\ hpc'[g] = "spawn" => \A d \in Pids : proc'[d] \notin Serving
  BY DEF ServeInv, Starts
<1> QED
  BY <1>1, <1>2 DEF Starts

\* A call that returns leaves no zombie to init.
LEMMA ReturnKeeps ==
  ASSUME ServeInv, NEW h \in Hosts, Return(h)
  PROVE  /\ Children'
         /\ \A d \in Pids : proc'[d] = proc[d] \/ (proc[d] = "zombie" /\ proc'[d] = "gone")
         /\ hpc'[h] = "idle"
         /\ \A g \in Hosts : g # h => hpc'[g] = hpc[g] /\ target'[g] = target[g]
BY ConstantsAssumption DEF ServeInv, TypeOK, Children, Return, Forget, Goto, HostExit

LEMMA ReapedKeeps ==
  ASSUME ServeInv, NEW h, NEW d, proc' = Reaped(h, d)
  PROVE  /\ parent' = parent => Children'
         /\ \A e \in Pids : proc'[e] = proc[e] \/ (proc[e] = "zombie" /\ proc'[e] = "gone")
BY DEF ServeInv, TypeOK, Children, Reaped

LEMMA ServeNext == SoleStarter /\ ServeInv /\ [Next]_vars => ServeInv'
<1> SUFFICES ASSUME SoleStarter, ServeInv, [Next]_vars PROVE ServeInv'
  OBVIOUS
<1>0. TypeOK /\ TypeOK' /\ Daemons /\ Starts /\ Children
  BY TypeNext DEF ServeInv
<1> USE DEF At, Goto
<1>1. CASE UNCHANGED vars
  BY <1>0, <1>1 DEF vars, hostVars, ServeInv, Daemons, ServingIsRecorded, Starts, Children
<1>2. ASSUME NEW h \in Hosts, StartCall(h) \/ StartStep(h) PROVE ServeInv'
  <2>1. CASE StartCall(h) \/ CreateLock(h) \/ StealLock(h)
    <3>1. UNCHANGED <<recorded, proc, parent, copy, target>>
      BY <2>1 DEF StartCall, CreateLock, StealLock
    <3>2. Daemons' /\ Children'
      BY <1>0, <3>1 DEF Daemons, ServingIsRecorded, Children
    <3>3. /\ h \in Starters /\ hpc[h] \in {"idle", "acquire", "steal"}
          /\ hpc'[h] \in {"acquire", "stat", "check"}
          /\ \A g \in Hosts : g # h => hpc'[g] = hpc[g]
      BY <1>0, <2>1 DEF StartCall, CreateLock, StealLock, TypeOK, Starts, StartLabels
    <3>4. \A d \in Pids : proc[d] # "booting"
      BY <1>0, <3>3 DEF Starts, SoleStarter
    <3>5. Starts'
      BY <1>0, <3>1, <3>3, <3>4, HostMoves
    <3> QED
      BY <1>0, <3>2, <3>5 DEF ServeInv
  <2>2. CASE StatLock(h)
    <3>1. h \in Starters /\ hpc[h] = "stat" /\ UNCHANGED <<recorded, copy>>
      BY <1>0, <2>2 DEF StatLock, Starts, StartLabels
    <3>2. \A d \in Pids : proc[d] # "booting"
      BY <1>0, <3>1 DEF Starts, SoleStarter
    <3>3. CASE Return(h)
      <4>1. Starts'
        BY <1>0, <3>1, <3>2, <3>3, ReturnKeeps, HostMoves DEF StartLabels, Serving
      <4>2. Daemons'
        BY <1>0, <3>1, <3>3, ReturnKeeps, DaemonsReaped DEF Serving
      <4> QED
        BY <1>0, <3>3, <4>1, <4>2, ReturnKeeps DEF ServeInv
    <3>4. CASE ~Return(h)
      <4>1. UNCHANGED <<proc, parent, target>> /\ hpc'[h] \in {"acquire", "steal"}
            /\ \A g \in Hosts : g # h => hpc'[g] = hpc[g]
        BY <1>0, <2>2, <3>4 DEF StatLock, TypeOK
      <4>2. Starts'
        BY <1>0, <3>1, <3>2, <4>1, HostMoves
      <4> QED
        BY <1>0, <3>1, <4>1, <4>2 DEF ServeInv, Daemons, ServingIsRecorded, Children
    <3> QED
      BY <3>3, <3>4
  <2>3. CASE LoadExisting(h)
    <3>1. UNCHANGED <<recorded, proc, parent, copy>> /\ hpc[h] = "check"
          /\ hpc' = [hpc EXCEPT ![h] = "probe"] /\ target' = [target EXCEPT ![h] = recorded]
      BY <2>3 DEF LoadExisting
    <3>2. h \in Starters /\ \A d \in Pids : proc[d] # "booting"
      BY <1>0, <3>1 DEF Starts, StartLabels, SoleStarter
    <3>3. Starts'
      BY <1>0, <3>1, <3>2 DEF Starts, TypeOK
    <3> QED
      BY <1>0, <3>1, <3>3 DEF ServeInv, Daemons, ServingIsRecorded, Children
  <2>4. CASE ProbeExisting(h)
    <3>1. /\ hpc[h] = "probe" /\ target[h] = recorded /\ h \in Starters
          /\ proc' = Reaped(h, recorded)
          /\ UNCHANGED <<recorded, parent, copy, target>>
      BY <1>0, <2>4 DEF ProbeExisting, Starts, StartLabels
    <3>2. \A d \in Pids : proc[d] # "booting"
      BY <1>0, <3>1 DEF Starts, SoleStarter
    <3>3. Daemons' /\ Children'
      BY <1>0, <3>1, ReapedKeeps, DaemonsReaped DEF Serving
    <3>4. CASE recorded # NoPid /\ proc'[recorded] # "gone"
      <4>1. hpc'[h] = "refuse" /\ \A g \in Hosts : g # h => hpc'[g] = hpc[g]
        BY <1>0, <2>4, <3>1, <3>4 DEF ProbeExisting, TypeOK
      <4>2. Starts'
        BY <1>0, <3>1, <3>2, <4>1, ReapedKeeps, HostMoves DEF Serving
      <4> QED
        BY <1>0, <3>3, <4>2 DEF ServeInv
    <3>5. CASE ~(recorded # NoPid /\ proc'[recorded] # "gone")
      <4>1. hpc' = [hpc EXCEPT ![h] = "spawn"]
        BY <2>4, <3>1, <3>5 DEF ProbeExisting
      \* Whatever serves has booted, so it is recorded, and that one is gone.
      <4>2. \A d \in Pids : proc'[d] \notin Serving
        <5>1. ASSUME NEW d \in Pids, proc'[d] \in Serving PROVE FALSE
          <6>1. proc[d] \in Serving /\ proc[d] # "booting"
            BY <1>0, <3>1, <3>2, <5>1, ReapedKeeps DEF Serving
          <6>2. recorded = d
            BY <1>0, <6>1 DEF Daemons, ServingIsRecorded
          <6> QED
            BY <3>5, <5>1, <6>2, ConstantsAssumption DEF Serving
        <5> QED
          BY <5>1
      <4>3. Starts'
        BY <1>0, <3>1, <4>1, <4>2 DEF Starts, TypeOK, Serving
      <4> QED
        BY <1>0, <3>3, <4>3 DEF ServeInv
    <3> QED
      BY <3>4, <3>5
  <2>5. CASE Spawn(h)
    <3>1. PICK d \in Recyclable : /\ proc' = [proc EXCEPT ![d] = "booting"]
                                 /\ parent' = [parent EXCEPT ![d] = h]
                                 /\ target' = [target EXCEPT ![h] = d]
      BY <2>5 DEF Spawn
    <3>2. /\ hpc[h] = "spawn" /\ hpc' = [hpc EXCEPT ![h] = "release"]
          /\ UNCHANGED <<recorded, copy>> /\ h \in Starters
          /\ d \in Pids /\ d # recorded
          /\ \A e \in Pids : proc[e] \notin Serving
      BY <1>0, <2>5, <3>1 DEF Spawn, Recyclable, Starts, StartLabels
    <3>3. Daemons'
      BY <1>0, <3>1, <3>2 DEF Daemons, ServingIsRecorded, TypeOK, Serving
    <3>4. Starts'
      BY <1>0, <3>1, <3>2 DEF Starts, SoleStarter, TypeOK, Serving, StartLabels
    <3>5. Children'
      BY <1>0, <3>1, <3>2, ConstantsAssumption DEF Children, TypeOK
    <3> QED
      BY <1>0, <3>3, <3>4, <3>5 DEF ServeInv
  <2>6. CASE ReleaseLock(h)
    <3>1. h \in Starters /\ UNCHANGED <<recorded, copy>>
      BY <1>0, <2>6 DEF ReleaseLock, Starts, StartLabels
    <3>2. CASE At(h, "release") /\ Goto(h, "await") /\ UNCHANGED <<proc, parent, attempt, target>>
      <4>1. Starts'
        BY <1>0, <3>1, <3>2 DEF Starts, TypeOK, SoleStarter, StartLabels
      <4> QED
        BY <1>0, <3>1, <3>2, <4>1 DEF ServeInv, Daemons, ServingIsRecorded, Children
    <3>3. CASE At(h, "refuse") /\ Return(h)
      <4>1. \A d \in Pids : proc[d] # "booting"
        BY <1>0, <3>1, <3>3 DEF Starts, SoleStarter
      <4>2. Starts'
        BY <1>0, <3>1, <3>3, <4>1, ReturnKeeps, HostMoves DEF StartLabels, Serving
      <4>3. Daemons'
        BY <1>0, <3>1, <3>3, ReturnKeeps, DaemonsReaped DEF Serving
      <4> QED
        BY <1>0, <3>3, <4>2, <4>3, ReturnKeeps DEF ServeInv
    <3> QED
      BY <2>6, <3>2, <3>3 DEF ReleaseLock
  <2>7. CASE AwaitReady(h)
    <3>1. /\ h \in Starters /\ hpc[h] = "await" /\ UNCHANGED <<recorded, copy>>
      BY <1>0, <2>7 DEF AwaitReady, Starts, StartLabels
    \* The only daemon that may boot is the one awaited: it is recorded, and
    \* so has booted, or it has died.
    <3>2. \A d \in Pids : proc[d] = "booting" => target[h] = d /\ recorded # d
      BY <1>0, <3>1 DEF Starts, SoleStarter
    <3>3. \A d \in Pids : proc[d] # "booting"
      BY <2>7, <3>2 DEF AwaitReady, SoleStarter
    <3>4. CASE Return(h)
      <4>1. Starts'
        BY <1>0, <3>1, <3>3, <3>4, ReturnKeeps, HostMoves DEF StartLabels, Serving
      <4>2. Daemons'
        BY <1>0, <3>1, <3>4, ReturnKeeps, DaemonsReaped DEF Serving
      <4> QED
        BY <1>0, <3>4, <4>1, <4>2, ReturnKeeps DEF ServeInv
    <3>5. CASE Forget(h) /\ proc' = Reaped(h, target[h]) /\ UNCHANGED parent
      <4>1. hpc'[h] = "idle"
            /\ \A g \in Hosts : g # h => hpc'[g] = hpc[g] /\ target'[g] = target[g]
        BY <1>0, <3>5 DEF Forget, TypeOK
      <4>2. Starts'
        BY <1>0, <3>1, <3>3, <3>5, <4>1, ReapedKeeps, HostMoves DEF StartLabels, Serving
      <4>3. Daemons' /\ Children'
        BY <1>0, <3>1, <3>5, ReapedKeeps, DaemonsReaped DEF Serving
      <4> QED
        BY <1>0, <4>2, <4>3 DEF ServeInv
    <3> QED
      BY <2>7, <3>4, <3>5 DEF AwaitReady
  <2> QED
    BY <1>2, <2>1, <2>2, <2>3, <2>4, <2>5, <2>6, <2>7 DEF StartStep
<1>3. ASSUME NEW h \in Hosts,
             StopCall(h) \/ StopStep(h) \/ AlertLoad(h) \/ AlertSave(h) \/ HostCrash(h)
      PROVE  ServeInv'
  <2>1. UNCHANGED <<recorded, copy>> /\ hpc[h] \in {"idle", "signal", "drain"}
    BY <1>0, <1>3 DEF StopCall, StopStep, Signal, AwaitStopped, AlertLoad, AlertSave,
         HostCrash, SoleStarter, Starts
  \* A starter that stops a daemon has none that boots.
  <2>2. \A d \in Pids : proc[d] = "booting" => h \notin Starters
    BY <1>0, <2>1 DEF Starts, SoleStarter
  <2>3. CASE Return(h)
    <3>1. Starts'
      BY <1>0, <2>1, <2>2, <2>3, ReturnKeeps, HostMoves DEF StartLabels, Serving
    <3>2. Daemons'
      BY <1>0, <2>1, <2>3, ReturnKeeps, DaemonsReaped DEF Serving
    <3> QED
      BY <1>0, <2>3, <3>1, <3>2, ReturnKeeps DEF ServeInv
  <2>4. CASE StopCall(h) /\ ~Return(h)
    <3>1. UNCHANGED <<proc, parent>> /\ hpc'[h] = "signal"
          /\ \A g \in Hosts : g # h => hpc'[g] = hpc[g] /\ target'[g] = target[g]
      BY <1>0, <2>4 DEF StopCall, TypeOK
    <3>2. Starts'
      BY <1>0, <2>1, <2>2, <3>1, HostMoves DEF StartLabels
    <3> QED
      BY <1>0, <2>1, <3>1, <3>2 DEF ServeInv, Daemons, ServingIsRecorded, Children
  <2>5. CASE Signal(h) /\ ~Return(h)
    <3>1. /\ proc' = IF proc[target[h]] \in {"booting", "deaf"} THEN AfterExit({target[h]})
                      ELSE IF proc[target[h]] = "running" THEN [proc EXCEPT ![target[h]] = "stopping"]
                      ELSE proc
          /\ UNCHANGED <<parent, target>> /\ hpc'[h] = "drain"
          /\ \A g \in Hosts : g # h => hpc'[g] = hpc[g] /\ target'[g] = target[g]
      BY <1>0, <2>5 DEF Signal, TypeOK
    <3>2. \A d \in Pids :
            \/ proc'[d] = proc[d]
            \/ /\ proc[d] \in {"booting", "deaf"}
               /\ proc'[d] = IF parent[d] = InitProcess THEN "gone" ELSE "zombie"
            \/ proc[d] = "running" /\ proc'[d] = "stopping"
      BY <1>0, <3>1 DEF AfterExit, TypeOK
    <3>3. Daemons' /\ Children'
      BY <1>0, <2>1, <3>1, <3>2 DEF Daemons, ServingIsRecorded, Children, Serving
    <3>4. Starts'
      <4>1. ASSUME NEW d \in Pids, proc'[d] = "booting"
            PROVE  recorded' # d
                   /\ \E g \in Starters : hpc'[g] \in {"release", "await"} /\ target'[g] = d
        BY <1>0, <2>1, <2>2, <3>1, <3>2, <4>1, ConstantsAssumption DEF Starts
      <4>2. ASSUME NEW g \in Hosts
            PROVE  /\ hpc'[g] \in StartLabels => g \in Starters
                   /\ hpc'[g] # "alert"
                   /\ hpc'[g] = "probe" => target'[g] = recorded'
                   /\ hpc'[g] = "spawn" => \A d \in Pids : proc'[d] \notin Serving
        BY <1>0, <2>1, <3>1, <3>2 DEF Starts, StartLabels, Serving
      <4> QED
        BY <4>1, <4>2 DEF Starts
    <3> QED
      BY <1>0, <3>3, <3>4 DEF ServeInv
  <2>6. CASE AwaitStopped(h) /\ ~Return(h)
    <3>1. proc' = Reaped(h, target[h]) /\ UNCHANGED <<parent, hpc, target>>
      BY <2>6 DEF AwaitStopped, hostVars
    <3>2. Starts'
      BY <1>0, <2>1, <2>2, <3>1, ReapedKeeps, HostMoves DEF StartLabels, Serving
    <3>3. Daemons' /\ Children'
      BY <1>0, <2>1, <3>1, ReapedKeeps, DaemonsReaped DEF Serving
    <3> QED
      BY <1>0, <3>2, <3>3 DEF ServeInv
  \* Nobody records alerts, and no host is killed.
  <2>7. ~AlertLoad(h) /\ ~AlertSave(h) /\ ~HostCrash(h)
    BY <1>0 DEF AlertLoad, AlertSave, HostCrash, SoleStarter, Starts
  <2> QED
    BY <1>3, <2>3, <2>4, <2>5, <2>6, <2>7 DEF StopStep
<1>4. ASSUME NEW d \in Pids, DaemonStep(d) \/ LoadState(d) \/ DaemonCrash(d) PROVE ServeInv'
  <2>1. UNCHANGED <<parent, hpc, target>>
    BY <1>4 DEF DaemonStep, Boot, InstallHandlers, SaveState, Stop, LoadState, DaemonCrash, hostVars
  <2>2. CASE Boot(d)
    \* The starter waits for it, so nothing is about to be probed.
    <3>1. /\ proc[d] = "booting" /\ recorded' = d /\ copy' = copy
          /\ proc' = [proc EXCEPT ![d] = "deaf"]
      BY <2>2 DEF Boot
    <3>2. Daemons' /\ Children'
      BY <1>0, <2>1, <3>1 DEF Daemons, ServingIsRecorded, Children, TypeOK, Serving
    <3>3. Starts'
      BY <1>0, <2>1, <3>1 DEF Daemons, Starts, SoleStarter, StartLabels, TypeOK, Serving
    <3> QED
      BY <1>0, <3>2, <3>3 DEF ServeInv
  <2>3. CASE InstallHandlers(d)
    BY <1>0, <2>1, <2>3
       DEF InstallHandlers, ServeInv, Daemons, ServingIsRecorded, Starts, Children, TypeOK, Serving
  <2>4. CASE LoadState(d)
    BY <1>0, <2>1, <2>4
       DEF LoadState, ServeInv, Daemons, ServingIsRecorded, Starts, Children, TypeOK, Serving
  <2>5. CASE SaveState(d)
    <3>1. copy[d] = recorded /\ recorded' = recorded /\ proc' = proc
          /\ copy' = [copy EXCEPT ![d] = NoPid]
      BY <1>0, <2>5 DEF SaveState, Daemons
    <3> QED
      BY <1>0, <2>1, <3>1 DEF ServeInv, Daemons, ServingIsRecorded, Starts, Children, TypeOK
  <2>6. CASE Stop(d) \/ DaemonCrash(d)
    <3>1. /\ proc' = AfterExit({d}) /\ recorded' = recorded
          /\ copy' = [copy EXCEPT ![d] = NoPid]
      BY <1>0, <2>6 DEF Stop, DaemonCrash, TypeOK
    <3>2. \A e \in Pids :
            \/ e # d /\ proc'[e] = proc[e]
            \/ e = d /\ proc'[e] = IF parent[e] = InitProcess THEN "gone" ELSE "zombie"
      BY <1>0, <3>1 DEF AfterExit, TypeOK
    \* One daemon stops serving, and none starts to.
    <3>3. \A e \in Pids :
            /\ proc'[e] \in Serving => e # d /\ proc'[e] = proc[e]
            /\ proc'[e] = "booting" => proc[e] = "booting"
            /\ proc'[e] = "zombie" /\ proc[e] # "zombie" => parent[e] # InitProcess
            /\ copy'[e] # NoPid => e # d /\ copy'[e] = copy[e] /\ proc'[e] = proc[e]
      BY <1>0, <3>1, <3>2 DEF TypeOK, Serving
    <3>4. Daemons'
      <4>1. \A e, f \in Pids : proc'[e] \in Serving /\ proc'[f] \in Serving => e = f
        BY <1>0, <3>3 DEF Daemons
      <4>2. ServingIsRecorded'
        BY <1>0, <3>1, <3>3 DEF Daemons, ServingIsRecorded, Serving
      <4>3. \A e \in Pids : copy'[e] # NoPid => copy'[e] = recorded' /\ proc'[e] \in {"running", "stopping"}
        BY <1>0, <3>1, <3>3 DEF Daemons
      <4> QED
        BY <4>1, <4>2, <4>3 DEF Daemons, Serving
    <3>5. Starts'
      BY <1>0, <2>1, <3>1, <3>3 DEF Starts, StartLabels
    <3>6. Children'
      BY <1>0, <2>1, <3>3 DEF Children
    <3> QED
      BY <1>0, <3>4, <3>5, <3>6 DEF ServeInv
  <2> QED
    BY <1>4, <2>2, <2>3, <2>4, <2>5, <2>6 DEF DaemonStep
<1>5. CASE LockAges
  BY <1>0, <1>5 DEF LockAges, hostVars, ServeInv, Daemons, ServingIsRecorded, Starts, Children
<1> QED
  BY <1>1, <1>2, <1>3, <1>4, <1>5 DEF Next

\* With one process that starts daemons, at most one daemon ever serves the
\* project: however daemons die and whoever stops them.
THEOREM OneDaemonServes == SoleStarter => (Spec => []OneDaemon)
<1>1. ServeInv => OneDaemon
  <2> SUFFICES ASSUME ServeInv PROVE OneDaemon
    OBVIOUS
  <2> DEFINE S == {d \in Pids : proc[d] \in Serving}
  <2>1. CASE S = {}
    BY <2>1, FS_EmptySet DEF OneDaemon
  <2>2. ASSUME NEW d \in S PROVE OneDaemon
    <3>1. S = {d}
      BY <2>2 DEF ServeInv, Daemons
    <3> QED
      BY <3>1, FS_Singleton DEF OneDaemon
  <2> QED
    BY <2>1, <2>2
<1>2. CASE SoleStarter
  BY <1>1, <1>2, ServeInit, ServeNext, PTL DEF Spec
<1> QED
  BY <1>2

\* Under the same assumption a daemon that has booted is the one state.json
\* names, whatever the daemons write back and when.
THEOREM ServingDaemonIsRecorded == SoleStarter => (Spec => []ServingIsRecorded)
<1>1. ServeInv => ServingIsRecorded
  BY DEF ServeInv, Daemons
<1>2. CASE SoleStarter
  BY <1>1, <1>2, ServeInit, ServeNext, PTL DEF Spec
<1> QED
  BY <1>2

\* A start is refused by a live daemon only: a recorded zombie is the child of
\* the starter, which reaps it before it probes.
LEMMA RefusalStep ==
  ASSUME SoleStarter, ServeInv, [Next]_vars,
         NEW h \in Hosts, hpc[h] = "probe", hpc'[h] = "refuse"
  PROVE  \E d \in Pids : proc[d] \in Serving
<1> USE DEF At, Goto
<1>1. hpc \in [Hosts -> HostLabels]
  BY DEF ServeInv, TypeOK
<1>2. ProbeExisting(h)
  <2>1. CASE UNCHANGED vars
    BY <2>1 DEF vars, hostVars
  <2>2. ASSUME NEW g \in Hosts, g # h,
               \/ StartCall(g) \/ StartStep(g) \/ StopCall(g) \/ StopStep(g)
               \/ AlertLoad(g) \/ AlertSave(g) \/ HostCrash(g)
        PROVE  FALSE
    BY <1>1, <2>2
       DEF StartCall, StartStep, CreateLock, StatLock, StealLock, LoadExisting, ProbeExisting,
           Spawn, ReleaseLock, AwaitReady, StopCall, StopStep, Signal, AwaitStopped, AlertLoad,
           AlertSave, HostCrash, Return, Forget, hostVars
  <2>3. CASE \/ StartCall(h) \/ StartStep(h) \/ StopCall(h) \/ StopStep(h)
             \/ AlertLoad(h) \/ AlertSave(h) \/ HostCrash(h)
    BY <1>1, <2>3
       DEF StartCall, StartStep, CreateLock, StatLock, StealLock, LoadExisting,
           Spawn, ReleaseLock, AwaitReady, StopCall, StopStep, Signal, AwaitStopped, AlertLoad,
           AlertSave, HostCrash, Return, Forget, hostVars
  <2>4. ASSUME NEW d \in Pids, DaemonStep(d) \/ LoadState(d) \/ DaemonCrash(d) PROVE FALSE
    BY <2>4 DEF DaemonStep, Boot, InstallHandlers, SaveState, Stop, LoadState, DaemonCrash, hostVars
  <2>5. CASE LockAges
    BY <2>5 DEF LockAges, hostVars
  <2> QED
    BY <2>1, <2>2, <2>3, <2>4, <2>5 DEF Next
<1>3. recorded \in Pids /\ proc' = Reaped(h, recorded) /\ proc'[recorded] # "gone"
  BY <1>1, <1>2 DEF ProbeExisting, ServeInv, TypeOK, Starts
<1>4. h \in Starters /\ proc[recorded] # "zombie"
  <2>1. h \in Starters
    BY DEF ServeInv, Starts, StartLabels
  <2>2. proc[recorded] = "zombie" => parent[recorded] = h
    BY <1>3, <2>1 DEF ServeInv, Children, SoleStarter
  <2>3. proc[recorded] = "zombie" /\ parent[recorded] = h => proc'[recorded] = "gone"
    BY <1>3, ConstantsAssumption DEF Reaped, ServeInv, TypeOK
  <2> QED
    BY <1>3, <2>1, <2>2, <2>3
<1>5. proc[recorded] \in Serving
  BY <1>3, <1>4 DEF Reaped, ServeInv, TypeOK
<1> QED
  BY <1>3, <1>5

\* Under the same assumption the corpse of a crashed daemon never blocks a
\* restart.
THEOREM RefusalsAreJustified == SoleStarter => (Spec => RefusalIsJustified)
<1>1. SoleStarter /\ ServeInv /\ [Next]_vars =>
        [\A h \in Hosts :
           At(h, "probe") /\ hpc'[h] = "refuse" => \E d \in Pids : proc[d] \in Serving]_vars
  BY RefusalStep DEF At
<1>2. CASE SoleStarter
  BY <1>1, <1>2, ServeInit, ServeNext, PTL DEF Spec, RefusalIsJustified
<1> QED
  BY <1>2
=============================================================================
