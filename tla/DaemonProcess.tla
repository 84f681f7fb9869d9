---------------------------- MODULE DaemonProcess ----------------------------
(***************************************************************************)
(* Starting and stopping the background daemon: `daemon/process.py` on the *)
(* caller's side, `daemon/runner.py` on the daemon's.                      *)
(*                                                                         *)
(* A host is a process that calls start_daemon or stop_daemon (a CLI       *)
(* process, which ends with the call, or an embedding one, which lives     *)
(* on), or records an alert through the observer.  Hosts and daemons share *)
(* three things only: the lock file start.lock, the file state.json that   *)
(* names one pid, and what the operating system knows of processes.        *)
(* Pids are recycled once nothing refers to them, so behaviours are        *)
(* unbounded while the state space is finite; an unrelated process that    *)
(* takes over a recorded pid is outside the model, as in the code.         *)
(***************************************************************************)
EXTENDS Naturals, FiniteSets

CONSTANTS
  Hosts,     \* processes that run daemon commands
  Starters,  \* those that may call start_daemon
  Writers,   \* those that may record an alert (ObserverUseCases.run_checks)
  Embedded,  \* those that outlive their calls
  Pids,      \* process ids of daemons
  NoPid,     \* no pid: there is no state file, or a call is about no daemon
  InitProcess, \* the process that adopts orphans and reaps them
  Faults     \* what may go wrong, a subset of AllFaults

\* boot:    a daemon dies before it has written its state
\* daemon:  a daemon dies later
\* host:    a host is killed in the middle of a call
\* age:     a start lock gets older than _STALE_LOCK_SECONDS
\* orphan:  a start that was killed earlier left its lock, now old
\* timeout: a caller gives up waiting
AllFaults == {"boot", "daemon", "host", "age", "orphan", "timeout"}

ASSUME ConstantsAssumption ==
  /\ Starters \subseteq Hosts
  /\ Writers \subseteq Hosts
  /\ Embedded \subseteq Hosts
  /\ NoPid \notin Pids
  /\ InitProcess \notin Hosts
  /\ Faults \subseteq AllFaults

VARIABLES
  lock,     \* start.lock: absent, fresh, or old enough to be stolen
  recorded, \* the pid in state.json, NoPid when there is no file
  proc,     \* what each daemon process is doing
  parent,   \* the process that must reap it
  copy,     \* the pid in the document a daemon loaded and will write back
  hpc,      \* what each host does next
  attempt,  \* its attempt at the start lock
  target    \* the pid its call is about

vars == <<lock, recorded, proc, parent, copy, hpc, attempt, target>>
hostVars == <<hpc, attempt, target>>

\* booting: not yet in state.json; deaf: recorded, but the signal handlers
\* are not installed; stopping: the stop event is set, the last task ends;
\* zombie: exited, its parent has not reaped it.
Serving == {"booting", "deaf", "running", "stopping"}

\* The signal-0 probe: a zombie still answers.
IsPidAlive(d) == d # NoPid /\ proc[d] # "gone"

Init ==
  /\ lock \in {"absent"} \union (IF "orphan" \in Faults THEN {"old"} ELSE {})
  /\ recorded = NoPid
  /\ proc = [d \in Pids |-> "gone"]
  /\ parent = [d \in Pids |-> InitProcess]
  /\ copy = [d \in Pids |-> NoPid]
  /\ hpc = [h \in Hosts |-> "idle"]
  /\ attempt = [h \in Hosts |-> 1]
  /\ target = [h \in Hosts |-> NoPid]

At(h, label) == hpc[h] = label

Goto(h, label) == hpc' = [hpc EXCEPT ![h] = label]

\* The processes after some exit: a child whose parent lives stays a zombie.
AfterExit(exited) ==
  [d \in Pids |-> IF d \notin exited THEN proc[d]
                  ELSE IF parent[d] = InitProcess THEN "gone" ELSE "zombie"]

\* The host's process ends: init adopts its children and reaps the zombies.
HostExit(h) ==
  /\ parent' = [d \in Pids |-> IF parent[d] = h THEN InitProcess ELSE parent[d]]
  /\ proc' = [d \in Pids |-> IF parent[d] = h /\ proc[d] = "zombie" THEN "gone" ELSE proc[d]]

Forget(h) ==
  /\ Goto(h, "idle")
  /\ attempt' = [attempt EXCEPT ![h] = 1]
  /\ target' = [target EXCEPT ![h] = NoPid]

\* The call ends with a result or an error.
Return(h) ==
  /\ Forget(h)
  /\ IF h \in Embedded THEN UNCHANGED <<proc, parent>> ELSE HostExit(h)

\* waitpid(pid, WNOHANG): only the parent's call has an effect.
Reaped(h, d) ==
  IF d # NoPid /\ parent[d] = h /\ proc[d] = "zombie"
  THEN [proc EXCEPT ![d] = "gone"] ELSE proc

-----------------------------------------------------------------------------
(* start_daemon                                                            *)

StartCall(h) ==
  /\ At(h, "idle") /\ h \in Starters
  /\ Goto(h, "acquire")
  /\ UNCHANGED <<lock, recorded, proc, parent, copy, attempt, target>>

\* Mutant: a start goes ahead without creating the lock file.
CreateLock_Skipped(h) ==
  /\ At(h, "acquire")
  /\ Goto(h, "check") /\ UNCHANGED lock
  /\ UNCHANGED <<recorded, proc, parent, copy, attempt, target>>

\* os.open(lock_path, O_CREAT | O_EXCL)
CreateLock(h) ==
  /\ At(h, "acquire")
  /\ IF lock = "absent"
       THEN lock' = "fresh" /\ Goto(h, "check")
       ELSE Goto(h, "stat") /\ UNCHANGED lock
  /\ UNCHANGED <<recorded, proc, parent, copy, attempt, target>>

\* Mutant: a lock left by a crashed start is never recovered.
StatLock_NoSteal(h) ==
  /\ At(h, "stat")
  /\ IF lock = "absent" /\ attempt[h] = 1
       THEN /\ Goto(h, "acquire")
            /\ attempt' = [attempt EXCEPT ![h] = 2]
            /\ UNCHANGED <<proc, parent, target>>
       ELSE Return(h)
  /\ UNCHANGED <<lock, recorded, copy>>

\* The lock exists: look at its age.  It may have vanished meanwhile.
StatLock(h) ==
  /\ At(h, "stat")
  /\ \/ /\ lock = "absent" /\ attempt[h] = 1
        /\ Goto(h, "acquire")
        /\ attempt' = [attempt EXCEPT ![h] = 2]
        /\ UNCHANGED <<proc, parent, target>>
     \/ /\ lock = "old" /\ attempt[h] = 1
        /\ Goto(h, "steal")
        /\ UNCHANGED <<proc, parent, attempt, target>>
     \/ /\ lock = "fresh" \/ attempt[h] = 2
        /\ Return(h)
  /\ UNCHANGED <<lock, recorded, copy>>

\* unlink(missing_ok=True): whatever lock is there now.
StealLock(h) ==
  /\ At(h, "steal")
  /\ lock' = "absent"
  /\ Goto(h, "acquire")
  /\ attempt' = [attempt EXCEPT ![h] = 2]
  /\ UNCHANGED <<recorded, proc, parent, copy, target>>

LoadExisting(h) ==
  /\ At(h, "check")
  /\ target' = [target EXCEPT ![h] = recorded]
  /\ Goto(h, "probe")
  /\ UNCHANGED <<lock, recorded, proc, parent, copy, attempt>>

\* Mutant: a crashed child of this process is not reaped before the probe.
ProbeExisting_NoReap(h) ==
  /\ At(h, "probe")
  /\ IF IsPidAlive(target[h]) THEN Goto(h, "refuse") ELSE Goto(h, "spawn")
  /\ UNCHANGED <<lock, recorded, proc, parent, copy, attempt, target>>

\* Mutant: the recorded pid is trusted to be dead.
ProbeExisting_Unprobed(h) ==
  /\ At(h, "probe")
  /\ Goto(h, "spawn")
  /\ UNCHANGED <<lock, recorded, proc, parent, copy, attempt, target>>

\* Reap the recorded pid if it is our own zombie, then probe it.
ProbeExisting(h) ==
  LET d == target[h]
  IN  /\ At(h, "probe")
      /\ proc' = Reaped(h, d)
      /\ IF d # NoPid /\ proc'[d] # "gone" THEN Goto(h, "refuse") ELSE Goto(h, "spawn")
      /\ UNCHANGED <<lock, recorded, parent, copy, attempt, target>>

\* Pids nothing refers to any more.
Recyclable ==
  {d \in Pids : /\ proc[d] = "gone" /\ d # recorded
                /\ \A h \in Hosts : target[h] # d
                /\ \A e \in Pids : copy[e] # d}

\* Popen with start_new_session: the daemon boots on its own.
Spawn(h) ==
  /\ At(h, "spawn")
  /\ \E d \in Recyclable :
       /\ proc' = [proc EXCEPT ![d] = "booting"]
       /\ parent' = [parent EXCEPT ![d] = h]
       /\ target' = [target EXCEPT ![h] = d]
  /\ Goto(h, "release")
  /\ UNCHANGED <<lock, recorded, copy, attempt>>

\* The `finally` of the locked part: after the spawn, or to refuse.
ReleaseLock(h) ==
  /\ lock' = "absent"
  /\ \/ /\ At(h, "release")
        /\ Goto(h, "await")
        /\ UNCHANGED <<proc, parent, attempt, target>>
     \/ At(h, "refuse") /\ Return(h)
  /\ UNCHANGED <<recorded, copy>>

\* Poll until the child has persisted its state, has died, or time is up;
\* a child that is only slow keeps running.
AwaitReady(h) ==
  LET d == target[h]
  IN  /\ At(h, "await")
      /\ \/ recorded = d /\ Return(h)
         \/ /\ recorded # d /\ proc[d] \in {"zombie", "gone"}
            /\ Forget(h)
            /\ proc' = Reaped(h, d) /\ UNCHANGED parent
         \/ /\ recorded # d /\ proc[d] \in Serving /\ "timeout" \in Faults
            /\ Return(h)
      /\ UNCHANGED <<lock, recorded, copy>>

-----------------------------------------------------------------------------
(* stop_daemon                                                             *)

\* Without a live recorded pid the answer is False.
StopCall(h) ==
  /\ At(h, "idle")
  /\ IF IsPidAlive(recorded)
       THEN /\ target' = [target EXCEPT ![h] = recorded]
            /\ Goto(h, "signal") /\ UNCHANGED <<proc, parent, attempt>>
       ELSE Return(h)
  /\ UNCHANGED <<lock, recorded, copy>>

\* SIGTERM: it kills a daemon without handlers, sets the stop event of one
\* that has them, and raises ProcessLookupError when the pid is gone.
Signal(h) ==
  LET d == target[h]
  IN  /\ At(h, "signal")
      /\ \/ proc[d] = "gone" /\ Return(h)
         \/ /\ proc[d] # "gone"
            /\ proc' = IF proc[d] \in {"booting", "deaf"} THEN AfterExit({d})
                       ELSE IF proc[d] = "running" THEN [proc EXCEPT ![d] = "stopping"]
                       ELSE proc
            /\ Goto(h, "drain") /\ UNCHANGED <<parent, attempt, target>>
      /\ UNCHANGED <<lock, recorded, copy>>

\* Mutant: the poll does not reap a child of this process.
AwaitStopped_NoReap(h) ==
  /\ At(h, "drain")
  /\ IF proc[target[h]] = "gone"
       THEN Return(h)
       ELSE UNCHANGED <<proc, parent, hostVars>>
  /\ UNCHANGED <<lock, recorded, copy>>

\* Poll: reap, probe, answer True when the pid is dead, or give up.
AwaitStopped(h) ==
  LET d == target[h]
  IN  /\ At(h, "drain")
      /\ \/ /\ Reaped(h, d) # proc
            /\ proc' = Reaped(h, d)
            /\ UNCHANGED <<parent, hostVars>>
         \/ proc[d] = "gone" /\ Return(h)
         \/ proc[d] # "gone" /\ "timeout" \in Faults /\ Return(h)
      /\ UNCHANGED <<lock, recorded, copy>>

-----------------------------------------------------------------------------
(* add_alert from another process: load the state, write it back           *)

AlertLoad(h) ==
  /\ At(h, "idle") /\ h \in Writers /\ recorded # NoPid
  /\ target' = [target EXCEPT ![h] = recorded]
  /\ Goto(h, "alert")
  /\ UNCHANGED <<lock, recorded, proc, parent, copy, attempt>>

AlertSave(h) ==
  /\ At(h, "alert")
  /\ recorded' = target[h]
  /\ Return(h)
  /\ UNCHANGED <<lock, copy>>

\* A host dies in the middle of a call; a lock it holds stays.
HostCrash(h) ==
  /\ "host" \in Faults
  /\ ~At(h, "idle")
  /\ Forget(h)
  /\ HostExit(h)
  /\ UNCHANGED <<lock, recorded, copy>>

-----------------------------------------------------------------------------
(* The daemon                                                              *)

\* Mutant: the daemon loads the state it finds and keeps its pid.
Boot_KeepsState(d) ==
  /\ proc[d] = "booting"
  /\ recorded' = IF recorded = NoPid THEN d ELSE recorded
  /\ proc' = [proc EXCEPT ![d] = "deaf"]
  /\ UNCHANGED <<lock, parent, copy, hostVars>>

\* main(): a fresh DaemonState replaces whatever is on disk.
Boot(d) ==
  /\ proc[d] = "booting"
  /\ recorded' = d
  /\ proc' = [proc EXCEPT ![d] = "deaf"]
  /\ UNCHANGED <<lock, parent, copy, hostVars>>

InstallHandlers(d) ==
  /\ proc[d] = "deaf"
  /\ proc' = [proc EXCEPT ![d] = "running"]
  /\ UNCHANGED <<lock, recorded, parent, copy, hostVars>>

\* The heartbeat, record_task_run and the final heartbeat load the state and
\* write all of it back.
LoadState(d) ==
  /\ proc[d] \in {"running", "stopping"} /\ copy[d] = NoPid /\ recorded # NoPid
  /\ copy' = [copy EXCEPT ![d] = recorded]
  /\ UNCHANGED <<lock, recorded, proc, parent, hostVars>>

SaveState(d) ==
  /\ proc[d] \in {"running", "stopping"} /\ copy[d] # NoPid
  /\ recorded' = copy[d]
  /\ copy' = [copy EXCEPT ![d] = NoPid]
  /\ UNCHANGED <<lock, proc, parent, hostVars>>

\* Mutant: the daemon reports its end in its process entry.
Stop_Unreaped(d) ==
  /\ proc[d] = "stopping" /\ copy[d] = NoPid
  /\ proc' = [proc EXCEPT ![d] = "stopped"]
  /\ UNCHANGED <<lock, recorded, parent, copy, hostVars>>

\* run_forever returns once the stop event is set and no task is running.
Stop(d) ==
  /\ proc[d] = "stopping" /\ copy[d] = NoPid
  /\ proc' = AfterExit({d})
  /\ UNCHANGED <<lock, recorded, parent, copy, hostVars>>

DaemonCrash(d) ==
  /\ \/ "boot" \in Faults /\ proc[d] = "booting"
     \/ "daemon" \in Faults /\ proc[d] \in {"deaf", "running", "stopping"}
  /\ proc' = AfterExit({d})
  /\ copy' = [copy EXCEPT ![d] = NoPid]
  /\ UNCHANGED <<lock, recorded, parent, hostVars>>

\* Time passes.
LockAges ==
  /\ "age" \in Faults
  /\ lock = "fresh"
  /\ lock' = "old"
  /\ UNCHANGED <<recorded, proc, parent, copy, hostVars>>

-----------------------------------------------------------------------------
StartStep(h) ==
  \/ CreateLock(h) \/ StatLock(h) \/ StealLock(h) \/ LoadExisting(h)
  \/ ProbeExisting(h) \/ Spawn(h) \/ ReleaseLock(h) \/ AwaitReady(h)

StopStep(h) == Signal(h) \/ AwaitStopped(h)

DaemonStep(d) == Boot(d) \/ InstallHandlers(d) \/ SaveState(d) \/ Stop(d)

Next ==
  \/ \E h \in Hosts : \/ StartCall(h) \/ StartStep(h)
                      \/ StopCall(h) \/ StopStep(h)
                      \/ AlertLoad(h) \/ AlertSave(h)
                      \/ HostCrash(h)
  \/ \E d \in Pids : DaemonStep(d) \/ LoadState(d) \/ DaemonCrash(d)
  \/ LockAges

Spec == Init /\ [][Next]_vars

\* The operating system runs every process: each step a process has begun to
\* make is eventually made.  A daemon runs each task at most once between two
\* looks at the stop event, and tasks end, so it eventually stops (strong
\* fairness: between two looks it may write its state).  Nobody has to call
\* anything, and nothing has to fail.
Fairness ==
  /\ \A h \in Hosts : WF_vars(StartStep(h)) /\ WF_vars(StopStep(h)) /\ WF_vars(AlertSave(h))
  /\ \A d \in Pids : WF_vars(Boot(d)) /\ WF_vars(InstallHandlers(d))
                     /\ WF_vars(SaveState(d)) /\ SF_vars(Stop(d))

FairSpec == Spec /\ Fairness

-----------------------------------------------------------------------------
(* Types                                                                   *)

HostLabels ==
  {"idle", "acquire", "stat", "steal", "check", "probe", "refuse", "spawn",
   "release", "await", "signal", "drain", "alert"}

TypeOK ==
  /\ lock \in {"absent", "fresh", "old"}
  /\ recorded \in Pids \union {NoPid}
  /\ proc \in [Pids -> Serving \union {"zombie", "gone"}]
  /\ parent \in [Pids -> Hosts \union {InitProcess}]
  /\ copy \in [Pids -> Pids \union {NoPid}]
  /\ hpc \in [Hosts -> HostLabels]
  /\ attempt \in [Hosts -> {1, 2}]
  /\ target \in [Hosts -> Pids \union {NoPid}]

-----------------------------------------------------------------------------
(* Safety                                                                  *)

\* At most one daemon serves the project, whether or not it is recorded yet.
OneDaemon == Cardinality({d \in Pids : proc[d] \in Serving}) <= 1

\* A daemon that has booted is the one state.json names, so `forge daemon
\* stop` and `forge daemon status` reach it, whatever a task wrote back.
ServingIsRecorded == \A d \in Pids : proc[d] \in Serving \ {"booting"} => recorded = d

Locked(h) == hpc[h] \in {"check", "probe", "refuse", "spawn", "release"}

\* Two starts are never both between creating the lock and removing it.
StartsAreExclusive == \A g, h \in Hosts : Locked(g) /\ Locked(h) => g = h

-----------------------------------------------------------------------------
(* Action properties                                                       *)

\* A start is refused only because a daemon serves, or because another start
\* holds the lock: the corpse of a crashed one does not brick the restart.
RefusalIsJustified ==
  [][\A h \in Hosts :
       At(h, "probe") /\ hpc'[h] = "refuse" => \E d \in Pids : proc[d] \in Serving]_vars

-----------------------------------------------------------------------------
(* Liveness                                                                *)

\* Every stop that has signalled a daemon sees it end, a zombie included when
\* the stopping process is its parent.  (A zombie of another live process
\* looks alive to a stop that is not its parent, and outlasts its timeout.)
StopSucceeds ==
  \A h \in Hosts :
    At(h, "drain") /\ parent[target[h]] \in {h, InitProcess} ~> At(h, "idle")

\* A start that finds the lock a killed start left behind, and that lock is
\* old, gets in.
OldLockIsRecovered ==
  \A h \in Hosts : (At(h, "acquire") /\ attempt[h] = 1 /\ lock = "old") ~> At(h, "check")
=============================================================================
