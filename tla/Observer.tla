------------------------------ MODULE Observer ------------------------------
(***************************************************************************)
(* `observer/monitor.py`: agents are probed and restarted once when they   *)
(* do not answer, and uptime and restarts are folded into metrics.json.    *)
(*                                                                         *)
(* An ObserverMonitor keeps what it has seen since the last collection in  *)
(* memory.  The daemon has one for as long as it runs; ObserverUseCases    *)
(* builds another one for a manual run, which only collects.  Both load    *)
(* the whole metrics file and write it back.  The set of installed agents  *)
(* is fixed; the alerts the probes raise are those of module Alerts.       *)
(***************************************************************************)
EXTENDS Naturals, FiniteSets

CONSTANTS
  Agents,       \* agents that may be installed
  Manual,       \* whether manual collections are made
  WriteFails,   \* whether writing metrics.json may fail
  Restarts,     \* whether the daemon may restart
  MaxRestarts,  \* bound on restart attempts per agent
  MaxTime       \* bound on the clock

ObserverAssumption == MaxRestarts \in Nat /\ MaxTime \in Nat \ {0}

Monitors == {"daemon"} \union (IF Manual THEN {"manual"} ELSE {})

NoTime == 0  \* collected_at is null; the clock starts at 1

VARIABLES
  clock,
  up,         \* agents that answer a probe
  attempts,   \* restart attempts really made on each agent
  counts,     \* _restart_counts of each monitor
  unhealthy,  \* _unhealthy_agents of each monitor
  metrics,    \* metrics.json
  copy,       \* the metrics a monitor loaded and accrues into
  pc          \* "idle" or "write", per monitor

vars == <<clock, up, attempts, counts, unhealthy, metrics, copy, pc>>

Zero == [a \in Agents |-> 0]

NoMetrics == [collected |-> NoTime, uptime |-> Zero, restarts |-> Zero]

Init ==
  /\ clock = 1
  /\ up = Agents
  /\ attempts = Zero
  /\ counts = [m \in Monitors |-> Zero]
  /\ unhealthy = [m \in Monitors |-> {}]
  /\ metrics = NoMetrics
  /\ copy = [m \in Monitors |-> NoMetrics]
  /\ pc = [m \in Monitors |-> "idle"]

\* restart_unhealthy_agents, in the daemon: an agent that does not answer is
\* started once more; afterwards only those that still do not answer are
\* marked.
ProbeAgents ==
  /\ pc["daemon"] = "idle"
  /\ \E recovered \in SUBSET (Agents \ up) :
       LET failed == Agents \ (up \union recovered)
       IN  /\ \A a \in Agents \ up : attempts[a] < MaxRestarts
           /\ attempts' = [a \in Agents |-> IF a \in up THEN attempts[a] ELSE attempts[a] + 1]
           /\ counts' = [counts EXCEPT !["daemon"] =
                          [a \in Agents |-> IF a \in up THEN @[a] ELSE @[a] + 1]]
           /\ up' = up \union recovered
           /\ unhealthy' = [unhealthy EXCEPT !["daemon"] = failed]
  /\ UNCHANGED <<clock, metrics, copy, pc>>

Elapsed == IF metrics.collected = NoTime THEN 0 ELSE clock - metrics.collected

\* Mutant: the pending counts are kept after they were folded in.
Collect_KeepsCounts(m) ==
  /\ pc[m] = "idle"
  /\ copy' = [copy EXCEPT ![m] =
               [collected |-> clock,
                uptime   |-> [a \in Agents |-> metrics.uptime[a] +
                                (IF a \in unhealthy[m] THEN 0 ELSE Elapsed)],
                restarts |-> [a \in Agents |-> metrics.restarts[a] + counts[m][a]]]]
  /\ pc' = [pc EXCEPT ![m] = "write"]
  /\ UNCHANGED <<clock, up, attempts, counts, unhealthy, metrics>>

\* collect_metrics up to the write: the pending counts are popped here.
Collect(m) ==
  /\ pc[m] = "idle"
  /\ copy' = [copy EXCEPT ![m] =
               [collected |-> clock,
                uptime   |-> [a \in Agents |-> metrics.uptime[a] +
                                (IF a \in unhealthy[m] THEN 0 ELSE Elapsed)],
                restarts |-> [a \in Agents |-> metrics.restarts[a] + counts[m][a]]]]
  /\ counts' = [counts EXCEPT ![m] = Zero]
  /\ pc' = [pc EXCEPT ![m] = "write"]
  /\ UNCHANGED <<clock, up, attempts, unhealthy, metrics>>

\* The atomic replace; a failed one raises out of the task.  A manual run
\* ends here, with its monitor.
WriteMetrics(m) ==
  /\ pc[m] = "write"
  /\ \/ metrics' = copy[m]
     \/ WriteFails /\ UNCHANGED metrics
  /\ pc' = [pc EXCEPT ![m] = "idle"]
  /\ copy' = [copy EXCEPT ![m] = NoMetrics]
  /\ UNCHANGED <<clock, up, attempts, counts, unhealthy>>

\* An agent stops answering, or answers again.
AgentChanges ==
  /\ \E a \in Agents : up' = IF a \in up THEN up \ {a} ELSE up \union {a}
  /\ UNCHANGED <<clock, attempts, counts, unhealthy, metrics, copy, pc>>

Tick ==
  /\ clock < MaxTime
  /\ clock' = clock + 1
  /\ UNCHANGED <<up, attempts, counts, unhealthy, metrics, copy, pc>>

\* The daemon is stopped and started: its monitor's memory is lost.
RestartDaemon ==
  /\ Restarts
  /\ counts' = [counts EXCEPT !["daemon"] = Zero]
  /\ unhealthy' = [unhealthy EXCEPT !["daemon"] = {}]
  /\ copy' = [copy EXCEPT !["daemon"] = NoMetrics]
  /\ pc' = [pc EXCEPT !["daemon"] = "idle"]
  /\ UNCHANGED <<clock, up, attempts, metrics>>

Next ==
  \/ ProbeAgents
  \/ \E m \in Monitors : Collect(m) \/ WriteMetrics(m)
  \/ AgentChanges \/ Tick \/ RestartDaemon

Spec == Init /\ [][Next]_vars

-----------------------------------------------------------------------------
\* Metrics are numbers within the model's bounds.
TypeOK ==
  /\ clock \in 1..MaxTime
  /\ up \subseteq Agents
  /\ attempts \in [Agents -> 0..MaxRestarts]
  /\ counts \in [Monitors -> [Agents -> 0..MaxRestarts]]
  /\ unhealthy \in [Monitors -> SUBSET Agents]
  /\ metrics.collected \in 0..MaxTime
  /\ pc \in [Monitors -> {"idle", "write"}]

\* A step that loses pending restarts: a write fails, the daemon stops with
\* counts it has not written, or two collections overlap.
Loses ==
  \/ \E m \in Monitors : pc[m] = "write" /\ pc'[m] = "idle" /\ metrics' # copy[m]
  \/ counts["daemon"] # Zero /\ counts'["daemon"] = Zero /\ pc'["daemon"] = "idle"
  \/ pc'["daemon"] = "write" /\ \E m \in Monitors \ {"daemon"} : pc'[m] = "write"

\* "restart attempts recorded since the previous collection are folded into
\* the persisted totals": every attempt made is in metrics.json, in the write
\* under way, or still pending.
RestartsAreCounted ==
  \A a \in Agents :
    attempts[a] = counts["daemon"][a] +
      (IF pc["daemon"] = "write" THEN copy["daemon"].restarts[a] ELSE metrics.restarts[a])

\* No restart is ever counted twice, whoever collects and whatever fails.
RestartsAreNotInvented == \A a \in Agents : metrics.restarts[a] <= attempts[a]

\* The uptime of an agent never exceeds the time metrics were collected over,
\* even when two collections overlap.
UptimeIsBounded ==
  metrics.collected # NoTime => \A a \in Agents : metrics.uptime[a] <= metrics.collected - 1
=============================================================================
