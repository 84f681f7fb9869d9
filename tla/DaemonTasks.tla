---------------------------- MODULE DaemonTasks ----------------------------
(***************************************************************************)
(* The daemon's scheduler, its alert writers and its observer.  They share *)
(* no variable here, so a behaviour looks at one of them: `lens` says      *)
(* which.  `lossy` remembers that the observer lost pending restarts.      *)
(***************************************************************************)
EXTENDS Scheduler

CONSTANTS
  K, Levels, Cap, HasCap,                                   \* Alerts
  Agents, Manual, WriteFails, Restarts, MaxRestarts, MaxTime  \* Observer

VARIABLES
  lens, lossy,
  alerts, level, spend, why, after,
  clock, up, attempts, counts, unhealthy, metrics, copy, pc

Alerts == INSTANCE Alerts

Obs == INSTANCE Observer

ASSUME AlertsAssumption == Alerts!AlertsAssumption
ASSUME ObserverAssumption == Obs!ObserverAssumption

alertVars == <<alerts, level, spend, why, after>>
obsVars == <<clock, up, attempts, counts, unhealthy, metrics, copy, pc>>

TasksInit ==
  /\ Init /\ Alerts!Init /\ Obs!Init /\ lossy = FALSE
  /\ \/ lens = "alerts"
     \/ lens \in {"scheduler", "observer"} /\ spend = "under" /\ level = [c \in Alerts!Checkers |-> 0]

TasksNext ==
  /\ UNCHANGED lens
  /\ \/ lens = "scheduler" /\ Next /\ UNCHANGED <<lossy, alertVars, obsVars>>
     \/ lens = "alerts" /\ Alerts!Next /\ UNCHANGED <<lossy, vars, obsVars>>
     \/ lens = "observer" /\ Obs!Next /\ lossy' = (lossy \/ Obs!Loses) /\ UNCHANGED <<vars, alertVars>>

\* The scheduler's fairness is owed where it is looked at.
TasksSpec ==
  /\ TasksInit /\ [][TasksNext]_<<lens, lossy, vars, alertVars, obsVars>>
  /\ WF_vars(lens = "scheduler" /\ Loop)

-----------------------------------------------------------------------------
\* The counters, the alert list and the metrics stay within their bounds.
TypesOK == TypeOK /\ Alerts!TypeOK /\ Obs!TypeOK

\* A throttle's reason, once stored, stays at its place until Cap more alerts are.
ThrottleIsExplained == Alerts!ThrottleIsExplained

\* The observer counts every restart attempt once, as long as no step lost any,
\* never one that was not made, and no uptime beyond the time that has passed.
RestartsAreCounted ==
  /\ ~lossy => Obs!RestartsAreCounted
  /\ Obs!RestartsAreNotInvented
  /\ Obs!UptimeIsBounded

\* Looked at, the scheduler starves no task while it runs.
EveryTaskRuns == lens = "scheduler" => EveryTaskRunsAgain
=============================================================================
