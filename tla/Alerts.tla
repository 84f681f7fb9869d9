------------------------------- MODULE Alerts -------------------------------
(***************************************************************************)
(* The alert list of the daemon's state.json and who writes to it: the     *)
(* health monitor, which sweeps its checkers in order, and the cost        *)
(* throttle, which wraps the Dreamer's tasks.  The list is capped and      *)
(* consecutive duplicates are suppressed (`DaemonStateStore.add_alert`).   *)
(* A checker's message is a level: 0 is healthy, two unhealthy levels have *)
(* different texts.  All tasks run in the daemon's one thread.             *)
(***************************************************************************)
EXTENDS Naturals, Sequences, SequencesExt

CONSTANTS
  K,        \* number of checkers, swept in the order 1..K
  Levels,   \* messages a checker may have, 0 for healthy
  Cap,      \* MAX_ALERTS
  HasCap    \* whether a cost cap is configured

AlertsAssumption ==
  /\ K \in Nat /\ Cap \in Nat \ {0} /\ K <= Cap
  /\ 0 \in Levels /\ Levels \subseteq Nat
  /\ HasCap \in BOOLEAN

Checkers == 1..K

Throttle == 0  \* the alert source of the cost throttle

\* under: below THROTTLE_RATIO of the cap; unreadable: events.db is corrupt
Spends == {"under", "over", "unreadable"}

\* `why` and `after` record the past: the reason of the last throttle alert that
\* was stored since the boot, and how many alerts were stored after it (up to Cap).
VARIABLES
  alerts,  \* state.alerts
  level,   \* what each checker would report now
  spend,   \* what the cost aggregator would report now
  why, after

vars == <<alerts, level, spend, why, after>>

Alert(source, message) == [source |-> source, message |-> message]

\* Mutant: when the cap is reached new alerts are dropped instead of old ones.
AddAlert_KeepsOldest(list, alert) ==
  IF list # <<>> /\ Last(list) = alert THEN list
  ELSE SubSeq(Append(list, alert), 1, IF Len(list) < Cap THEN Len(list) + 1 ELSE Cap)

\* The list only grows by one, so at most one alert is dropped.
AddAlert(list, alert) ==
  IF list # <<>> /\ Last(list) = alert THEN list
  ELSE LET combined == Append(list, alert)
       IN  SubSeq(combined, IF Len(combined) > Cap THEN 2 ELSE 1, Len(combined))

Later(n) == IF n < Cap THEN n + 1 ELSE Cap

Init ==
  /\ alerts = <<>>
  /\ level \in [Checkers -> Levels]
  /\ spend \in Spends
  /\ why = "none" /\ after = 0

\* HealthMonitor.check: one alert per unhealthy checker, in order.  A checker is
\* silent when it crashes, and when its alert cannot be stored: the state file
\* is missing, corrupt or not writable, which only drops that alert.
HealthSweep ==
  \E silent \in SUBSET Checkers :
    LET Sweep[c \in 0..K] ==
          IF c = 0 THEN [list |-> alerts, after |-> after]
          ELSE IF c \in silent \/ level[c] = 0 THEN Sweep[c - 1]
          ELSE [list |-> AddAlert(Sweep[c - 1].list, Alert(c, level[c])), after |-> Later(Sweep[c - 1].after)]
    IN  alerts' = Sweep[K].list /\ after' = Sweep[K].after /\ UNCHANGED <<level, spend, why>>

\* CostThrottle.evaluate: unknown spend under a cap throttles.
Throttled == HasCap /\ spend # "under"

\* throttle_gate: a throttled task leaves one alert per reason instead of doing
\* its work, which stores nothing here.
GatedTask ==
  /\ Throttled
  /\ alerts' = AddAlert(alerts, Alert(Throttle, spend))
  /\ why' = spend /\ after' = 0
  /\ UNCHANGED <<level, spend>>

\* _record_throttle_alert: the alert that cannot be stored is dropped with a
\* log line, and the task stays throttled.
DroppedAlert == Throttled /\ UNCHANGED vars

\* The project and its event store change.
Change ==
  /\ level' \in [Checkers -> Levels]
  /\ spend' \in Spends
  /\ UNCHANGED <<alerts, why, after>>

\* The daemon's next boot writes a fresh state.
Restart == alerts' = <<>> /\ why' = "none" /\ after' = 0 /\ UNCHANGED <<level, spend>>

Next == HealthSweep \/ GatedTask \/ DroppedAlert \/ Change \/ Restart

Spec == Init /\ [][Next]_vars

-----------------------------------------------------------------------------
AlertValues ==
  {Alert(c, l) : c \in Checkers, l \in Levels \ {0}} \union {Alert(Throttle, s) : s \in Spends \ {"under"}}

\* The list never outgrows its cap and a healthy checker never alerts.
TypeOK ==
  /\ Len(alerts) <= Cap
  /\ \A i \in DOMAIN alerts : alerts[i] \in AlertValues
  /\ level \in [Checkers -> Levels]
  /\ spend \in Spends
  /\ why \in (Spends \ {"under"}) \union {"none"}
  /\ after \in 0..Cap

\* The alert is among the last 1 + n of the list.
Held(list, n, alert) == \E i \in DOMAIN list : i >= Len(list) - n /\ list[i] = alert

\* A throttle alert that was stored explains the throttle with its own reason,
\* at its place in the list, until Cap more alerts were stored: neither the
\* suppression of duplicates nor the cap loses it before.  A throttle whose alert
\* could not be stored leaves no trace here, as `best-effort` says.
ThrottleIsExplained ==
  why # "none" /\ after < Cap => Held(alerts, after, Alert(Throttle, why))
=============================================================================
