-------------------------- MODULE DaemonTasks_proofs --------------------------
(***************************************************************************)
(* What the daemon's three tasks guarantee for any tasks, intervals, run   *)
(* times and sleeps, any number of checkers, any cap on the alert list,    *)
(* and any agents that are probed and collected by two monitors.           *)
(***************************************************************************)
EXTENDS DaemonTasks, TLAPS, SequenceTheorems, WellFoundedInduction

-----------------------------------------------------------------------------
(* The scheduler                                                           *)

\* Whatever time has passed since the pass that ran a task, and whatever is
\* left until it is due, together make at least its interval.
Timing ==
  /\ wait \in [Tasks -> Nat]
  /\ since \in [Tasks -> Nat]
  /\ late \in Nat
  /\ \A t \in Tasks : wait[t] + since[t] >= Interval[t] /\ since[t] <= Interval[t]

TimeInv ==
  /\ Timing
  /\ pending \subseteq Tasks
  /\ NoEarlyPass

\* Time that passes takes from one what it gives to the other, up to the cap.
LEMMA ElapseTiming ==
  ASSUME Timing, NEW d \in Nat, Elapse(d)
  PROVE  Timing' /\ \A t \in Tasks : since[t] = Interval[t] => since'[t] = Interval[t]
<1>1. late' \in Nat
  BY ConstantsAssumption DEF Elapse, Timing, Capped
<1>2. ASSUME NEW t \in Tasks
      PROVE  /\ wait'[t] \in Nat /\ since'[t] \in Nat
             /\ wait'[t] + since'[t] >= Interval[t] /\ since'[t] <= Interval[t]
             /\ since[t] = Interval[t] => since'[t] = Interval[t]
  <2>1. wait[t] \in Nat /\ since[t] \in Nat /\ Interval[t] \in Nat
    BY ConstantsAssumption DEF Timing
  <2>2. /\ wait'[t] = IF wait[t] > d THEN wait[t] - d ELSE 0
        /\ since'[t] = Capped(since[t] + d, Interval[t])
    BY DEF Elapse
  <2> QED
    BY <2>1, <2>2 DEF Capped, Timing
<1>3. wait' = [t \in Tasks |-> wait'[t]] /\ since' = [t \in Tasks |-> since'[t]]
  BY DEF Elapse
<1> QED
  BY <1>1, <1>2, <1>3 DEF Timing

LEMMA TimeInit == Init => TimeInv
<1>1. \A t \in Tasks : Interval[t] \in Nat
  BY ConstantsAssumption
<1> QED
  BY <1>1, ConstantsAssumption DEF Init, TimeInv, Timing, NoEarlyPass

LEMMA TimeNext == TimeInv /\ [Next]_vars => TimeInv'
<1> SUFFICES ASSUME TimeInv, [Next]_vars PROVE TimeInv'
  OBVIOUS
<1>1. CASE BeginPass
  <2>1. Timing'
    BY <1>1 DEF BeginPass, TimeInv, Timing
  <2>2. ASSUME NEW t \in Tasks, wait[t] = 0 PROVE since[t] = Interval[t]
    BY <2>2, ConstantsAssumption DEF TimeInv, Timing
  <2> QED
    BY <1>1, <2>1, <2>2 DEF BeginPass, TimeInv, NoEarlyPass
<1>2. ASSUME NEW t \in Tasks, RunTask(t) PROVE TimeInv'
  <2>1. late \in Nat /\ Interval[t] \in Nat
    BY ConstantsAssumption DEF TimeInv, Timing
  <2> DEFINE w == IF Interval[t] > late THEN Interval[t] - late ELSE 0
             s == Capped(late, Interval[t])
  <2>2. w \in Nat /\ s \in Nat /\ w + s >= Interval[t] /\ s <= Interval[t]
    BY <2>1 DEF Capped
  <2>3. wait' = [wait EXCEPT ![t] = w] /\ since' = [since EXCEPT ![t] = s] /\ late' = late
    BY <1>2 DEF RunTask
  <2> HIDE DEF w, s
  <2>4. Timing'
    BY <2>2, <2>3 DEF TimeInv, Timing
  <2>5. pending' = pending \ {t}
    BY <1>2 DEF RunTask
  <2> QED
    BY <2>3, <2>4, <2>5 DEF TimeInv, Timing, NoEarlyPass
<1>3. CASE FinishTask
  <2>1. PICK d \in Nat : Elapse(d)
    BY <1>3, ConstantsAssumption DEF FinishTask
  <2> QED
    BY <1>3, <2>1, ElapseTiming DEF FinishTask, TimeInv, NoEarlyPass
<1>4. CASE Sleep
  <2>1. PICK d \in Nat : Elapse(d)
    BY <1>4, ConstantsAssumption DEF Sleep
  <2> QED
    BY <1>4, <2>1, ElapseTiming DEF Sleep, TimeInv, NoEarlyPass
<1>5. CASE EndPass \/ LeaveLoop \/ RequestStop \/ UNCHANGED vars
  BY <1>5 DEF EndPass, LeaveLoop, RequestStop, vars, TimeInv, Timing, NoEarlyPass
<1> QED
  BY <1>1, <1>2, <1>3, <1>4, <1>5 DEF Next, Loop

\* No task runs before its interval has passed since the pass that ran it:
\* neither failures nor slow tasks nor clock jumps make it run early.
THEOREM TasksAreNotEarly == Spec => []NoEarlyPass
<1>1. TimeInv => NoEarlyPass
  BY DEF TimeInv
<1> QED
  BY <1>1, TimeInit, TimeNext, PTL DEF Spec

\* TypeOK is inductive together with the domains of the two counters.
TypeInv ==
  /\ TypeOK
  /\ wait \in [Tasks -> Nat] /\ since \in [Tasks -> Nat]

\* Counting down stays above zero, counting up below its cap.
LEMMA ElapseTypes ==
  ASSUME TypeInv, NEW d \in Nat, Elapse(d)
  PROVE  /\ wait' \in [Tasks -> Nat] /\ since' \in [Tasks -> Nat] /\ late' \in 0..Horizon
         /\ \A t \in Tasks : wait'[t] \in 0..Interval[t] /\ since'[t] \in 0..Interval[t]
<1>1. late' \in 0..Horizon
  BY ConstantsAssumption DEF Elapse, TypeInv, TypeOK, Capped
<1>2. ASSUME NEW t \in Tasks
      PROVE  wait'[t] \in 0..Interval[t] /\ since'[t] \in 0..Interval[t]
  <2>1. Interval[t] \in Nat /\ wait[t] \in 0..Interval[t] /\ since[t] \in 0..Interval[t]
    BY ConstantsAssumption DEF TypeInv, TypeOK
  <2>2. /\ wait'[t] = IF wait[t] > d THEN wait[t] - d ELSE 0
        /\ since'[t] = Capped(since[t] + d, Interval[t])
    BY DEF Elapse
  <2> QED
    BY <2>1, <2>2 DEF Capped
<1>3. wait' = [t \in Tasks |-> wait'[t]] /\ since' = [t \in Tasks |-> since'[t]]
  BY DEF Elapse
<1>4. \A t \in Tasks : Interval[t] \in Nat
  BY ConstantsAssumption
<1> QED
  BY <1>1, <1>2, <1>3, <1>4

LEMMA TypeInit == Init => TypeInv
<1>1. \A t \in Tasks : Interval[t] \in Nat
  BY ConstantsAssumption
<1>2. ASSUME Init PROVE wait \in [Tasks -> Nat] /\ since \in [Tasks -> Nat]
  BY <1>1, <1>2, ConstantsAssumption DEF Init
<1>3. ASSUME Init, NEW t \in Tasks
      PROVE  wait[t] \in 0..Interval[t] /\ since[t] \in 0..Interval[t]
  BY <1>1, <1>3 DEF Init
<1>4. ASSUME Init PROVE late \in 0..Horizon
  BY <1>4, ConstantsAssumption DEF Init
<1> QED
  BY <1>2, <1>3, <1>4 DEF Init, TypeInv, TypeOK

LEMMA TypeNext == TypeInv /\ [Next]_vars => TypeInv'
<1> SUFFICES ASSUME TypeInv, [Next]_vars PROVE TypeInv'
  OBVIOUS
<1>1. CASE BeginPass
  BY <1>1, ConstantsAssumption DEF BeginPass, TypeInv, TypeOK
<1>2. ASSUME NEW t \in Tasks, RunTask(t) PROVE TypeInv'
  <2>1. late \in Nat /\ Interval[t] \in Nat
    BY ConstantsAssumption DEF TypeInv, TypeOK
  <2> DEFINE w == IF Interval[t] > late THEN Interval[t] - late ELSE 0
             s == Capped(late, Interval[t])
  <2>2. w \in 0..Interval[t] /\ s \in 0..Interval[t] /\ w \in Nat /\ s \in Nat
    BY <2>1 DEF Capped
  <2>3. wait' = [wait EXCEPT ![t] = w] /\ since' = [since EXCEPT ![t] = s]
    BY <1>2 DEF RunTask
  <2>4. pending' = pending \ {t} /\ running' = t /\ UNCHANGED <<phase, stop, late>>
    BY <1>2 DEF RunTask
  <2> HIDE DEF w, s
  <2> QED
    BY <2>2, <2>3, <2>4 DEF TypeInv, TypeOK
<1>3. CASE FinishTask \/ Sleep
  <2>1. PICK d \in Nat : Elapse(d)
    BY <1>3, ConstantsAssumption DEF FinishTask, Sleep
  <2> QED
    BY <1>3, <2>1, ElapseTypes DEF FinishTask, Sleep, TypeInv, TypeOK
<1>4. CASE EndPass \/ LeaveLoop \/ RequestStop \/ UNCHANGED vars
  BY <1>4 DEF EndPass, LeaveLoop, RequestStop, vars, TypeInv, TypeOK
<1> QED
  BY <1>1, <1>2, <1>3, <1>4 DEF Next, Loop

\* The loop's counters stay between zero and their caps: no wait is negative
\* and none exceeds the task's interval, however late a pass runs.
THEOREM SchedulerTypeCorrect == Spec => []TypeOK
<1>1. TypeInv => TypeOK
  BY DEF TypeInv
<1> QED
  BY <1>1, TypeInit, TypeNext, PTL DEF Spec

-----------------------------------------------------------------------------
(* The observer                                                            *)

Figures == [collected : Nat, uptime : [Agents -> Nat], restarts : [Agents -> Nat]]

ObsTypes ==
  /\ clock \in 1..MaxTime
  /\ up \subseteq Agents
  /\ attempts \in [Agents -> 0..MaxRestarts]
  /\ counts \in [Obs!Monitors -> [Agents -> Nat]]
  /\ unhealthy \in [Obs!Monitors -> SUBSET Agents]
  /\ metrics \in Figures
  /\ copy \in [Obs!Monitors -> Figures]
  /\ pc \in [Obs!Monitors -> {"idle", "write"}]

\* Metrics that are on disk, or on their way there, claim no more uptime than
\* the time they were collected over, and no attempt that is still pending.
Plausible(f) ==
  /\ f.collected <= clock
  /\ \A a \in Agents :
       /\ f.uptime[a] <= (IF f.collected = 0 THEN 0 ELSE f.collected - 1)
       /\ f.restarts[a] + counts["daemon"][a] <= attempts[a]

ObsInv ==
  /\ ObsTypes
  /\ Plausible(metrics)
  /\ \A m \in Obs!Monitors : Plausible(copy[m])
  /\ \A m \in Obs!Monitors \ {"daemon"} : counts[m] = Obs!Zero

\* While nothing was lost only one monitor writes at a time, and a manual run
\* writes back the totals it has read.
Counted ==
  /\ \A m, n \in Obs!Monitors : pc[m] = "write" /\ pc[n] = "write" => m = n
  /\ \A m \in Obs!Monitors \ {"daemon"} :
       pc[m] = "write" => copy[m].restarts = metrics.restarts
  /\ Obs!RestartsAreCounted

CountInv == ~lossy => Counted

LEMMA DaemonMonitors == "daemon" \in Obs!Monitors
BY DEF Obs!Monitors

LEMMA ZeroType == Obs!Zero \in [Agents -> Nat] /\ \A a \in Agents : Obs!Zero[a] = 0
BY DEF Obs!Zero

LEMMA NoMetricsType ==
  /\ Obs!NoMetrics \in Figures
  /\ Obs!NoMetrics.collected = 0 /\ Obs!NoMetrics.uptime = Obs!Zero /\ Obs!NoMetrics.restarts = Obs!Zero
BY ZeroType DEF Obs!NoMetrics, Obs!NoTime, Figures

\* A monitor that holds nothing claims nothing.
LEMMA NothingPlausible ==
  ASSUME clock \in Nat, \A a \in Agents : counts["daemon"][a] \in Nat /\ counts["daemon"][a] <= attempts[a]
  PROVE  Plausible(Obs!NoMetrics)
BY ZeroType, NoMetricsType DEF Plausible

LEMMA ObsInit == Obs!Init => ObsInv /\ Counted
<1> SUFFICES ASSUME Obs!Init PROVE ObsInv /\ Counted
  OBVIOUS
<1>1. ObsTypes
  BY ObserverAssumption, ZeroType, NoMetricsType DEF Obs!ObserverAssumption, Obs!Init, ObsTypes
<1>2. counts["daemon"] = Obs!Zero /\ attempts = Obs!Zero /\ clock = 1
  BY DaemonMonitors DEF Obs!Init
<1>3. Plausible(Obs!NoMetrics)
  BY <1>2, ZeroType, NothingPlausible
<1>4. ObsInv
  BY <1>1, <1>3 DEF Obs!Init, ObsInv
<1>5. Obs!RestartsAreCounted
  BY <1>2, DaemonMonitors, NoMetricsType, ZeroType DEF Obs!RestartsAreCounted, Obs!Init
<1> QED
  BY <1>4, <1>5 DEF Counted, Obs!Init

\* Time that passes and attempts that are made keep what was collected plausible.
LEMMA StaysPlausible ==
  ASSUME ObsTypes, NEW f \in Figures, Plausible(f), clock' \in Nat, clock <= clock',
         \A a \in Agents :
           /\ attempts'[a] \in Nat /\ counts'["daemon"][a] \in Nat
           /\ counts'["daemon"][a] - counts["daemon"][a] <= attempts'[a] - attempts[a]
  PROVE  Plausible(f)'
<1>1. \A a \in Agents : attempts[a] \in Nat /\ counts["daemon"][a] \in Nat /\ f.restarts[a] \in Nat
  BY DaemonMonitors, ObserverAssumption DEF Obs!ObserverAssumption, ObsTypes, Figures
<1>2. clock \in Nat /\ f.collected \in Nat
  BY ObserverAssumption DEF Obs!ObserverAssumption, ObsTypes, Figures
<1>3. f.collected <= clock'
  BY <1>2 DEF Plausible
<1>4. ASSUME NEW a \in Agents PROVE f.restarts[a] + counts'["daemon"][a] <= attempts'[a]
  BY <1>1 DEF Plausible
<1> QED
  BY <1>3, <1>4 DEF Plausible

LEMMA ProbeKeeps == ASSUME ObsInv, Obs!ProbeAgents PROVE ObsInv' /\ (Counted => Counted')
<1>1. PICK recovered \in SUBSET (Agents \ up) :
        /\ \A a \in Agents \ up : attempts[a] < MaxRestarts
        /\ attempts' = [a \in Agents |-> IF a \in up THEN attempts[a] ELSE attempts[a] + 1]
        /\ counts' = [counts EXCEPT !["daemon"] =
                       [a \in Agents |-> IF a \in up THEN @[a] ELSE @[a] + 1]]
        /\ up' = up \union recovered
        /\ unhealthy' = [unhealthy EXCEPT !["daemon"] = Agents \ (up \union recovered)]
  BY DEF Obs!ProbeAgents
<1>2. ObsTypes /\ UNCHANGED <<clock, metrics, copy, pc>> /\ pc["daemon"] = "idle"
  BY DEF ObsInv, Obs!ProbeAgents
<1>3. ASSUME NEW a \in Agents
      PROVE  /\ attempts[a] \in 0..MaxRestarts /\ attempts'[a] \in 0..MaxRestarts
             /\ counts["daemon"][a] \in Nat /\ counts'["daemon"][a] \in Nat
             /\ attempts[a] \in Nat /\ attempts'[a] \in Nat
             /\ counts'["daemon"][a] - counts["daemon"][a] = attempts'[a] - attempts[a]
  BY <1>1, <1>2, DaemonMonitors, ObserverAssumption DEF ObsTypes, Obs!ObserverAssumption
<1>4. ObsTypes'
  <2>1. attempts' \in [Agents -> 0..MaxRestarts]
    BY <1>1, <1>3
  <2>2. [a \in Agents |-> IF a \in up THEN counts["daemon"][a] ELSE counts["daemon"][a] + 1] \in [Agents -> Nat]
    BY <1>2, DaemonMonitors DEF ObsTypes
  <2>3. counts' \in [Obs!Monitors -> [Agents -> Nat]]
    BY <1>1, <1>2, <2>2 DEF ObsTypes
  <2>4. up' \subseteq Agents /\ unhealthy' \in [Obs!Monitors -> SUBSET Agents]
    BY <1>1, <1>2 DEF ObsTypes
  <2> QED
    BY <1>2, <2>1, <2>3, <2>4 DEF ObsTypes
<1>5. ASSUME NEW f \in Figures, Plausible(f) PROVE Plausible(f)'
  <2>1. clock' \in Nat /\ clock <= clock'
    BY <1>2, ObserverAssumption DEF ObsTypes, Obs!ObserverAssumption
  <2> QED
    BY <1>2, <1>3, <1>5, <2>1, ObserverAssumption, StaysPlausible DEF Obs!ObserverAssumption
<1>6. Plausible(metrics)' /\ \A m \in Obs!Monitors : Plausible(copy[m])'
  <2>1. Plausible(metrics)'
    BY <1>2, <1>5 DEF ObsInv, ObsTypes, Plausible
  <2>2. ASSUME NEW m \in Obs!Monitors PROVE Plausible(copy[m])'
    <3>1. copy[m] \in Figures /\ Plausible(copy[m])
      BY <1>2 DEF ObsInv, ObsTypes
    <3>2. copy'[m] = copy[m]
      BY <1>2
    <3> QED
      BY <1>5, <3>1, <3>2 DEF Plausible
  <2> QED
    BY <2>1, <2>2
<1>7. \A m \in Obs!Monitors \ {"daemon"} : counts'[m] = Obs!Zero
  BY <1>1, <1>2 DEF ObsInv, ObsTypes
<1>8. ASSUME Counted PROVE Counted'
  <2>1. ASSUME NEW a \in Agents PROVE attempts'[a] = counts'["daemon"][a] + metrics.restarts[a]
    <3>1. attempts[a] = counts["daemon"][a] + metrics.restarts[a] /\ metrics.restarts[a] \in Nat
      BY <1>2, <1>8 DEF Counted, Obs!RestartsAreCounted, ObsTypes, Figures
    <3> QED
      BY <1>3, <3>1, ObserverAssumption DEF Obs!ObserverAssumption
  <2>2. Obs!RestartsAreCounted'
    BY <1>2, <2>1 DEF Obs!RestartsAreCounted
  <2> QED
    BY <1>2, <1>8, <2>2 DEF Counted
<1> QED
  BY <1>4, <1>6, <1>7, <1>8 DEF ObsInv, Obs!Zero

LEMMA CollectKeeps ==
  ASSUME ObsInv, NEW m \in Obs!Monitors, Obs!Collect(m)
  PROVE  ObsInv' /\ (Counted /\ ~Obs!Loses => Counted')
<1> DEFINE now == [collected |-> clock,
                   uptime   |-> [a \in Agents |-> metrics.uptime[a] +
                                   (IF a \in unhealthy[m] THEN 0 ELSE Obs!Elapsed)],
                   restarts |-> [a \in Agents |-> metrics.restarts[a] + counts[m][a]]]
<1>1. /\ copy' = [copy EXCEPT ![m] = now]
      /\ counts' = [counts EXCEPT ![m] = Obs!Zero]
      /\ pc' = [pc EXCEPT ![m] = "write"]
      /\ UNCHANGED <<clock, up, attempts, unhealthy, metrics>>
      /\ pc[m] = "idle"
  BY DEF Obs!Collect
<1>2. /\ ObsTypes /\ Plausible(metrics)
      /\ clock \in Nat \ {0} /\ metrics \in Figures
  BY ObserverAssumption DEF ObsInv, ObsTypes, Obs!ObserverAssumption
<1>3. Obs!Elapsed \in Nat /\ Obs!Elapsed = (IF metrics.collected = 0 THEN 0 ELSE clock - metrics.collected)
  BY <1>2 DEF Obs!Elapsed, Obs!NoTime, Plausible, Figures
<1>4. ASSUME NEW a \in Agents
      PROVE  /\ now.uptime[a] \in Nat /\ now.restarts[a] \in Nat
             /\ now.uptime[a] <= clock - 1
             /\ now.restarts[a] = metrics.restarts[a] + counts[m][a]
             /\ metrics.restarts[a] \in Nat /\ counts[m][a] \in Nat
             /\ counts["daemon"][a] \in Nat /\ attempts[a] \in Nat
  <2>1. /\ metrics.uptime[a] \in Nat /\ metrics.restarts[a] \in Nat /\ metrics.collected \in Nat
        /\ counts[m][a] \in Nat /\ counts["daemon"][a] \in Nat /\ attempts[a] \in Nat
    BY <1>2, DaemonMonitors, ObserverAssumption DEF ObsTypes, Figures, Obs!ObserverAssumption
  <2>2. metrics.uptime[a] <= (IF metrics.collected = 0 THEN 0 ELSE metrics.collected - 1)
        /\ metrics.collected <= clock
    BY <1>2 DEF Plausible
  <2>3. metrics.uptime[a] + Obs!Elapsed <= clock - 1
    BY <1>2, <1>3, <2>1, <2>2
  <2>4. now.uptime[a] = metrics.uptime[a] + (IF a \in unhealthy[m] THEN 0 ELSE Obs!Elapsed)
    OBVIOUS
  <2>5. now.uptime[a] \in Nat /\ now.uptime[a] <= clock - 1
    BY <1>2, <1>3, <2>1, <2>3, <2>4
  <2>6. now.restarts[a] = metrics.restarts[a] + counts[m][a]
    OBVIOUS
  <2> HIDE DEF now
  <2> QED
    BY <2>1, <2>5, <2>6
<1>5. now \in Figures
  BY <1>2, <1>4 DEF Figures
<1>6. PICK f \in Figures : f = now /\ f.collected = clock
  BY <1>5
<1> HIDE DEF now
<1>7. ObsTypes'
  <2>1. copy' \in [Obs!Monitors -> Figures]
    BY <1>1, <1>2, <1>5 DEF ObsTypes
  <2>2. counts' \in [Obs!Monitors -> [Agents -> Nat]]
    BY <1>1, <1>2, ZeroType DEF ObsTypes
  <2>3. pc' \in [Obs!Monitors -> {"idle", "write"}]
    BY <1>1, <1>2 DEF ObsTypes
  <2> QED
    BY <1>1, <1>2, <2>1, <2>2, <2>3 DEF ObsTypes
<1>8. \A a \in Agents : counts'["daemon"][a] \in Nat /\ counts'["daemon"][a] <= counts["daemon"][a]
  <2>1. CASE m = "daemon"
    BY <1>1, <1>2, <1>4, <2>1, ZeroType DEF ObsTypes
  <2>2. CASE m # "daemon"
    BY <1>1, <1>2, <1>4, <2>2 DEF ObsTypes
  <2> QED
    BY <2>1, <2>2
<1>9. Plausible(f)'
  <2>0. \A a \in Agents : f.restarts[a] = now.restarts[a] /\ f.uptime[a] = now.uptime[a]
    BY <1>6
  <2>1. ASSUME NEW a \in Agents PROVE f.restarts[a] + counts'["daemon"][a] <= attempts[a]
    <3>1. metrics.restarts[a] + counts["daemon"][a] <= attempts[a]
      BY <1>2 DEF Plausible
    <3>2. CASE m = "daemon"
      <4>1. counts'["daemon"][a] = 0
        BY <1>1, <1>2, <3>2, ZeroType DEF ObsTypes
      <4> QED
        BY <1>4, <2>0, <3>1, <3>2, <4>1
    <3>3. CASE m # "daemon"
      <4>1. counts[m][a] = 0
        BY <3>3, ZeroType DEF ObsInv
      <4> QED
        BY <1>4, <1>8, <2>0, <3>1, <4>1
    <3> QED
      BY <3>2, <3>3
  <2>2. f.collected <= clock' /\ \A a \in Agents : f.uptime[a] <= (IF f.collected = 0 THEN 0 ELSE f.collected - 1)
    BY <1>1, <1>2, <1>4, <1>6, <2>0
  <2> QED
    BY <1>1, <2>1, <2>2 DEF Plausible
<1>10. ASSUME NEW g \in Figures, Plausible(g) PROVE Plausible(g)'
  BY <1>1, <1>2, <1>4, <1>8, <1>10, StaysPlausible
<1>11. Plausible(metrics)'
  BY <1>1, <1>2, <1>10 DEF Plausible
<1>12. ASSUME NEW n \in Obs!Monitors PROVE Plausible(copy[n])'
  <2>1. CASE n = m
    <3>1. copy'[n] = f
      BY <1>1, <1>2, <1>6, <2>1 DEF ObsTypes
    <3> QED
      BY <1>9, <3>1 DEF Plausible
  <2>2. CASE n # m
    <3>1. copy'[n] = copy[n] /\ copy[n] \in Figures /\ Plausible(copy[n])
      BY <1>1, <1>2, <2>2 DEF ObsTypes, ObsInv
    <3> QED
      BY <1>10, <3>1 DEF Plausible
  <2> QED
    BY <2>1, <2>2
<1>13. \A n \in Obs!Monitors \ {"daemon"} : counts'[n] = Obs!Zero
  BY <1>1, <1>2 DEF ObsInv, ObsTypes
<1>14. ASSUME Counted, ~Obs!Loses PROVE Counted'
  <2>1. ASSUME NEW n1 \in Obs!Monitors, NEW n2 \in Obs!Monitors, pc'[n1] = "write", pc'[n2] = "write"
        PROVE  n1 = n2
    <3>1. ~(pc'["daemon"] = "write" /\ \E n \in Obs!Monitors \ {"daemon"} : pc'[n] = "write")
      BY <1>14 DEF Obs!Loses
    <3> QED
      BY <2>1, <3>1 DEF Obs!Monitors
  <2>2. ASSUME NEW n \in Obs!Monitors \ {"daemon"}, pc'[n] = "write"
        PROVE  copy'[n].restarts = metrics'.restarts
    <3>1. CASE n = m
      <4>1. copy'[n] = f
        BY <1>1, <1>2, <1>6, <3>1 DEF ObsTypes
      <4>2. \A a \in Agents : f.restarts[a] = metrics.restarts[a]
        BY <1>4, <1>6, <3>1, <2>2, ZeroType DEF ObsInv
      <4>3. f.restarts \in [Agents -> Nat] /\ metrics.restarts \in [Agents -> Nat]
        BY <1>2, <1>6 DEF Figures
      <4> QED
        BY <1>1, <4>1, <4>2, <4>3
    <3>2. CASE n # m
      BY <1>1, <1>2, <1>14, <2>2, <3>2 DEF Counted, ObsTypes
    <3> QED
      BY <3>1, <3>2
  <2>3. ASSUME NEW a \in Agents
        PROVE  attempts'[a] = counts'["daemon"][a] +
                 (IF pc'["daemon"] = "write" THEN copy'["daemon"].restarts[a] ELSE metrics'.restarts[a])
    <3>1. attempts[a] = counts["daemon"][a] +
            (IF pc["daemon"] = "write" THEN copy["daemon"].restarts[a] ELSE metrics.restarts[a])
      BY <1>14 DEF Counted, Obs!RestartsAreCounted
    <3>2. CASE m = "daemon"
      <4>1. counts'["daemon"][a] = 0 /\ pc'["daemon"] = "write" /\ copy'["daemon"] = f /\ pc["daemon"] = "idle"
        BY <1>1, <1>2, <1>6, <3>2, ZeroType DEF ObsTypes
      <4>2. attempts[a] = counts["daemon"][a] + metrics.restarts[a] /\ attempts'[a] = attempts[a]
        BY <1>1, <3>1, <4>1
      <4> QED
        BY <1>4, <1>6, <3>2, <4>1, <4>2
    <3>3. CASE m # "daemon"
      <4>1. counts'["daemon"] = counts["daemon"] /\ pc'["daemon"] = pc["daemon"] /\ copy'["daemon"] = copy["daemon"]
        BY <1>1, <1>2, <3>3, DaemonMonitors DEF ObsTypes
      <4> QED
        BY <1>1, <3>1, <4>1
    <3> QED
      BY <3>2, <3>3
  <2> QED
    BY <2>1, <2>2, <2>3 DEF Counted, Obs!RestartsAreCounted
<1>15. ObsInv'
  BY <1>7, <1>11, <1>12, <1>13 DEF ObsInv, Obs!Zero
<1> QED
  BY <1>14, <1>15

LEMMA WriteKeeps ==
  ASSUME ObsInv, NEW m \in Obs!Monitors, Obs!WriteMetrics(m)
  PROVE  ObsInv' /\ (Counted /\ ~Obs!Loses => Counted')
<1>1. /\ metrics' \in {metrics, copy[m]}
      /\ pc' = [pc EXCEPT ![m] = "idle"] /\ pc[m] = "write"
      /\ copy' = [copy EXCEPT ![m] = Obs!NoMetrics]
      /\ UNCHANGED <<clock, up, attempts, counts, unhealthy>>
  BY DEF Obs!WriteMetrics
<1>2. ObsTypes /\ Plausible(metrics) /\ copy[m] \in Figures /\ Plausible(copy[m])
  BY DEF ObsInv, ObsTypes
<1>3. ObsTypes'
  BY <1>1, <1>2, NoMetricsType DEF ObsTypes
<1>4. ASSUME NEW g \in Figures, Plausible(g) PROVE Plausible(g)'
  BY <1>1, <1>4 DEF Plausible
<1>5. Plausible(metrics)'
  <2>1. PICK g \in Figures : g = metrics' /\ Plausible(g)
    BY <1>1, <1>2 DEF ObsTypes
  <2> QED
    BY <1>4, <2>1 DEF Plausible
<1>6. ASSUME NEW n \in Obs!Monitors PROVE Plausible(copy[n])'
  <2>1. CASE n = m
    <3>1. clock \in Nat /\ \A a \in Agents : counts["daemon"][a] \in Nat /\ metrics.restarts[a] \in Nat
                                             /\ attempts[a] \in Nat
      BY <1>2, DaemonMonitors, ObserverAssumption DEF ObsTypes, Figures, Obs!ObserverAssumption
    <3>2. \A a \in Agents : counts["daemon"][a] <= attempts[a]
      BY <1>2, <3>1 DEF Plausible
    <3>3. Plausible(Obs!NoMetrics)
      BY <3>1, <3>2, NothingPlausible
    <3>4. copy'[n] = Obs!NoMetrics
      BY <1>1, <1>2, <2>1 DEF ObsTypes
    <3>5. PICK g \in Figures : g = Obs!NoMetrics
      BY NoMetricsType
    <3> QED
      BY <1>1, <3>3, <3>4, <3>5 DEF Plausible
  <2>2. CASE n # m
    <3>1. copy'[n] = copy[n] /\ copy[n] \in Figures /\ Plausible(copy[n])
      BY <1>1, <1>2, <2>2 DEF ObsTypes, ObsInv
    <3> QED
      BY <1>4, <3>1 DEF Plausible
  <2> QED
    BY <2>1, <2>2
<1>7. ObsInv'
  BY <1>1, <1>3, <1>5, <1>6 DEF ObsInv, Obs!Zero
<1>8. ASSUME Counted, ~Obs!Loses PROVE Counted'
  <2>1. pc'[m] = "idle" /\ \A n \in Obs!Monitors : pc'[n] = "write" => pc[n] = "write" /\ n # m
    BY <1>1, <1>2 DEF ObsTypes
  <2>2. metrics' = copy[m]
    BY <1>1, <1>8, <2>1 DEF Obs!Loses
  <2>3. \A n \in Obs!Monitors : pc'[n] # "write"
    BY <1>1, <1>8, <2>1 DEF Counted
  <2>4. m # "daemon" => copy[m].restarts = metrics.restarts /\ pc["daemon"] # "write"
    BY <1>1, <1>8, DaemonMonitors DEF Counted
  <2>5. metrics'.restarts = IF pc["daemon"] = "write" THEN copy["daemon"].restarts ELSE metrics.restarts
    BY <1>1, <2>2, <2>4
  <2>6. Obs!RestartsAreCounted'
    BY <1>1, <1>8, <2>3, <2>5, DaemonMonitors DEF Counted, Obs!RestartsAreCounted
  <2> QED
    BY <2>3, <2>6 DEF Counted
<1> QED
  BY <1>7, <1>8

LEMMA RestartKeeps ==
  ASSUME ObsInv, Obs!RestartDaemon
  PROVE  ObsInv' /\ (Counted /\ ~Obs!Loses => Counted')
<1>1. /\ counts' = [counts EXCEPT !["daemon"] = Obs!Zero]
      /\ unhealthy' = [unhealthy EXCEPT !["daemon"] = {}]
      /\ copy' = [copy EXCEPT !["daemon"] = Obs!NoMetrics]
      /\ pc' = [pc EXCEPT !["daemon"] = "idle"]
      /\ UNCHANGED <<clock, up, attempts, metrics>>
  BY DEF Obs!RestartDaemon
<1>2. ObsTypes /\ clock \in Nat
  BY ObserverAssumption DEF ObsInv, ObsTypes, Obs!ObserverAssumption
<1>3. ObsTypes'
  BY <1>1, <1>2, NoMetricsType, ZeroType DEF ObsTypes
<1>4. ASSUME NEW a \in Agents
      PROVE  counts'["daemon"][a] = 0 /\ counts["daemon"][a] \in Nat /\ attempts[a] \in Nat
  BY <1>1, <1>2, ZeroType, DaemonMonitors, ObserverAssumption DEF ObsTypes, Obs!ObserverAssumption
<1>5. ASSUME NEW g \in Figures, Plausible(g) PROVE Plausible(g)'
  BY <1>1, <1>2, <1>4, <1>5, StaysPlausible
<1>6. Plausible(metrics)'
  BY <1>1, <1>2, <1>5 DEF Plausible, ObsInv, ObsTypes
<1>7. ASSUME NEW n \in Obs!Monitors PROVE Plausible(copy[n])'
  <2>1. CASE n = "daemon"
    <3>1. copy'[n] = Obs!NoMetrics
      BY <1>1, <1>2, <2>1 DEF ObsTypes
    <3> QED
      BY <1>1, <1>2, <1>4, <3>1, NoMetricsType, ZeroType DEF Plausible
  <2>2. CASE n # "daemon"
    <3>1. copy'[n] = copy[n] /\ copy[n] \in Figures /\ Plausible(copy[n])
      BY <1>1, <1>2, <2>2 DEF ObsTypes, ObsInv
    <3> QED
      BY <1>5, <3>1 DEF Plausible
  <2> QED
    BY <2>1, <2>2
<1>8. ObsInv'
  BY <1>1, <1>2, <1>3, <1>6, <1>7 DEF ObsInv, ObsTypes, Obs!Zero
<1>9. ASSUME Counted, ~Obs!Loses PROVE Counted'
  <2>1. pc'["daemon"] = "idle" /\ \A n \in Obs!Monitors \ {"daemon"} : pc'[n] = pc[n] /\ copy'[n] = copy[n]
    BY <1>1, <1>2, DaemonMonitors DEF ObsTypes
  <2>2. \A m, n \in Obs!Monitors : pc'[m] = "write" /\ pc'[n] = "write" => m = n
    BY <1>9, <2>1 DEF Counted
  <2>3. counts["daemon"] = Obs!Zero
    BY <1>1, <1>2, <1>9, <2>1, DaemonMonitors DEF Obs!Loses, ObsTypes
  <2>4. pc["daemon"] = "write" => metrics = copy["daemon"]
    BY <1>1, <1>9, <2>1, DaemonMonitors DEF Obs!Loses
  <2>5. ASSUME NEW a \in Agents PROVE attempts'[a] = counts'["daemon"][a] + metrics'.restarts[a]
    <3>1. attempts[a] = counts["daemon"][a] + metrics.restarts[a]
      BY <1>9, <2>4 DEF Counted, Obs!RestartsAreCounted
    <3> QED
      BY <1>1, <1>4, <2>3, <3>1, ZeroType
  <2> QED
    BY <1>1, <1>9, <2>1, <2>2, <2>5 DEF Counted, Obs!RestartsAreCounted
<1> QED
  BY <1>8, <1>9

LEMMA ObsNext ==
  ASSUME ObsInv, Obs!Next
  PROVE  ObsInv' /\ (Counted /\ ~Obs!Loses => Counted')
<1>1. CASE Obs!AgentChanges
  <2>1. up' \subseteq Agents /\ UNCHANGED <<clock, attempts, counts, unhealthy, metrics, copy, pc>>
    BY <1>1 DEF Obs!AgentChanges, ObsInv, ObsTypes
  <2> QED
    BY <2>1 DEF ObsInv, ObsTypes, Plausible, Counted, Obs!RestartsAreCounted, Obs!Zero
<1>2. CASE Obs!Tick
  <2>1. clock' = clock + 1 /\ UNCHANGED <<up, attempts, counts, unhealthy, metrics, copy, pc>>
    BY <1>2 DEF Obs!Tick
  <2>2. ObsTypes /\ clock \in Nat /\ clock' \in 1..MaxTime /\ clock' \in Nat
    BY <1>2, <2>1, ObserverAssumption DEF Obs!Tick, ObsInv, ObsTypes, Obs!ObserverAssumption
  <2>3. ObsTypes'
    BY <2>1, <2>2 DEF ObsTypes
  <2>4. ASSUME NEW a \in Agents PROVE attempts[a] \in Nat /\ counts["daemon"][a] \in Nat
    BY <2>2, DaemonMonitors, ObserverAssumption DEF ObsTypes, Obs!ObserverAssumption
  <2>5. ASSUME NEW g \in Figures, Plausible(g) PROVE Plausible(g)'
    <3>1. clock <= clock' /\ \A a \in Agents :
            /\ attempts'[a] \in Nat /\ counts'["daemon"][a] \in Nat
            /\ counts'["daemon"][a] - counts["daemon"][a] <= attempts'[a] - attempts[a]
      BY <2>1, <2>2, <2>4
    <3> QED
      BY <2>2, <2>5, <3>1, StaysPlausible
  <2>6. Plausible(metrics)'
    BY <2>1, <2>2, <2>5 DEF ObsInv, ObsTypes, Plausible
  <2>7. ASSUME NEW n \in Obs!Monitors PROVE Plausible(copy[n])'
    <3>1. copy'[n] = copy[n] /\ copy[n] \in Figures /\ Plausible(copy[n])
      BY <2>1, <2>2 DEF ObsTypes, ObsInv
    <3> QED
      BY <2>5, <3>1 DEF Plausible
  <2> QED
    BY <2>1, <2>3, <2>6, <2>7 DEF ObsInv, Obs!Zero, Counted, Obs!RestartsAreCounted
<1> QED
  BY <1>1, <1>2, ProbeKeeps, CollectKeeps, WriteKeeps, RestartKeeps DEF Obs!Next

LEMMA ObsGivesCounts == ASSUME ObsInv PROVE Obs!TypeOK /\ Obs!RestartsAreNotInvented /\ Obs!UptimeIsBounded
<1>1. ASSUME NEW a \in Agents
      PROVE  /\ counts["daemon"][a] \in Nat /\ metrics.restarts[a] \in Nat /\ attempts[a] \in 0..MaxRestarts
             /\ metrics.restarts[a] + counts["daemon"][a] <= attempts[a]
  BY DaemonMonitors DEF ObsInv, ObsTypes, Figures, Plausible
<1>2. ASSUME NEW m \in Obs!Monitors PROVE counts[m] \in [Agents -> 0..MaxRestarts]
  <2>1. counts[m] \in [Agents -> Nat]
    BY DEF ObsInv, ObsTypes
  <2>2. ASSUME NEW a \in Agents PROVE counts[m][a] \in 0..MaxRestarts
    <3>1. CASE m = "daemon"
      BY <1>1, <3>1, ObserverAssumption DEF Obs!ObserverAssumption
    <3>2. CASE m # "daemon"
      BY <3>2, ZeroType, ObserverAssumption DEF ObsInv, Obs!ObserverAssumption
    <3> QED
      BY <3>1, <3>2
  <2> QED
    BY <2>1, <2>2
<1>3. counts \in [Obs!Monitors -> [Agents -> 0..MaxRestarts]]
  BY <1>2 DEF ObsInv, ObsTypes
<1>4. metrics.collected \in 0..MaxTime
  BY ObserverAssumption DEF ObsInv, ObsTypes, Figures, Plausible, Obs!ObserverAssumption
<1>5. Obs!RestartsAreNotInvented
  BY <1>1, ObserverAssumption DEF Obs!RestartsAreNotInvented, Obs!ObserverAssumption
<1>6. Obs!UptimeIsBounded
  BY DEF ObsInv, Plausible, Obs!UptimeIsBounded, Obs!NoTime
<1> QED
  BY <1>3, <1>4, <1>5, <1>6 DEF ObsInv, ObsTypes, Obs!TypeOK

-----------------------------------------------------------------------------
(* The alert list                                                          *)

AlertLists == {list \in Seq(Alerts!AlertValues) : Len(list) <= Cap}

\* An alert that is added behind a different one makes the list longer by one or,
\* at the cap, pushes out the oldest: each other alert keeps its distance to the
\* new end.
LEMMA AddedShape ==
  ASSUME NEW list \in AlertLists, NEW alert \in Alerts!AlertValues,
         ~(list # <<>> /\ Alerts!Last(list) = alert)
  PROVE  \E first \in {1, 2} :
           LET added == Alerts!AddAlert(list, alert)
           IN  /\ added \in AlertLists
               /\ Len(added) = Len(list) + 2 - first /\ Len(added) >= 1
               /\ first = 2 => Len(list) = Cap
               /\ added[Len(added)] = alert
               /\ \A i \in 1..Len(list) : i >= first => added[i - first + 1] = list[i]
<1>0. Cap \in Nat \ {0} /\ list \in Seq(Alerts!AlertValues) /\ Len(list) <= Cap
  BY AlertsAssumption DEF Alerts!AlertsAssumption, AlertLists
<1> DEFINE combined == Append(list, alert)
           first == IF Len(combined) > Cap THEN 2 ELSE 1
           kept == SubSeq(combined, first, Len(combined))
<1>1. combined \in Seq(Alerts!AlertValues) /\ Len(combined) = Len(list) + 1 /\ combined[Len(combined)] = alert
      /\ \A i \in 1..Len(list) : combined[i] = list[i]
  BY <1>0
<1>2. first \in {1, 2} /\ first <= Len(combined) /\ (first = 2 => Len(list) = Cap)
  BY <1>0, <1>1
<1>3. Alerts!AddAlert(list, alert) = kept
  BY DEF Alerts!AddAlert
<1> HIDE DEF combined
<1>4. kept \in Seq(Alerts!AlertValues) /\ Len(kept) = Len(combined) - first + 1
      /\ \A i \in 1..(Len(combined) - first + 1) : kept[i] = combined[first + i - 1]
  BY <1>1, <1>2, SubSeqProperties
<1>5. Len(kept) <= Cap /\ Len(kept) >= 1
  BY <1>0, <1>1, <1>2, <1>4
<1>6. kept[Len(kept)] = alert
  BY <1>1, <1>2, <1>4, <1>5
<1> HIDE DEF kept
<1>7. PICK start \in {1, 2} : start = first
  BY <1>2
<1>8. /\ Len(kept) = Len(list) + 2 - start
      /\ start = 2 => Len(list) = Cap
  BY <1>0, <1>1, <1>2, <1>4, <1>7
<1>9. ASSUME NEW i \in 1..Len(list), i >= start PROVE kept[i - start + 1] = list[i]
  <2>1. i - start + 1 \in 1..(Len(combined) - first + 1) /\ first + (i - start + 1) - 1 = i
    BY <1>0, <1>1, <1>7, <1>9
  <2> QED
    BY <1>1, <1>4, <2>1
<1>10. kept \in AlertLists
  BY <1>4, <1>5 DEF AlertLists
<1> QED
  BY <1>3, <1>5, <1>6, <1>8, <1>9, <1>10

\* Whatever it suppresses or drops, the newest alert of the list is the one
\* that was added last.
LEMMA AddedIsNewest ==
  ASSUME NEW list \in AlertLists, NEW alert \in Alerts!AlertValues
  PROVE  /\ Alerts!AddAlert(list, alert) \in AlertLists
         /\ Alerts!Held(Alerts!AddAlert(list, alert), 0, alert)
<1>0. list \in Seq(Alerts!AlertValues)
  BY DEF AlertLists
<1>1. CASE list # <<>> /\ Alerts!Last(list) = alert
  <2>1. Alerts!AddAlert(list, alert) = list
    BY <1>1 DEF Alerts!AddAlert
  <2>2. Len(list) \in DOMAIN list /\ list[Len(list)] = alert /\ Len(list) >= Len(list) - 0
    BY <1>0, <1>1 DEF Alerts!Last
  <2> QED
    BY <2>1, <2>2 DEF Alerts!Held
<1>2. CASE ~(list # <<>> /\ Alerts!Last(list) = alert)
  <2>1. PICK added \in AlertLists : added = Alerts!AddAlert(list, alert) /\ Len(added) >= 1 /\ added[Len(added)] = alert
    BY <1>2, AddedShape
  <2>2. Len(added) \in DOMAIN added /\ Len(added) >= Len(added) - 0
    BY <2>1 DEF AlertLists
  <2> QED
    BY <2>1, <2>2 DEF Alerts!Held
<1> QED
  BY <1>1, <1>2

\* An alert of the list stays in it, one place further from the end, until the
\* cap is reached.
LEMMA AddedKeeps ==
  ASSUME NEW list \in AlertLists, NEW alert \in Alerts!AlertValues, NEW x,
         NEW n \in 0..Cap, n + 1 < Cap, Alerts!Held(list, n, x)
  PROVE  Alerts!Held(Alerts!AddAlert(list, alert), n + 1, x)
<1>0. Cap \in Nat \ {0} /\ list \in Seq(Alerts!AlertValues) /\ Len(list) <= Cap
  BY AlertsAssumption DEF Alerts!AlertsAssumption, AlertLists
<1>1. PICK i \in 1..Len(list) : i >= Len(list) - n /\ list[i] = x
  BY <1>0 DEF Alerts!Held
<1>2. CASE list # <<>> /\ Alerts!Last(list) = alert
  <2>1. Alerts!AddAlert(list, alert) = list
    BY <1>2 DEF Alerts!AddAlert
  <2>2. i \in DOMAIN list /\ i >= Len(list) - (n + 1)
    BY <1>0, <1>1
  <2> QED
    BY <1>1, <2>1, <2>2 DEF Alerts!Held
<1>3. CASE ~(list # <<>> /\ Alerts!Last(list) = alert)
  <2>0. PICK added : added = Alerts!AddAlert(list, alert)
    OBVIOUS
  <2>1. PICK first \in {1, 2} :
          /\ added \in AlertLists
          /\ Len(added) = Len(list) + 2 - first
          /\ first = 2 => Len(list) = Cap
          /\ \A j \in 1..Len(list) : j >= first => added[j - first + 1] = list[j]
    BY <1>3, <2>0, AddedShape
  <2>2. i >= first
    BY <1>0, <1>1, <2>1
  <2>3. PICK j \in Nat : j = i - first + 1
    BY <1>1, <2>1, <2>2
  <2>4. j \in 1..Len(added) /\ j >= Len(added) - (n + 1) /\ added[j] = x
    BY <1>0, <1>1, <2>1, <2>2, <2>3
  <2>5. j \in DOMAIN added
    BY <2>1, <2>4 DEF AlertLists
  <2> QED
    BY <2>0, <2>4, <2>5 DEF Alerts!Held
<1> QED
  BY <1>2, <1>3

\* Induction over the naturals, for the members of a set.
LEMMA NatSetInduction ==
  ASSUME NEW S, 0 \in S, \A n \in Nat : n \in S => n + 1 \in S
  PROVE  Nat \subseteq S
<1> DEFINE T == {n \in Nat : n \notin S}
<1>1. CASE T = {}
  BY <1>1
<1>2. CASE T # {}
  <2>1. PICK x \in T : \A y \in T : ~(<<y, x>> \in OpToRel(<, Nat))
    BY <1>2, NatLessThanWellFounded, WFMin
  <2>2. x # 0
    OBVIOUS
  <2>3. x - 1 \in Nat /\ x - 1 < x
    BY <2>2
  <2>4. <<x - 1, x>> \in OpToRel(<, Nat)
    BY <2>3 DEF OpToRel
  <2>5. x - 1 \in S
    BY <2>1, <2>3, <2>4
  <2> QED
    BY <2>3, <2>5
<1> QED
  BY <1>1, <1>2

\* What a sweep has stored behind the alert list and the count it started from.
Store(log, alert) == [list |-> Alerts!AddAlert(log.list, alert), after |-> Alerts!Later(log.after)]

\* f lists what the first k checkers of a sweep leave.
Swept(silent, k, f) ==
  f = [c \in 0..k |->
         IF c = 0 THEN [list |-> alerts, after |-> after]
         ELSE IF c \in silent \/ level[c] = 0 THEN f[c - 1]
         ELSE Store(f[c - 1], Alerts!Alert(c, level[c]))]

LEMMA SweepExists == ASSUME NEW silent, NEW k \in Nat PROVE \E f : Swept(silent, k, f)
<1> DEFINE S == {n \in Nat : \E f : Swept(silent, n, f)}
<1>1. 0 \in S
  <2> DEFINE f == [c \in 0..0 |-> [list |-> alerts, after |-> after]]
  <2>1. Swept(silent, 0, f)
    BY DEF Swept
  <2> QED
    BY <2>1
<1>2. ASSUME NEW n \in Nat, n \in S PROVE n + 1 \in S
  <2>1. PICK f : Swept(silent, n, f)
    BY <1>2
  <2> DEFINE last == IF n + 1 \in silent \/ level[n + 1] = 0 THEN f[n]
                     ELSE Store(f[n], Alerts!Alert(n + 1, level[n + 1]))
             g == [c \in 0..(n + 1) |-> IF c = n + 1 THEN last ELSE f[c]]
  <2>2. ASSUME NEW c \in 0..(n + 1)
        PROVE  g[c] = IF c = 0 THEN [list |-> alerts, after |-> after]
                      ELSE IF c \in silent \/ level[c] = 0 THEN g[c - 1]
                      ELSE Store(g[c - 1], Alerts!Alert(c, level[c]))
    BY <2>1 DEF Swept
  <2>3. Swept(silent, n + 1, g)
    BY <2>2 DEF Swept
  <2> QED
    BY <2>3
<1> HIDE DEF S
<1>3. Nat \subseteq S
  BY <1>1, <1>2, NatSetInduction
<1> QED
  BY <1>3 DEF S

Reasons == Alerts!Spends \ {"under"}

\* What was stored of a throttle's reason is at its place in a log.
Explained(log) == why # "none" /\ log.after < Cap => Alerts!Held(log.list, log.after, Alerts!Alert(Alerts!Throttle, why))

AlertInv ==
  /\ alerts \in AlertLists
  /\ level \in [Alerts!Checkers -> Levels]
  /\ spend \in Alerts!Spends
  /\ why \in Reasons \union {"none"}
  /\ after \in 0..Cap
  /\ Alerts!ThrottleIsExplained

Logs == {log \in [list : AlertLists, after : 0..Cap] : Explained(log)}

LEMMA StoreKeeps ==
  ASSUME NEW log \in Logs, NEW alert \in Alerts!AlertValues PROVE Store(log, alert) \in Logs
<1>0. Cap \in Nat \ {0} /\ log.list \in AlertLists /\ log.after \in 0..Cap /\ Explained(log)
  BY AlertsAssumption DEF Alerts!AlertsAssumption, Logs
<1>1. PICK stored : stored = Store(log, alert)
  OBVIOUS
<1>2. /\ stored.list = Alerts!AddAlert(log.list, alert)
      /\ stored.after = Alerts!Later(log.after)
      /\ stored = [list |-> stored.list, after |-> stored.after]
  BY <1>1 DEF Store
<1>3. Alerts!Later(log.after) \in 0..Cap /\ (Alerts!Later(log.after) < Cap => Alerts!Later(log.after) = log.after + 1)
  BY <1>0 DEF Alerts!Later
<1>4. stored.list \in AlertLists
  BY <1>0, <1>2, AddedIsNewest
<1>5. ASSUME why # "none", stored.after < Cap
      PROVE  Alerts!Held(stored.list, stored.after, Alerts!Alert(Alerts!Throttle, why))
  <2>1. stored.after = log.after + 1 /\ log.after + 1 < Cap /\ log.after < Cap
    BY <1>0, <1>2, <1>3, <1>5
  <2>2. Alerts!Held(log.list, log.after, Alerts!Alert(Alerts!Throttle, why))
    BY <1>0, <1>5, <2>1 DEF Explained
  <2> QED
    BY <1>0, <1>2, <2>1, <2>2, AddedKeeps
<1>6. stored \in [list : AlertLists, after : 0..Cap]
  BY <1>2, <1>3, <1>4
<1> QED
  BY <1>1, <1>5, <1>6 DEF Logs, Explained

\* Every checker of a sweep leaves a list within the cap that still explains.
LEMMA SweepKeeps ==
  ASSUME AlertInv, NEW silent, NEW f, Swept(silent, K, f)
  PROVE  f[K] \in Logs
<1>0. K \in Nat
  BY AlertsAssumption DEF Alerts!AlertsAssumption
<1> DEFINE S == {n \in Nat : n <= K => f[n] \in Logs}
<1>1. 0 \in S
  <2>1. f[0] = [list |-> alerts, after |-> after]
    BY <1>0 DEF Swept
  <2>2. [list |-> alerts, after |-> after] \in Logs
    BY DEF AlertInv, Logs, Explained, Alerts!ThrottleIsExplained
  <2> QED
    BY <2>1, <2>2
<1>2. ASSUME NEW n \in Nat, n \in S PROVE n + 1 \in S
  <2>1. CASE n + 1 <= K
    <3>1. f[n] \in Logs
      BY <1>0, <1>2, <2>1
    <3>2. f[n + 1] = IF n + 1 \in silent \/ level[n + 1] = 0 THEN f[n]
                     ELSE Store(f[n], Alerts!Alert(n + 1, level[n + 1]))
      BY <1>0, <2>1 DEF Swept
    <3>3. level[n + 1] # 0 => Alerts!Alert(n + 1, level[n + 1]) \in Alerts!AlertValues
      BY <1>0, <2>1 DEF AlertInv, Alerts!Checkers, Alerts!AlertValues
    <3>4. f[n + 1] \in Logs
      BY <3>1, <3>2, <3>3, StoreKeeps
    <3> QED
      BY <3>4
  <2> QED
    BY <2>1
<1> HIDE DEF S
<1>3. Nat \subseteq S
  BY <1>1, <1>2, NatSetInduction
<1> QED
  BY <1>0, <1>3 DEF S

LEMMA ThrottleAlert == ASSUME spend \in Alerts!Spends, Alerts!Throttled
                       PROVE  Alerts!Alert(Alerts!Throttle, spend) \in Alerts!AlertValues
BY DEF Alerts!Throttled, Alerts!AlertValues

LEMMA EmptyIsAlertList == <<>> \in AlertLists
<1>1. <<>> \in Seq(Alerts!AlertValues) /\ Len(<<>>) = 0
  OBVIOUS
<1> QED
  BY <1>1, AlertsAssumption DEF Alerts!AlertsAssumption, AlertLists

LEMMA AlertInit == Alerts!Init => AlertInv
BY EmptyIsAlertList, AlertsAssumption DEF Alerts!AlertsAssumption, Alerts!Init, AlertInv, Alerts!ThrottleIsExplained

\* The lists of alerts do not depend on the state.
LEMMA AlertListsStay == AlertLists' = AlertLists
BY DEF AlertLists, Alerts!AlertValues

LEMMA AlertInvStays == AlertInv /\ UNCHANGED alertVars => AlertInv'
<1> SUFFICES ASSUME AlertInv, UNCHANGED alertVars PROVE AlertInv'
  OBVIOUS
<1>1. UNCHANGED <<alerts, level, spend, why, after>>
  BY DEF alertVars
<1> QED
  BY <1>1, AlertListsStay DEF AlertInv, Alerts!ThrottleIsExplained

LEMMA AlertNext == AlertInv /\ Alerts!Next => AlertInv'
<1> SUFFICES ASSUME AlertInv, Alerts!Next PROVE AlertInv'
  OBVIOUS
<1>0. K \in Nat /\ Cap \in Nat \ {0}
  BY AlertsAssumption DEF Alerts!AlertsAssumption
<1>1. CASE Alerts!HealthSweep
  <2>1. PICK silent \in SUBSET Alerts!Checkers :
          LET Sweep[c \in 0..K] ==
                IF c = 0 THEN [list |-> alerts, after |-> after]
                ELSE IF c \in silent \/ level[c] = 0 THEN Sweep[c - 1]
                ELSE [list |-> Alerts!AddAlert(Sweep[c - 1].list, Alerts!Alert(c, level[c])),
                      after |-> Alerts!Later(Sweep[c - 1].after)]
          IN  alerts' = Sweep[K].list /\ after' = Sweep[K].after /\ UNCHANGED <<level, spend, why>>
    BY <1>1 DEF Alerts!HealthSweep
  <2> DEFINE f == CHOOSE g : Swept(silent, K, g)
  <2>2. Swept(silent, K, f)
    BY <1>0, SweepExists
  <2>3. alerts' = f[K].list /\ after' = f[K].after /\ UNCHANGED <<level, spend, why>>
    BY <2>1 DEF Swept, Store
  <2>4. f[K] \in Logs
    BY <2>2, SweepKeeps
  <2> HIDE DEF f
  <2>5. alerts' \in AlertLists /\ after' \in 0..Cap
    BY <2>3, <2>4 DEF Logs
  <2>6. why' # "none" /\ after' < Cap => Alerts!Held(alerts', after', Alerts!Alert(Alerts!Throttle, why'))
    BY <2>3, <2>4 DEF Logs, Explained
  <2> QED
    BY <2>3, <2>5, <2>6, AlertListsStay DEF AlertInv, Alerts!ThrottleIsExplained
<1>2. CASE Alerts!GatedTask
  <2>1. alerts' \in AlertLists /\ Alerts!Held(alerts', 0, Alerts!Alert(Alerts!Throttle, spend))
    BY <1>2, ThrottleAlert, AddedIsNewest DEF Alerts!GatedTask, AlertInv
  <2>2. why' = spend /\ after' = 0 /\ UNCHANGED <<level, spend>> /\ why' \in Reasons
    BY <1>2 DEF Alerts!GatedTask, Alerts!Throttled, AlertInv, Reasons
  <2> QED
    BY <1>0, <2>1, <2>2, AlertListsStay DEF AlertInv, Alerts!ThrottleIsExplained
<1>3. CASE Alerts!DroppedAlert
  <2>1. UNCHANGED alertVars
    BY <1>3 DEF Alerts!DroppedAlert, Alerts!vars, alertVars
  <2> QED
    BY <2>1, AlertInvStays
<1>4. CASE Alerts!Change
  BY <1>4, AlertListsStay DEF Alerts!Change, AlertInv, Alerts!ThrottleIsExplained
<1>5. CASE Alerts!Restart
  BY <1>0, <1>5, EmptyIsAlertList, AlertListsStay DEF Alerts!Restart, AlertInv, Alerts!ThrottleIsExplained
<1> QED
  BY <1>1, <1>2, <1>3, <1>4, <1>5 DEF Alerts!Next

LEMMA AlertTypes == AlertInv => Alerts!TypeOK
BY DEF AlertInv, AlertLists, Reasons, Alerts!TypeOK

-----------------------------------------------------------------------------
(* The daemon's tasks together                                             *)

taskVars == <<lens, lossy, vars, alertVars, obsVars>>

TasksInv == TypeInv /\ AlertInv /\ ObsInv /\ CountInv

LEMMA TasksInvInit == TasksInit => TasksInv
BY TypeInit, AlertInit, ObsInit DEF TasksInit, TasksInv, CountInv

\* What a component's invariant speaks of changes only while it is looked at.
LEMMA TypeInvStays == TypeInv /\ UNCHANGED vars => TypeInv'
BY TypeNext

LEMMA ObsInvStays ==
  ASSUME ObsInv, UNCHANGED obsVars PROVE ObsInv' /\ (Counted => Counted')
<1>1. UNCHANGED <<clock, up, attempts, counts, unhealthy, metrics, copy, pc>>
  BY DEF obsVars
<1> QED
  BY <1>1 DEF ObsInv, ObsTypes, Plausible, Counted, Obs!RestartsAreCounted

LEMMA TasksInvNext == TasksInv /\ [TasksNext]_taskVars => TasksInv'
<1> SUFFICES ASSUME TasksInv, [TasksNext]_taskVars PROVE TasksInv'
  OBVIOUS
<1>0. TypeInv /\ AlertInv /\ ObsInv /\ CountInv
  BY DEF TasksInv
<1>1. CASE UNCHANGED taskVars
  <2>1. UNCHANGED vars /\ UNCHANGED alertVars /\ UNCHANGED obsVars /\ lossy' = lossy
    BY <1>1 DEF taskVars
  <2> QED
    BY <1>0, <2>1, TypeInvStays, AlertInvStays, ObsInvStays DEF TasksInv, CountInv
<1>2. CASE Next /\ UNCHANGED <<lossy, alertVars, obsVars>>
  <2>1. UNCHANGED alertVars /\ UNCHANGED obsVars /\ lossy' = lossy
    BY <1>2
  <2> QED
    BY <1>0, <1>2, <2>1, TypeNext, AlertInvStays, ObsInvStays DEF TasksInv, CountInv
<1>3. CASE Alerts!Next /\ UNCHANGED <<lossy, vars, obsVars>>
  <2>1. UNCHANGED vars /\ UNCHANGED obsVars /\ lossy' = lossy
    BY <1>3
  <2> QED
    BY <1>0, <1>3, <2>1, TypeInvStays, AlertNext, ObsInvStays DEF TasksInv, CountInv
<1>4. CASE Obs!Next /\ lossy' = (lossy \/ Obs!Loses) /\ UNCHANGED <<vars, alertVars>>
  <2>1. UNCHANGED vars /\ UNCHANGED alertVars
    BY <1>4
  <2> QED
    BY <1>0, <1>4, <2>1, TypeInvStays, AlertInvStays, ObsNext DEF TasksInv, CountInv
<1> QED
  BY <1>1, <1>2, <1>3, <1>4 DEF TasksNext

LEMMA TasksAlways == TasksSpec => []TasksInv
<1>1. TasksInv /\ [TasksNext]_<<lens, lossy, vars, alertVars, obsVars>> => TasksInv'
  BY TasksInvNext DEF taskVars
<1> QED
  BY <1>1, TasksInvInit, PTL DEF TasksSpec

\* Counters, alerts and metrics stay within their bounds: the alert list never
\* outgrows its cap, however many checkers a sweep finds unhealthy.
THEOREM TasksTypeCorrect == TasksSpec => []TypesOK
<1>1. TasksInv => TypesOK
  BY AlertTypes, ObsGivesCounts DEF TasksInv, TypeInv, TypesOK
<1> QED
  BY <1>1, TasksAlways, PTL

\* Every restart attempt is counted once while no step lost any, none is
\* invented, and no uptime exceeds the time it was collected over.
THEOREM RestartsCounted == TasksSpec => []RestartsAreCounted
<1>1. TasksInv => RestartsAreCounted
  BY ObsGivesCounts DEF TasksInv, CountInv, Counted, RestartsAreCounted
<1> QED
  BY <1>1, TasksAlways, PTL

\* A throttle's reason, once stored, stays at its place in the list until as many
\* alerts as the cap were stored after it, whatever the checkers of the sweeps
\* in between report, drop or repeat.
THEOREM ThrottlingExplained == TasksSpec => []ThrottleIsExplained
<1>1. TasksInv => ThrottleIsExplained
  BY DEF TasksInv, AlertInv, ThrottleIsExplained
<1> QED
  BY <1>1, TasksAlways, PTL
=============================================================================
