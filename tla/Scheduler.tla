------------------------------ MODULE Scheduler ------------------------------
(***************************************************************************)
(* `daemon/scheduler.py`: run_forever makes passes over the tasks, one     *)
(* tick apart, until the stop event is set; run_pending runs, in order,    *)
(* the tasks that were due when the pass began.                            *)
(*                                                                         *)
(* Absolute times are not represented.  The time until a task is due, the  *)
(* time since it ran and the time since the pass began are counted, each   *)
(* up to the point from which a larger value makes no difference, so the   *)
(* model has no bound on the number of passes.                             *)
(***************************************************************************)
EXTENDS Integers

CONSTANTS
  Tasks,      \* the scheduled tasks, numbered in the order they are run
  Interval,   \* interval_seconds of each task
  Durations,  \* how long one run of a task may take
  Ticks,      \* how long one sleep may last: tick_seconds, or a system sleep
  Horizon     \* no interval is longer; a longer time makes no difference

ASSUME ConstantsAssumption ==
  /\ Tasks \subseteq Nat
  /\ Interval \in [Tasks -> Nat \ {0}]
  /\ Durations \subseteq Nat
  /\ Ticks \subseteq Nat \ {0}
  /\ Horizon \in Nat /\ \A t \in Tasks : Interval[t] <= Horizon

None == -1

VARIABLES
  phase,    \* "check" the stop event, "pass", "sleep", "done"
  stop,     \* the stop event
  wait,     \* time until each task is due; 0 for a task that never ran
  pending,  \* tasks of this pass that were due when it began and have not run
  running,  \* the task that runs, or None
  late,     \* time since the pass began
  since     \* time since the pass that last ran the task began

vars == <<phase, stop, wait, pending, running, late, since>>

Init ==
  /\ phase = "check"
  /\ stop = FALSE
  /\ wait = [t \in Tasks |-> 0]
  /\ pending = {}
  /\ running = None
  /\ late = 0
  /\ since = Interval

Capped(x, cap) == IF x > cap THEN cap ELSE x

\* Time passes by d: what is counted down and what is counted up.
Elapse(d) ==
  /\ wait' = [t \in Tasks |-> IF wait[t] > d THEN wait[t] - d ELSE 0]
  /\ late' = Capped(late + d, Horizon)
  /\ since' = [t \in Tasks |-> Capped(since[t] + d, Interval[t])]

BeginPass ==
  /\ phase = "check" /\ ~stop
  /\ phase' = "pass"
  /\ pending' = {t \in Tasks : wait[t] = 0}
  /\ late' = 0
  /\ UNCHANGED <<stop, wait, running, since>>

\* Mutant: a due time that has passed already is not cut off at now.
RunTask_NegativeWait(t) ==
  /\ phase = "pass" /\ running = None
  /\ t \in pending /\ \A u \in pending : t <= u
  /\ pending' = pending \ {t}
  /\ running' = t
  /\ wait' = [wait EXCEPT ![t] = Interval[t] - late]
  /\ since' = [since EXCEPT ![t] = Capped(late, Interval[t])]
  /\ UNCHANGED <<phase, stop, late>>

\* Mutant: the next due time is recorded after a successful run only.
RunTask_DueAfterSuccess(t) ==
  /\ phase = "pass" /\ running = None
  /\ t \in pending /\ \A u \in pending : t <= u
  /\ pending' = pending \ {t}
  /\ running' = t
  /\ since' = [since EXCEPT ![t] = Capped(late, Interval[t])]
  /\ UNCHANGED <<phase, stop, wait, late>>

\* The next due time is recorded before the run, from the time the pass began.
RunTask(t) ==
  /\ phase = "pass" /\ running = None
  /\ t \in pending /\ \A u \in pending : t <= u
  /\ pending' = pending \ {t}
  /\ running' = t
  /\ wait' = [wait EXCEPT ![t] = IF Interval[t] > late THEN Interval[t] - late ELSE 0]
  /\ since' = [since EXCEPT ![t] = Capped(late, Interval[t])]
  /\ UNCHANGED <<phase, stop, late>>

\* Mutant: an exception of a task or of its callback leaves run_forever.
FinishTask_NotIsolated ==
  /\ running # None
  /\ \E d \in Durations : Elapse(d)
  /\ running' = None
  /\ phase' \in {"pass", "done"}
  /\ UNCHANGED <<stop, pending>>

\* The task returns or raises, its callback is called, and may raise too: the
\* pass goes on either way.
FinishTask ==
  /\ running # None
  /\ \E d \in Durations : Elapse(d)
  /\ running' = None
  /\ UNCHANGED <<phase, stop, pending>>

EndPass ==
  /\ phase = "pass" /\ running = None /\ pending = {}
  /\ phase' = IF stop THEN "done" ELSE "sleep"
  /\ UNCHANGED <<stop, wait, pending, running, late, since>>

\* Mutant: a stop request that arrives before the sleep is cleared by it.
Sleep_ClearsStop ==
  /\ phase = "sleep"
  /\ \E d \in Ticks : Elapse(d)
  /\ phase' = "check"
  /\ stop' = FALSE
  /\ UNCHANGED <<pending, running>>

Sleep ==
  /\ phase = "sleep"
  /\ \E d \in Ticks : Elapse(d)
  /\ phase' = "check"
  /\ UNCHANGED <<stop, pending, running>>

LeaveLoop ==
  /\ phase = "check" /\ stop
  /\ phase' = "done"
  /\ UNCHANGED <<stop, wait, pending, running, late, since>>

\* The signal handler, at any moment.
RequestStop ==
  /\ ~stop /\ phase # "done"
  /\ stop' = TRUE
  /\ UNCHANGED <<phase, wait, pending, running, late, since>>

Loop == BeginPass \/ (\E t \in Tasks : RunTask(t)) \/ FinishTask \/ EndPass \/ Sleep \/ LeaveLoop

Next == Loop \/ RequestStop

\* The daemon's thread runs and every task returns; nobody has to stop it.
Spec == Init /\ [][Next]_vars /\ WF_vars(Loop)

-----------------------------------------------------------------------------
\* The counters stay within their caps and only a due task is pending.
TypeOK ==
  /\ phase \in {"check", "pass", "sleep", "done"}
  /\ stop \in BOOLEAN
  /\ \A t \in Tasks : wait[t] \in 0..Interval[t] /\ since[t] \in 0..Interval[t]
  /\ pending \subseteq Tasks
  /\ running \in Tasks \union {None}
  /\ late \in 0..Horizon

\* A task does not run again before its interval has passed since the pass
\* that ran it, even when it failed: there is no retry storm.
NoEarlyPass == \A t \in pending : since[t] = Interval[t]

\* No task starves while the daemon runs, whatever the other tasks and the
\* callbacks raise.
EveryTaskRunsAgain == \A t \in Tasks : []<>(running = t \/ stop)

\* A stop request ends the loop, after at most the pass in progress.
StopIsHonoured == stop ~> phase = "done"
=============================================================================
