--------------------------- MODULE MCDaemonTasks ---------------------------
(* An instance of DaemonTasks for TLC.                                     *)
EXTENDS DaemonTasks, TLC

\* One task is due at every second tick, one rarely; a run may outlast the
\* shorter interval, and a sleep the longer one.
MCInterval == [t \in {1, 2, 3} |-> CASE t = 1 -> 2 [] t = 2 -> 3 [] t = 3 -> 5]
=============================================================================
