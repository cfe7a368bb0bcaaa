----------------------------- MODULE MCScheduler -----------------------------
(* A small instance of Scheduler, with its refinement and its inductive        *)
(* invariant, for TLC.                                                         *)
EXTENDS SchedulerInvariant

\* A group wider than the pool, then a second group: the dispatcher waits
\* for a worker, and the interrupt can fall between the groups.
WideThenOne == <<{1, 2, 3}, {4}>>
=============================================================================
