------------------------- MODULE SchedulerRefinement -------------------------
(* Scheduler implements BenchmarkRun. *)
EXTENDS Scheduler

\* What the report says of a target once its group is in it.
Outcome(t) ==
    IF t \notin reported THEN "pending"
    ELSE IF incomplete[t] THEN "incomplete"
    ELSE IF openFailed[t] THEN "failed" ELSE "measured"

Contract == INSTANCE BenchmarkRun WITH
    interrupted <- ctxDone,
    running     <- stage \notin {"next", "done"},
    outcome     <- [t \in Targets |-> Outcome(t)],
    returned    <- stage = "done"

\* Whatever its workers do, the scheduler keeps the contract of Run: groups
\* in order, each reported whole or cut, every selected target in exactly one
\* group's report, and Run returns.
ImplementsContract == Contract!FairSpec
=============================================================================
