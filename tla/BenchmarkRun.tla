----------------------------- MODULE BenchmarkRun -----------------------------
(***************************************************************************)
(* What benchmark.Run promises its caller, without workers, sessions or    *)
(* rounds: the protocol groups are measured one after the other, each is   *)
(* reported as a whole, and an interrupt leaves no group half measured.    *)
(***************************************************************************)
EXTENDS Naturals

CONSTANTS
    NGroups,  \* number of protocol groups
    Group     \* [1..NGroups -> SUBSET Nat]: the selected targets of each

Targets == UNION {Group[g] : g \in 1..NGroups}

VARIABLES
    interrupted,  \* the caller's context is done
    group,        \* the group being measured or to be measured next
    running,      \* a group is being measured
    outcome,      \* what the report says of each target
    returned      \* Run has returned

vars == <<interrupted, group, running, outcome, returned>>

Init ==
    /\ interrupted = FALSE
    /\ group = 1
    /\ running = FALSE
    /\ outcome = [t \in Targets |-> "pending"]
    /\ returned = FALSE

\* The report of the current group.
ReportGroup(report) ==
    /\ outcome' = [t \in Targets |-> IF t \in Group[group] THEN report[t] ELSE outcome[t]]
    /\ group' = group + 1

\* Every target of the group was measured to the end or never opened.
Whole(report) == \A t \in Group[group] : report[t] \in {"measured", "failed"}

\* The interrupt reached the group: what had not failed is incomplete.
Cut(report) == \A t \in Group[group] : report[t] \in {"incomplete", "failed"}

BeginGroup ==
    /\ ~returned
    /\ ~running
    /\ group <= NGroups
    /\ ~interrupted
    /\ running' = TRUE
    /\ UNCHANGED <<interrupted, group, outcome, returned>>

SkipGroup ==
    /\ ~returned
    /\ ~running
    /\ group <= NGroups
    /\ interrupted
    /\ ReportGroup([t \in Targets |-> "incomplete"])
    /\ UNCHANGED <<interrupted, running, returned>>

\* A group may still end whole although the interrupt has come: it came
\* after the group's last look at the context.
EndGroup ==
    /\ running
    /\ \E report \in [Targets -> {"measured", "failed", "incomplete"}] :
        /\ Whole(report) \/ (interrupted /\ Cut(report))
        /\ ReportGroup(report)
    /\ running' = FALSE
    /\ UNCHANGED <<interrupted, returned>>

Interrupt ==
    /\ ~returned
    /\ interrupted' = TRUE
    /\ UNCHANGED <<group, running, outcome, returned>>

Return ==
    /\ ~returned
    /\ ~running
    /\ group = NGroups + 1
    /\ returned' = TRUE
    /\ UNCHANGED <<interrupted, group, running, outcome>>

Progress == BeginGroup \/ SkipGroup \/ EndGroup \/ Return

Next == Progress \/ Interrupt

Spec == Init /\ [][Next]_vars

\* Run goes on until it returns.
FairSpec == Spec /\ WF_vars(Progress)
=============================================================================
