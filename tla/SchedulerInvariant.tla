-------------------------- MODULE SchedulerInvariant --------------------------
(***************************************************************************)
(* The inductive invariant of Scheduler: what SessionExclusive,            *)
(* AllOrNothing and the refinement of BenchmarkRun rest on.                *)
(***************************************************************************)
EXTENDS SchedulerRefinement

\* A group is being measured.
InGroup == stage \notin {"next", "done"}

\* The targets the current pool works through, and where its workers may be.
JobSet == IF stage = "cold" THEN Group[group]
          ELSE IF stage = "warm" THEN dispatched ELSE readyList

PhasePCs == IF stage = "cold" THEN ColdPCs
            ELSE IF stage = "warm" THEN WarmPCs
            ELSE IF stage = "round" THEN MeasurePCs
            ELSE IF stage = "dnssec" THEN ProbePCs ELSE {}

\* Where a worker's runner cannot have ended yet.
UnfinishedPCs == ColdPCs \cup {"warmOpen", "warmCheck", "warmQuery"}

\* A pool exists only in a phase; a busy worker holds a job of that phase
\* that nobody else holds and that is not waiting in the channel.
PoolInv ==
    /\ stage \notin {"cold", "warm", "round", "dnssec"} => Joined
    /\ dpc # "closed" => stage \in {"cold", "round"}
    /\ stage \in {"cold", "warm", "round", "dnssec"} => todo \subseteq JobSet
    /\ \A w \in Workers : Busy(w) =>
        /\ wpc[w] \in PhasePCs
        /\ wjob[w] \in JobSet
        /\ wjob[w] \notin todo
    /\ SessionExclusive

\* Which targets of the group the phases have reached; only a cancelled
\* dispatcher leaves some behind.
GroupInv ==
    /\ reported = UNION {Group[g] : g \in 1..(group - 1)}
    /\ InGroup =>
        /\ group \in 1..NGroups
        /\ dispatched \subseteq Group[group]
        /\ readyList \subseteq dispatched
    /\ stage \in {"cold", "warm"} => readyList = {}
    /\ stage = "cold" =>
        /\ dispatched = Group[group] \ todo
        /\ dpc = "closed" /\ todo # {} => ctxDone
    /\ stage \in {"warm", "prepared", "round", "between", "measured", "dnssec"}
        => dispatched = Group[group]
    /\ stage \in {"finish", "collect"} /\ dispatched # Group[group] => ctxDone
    /\ stage = "done" => group = NGroups + 1

\* A runner's flags agree with each other.
StatusInv ==
    /\ \A t \in Targets :
        /\ incomplete[t] => ctxDone /\ ~openFailed[t]
        /\ finished[t] => incomplete[t] \/ openFailed[t]
        /\ openFailed[t] => finished[t]
        /\ ready[t] => ~finished[t] /\ ~incomplete[t]
    /\ InGroup => \A t \in readyList : ~openFailed[t]
    /\ stage = "cold" => \A t \in dispatched : ~ready[t]
    /\ stage = "warm" => \A t \in todo : ~ready[t]
    /\ \A w \in Workers :
        /\ wpc[w] \in UnfinishedPCs => ~finished[wjob[w]]
        /\ wpc[w] \in ColdPCs \cup WarmPCs => ~ready[wjob[w]]

\* A target no worker was given yet has not been touched.
FreshInv ==
    \A t \in Targets \ reported :
        ~InGroup \/ t \notin dispatched =>
            ~ready[t] /\ ~finished[t] /\ ~openFailed[t] /\ ~incomplete[t]

\* After the warm phase a dispatched target is either in the ready list or
\* finished; when the group ends, its targets share one fate.
Uncut(S) == \A t \in S : ~incomplete[t]
Cut(S) == \A t \in S : incomplete[t] \/ openFailed[t]

SettledInv ==
    /\ stage = "warm" => \A t \in dispatched :
        \/ t \in todo \/ ready[t] \/ finished[t]
        \/ \E w \in Workers : Busy(w) /\ wjob[w] = t
    /\ stage \in {"prepared", "round", "between", "measured", "dnssec", "finish"}
        => \A t \in dispatched : t \in readyList \/ finished[t]
    /\ stage = "collect" =>
        \/ dispatched = Group[group] /\ Uncut(dispatched)
        \/ Cut(dispatched) /\ (dispatched # Group[group] => ctxDone)
    /\ \A g \in 1..(group - 1) : Uncut(Group[g]) \/ Cut(Group[g])

\* The inductive invariant: the parts above, which fit together only
\* because each worker's job is its own.
IInv == TypeOK /\ PoolInv /\ GroupInv /\ StatusInv /\ FreshInv /\ SettledInv

-----------------------------------------------------------------------------
(***************************************************************************)
(* A second inductive invariant, over IInv: the sessions and the samples.  *)
(***************************************************************************)

\* The current phase has still to do, or to finish, the job of t.
Held(t) == \E w \in Workers : Busy(w) /\ wjob[w] = t
Pending(t) == t \in todo \/ Held(t)

\* A target no worker was given yet has no session and no samples.
BlankInv ==
    \A t \in Targets \ reported :
        ~InGroup \/ t \notin dispatched =>
            session[t] = "none" /\ cold[t] = 0 /\ obs[t] = 0

\* A runner that became ready keeps its session until the group's results are
\* collected, also when it is aborted; a cold session has a worker on it.
SessionInv ==
    /\ \A t \in reported : session[t] # "open"
    /\ \A t \in Targets \ reported :
        ready[t] \/ (InGroup /\ t \in readyList) => session[t] = "open"
    /\ stage = "cold" => \A t \in Group[group] : session[t] = "none"
    /\ \A t \in Targets :
        coldOpen[t] => \E w \in Workers : wpc[w] = "coldQuery" /\ wjob[w] = t
    /\ \A w \in Workers :
        /\ wpc[w] \in OnSessionPCs => session[wjob[w]] = "open"
        /\ wpc[w] = "measureQuery" => ready[wjob[w]]

\* A worker leaves a cold job with all probes done or the runner finished.
ColdInv ==
    /\ \A w \in Workers : wpc[w] \in ColdPCs => cold[wjob[w]] < ColdProbes
    /\ InGroup => \A t \in dispatched :
        finished[t] \/ cold[t] = ColdProbes \/ (stage = "cold" /\ Held(t))

\* The number of samples of a live target follows from where its round is; a
\* runner that leaves the ready list's promise behind is finished.
SampleInv ==
    /\ \A t \in Targets : openFailed[t] => obs[t] = NQueries
    /\ InGroup => round <= NQueries
    /\ stage \in {"cold", "warm", "prepared"} => round = 0
    /\ stage \in {"cold", "warm"} =>
        \A t \in dispatched : ~openFailed[t] => obs[t] = 0
    /\ stage \in {"prepared", "round", "between", "measured", "dnssec", "finish"} =>
        \A t \in readyList :
            /\ ready[t] \/ finished[t]
            /\ ready[t] => obs[t] = IF stage = "round" /\ Pending(t)
                                   THEN round - 1 ELSE round
    /\ stage = "round" /\ dpc = "closed" /\ todo # {} => ctxDone
    /\ stage \in {"measured", "dnssec", "finish"} =>
        ctxDone \/ readyList = {} \/ round = NQueries

\* A live target leaves the DNSSEC phase with its verdict.
VerdictInv ==
    /\ stage = "dnssec" => \A t \in readyList :
        ready[t] => Pending(t) \/ verdict[t] \/ ctxDone
    /\ stage = "finish" => \A t \in readyList :
        ready[t] /\ DNSSEC => verdict[t] \/ ctxDone

\* What the end of a group promises of the targets it does not mark.
Sampled(t) == obs[t] = NQueries /\ (DNSSEC => verdict[t])

CompleteInv ==
    /\ stage = "collect" => \A t \in dispatched : finished[t] \/ Sampled(t)
    /\ \A t \in reported : ~incomplete[t] /\ ~openFailed[t] =>
        Sampled(t) /\ cold[t] = ColdProbes

SInv == BlankInv /\ SessionInv /\ ColdInv /\ SampleInv /\ VerdictInv /\ CompleteInv
=============================================================================
