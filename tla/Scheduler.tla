------------------------------ MODULE Scheduler ------------------------------
(***************************************************************************)
(* The measurement scheduler of src/internal/benchmark: Run walks the      *)
(* protocol groups one after the other, and runProtocolFair takes one      *)
(* group through                                                           *)
(*                                                                         *)
(*    cold probes | warm sessions | one round per query | DNSSEC probes    *)
(*                                                                         *)
(* The bars are barriers (sync.WaitGroup.Wait).  Inside a phase a pool of  *)
(* at most Concurrency goroutines works on the group's targets; cold       *)
(* probes and rounds are fed through an unbuffered channel by a dispatcher *)
(* that also watches the context, the two other phases from a channel      *)
(* filled in advance.  The operator may interrupt the run at any moment.   *)
(*                                                                         *)
(* Targets are numbered in target-ID order.  An exchange's payload is left *)
(* out: an exchange is in flight between two steps of its worker, and what *)
(* is kept of an observation is that it was recorded.  A query timeout is  *)
(* a recorded observation like any other.                                  *)
(***************************************************************************)
EXTENDS Naturals, FiniteSets

CONSTANTS
    NGroups,      \* number of protocol groups (opts and catalog choose them)
    Group,        \* [1..NGroups -> SUBSET Nat]: the targets of each group
    Concurrency,  \* opts.Concurrency
    NQueries,     \* len(queries): the measured rounds
    ColdProbes,   \* cold probes per target (3 in the code)
    Warmups,      \* len(warmupNames) (3 in the code)
    DNSSEC        \* opts.DNSSEC

Targets == UNION {Group[g] : g \in 1..NGroups}
Workers == 1..Concurrency

ASSUME SchedulerAssumption ==
    /\ NGroups \in Nat
    /\ Group \in [1..NGroups -> SUBSET Nat]
    /\ \A g \in 1..NGroups : Group[g] # {} /\ 0 \notin Group[g]
    /\ \A g, h \in 1..NGroups : g # h => Group[g] \cap Group[h] = {}
    /\ Concurrency \in Nat \ {0}
    /\ NQueries \in Nat
    /\ ColdProbes \in Nat \ {0}
    /\ Warmups \in Nat \ {0}
    /\ DNSSEC \in BOOLEAN

VARIABLES
    ctxDone,     \* ctx.Err() # nil
    group,       \* position of the protocol loop of Run
    stage,       \* where runProtocolFair is
    round,       \* queries already taken by the round loop
    todo,        \* jobs of the current phase no worker has taken
    dpc,         \* the dispatcher: "check", "select" or "closed"
    dispatched,  \* targets handed to a preparation worker
    readyList,   \* the slice ready of runProtocolFair
    wpc,         \* where each worker goroutine is
    wjob,        \* the target each worker works on (0: none yet)
    ready,       \* runner.ready
    finished,    \* runner.finished
    openFailed,  \* the runner ended with failedObservations
    incomplete,  \* runner.result.Incomplete
    cold,        \* len(runner.result.Cold)
    coldOpen,    \* a cold probe's session is open
    warm,        \* warm-up exchanges done on the measured session
    session,     \* runner.session: "none", "open" or "closed"
    obs,         \* len(runner.result.Observations)
    verdict,     \* runner.result.DNSSEC # nil
    reported     \* targets of the groups already in report.Targets

runnerVars == <<ready, finished, openFailed, incomplete, cold, coldOpen,
                warm, session, obs, verdict>>
poolVars   == <<todo, dpc, wpc, wjob>>
groupVars  == <<group, stage, round, dispatched, readyList, reported>>
vars       == <<ctxDone, groupVars, poolVars, runnerVars>>

Stages == {"next", "cold", "warm", "prepared", "round", "between",
           "measured", "dnssec", "finish", "collect", "done"}

ColdPCs    == {"new", "coldCheck", "coldOpen", "coldQuery"}
WarmPCs    == {"warmStart", "warmOpen", "warmCheck", "warmQuery"}
MeasurePCs == {"measureCheck", "measureQuery"}
ProbePCs   == {"probeCheck", "signedQuery", "bogusQuery"}
BusyPCs    == ColdPCs \cup WarmPCs \cup MeasurePCs \cup ProbePCs
WorkerPCs  == {"exited", "recv"} \cup BusyPCs

\* The worker is inside a call on its target's session.
OnSessionPCs == {"warmCheck", "warmQuery"} \cup MeasurePCs \cup ProbePCs

Busy(w) == wpc[w] \in BusyPCs

Init ==
    /\ ctxDone = FALSE
    /\ group = 1
    /\ stage = "next"
    /\ round = 0
    /\ todo = {}
    /\ dpc = "closed"
    /\ dispatched = {}
    /\ readyList = {}
    /\ wpc = [w \in Workers |-> "exited"]
    /\ wjob = [w \in Workers |-> 0]
    /\ ready = [t \in Targets |-> FALSE]
    /\ finished = [t \in Targets |-> FALSE]
    /\ openFailed = [t \in Targets |-> FALSE]
    /\ incomplete = [t \in Targets |-> FALSE]
    /\ cold = [t \in Targets |-> 0]
    /\ coldOpen = [t \in Targets |-> FALSE]
    /\ warm = [t \in Targets |-> 0]
    /\ session = [t \in Targets |-> "none"]
    /\ obs = [t \in Targets |-> 0]
    /\ verdict = [t \in Targets |-> FALSE]
    /\ reported = {}

-----------------------------------------------------------------------------
(***************************************************************************)
(* Pools.  A phase starts at most Concurrency goroutines, never more than  *)
(* it has jobs, and its barrier opens when all of them have returned.      *)
(***************************************************************************)

PoolSize(S) == IF Concurrency <= Cardinality(S) THEN Concurrency ELSE Cardinality(S)

Spawn(jobs, dispatcher) ==
    /\ todo' = jobs
    /\ dpc' = dispatcher
    /\ wpc' = [w \in Workers |-> IF w <= PoolSize(jobs) THEN "recv" ELSE "exited"]
    /\ UNCHANGED wjob

\* wg.Wait() has returned.
Joined == dpc = "closed" /\ \A w \in Workers : wpc[w] = "exited"

\* The jobs are sent in target-ID order, through either kind of channel.
IsNextJob(t) == t \in todo /\ \A u \in todo : t <= u

\* Where a worker of the current phase begins its job.
Entry == CASE stage = "cold"  -> "new"
           [] stage = "warm"  -> "warmStart"
           [] stage = "round" -> "measureCheck"
           [] OTHER           -> "probeCheck"

\* Phases whose channel is filled and closed before a worker starts.
Buffered == stage \in {"warm", "dnssec"}

\* The worker is done with its job and asks the channel for the next one.
BackToChannel(w) ==
    /\ wpc' = [wpc EXCEPT ![w] = "recv"]
    /\ wjob' = [wjob EXCEPT ![w] = 0]

GoTo(w, pc) ==
    /\ wpc' = [wpc EXCEPT ![w] = pc]
    /\ UNCHANGED wjob

\* runner.abort, for every target of S.
Abort(S) ==
    /\ ready' = [t \in Targets |-> IF t \in S THEN FALSE ELSE ready[t]]
    /\ finished' = [t \in Targets |-> IF t \in S THEN TRUE ELSE finished[t]]
    /\ incomplete' = [t \in Targets |-> IF t \in S THEN TRUE ELSE incomplete[t]]

RunnerUnchanged == UNCHANGED <<ready, finished, incomplete>>

\* OpenError without a cancellation: failedObservations for every query.
FailOpen(t) ==
    /\ openFailed' = [openFailed EXCEPT ![t] = TRUE]
    /\ obs' = [obs EXCEPT ![t] = NQueries]
    /\ finished' = [finished EXCEPT ![t] = TRUE]
    /\ UNCHANGED <<ready, incomplete>>

-----------------------------------------------------------------------------
(***************************************************************************)
(* The goroutine of Run and runProtocolFair, which also runs the           *)
(* dispatch loops.                                                         *)
(***************************************************************************)

\* Run starts a group, unless the interrupt came first.
StartGroup ==
    /\ stage = "next"
    /\ group <= NGroups
    /\ ~ctxDone
    /\ stage' = "cold"
    /\ round' = 0
    /\ dispatched' = {}
    /\ readyList' = {}
    /\ Spawn(Group[group], "check")
    /\ UNCHANGED <<ctxDone, group, reported, runnerVars>>

\* Mutant: the skipped group's results are not marked incomplete.
SkipGroupUnmarked ==
    /\ stage = "next"
    /\ group <= NGroups
    /\ ctxDone
    /\ reported' = reported \cup Group[group]
    /\ group' = group + 1
    /\ UNCHANGED <<ctxDone, stage, round, dispatched, readyList, poolVars, runnerVars>>

\* A group the interrupt arrived before: unmeasuredResults, nothing opened.
SkipGroup ==
    /\ stage = "next"
    /\ group <= NGroups
    /\ ctxDone
    /\ incomplete' = [t \in Targets |-> incomplete[t] \/ t \in Group[group]]
    /\ reported' = reported \cup Group[group]
    /\ group' = group + 1
    /\ UNCHANGED <<ctxDone, stage, round, dispatched, readyList, poolVars, ready,
                   finished, openFailed, cold, coldOpen, warm, session, obs, verdict>>

\* The top of a dispatch loop: out of jobs, or the context is done.
DispatchCheck ==
    /\ dpc = "check"
    /\ dpc' = IF todo = {} \/ ctxDone THEN "closed" ELSE "select"
    /\ UNCHANGED <<ctxDone, groupVars, todo, wpc, wjob, runnerVars>>

\* Mutant: the index sent is one too large.
HandoffNext(w) ==
    /\ dpc = "select"
    /\ wpc[w] = "recv"
    /\ \E t \in todo :
        /\ IsNextJob(t)
        /\ todo' = todo \ {t}
        /\ wjob' = [wjob EXCEPT ![w] = t + 1]
    /\ wpc' = [wpc EXCEPT ![w] = Entry]
    /\ dpc' = "check"
    /\ UNCHANGED <<ctxDone, groupVars, runnerVars>>

\* select { case jobs <- index: ... }: a waiting worker takes the job.
Handoff(w) ==
    /\ dpc = "select"
    /\ wpc[w] = "recv"
    /\ \E t \in todo :
        /\ IsNextJob(t)
        /\ todo' = todo \ {t}
        /\ wjob' = [wjob EXCEPT ![w] = t]
        /\ dispatched' = IF stage = "cold" THEN dispatched \cup {t} ELSE dispatched
    /\ wpc' = [wpc EXCEPT ![w] = Entry]
    /\ dpc' = "check"
    /\ UNCHANGED <<ctxDone, group, stage, round, readyList, reported, runnerVars>>

\* select { case <-ctx.Done(): break dispatch }
DispatchCancelled ==
    /\ dpc = "select"
    /\ ctxDone
    /\ dpc' = "closed"
    /\ UNCHANGED <<ctxDone, groupVars, todo, wpc, wjob, runnerVars>>

\* The cold barrier of prepareTargets.  A cancelled run aborts what it
\* dispatched and goes straight to the end of the group; otherwise every
\* target was dispatched and the warm phase queues all of them.
ColdBarrier ==
    /\ stage = "cold"
    /\ Joined
    /\ IF ctxDone
       THEN /\ Abort({t \in dispatched : ~finished[t]})
            /\ stage' = "finish"
            /\ UNCHANGED poolVars
       ELSE /\ Spawn(dispatched, "closed")
            /\ stage' = "warm"
            /\ RunnerUnchanged
    /\ UNCHANGED <<ctxDone, group, round, dispatched, readyList, reported,
                   openFailed, cold, coldOpen, warm, session, obs, verdict>>

\* The warm barrier; runProtocolFair collects the runners that are ready.
WarmBarrier ==
    /\ stage = "warm"
    /\ Joined
    /\ todo = {}
    /\ readyList' = {t \in dispatched : ready[t]}
    /\ stage' = "prepared"
    /\ UNCHANGED <<ctxDone, group, round, dispatched, reported, poolVars, runnerVars>>

\* runQueryRound over the ready runners for the next query.
StartRound ==
    /\ round' = round + 1
    /\ stage' = "round"
    /\ Spawn(readyList, "check")

\* "if ctx.Err() == nil" after the preparation: the measured rounds start.
\* A round over no runner returns at once.
BeginMeasuring ==
    /\ stage = "prepared"
    /\ IF ctxDone \/ readyList = {} \/ NQueries = 0
       THEN /\ stage' = IF ctxDone THEN "finish" ELSE "measured"
            /\ UNCHANGED <<round, poolVars>>
       ELSE StartRound
    /\ UNCHANGED <<ctxDone, group, dispatched, readyList, reported, runnerVars>>

\* The end of runQueryRound: runners the dispatcher did not reach are aborted.
RoundBarrier ==
    /\ stage = "round"
    /\ Joined
    /\ IF ctxDone THEN Abort(todo) ELSE RunnerUnchanged
    /\ stage' = "between"
    /\ UNCHANGED <<ctxDone, group, round, dispatched, readyList, reported, poolVars,
                   openFailed, cold, coldOpen, warm, session, obs, verdict>>

\* Mutant: the context is not read between the rounds.
AfterRoundUnchecked ==
    /\ stage = "between"
    /\ IF round < NQueries
       THEN StartRound
       ELSE stage' = "measured" /\ UNCHANGED <<round, poolVars>>
    /\ UNCHANGED <<ctxDone, group, dispatched, readyList, reported, runnerVars>>

\* The foot of the round loop, which reads the context once more.
AfterRound ==
    /\ stage = "between"
    /\ IF ~ctxDone /\ round < NQueries
       THEN StartRound
       ELSE /\ stage' = "measured"
            /\ UNCHANGED <<round, poolVars>>
    /\ UNCHANGED <<ctxDone, group, dispatched, readyList, reported, runnerVars>>

\* The opt-in DNSSEC phase, skipped by an interrupted run.
AfterRounds ==
    /\ stage = "measured"
    /\ IF DNSSEC /\ readyList # {} /\ ~ctxDone
       THEN /\ stage' = "dnssec"
            /\ Spawn(readyList, "closed")
       ELSE /\ stage' = "finish"
            /\ UNCHANGED poolVars
    /\ UNCHANGED <<ctxDone, group, round, dispatched, readyList, reported, runnerVars>>

DNSSECBarrier ==
    /\ stage = "dnssec"
    /\ Joined
    /\ todo = {}
    /\ stage' = "finish"
    /\ UNCHANGED <<ctxDone, group, round, dispatched, readyList, reported,
                   poolVars, runnerVars>>

\* Mutant: an interrupted group keeps what it measured.
FinishGroupUnchecked ==
    /\ stage = "finish"
    /\ stage' = "collect"
    /\ UNCHANGED <<ctxDone, group, round, dispatched, readyList, reported, poolVars,
                   runnerVars>>

\* Mutant: a target with all its samples is spared by the interrupt.
FinishGroupSpares ==
    /\ stage = "finish"
    /\ IF ctxDone
       THEN Abort({t \in readyList : obs[t] < NQueries})
       ELSE RunnerUnchanged
    /\ stage' = "collect"
    /\ UNCHANGED <<ctxDone, group, round, dispatched, readyList, reported, poolVars,
                   openFailed, cold, coldOpen, warm, session, obs, verdict>>

\* "if ctx.Err() != nil": the last place the group looks at the context.
FinishGroup ==
    /\ stage = "finish"
    /\ IF ctxDone THEN Abort(readyList) ELSE RunnerUnchanged
    /\ stage' = "collect"
    /\ UNCHANGED <<ctxDone, group, round, dispatched, readyList, reported, poolVars,
                   openFailed, cold, coldOpen, warm, session, obs, verdict>>

\* The results loop: runner.close for each dispatched target, an
\* unmeasuredResult for each target no worker was given.
CollectResults ==
    /\ stage = "collect"
    /\ incomplete' = [t \in Targets |->
                        incomplete[t] \/ (t \in Group[group] /\ t \notin dispatched)]
    /\ session' = [t \in Targets |->
                        IF t \in dispatched /\ session[t] = "open"
                        THEN "closed" ELSE session[t]]
    /\ reported' = reported \cup Group[group]
    /\ group' = group + 1
    /\ stage' = "next"
    /\ UNCHANGED <<ctxDone, round, dispatched, readyList, poolVars, ready, finished,
                   openFailed, cold, coldOpen, warm, obs, verdict>>

\* Run returns.
Return ==
    /\ stage = "next"
    /\ group = NGroups + 1
    /\ stage' = "done"
    /\ UNCHANGED <<ctxDone, group, round, dispatched, readyList, reported,
                   poolVars, runnerVars>>

-----------------------------------------------------------------------------
(***************************************************************************)
(* Worker goroutines.                                                      *)
(***************************************************************************)

\* Mutant: two workers can be given one index.
TakeShared(w) ==
    /\ Buffered
    /\ wpc[w] = "recv"
    /\ \E t \in todo :
        /\ IsNextJob(t)
        /\ todo' \in {todo, todo \ {t}}
        /\ wjob' = [wjob EXCEPT ![w] = t]
    /\ wpc' = [wpc EXCEPT ![w] = Entry]
    /\ UNCHANGED <<ctxDone, groupVars, dpc, runnerVars>>

\* A job of a buffered channel; prepareWarm has nothing to do for a runner
\* that is finished already.
Take(w) ==
    /\ Buffered
    /\ wpc[w] = "recv"
    /\ \E t \in todo :
        /\ IsNextJob(t)
        /\ todo' = todo \ {t}
        /\ wjob' = [wjob EXCEPT ![w] = t]
    /\ wpc' = [wpc EXCEPT ![w] = Entry]
    /\ UNCHANGED <<ctxDone, groupVars, dpc, runnerVars>>

\* range over a closed channel ends: the goroutine returns.
WorkerExit(w) ==
    /\ wpc[w] = "recv"
    /\ dpc = "closed"
    /\ Buffered => todo = {}
    /\ wpc' = [wpc EXCEPT ![w] = "exited"]
    /\ UNCHANGED <<ctxDone, groupVars, todo, dpc, wjob, runnerVars>>

\* What a worker does once the exchange of a job has ended: an interrupt
\* aborts the runner, else the worker goes on as the caller says.
AbortOr(w, t, continue) ==
    IF ctxDone
    THEN Abort({t}) /\ BackToChannel(w)
    ELSE RunnerUnchanged /\ continue

WorkerFrame == UNCHANGED <<ctxDone, groupVars, todo, dpc>>

\* newTargetRunner: the factory rejects the target, or the runner is built.
NewRunner(w) ==
    /\ wpc[w] = "new"
    /\ LET t == wjob[w] IN
        \/ /\ GoTo(w, "coldCheck")
           /\ UNCHANGED <<openFailed, obs>>
           /\ RunnerUnchanged
        \/ /\ ctxDone
           /\ Abort({t})
           /\ BackToChannel(w)
           /\ UNCHANGED <<openFailed, obs>>
        \/ /\ ~ctxDone
           /\ FailOpen(t)
           /\ BackToChannel(w)
    /\ WorkerFrame
    /\ UNCHANGED <<cold, coldOpen, warm, session, verdict>>

\* The context check at the head of the cold loop.
ColdCheck(w) ==
    /\ wpc[w] = "coldCheck"
    /\ AbortOr(w, wjob[w], GoTo(w, "coldOpen"))
    /\ WorkerFrame
    /\ UNCHANGED <<openFailed, cold, coldOpen, warm, session, obs, verdict>>

\* Cold probe number cold[t] is recorded; the loop goes on or ends.
EndProbe(w, t) ==
    /\ cold' = [cold EXCEPT ![t] = @ + 1]
    /\ AbortOr(w, t, IF cold[t] + 1 < ColdProbes
                     THEN GoTo(w, "coldCheck")
                     ELSE BackToChannel(w))

\* factory.Open of a cold probe returns an error, or a session to query.
ColdOpen(w) ==
    /\ wpc[w] = "coldOpen"
    /\ LET t == wjob[w] IN
        \/ /\ EndProbe(w, t)
           /\ UNCHANGED coldOpen
        \/ /\ coldOpen' = [coldOpen EXCEPT ![t] = TRUE]
           /\ GoTo(w, "coldQuery")
           /\ RunnerUnchanged
           /\ UNCHANGED cold
    /\ WorkerFrame
    /\ UNCHANGED <<openFailed, warm, session, obs, verdict>>

\* Mutant: an interrupted cold probe forgets its session.
ColdQueryForgets(w) ==
    /\ wpc[w] = "coldQuery"
    /\ coldOpen' = [coldOpen EXCEPT ![wjob[w]] = ctxDone]
    /\ EndProbe(w, wjob[w])
    /\ WorkerFrame
    /\ UNCHANGED <<openFailed, warm, session, obs, verdict>>

\* The cold exchange returns; its session is closed whatever came back.
ColdQuery(w) ==
    /\ wpc[w] = "coldQuery"
    /\ coldOpen' = [coldOpen EXCEPT ![wjob[w]] = FALSE]
    /\ EndProbe(w, wjob[w])
    /\ WorkerFrame
    /\ UNCHANGED <<openFailed, warm, session, obs, verdict>>

\* prepareWarm: a finished runner is left alone.
WarmStart(w) ==
    /\ wpc[w] = "warmStart"
    /\ IF finished[wjob[w]] THEN BackToChannel(w) ELSE GoTo(w, "warmOpen")
    /\ WorkerFrame
    /\ UNCHANGED runnerVars

\* factory.Open of the measured session returns.
WarmOpen(w) ==
    /\ wpc[w] = "warmOpen"
    /\ LET t == wjob[w] IN
        \/ /\ session' = [session EXCEPT ![t] = "open"]
           /\ GoTo(w, "warmCheck")
           /\ UNCHANGED <<openFailed, obs>>
           /\ RunnerUnchanged
        \/ /\ ctxDone
           /\ Abort({t})
           /\ BackToChannel(w)
           /\ UNCHANGED <<session, openFailed, obs>>
        \/ /\ ~ctxDone
           /\ FailOpen(t)
           /\ BackToChannel(w)
           /\ UNCHANGED session
    /\ WorkerFrame
    /\ UNCHANGED <<cold, coldOpen, warm, verdict>>

\* The context check before a warm-up exchange.
WarmCheck(w) ==
    /\ wpc[w] = "warmCheck"
    /\ AbortOr(w, wjob[w], GoTo(w, "warmQuery"))
    /\ WorkerFrame
    /\ UNCHANGED <<openFailed, cold, coldOpen, warm, session, obs, verdict>>

\* A warm-up exchange returns; after the last one the runner is ready.
WarmQuery(w) ==
    /\ wpc[w] = "warmQuery"
    /\ LET t == wjob[w] IN
        \/ /\ ctxDone
           /\ Abort({t})
           /\ BackToChannel(w)
           /\ UNCHANGED warm
        \/ /\ ~ctxDone
           /\ warm' = [warm EXCEPT ![t] = @ + 1]
           /\ IF warm[t] + 1 < Warmups
              THEN /\ GoTo(w, "warmCheck")
                   /\ UNCHANGED ready
              ELSE /\ ready' = [ready EXCEPT ![t] = TRUE]
                   /\ BackToChannel(w)
           /\ UNCHANGED <<finished, incomplete>>
    /\ WorkerFrame
    /\ UNCHANGED <<openFailed, cold, coldOpen, session, obs, verdict>>

\* measure, up to the exchange.
MeasureCheck(w) ==
    /\ wpc[w] = "measureCheck"
    /\ IF finished[wjob[w]] \/ ~ready[wjob[w]]
       THEN RunnerUnchanged /\ BackToChannel(w)
       ELSE AbortOr(w, wjob[w], GoTo(w, "measureQuery"))
    /\ WorkerFrame
    /\ UNCHANGED <<openFailed, cold, coldOpen, warm, session, obs, verdict>>

\* Mutant: a worker takes its target through every query before the next.
MeasureQueryOn(w) ==
    /\ wpc[w] = "measureQuery"
    /\ AbortOr(w, wjob[w], IF obs[wjob[w]] + 1 < NQueries
                           THEN GoTo(w, "measureCheck") ELSE BackToChannel(w))
    /\ obs' = IF ctxDone THEN obs ELSE [obs EXCEPT ![wjob[w]] = @ + 1]
    /\ WorkerFrame
    /\ UNCHANGED <<openFailed, cold, coldOpen, warm, session, verdict>>

\* The measured exchange returns: an observation, unless the run was
\* interrupted meanwhile.
MeasureQuery(w) ==
    /\ wpc[w] = "measureQuery"
    /\ AbortOr(w, wjob[w], BackToChannel(w))
    /\ obs' = IF ctxDone THEN obs ELSE [obs EXCEPT ![wjob[w]] = @ + 1]
    /\ WorkerFrame
    /\ UNCHANGED <<openFailed, cold, coldOpen, warm, session, verdict>>

\* probeDNSSEC, up to the signed probe.
ProbeCheck(w) ==
    /\ wpc[w] = "probeCheck"
    /\ IF ready[wjob[w]] /\ session[wjob[w]] # "none" /\ ~ctxDone
       THEN GoTo(w, "signedQuery")
       ELSE BackToChannel(w)
    /\ WorkerFrame
    /\ UNCHANGED runnerVars

\* The signed probe returns; the bogus one follows unless interrupted.
SignedQuery(w) ==
    /\ wpc[w] = "signedQuery"
    /\ IF ctxDone THEN BackToChannel(w) ELSE GoTo(w, "bogusQuery")
    /\ WorkerFrame
    /\ UNCHANGED runnerVars

\* The bogus probe returns: a verdict, unless interrupted.
BogusQuery(w) ==
    /\ wpc[w] = "bogusQuery"
    /\ BackToChannel(w)
    /\ verdict' = IF ctxDone THEN verdict ELSE [verdict EXCEPT ![wjob[w]] = TRUE]
    /\ WorkerFrame
    /\ UNCHANGED <<ready, finished, openFailed, incomplete, cold, coldOpen, warm,
                   session, obs>>

-----------------------------------------------------------------------------
\* The operator interrupts the run.
Interrupt ==
    /\ ~ctxDone
    /\ stage # "done"
    /\ ctxDone' = TRUE
    /\ UNCHANGED <<groupVars, poolVars, runnerVars>>

Controller ==
    \/ StartGroup \/ SkipGroup \/ DispatchCheck \/ DispatchCancelled
    \/ ColdBarrier \/ WarmBarrier \/ BeginMeasuring \/ RoundBarrier
    \/ AfterRound \/ AfterRounds \/ DNSSECBarrier \/ FinishGroup
    \/ CollectResults \/ Return

Worker(w) ==
    \/ Handoff(w) \/ Take(w) \/ WorkerExit(w)
    \/ NewRunner(w) \/ ColdCheck(w) \/ ColdOpen(w) \/ ColdQuery(w)
    \/ WarmStart(w) \/ WarmOpen(w) \/ WarmCheck(w) \/ WarmQuery(w)
    \/ MeasureCheck(w) \/ MeasureQuery(w)
    \/ ProbeCheck(w) \/ SignedQuery(w) \/ BogusQuery(w)

\* The run is over; every other state must have a step.
Terminated == stage = "done" /\ UNCHANGED vars

Next ==
    \/ Controller
    \/ \E w \in Workers : Worker(w)
    \/ Interrupt
    \/ Terminated

Spec == Init /\ [][Next]_vars

\* Every goroutine keeps running, and every network call returns: each Open
\* and Query runs under opts.Timeout.  Nothing obliges the operator to
\* interrupt.  The random choice between the two ready cases of a select
\* needs no fairness, since either choice makes progress.
FairSpec ==
    /\ Spec
    /\ WF_vars(Controller)
    /\ \A w \in Workers : WF_vars(Worker(w))
-----------------------------------------------------------------------------
PoolTypeOK ==
    /\ todo \subseteq Targets
    /\ dpc \in {"check", "select", "closed"}
    /\ wpc \in [Workers -> WorkerPCs]
    /\ wjob \in [Workers -> Targets \cup {0}]

GroupTypeOK ==
    /\ ctxDone \in BOOLEAN
    /\ group \in 1..(NGroups + 1)
    /\ stage \in Stages
    /\ round \in Nat
    /\ dispatched \subseteq Targets
    /\ readyList \subseteq Targets
    /\ reported \subseteq Targets

FlagTypeOK ==
    /\ ready \in [Targets -> BOOLEAN]
    /\ finished \in [Targets -> BOOLEAN]
    /\ openFailed \in [Targets -> BOOLEAN]
    /\ incomplete \in [Targets -> BOOLEAN]

DataTypeOK ==
    /\ cold \in [Targets -> Nat]
    /\ coldOpen \in [Targets -> BOOLEAN]
    /\ warm \in [Targets -> Nat]
    /\ session \in [Targets -> {"none", "open", "closed"}]
    /\ obs \in [Targets -> Nat]
    /\ verdict \in [Targets -> BOOLEAN]

\* Every variable has the type its Go counterpart has.
TypeOK == PoolTypeOK /\ GroupTypeOK /\ FlagTypeOK /\ DataTypeOK

\* A session is never used concurrently: two workers never hold the same
\* target, in any phase (doc comments of prepareTargets, targetRunner and
\* probeDNSSECTargets; the transports' sessions are written for one caller).
SessionExclusive ==
    \A v, w \in Workers : v # w /\ Busy(v) /\ Busy(w) => wjob[v] # wjob[w]

\* The phases of a group and its rounds are kept in step. While any cold probe
\* of a group runs no target of it has opened its measured session, so no warm
\* connection ages behind a blocked target; and a query is put to every ready
\* target before the next is put to any, so the sample counts of two live
\* targets never differ by more than one (prepareTargets, runQueryRound).
InStep ==
    /\ (\E w \in Workers : wpc[w] \in ColdPCs) => \A t \in Group[group] : session[t] = "none"
    /\ stage \in {"round", "between", "measured", "dnssec", "finish"} =>
          \A t, u \in readyList : ready[t] /\ ready[u] => obs[t] <= obs[u] + 1

\* A reported target that is not marked incomplete has an observation for
\* every query, all its cold probes (unless the factory refused it), and,
\* when asked for, its DNSSEC verdict.
CompleteMeansAll ==
    \A t \in reported : ~incomplete[t] =>
        /\ obs[t] = NQueries
        /\ openFailed[t] \/ cold[t] = ColdProbes
        /\ DNSSEC /\ ~openFailed[t] => verdict[t]

\* A group is measured whole or not at all: its report never holds both a
\* measured target and an incomplete one, so a ranking is never drawn from
\* the part of a group that an interrupt spared.
AllOrNothing ==
    \A g \in 1..NGroups : Group[g] \subseteq reported =>
        \/ \A t \in Group[g] : ~incomplete[t]
        \/ \A t \in Group[g] : incomplete[t] \/ openFailed[t]

\* Only an interrupt makes a target incomplete.
IncompleteMeansInterrupted == \A t \in Targets : incomplete[t] => ctxDone

\* A session is open as long as it is used and no longer: a worker that warms
\* up, measures or probes has one that is open, however the phases around it
\* ended, and every session opened for a reported target is closed again, on
\* every path out of the group (targetRunner.close, prepareCold).
SessionsOpenWhileUsed ==
    /\ \A w \in Workers : wpc[w] \in OnSessionPCs => session[wjob[w]] = "open"
    /\ \A t \in reported : session[t] # "open" /\ ~coldOpen[t]

\* Once the run is interrupted no worker begins an exchange on the measured
\* sessions and no goroutine pool is started; only a cold probe whose session
\* is being opened still sends its question ("no new network work starts
\* after a cancel").
NoNewWorkAfterInterrupt ==
    [][ctxDone =>
        /\ \A w \in Workers :
             wpc'[w] \in {"coldOpen", "coldQuery", "warmQuery", "measureQuery",
                          "signedQuery", "bogusQuery"} /\ wpc'[w] # wpc[w]
                => wpc[w] = "coldOpen"
        /\ Joined => Joined']_vars

\* An interrupt that finds a group before its last look at the context marks
\* every target of it incomplete, the ones with all their samples too; only
\* targets that had failed to open keep their verdict.
InterruptMarksGroup ==
    \A t \in Targets :
        (ctxDone /\ t \notin reported /\ ~openFailed[t]
            /\ ~(t \in Group[group] /\ stage = "collect"))
        ~> incomplete[t]
=============================================================================
