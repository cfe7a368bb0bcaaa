--------------------------- MODULE SchedulerProofs ---------------------------
(***************************************************************************)
(* Proofs about Scheduler: its inductive invariant, the safety properties  *)
(* that follow from it, and that it implements BenchmarkRun; then the      *)
(* invariant of its sessions and samples, with the properties of those.    *)
(*                                                                         *)
(* The thirteen steps of a worker inside a job are first summarised by one  *)
(* relation, JobStep => Summary, so that each part of the invariant is     *)
(* argued once for all of them.                                            *)
(***************************************************************************)
EXTENDS SchedulerInvariant, TLAPS

\* The steps of a worker that holds a job.
JobStep(w) ==
    \/ NewRunner(w) \/ ColdCheck(w) \/ ColdOpen(w) \/ ColdQuery(w)
    \/ WarmStart(w) \/ WarmOpen(w) \/ WarmCheck(w) \/ WarmQuery(w)
    \/ MeasureCheck(w) \/ MeasureQuery(w)
    \/ ProbeCheck(w) \/ SignedQuery(w) \/ BogusQuery(w)

\* How such a step moves the worker ...
Onward(w) ==
    /\ wjob' = wjob
    /\ wpc' = [wpc EXCEPT ![w] = wpc'[w]]
    /\ \/ wpc[w] \in ColdPCs /\ wpc'[w] \in ColdPCs
       \/ wpc[w] \in WarmPCs /\ wpc'[w] \in WarmPCs
       \/ wpc[w] \in MeasurePCs /\ wpc'[w] \in MeasurePCs
       \/ wpc[w] \in ProbePCs /\ wpc'[w] \in ProbePCs

Back(w) ==
    /\ wjob' = [wjob EXCEPT ![w] = 0]
    /\ wpc' = [wpc EXCEPT ![w] = "recv"]

\* ... and what it does to the flags of the worker's runner.
Kept(w) ==
    /\ UNCHANGED <<ready, finished, openFailed, incomplete>>
    /\ wpc'[w] \in UnfinishedPCs /\ wpc[w] \notin UnfinishedPCs => ~finished[wjob[w]]
    /\ wpc[w] \in WarmPCs /\ wpc'[w] = "recv" => finished[wjob[w]]

Aborted(w) ==
    /\ ctxDone
    /\ Abort({wjob[w]})
    /\ UNCHANGED openFailed
    /\ Back(w)
    /\ wpc[w] \in UnfinishedPCs \cup MeasurePCs

Failed(w) ==
    /\ ~ctxDone
    /\ openFailed' = [openFailed EXCEPT ![wjob[w]] = TRUE]
    /\ finished' = [finished EXCEPT ![wjob[w]] = TRUE]
    /\ UNCHANGED <<ready, incomplete>>
    /\ Back(w)
    /\ wpc[w] \in UnfinishedPCs

Readied(w) ==
    /\ ~ctxDone
    /\ ready' = [ready EXCEPT ![wjob[w]] = TRUE]
    /\ UNCHANGED <<finished, openFailed, incomplete>>
    /\ Back(w)
    /\ wpc[w] = "warmQuery"

Summary(w) ==
    /\ Busy(w)
    /\ UNCHANGED <<ctxDone, groupVars, todo, dpc>>
    /\ Onward(w) \/ Back(w)
    /\ Kept(w) \/ Aborted(w) \/ Failed(w) \/ Readied(w)

\* Every step inside a job is described by Summary.
LEMMA JobSummary ==
    ASSUME TypeOK, NEW w \in Workers, JobStep(w)
    PROVE  Summary(w)
<1> wpc \in [Workers -> WorkerPCs]
  BY DEF TypeOK, PoolTypeOK
<1> USE DEF Summary, Busy, BusyPCs, ColdPCs, WarmPCs, MeasurePCs, ProbePCs,
        UnfinishedPCs, Onward, Back, Kept, Aborted, Failed, Readied,
        WorkerFrame, GoTo, BackToChannel, RunnerUnchanged, AbortOr, groupVars
<1>1. CASE NewRunner(w)
  BY <1>1, SMT DEF NewRunner, FailOpen
<1>2. CASE ColdCheck(w)
  BY <1>2, SMT DEF ColdCheck
<1>3. CASE ColdOpen(w)
  BY <1>3, SMT DEF ColdOpen, EndProbe
<1>4. CASE ColdQuery(w)
  BY <1>4, SMT DEF ColdQuery, EndProbe
<1>5. CASE WarmStart(w)
  BY <1>5, SMT DEF WarmStart, runnerVars
<1>6. CASE WarmOpen(w)
  BY <1>6, SMT DEF WarmOpen, FailOpen
<1>7. CASE WarmCheck(w)
  BY <1>7, SMT DEF WarmCheck
<1>8. CASE WarmQuery(w)
  BY <1>8, SMT DEF WarmQuery
<1>9. CASE MeasureCheck(w)
  BY <1>9, SMT DEF MeasureCheck
<1>10. CASE MeasureQuery(w)
  BY <1>10, SMT DEF MeasureQuery
<1>11. CASE ProbeCheck(w)
  BY <1>11, SMT DEF ProbeCheck, runnerVars
<1>12. CASE SignedQuery(w)
  BY <1>12, SMT DEF SignedQuery, runnerVars
<1>13. CASE BogusQuery(w)
  BY <1>13, SMT DEF BogusQuery
<1>14. QED
  BY <1>1, <1>2, <1>3, <1>4, <1>5, <1>6, <1>7, <1>8, <1>9, <1>10, <1>11, <1>12,
     <1>13 DEF JobStep

-----------------------------------------------------------------------------
\* A step inside a job keeps every variable in its type.
LEMMA JobType ==
    ASSUME TypeOK, NEW w \in Workers, JobStep(w)
    PROVE  TypeOK'
<1>1. Summary(w)
  BY JobSummary
<1>2. GroupTypeOK'
  BY <1>1 DEF Summary, TypeOK, GroupTypeOK, groupVars
<1>3. PoolTypeOK'
  BY <1>1 DEF Summary, TypeOK, PoolTypeOK, Onward, Back, WorkerPCs, BusyPCs
<1>4. FlagTypeOK'
  <2> USE DEF TypeOK, FlagTypeOK
  <2>1. CASE Kept(w)
    BY <2>1 DEF Kept
  <2>2. CASE Aborted(w)
    BY <2>2 DEF Aborted, Abort
  <2>3. CASE Failed(w)
    BY <2>3 DEF Failed
  <2>4. CASE Readied(w)
    BY <2>4 DEF Readied
  <2>5. QED
    BY <1>1, <2>1, <2>2, <2>3, <2>4 DEF Summary
<1>5. DataTypeOK'
  <2> USE DEF DataTypeOK
  <2> NQueries \in Nat
    BY SchedulerAssumption
  <2> /\ wjob \in [Workers -> Targets \cup {0}]
      /\ cold \in [Targets -> Nat]
      /\ coldOpen \in [Targets -> BOOLEAN]
      /\ warm \in [Targets -> Nat]
      /\ session \in [Targets -> {"none", "open", "closed"}]
      /\ obs \in [Targets -> Nat]
      /\ verdict \in [Targets -> BOOLEAN]
    BY DEF TypeOK, PoolTypeOK
  <2> \A t \in Targets : obs[t] + 1 \in Nat /\ cold[t] + 1 \in Nat
    OBVIOUS
  <2>1. CASE NewRunner(w)
    <3>1. obs' \in [Targets -> Nat]
      BY <2>1 DEF NewRunner, FailOpen
    <3>2. QED
      BY <2>1, <3>1 DEF NewRunner
  <2>2. CASE ColdCheck(w)
    BY <2>2 DEF ColdCheck
  <2>3. CASE ColdOpen(w)
    <3>1. cold' \in [Targets -> Nat]
      BY <2>3 DEF ColdOpen, EndProbe
    <3>2. coldOpen' \in [Targets -> BOOLEAN]
      BY <2>3 DEF ColdOpen, EndProbe
    <3>3. QED
      BY <2>3, <3>1, <3>2 DEF ColdOpen
  <2>4. CASE ColdQuery(w)
    <3>1. cold' \in [Targets -> Nat]
      BY <2>4 DEF ColdQuery, EndProbe
    <3>2. coldOpen' \in [Targets -> BOOLEAN]
      BY <2>4 DEF ColdQuery, EndProbe
    <3>3. QED
      BY <2>4, <3>1, <3>2 DEF ColdQuery
  <2>5. CASE WarmStart(w)
    BY <2>5 DEF WarmStart, runnerVars
  <2>6. CASE WarmOpen(w)
    <3>1. session' \in [Targets -> {"none", "open", "closed"}]
      BY <2>6 DEF WarmOpen, FailOpen
    <3>2. obs' \in [Targets -> Nat]
      BY <2>6 DEF WarmOpen, FailOpen
    <3>3. QED
      BY <2>6, <3>1, <3>2 DEF WarmOpen
  <2>7. CASE WarmCheck(w)
    BY <2>7 DEF WarmCheck
  <2>8. CASE WarmQuery(w)
    BY <2>8 DEF WarmQuery
  <2>9. CASE MeasureCheck(w)
    BY <2>9 DEF MeasureCheck
  <2>10. CASE MeasureQuery(w)
    <3>1. obs' \in [Targets -> Nat]
      BY <2>10 DEF MeasureQuery
    <3>2. QED
      BY <2>10, <3>1 DEF MeasureQuery
  <2>11. CASE ProbeCheck(w)
    BY <2>11 DEF ProbeCheck, runnerVars
  <2>12. CASE SignedQuery(w)
    BY <2>12 DEF SignedQuery, runnerVars
  <2>13. CASE BogusQuery(w)
    BY <2>13 DEF BogusQuery
  <2>14. QED
    BY <2>1, <2>2, <2>3, <2>4, <2>5, <2>6, <2>7, <2>8, <2>9, <2>10, <2>11, <2>12,
       <2>13 DEF JobStep
<1>6. QED
  BY <1>2, <1>3, <1>4, <1>5 DEF TypeOK

\* A goroutine pool is spawned with its jobs, before any is taken.
LEMMA SpawnFacts ==
    ASSUME NEW jobs, NEW d, Spawn(jobs, d)
    PROVE  /\ todo' = jobs
           /\ dpc' = d
           /\ wjob' = wjob
           /\ wpc' \in [Workers -> {"recv", "exited"}]
           /\ \A w \in Workers : ~Busy(w)'
BY DEF Spawn, Busy, BusyPCs, ColdPCs, WarmPCs, MeasurePCs, ProbePCs

\* The other steps: the scheduler goroutine, the channel, the operator.
OtherStep ==
    \/ Controller
    \/ \E w \in Workers : Handoff(w) \/ Take(w) \/ WorkerExit(w)
    \/ Interrupt \/ Terminated \/ UNCHANGED vars

\* They keep the types too.
LEMMA OtherType ==
    ASSUME IInv, OtherStep
    PROVE  TypeOK'
<1> USE DEF runnerVars, poolVars, groupVars, vars, RunnerUnchanged
<1>0. /\ {"recv", "exited"} \subseteq WorkerPCs
      /\ Entry \in WorkerPCs
      /\ TypeOK
      /\ stage \notin {"next", "done"} => group \in 1..NGroups
      /\ NGroups \in Nat
      /\ group \in 1..NGroups =>
            Group[group] \subseteq Targets /\ group + 1 \in 1..(NGroups + 1)
  BY SchedulerAssumption DEF SchedulerAssumption, WorkerPCs, Entry, BusyPCs, ColdPCs,
     WarmPCs, MeasurePCs, ProbePCs, IInv, GroupInv, InGroup, Targets
<1>1. PoolTypeOK'
  <2> PoolTypeOK /\ GroupTypeOK
    BY <1>0 DEF TypeOK
  <2> USE DEF PoolTypeOK
  <2>1. CASE \E jobs \in SUBSET Targets, d \in {"check", "closed"} : Spawn(jobs, d)
    BY <2>1, <1>0, SpawnFacts
  <2>2. ASSUME NEW w \in Workers, Handoff(w) PROVE PoolTypeOK'
    BY <2>2, <1>0 DEF Handoff
  <2>3. ASSUME NEW w \in Workers, Take(w) PROVE PoolTypeOK'
    BY <2>3, <1>0 DEF Take
  <2>4. ASSUME NEW w \in Workers, WorkerExit(w) PROVE PoolTypeOK'
    BY <2>4, <1>0 DEF WorkerExit
  <2>5. CASE DispatchCheck \/ DispatchCancelled
    BY <2>5 DEF DispatchCheck, DispatchCancelled
  <2>6. CASE UNCHANGED poolVars
    BY <2>6
  <2>7. CASE StartGroup
    BY <2>1, <2>7, <1>0 DEF StartGroup, GroupTypeOK
  <2>8. CASE ColdBarrier
    BY <2>1, <2>6, <2>8 DEF ColdBarrier, GroupTypeOK
  <2>9. CASE BeginMeasuring \/ AfterRound
    BY <2>1, <2>6, <2>9 DEF BeginMeasuring, AfterRound, StartRound, GroupTypeOK
  <2>10. CASE AfterRounds
    BY <2>1, <2>6, <2>10 DEF AfterRounds, GroupTypeOK
  <2>11. CASE \/ SkipGroup \/ WarmBarrier \/ RoundBarrier \/ DNSSECBarrier
              \/ FinishGroup \/ CollectResults \/ Return \/ Interrupt
              \/ Terminated \/ UNCHANGED vars
    BY <2>6, <2>11 DEF SkipGroup, WarmBarrier, RoundBarrier, DNSSECBarrier,
       FinishGroup, CollectResults, Return, Interrupt, Terminated
  <2>12. QED
    BY <2>2, <2>3, <2>4, <2>5, <2>7, <2>8, <2>9, <2>10, <2>11 DEF OtherStep, Controller
<1>2. GroupTypeOK'
  <2> USE <1>0 DEF TypeOK, GroupTypeOK, Stages
  <2>1. CASE StartGroup \/ SkipGroup
    BY <2>1 DEF StartGroup, SkipGroup
  <2>2. CASE CollectResults
    BY <2>2 DEF CollectResults
  <2>3. CASE DispatchCheck \/ DispatchCancelled \/ Interrupt \/ Terminated \/ UNCHANGED vars
    BY <2>3 DEF DispatchCheck, DispatchCancelled, Interrupt, Terminated
  <2>4. CASE ColdBarrier \/ WarmBarrier \/ RoundBarrier
    BY <2>4 DEF ColdBarrier, WarmBarrier, RoundBarrier
  <2>5. CASE BeginMeasuring \/ AfterRound \/ AfterRounds
    BY <2>5 DEF BeginMeasuring, AfterRound, AfterRounds, StartRound
  <2>6. CASE DNSSECBarrier \/ FinishGroup \/ Return
    BY <2>6 DEF DNSSECBarrier, FinishGroup, Return
  <2>7. ASSUME NEW w \in Workers, Handoff(w) \/ Take(w) \/ WorkerExit(w)
        PROVE  GroupTypeOK'
    BY <2>7 DEF Handoff, Take, WorkerExit, PoolTypeOK
  <2>8. QED
    BY <2>1, <2>2, <2>3, <2>4, <2>5, <2>6, <2>7 DEF OtherStep, Controller
<1>3. FlagTypeOK' /\ DataTypeOK'
  <2> FlagTypeOK /\ DataTypeOK
    BY <1>0 DEF TypeOK
  <2>1. CASE UNCHANGED runnerVars
    BY <2>1 DEF FlagTypeOK, DataTypeOK
  <2>2. ASSUME NEW S, Abort(S) \/ RunnerUnchanged,
               UNCHANGED <<openFailed, cold, coldOpen, warm, session, obs, verdict>>
        PROVE  FlagTypeOK' /\ DataTypeOK'
    BY <2>2 DEF FlagTypeOK, DataTypeOK, Abort
  <2>3. CASE SkipGroup \/ CollectResults
    BY <2>3 DEF SkipGroup, CollectResults, FlagTypeOK, DataTypeOK
  <2>4. CASE ColdBarrier
    BY <2>2, <2>4 DEF ColdBarrier
  <2>5. CASE RoundBarrier \/ FinishGroup
    BY <2>2, <2>5 DEF RoundBarrier, FinishGroup
  <2>6. CASE \/ StartGroup \/ DispatchCheck \/ DispatchCancelled \/ WarmBarrier
             \/ BeginMeasuring \/ AfterRound \/ AfterRounds \/ DNSSECBarrier \/ Return
             \/ Interrupt \/ Terminated \/ UNCHANGED vars
             \/ \E w \in Workers : Handoff(w) \/ Take(w) \/ WorkerExit(w)
    BY <2>1, <2>6 DEF StartGroup, DispatchCheck, DispatchCancelled, WarmBarrier,
       BeginMeasuring, AfterRound, AfterRounds, DNSSECBarrier, Return, Interrupt,
       Terminated, Handoff, Take, WorkerExit
  <2>7. QED
    BY <2>3, <2>4, <2>5, <2>6 DEF OtherStep, Controller
<1>4. QED
  BY <1>1, <1>2, <1>3 DEF TypeOK

-----------------------------------------------------------------------------
\* PoolInv: a job step frees or keeps the worker's own job.
LEMMA JobPool ==
    ASSUME TypeOK, PoolInv, NEW w \in Workers, Summary(w)
    PROVE  PoolInv'
<1> USE DEF PoolInv, Busy, BusyPCs, ColdPCs, WarmPCs, MeasurePCs, ProbePCs, PhasePCs,
            SessionExclusive
<1>1. /\ stage \in {"cold", "warm", "round", "dnssec"}
      /\ UNCHANGED <<stage, group, dispatched, readyList, dpc, todo>>
  BY DEF Summary, Joined, groupVars
<1>2. wpc \in [Workers -> WorkerPCs] /\ wjob \in [Workers -> Targets \cup {0}]
  BY DEF TypeOK, PoolTypeOK
<1>3. \A v \in Workers : v # w => wpc'[v] = wpc[v] /\ wjob'[v] = wjob[v]
  BY <1>2 DEF Summary, Onward, Back
<1>4. Busy(w)' => wjob'[w] = wjob[w] /\ wpc'[w] \in PhasePCs
  BY <1>2 DEF Summary, Onward, Back
<1>5. Busy(w)
  BY DEF Summary
<1>6. JobSet' = JobSet /\ PhasePCs' = PhasePCs
  BY <1>1 DEF JobSet
<1>7. \A v \in Workers : Busy(v)' => Busy(v) /\ wjob'[v] = wjob[v] /\ wpc'[v] \in PhasePCs
  BY <1>3, <1>4, <1>5
<1>8. \A v \in Workers : Busy(v)' =>
        wpc'[v] \in PhasePCs' /\ wjob'[v] \in JobSet' /\ wjob'[v] \notin todo'
  <2> HIDE DEF PhasePCs, Busy
  <2>1. QED
    BY <1>1, <1>6, <1>7
<1>9. SessionExclusive'
  <2> HIDE DEF PhasePCs, Busy
  <2>1. QED
    BY <1>7
<1>10. /\ dpc' # "closed" => stage' \in {"cold", "round"}
       /\ stage' \in {"cold", "warm", "round", "dnssec"} => todo' \subseteq JobSet'
  <2> HIDE DEF PhasePCs, Busy
  <2>1. QED
    BY <1>1, <1>6
<1>11. QED
  <2> HIDE DEF PhasePCs, Busy, SessionExclusive
  <2>1. QED
    BY <1>1, <1>8, <1>9, <1>10

\* PoolInv: a spawned pool has free workers only, and its own jobs to do.
LEMMA SpawnPool ==
    ASSUME NEW jobs, NEW d \in {"check", "closed"}, Spawn(jobs, d),
           stage' \in {"cold", "warm", "round", "dnssec"},
           d = "check" => stage' \in {"cold", "round"},
           jobs \subseteq JobSet'
    PROVE  PoolInv'
BY SpawnFacts DEF PoolInv, SessionExclusive

\* PoolInv: a worker is given the next job, which leaves the channel.
LEMMA TakePool ==
    ASSUME TypeOK, PoolInv, NEW w \in Workers, NEW t \in todo,
           wpc[w] = "recv", stage \in {"cold", "warm", "round", "dnssec"},
           todo' = todo \ {t}, wjob' = [wjob EXCEPT ![w] = t],
           wpc' = [wpc EXCEPT ![w] = Entry],
           stage' = stage, JobSet' = JobSet,
           dpc' # "closed" => stage \in {"cold", "round"}
    PROVE  PoolInv'
<1>1. wpc \in [Workers -> WorkerPCs] /\ wjob \in [Workers -> Targets \cup {0}]
  BY DEF TypeOK, PoolTypeOK
<1>2. Entry \in PhasePCs /\ PhasePCs' = PhasePCs /\ ~Busy(w)
  BY DEF Entry, PhasePCs, ColdPCs, WarmPCs, MeasurePCs, ProbePCs, Busy, BusyPCs
<1>3. t \in JobSet
  BY DEF PoolInv
<1>4. \A v \in Workers : v # w => (Busy(v)' <=> Busy(v))
                                    /\ wjob'[v] = wjob[v] /\ wpc'[v] = wpc[v]
  BY <1>1 DEF Busy
<1>5. wjob'[w] = t /\ wpc'[w] = Entry
  BY <1>1
<1>6. \A v \in Workers : Busy(v)' =>
        wpc'[v] \in PhasePCs' /\ wjob'[v] \in JobSet' /\ wjob'[v] \notin todo'
  BY <1>2, <1>3, <1>4, <1>5 DEF PoolInv
<1>7. SessionExclusive'
  BY <1>2, <1>4, <1>5 DEF PoolInv, SessionExclusive
<1>8. QED
  BY <1>6, <1>7 DEF PoolInv

\* PoolInv through the other steps: a phase spawns its pool with its own
\* jobs and its barrier waits for all of it.
LEMMA OtherPool ==
    ASSUME IInv, OtherStep
    PROVE  PoolInv'
<1> TypeOK /\ PoolInv /\ GroupInv
  BY DEF IInv
<1> USE DEF groupVars, poolVars, vars
<1>1. ASSUME UNCHANGED poolVars, Joined, stage' \notin {"cold", "warm", "round", "dnssec"}
      PROVE  PoolInv'
  BY <1>1 DEF Joined, PoolInv, SessionExclusive, Busy, BusyPCs, ColdPCs, WarmPCs,
     MeasurePCs, ProbePCs
<1>2. ASSUME UNCHANGED <<poolVars, stage, JobSet>>
      PROVE  PoolInv'
  BY <1>2 DEF PoolInv, SessionExclusive, Busy, Joined, PhasePCs
<1>3. CASE StartGroup
  BY <1>3, SpawnPool DEF StartGroup, JobSet
<1>4. CASE SkipGroup
  BY <1>1, <1>4 DEF SkipGroup, PoolInv
<1>5. ASSUME DispatchCheck \/ DispatchCancelled
      PROVE  PoolInv'
  <2>1. UNCHANGED <<todo, wpc, wjob, stage, JobSet>> /\ dpc # "closed"
    BY <1>5 DEF DispatchCheck, DispatchCancelled, JobSet
  <2>2. stage \in {"cold", "round"}
    BY <2>1 DEF PoolInv
  <2>3. QED
    BY <2>1, <2>2 DEF PoolInv, SessionExclusive, Busy, PhasePCs
<1>6. CASE ColdBarrier
  BY <1>1, <1>6, SpawnPool DEF ColdBarrier, JobSet
<1>7. CASE WarmBarrier \/ RoundBarrier \/ DNSSECBarrier
  BY <1>1, <1>7 DEF WarmBarrier, RoundBarrier, DNSSECBarrier
<1>8. ASSUME BeginMeasuring \/ AfterRound \/ AfterRounds
      PROVE  PoolInv'
  <2>1. Joined
    BY <1>8 DEF BeginMeasuring, AfterRound, AfterRounds, PoolInv
  <2>3. CASE StartRound /\ readyList' = readyList
    BY <2>3, SpawnPool DEF StartRound, JobSet
  <2>4. CASE stage' = "dnssec" /\ Spawn(readyList, "closed") /\ readyList' = readyList
    BY <2>4, SpawnPool DEF JobSet
  <2>5. CASE /\ UNCHANGED poolVars
             /\ stage' \notin {"cold", "warm", "round", "dnssec"}
    BY <1>1, <2>1, <2>5
  <2>6. QED
    BY <1>8, <2>3, <2>4, <2>5 DEF BeginMeasuring, AfterRound, AfterRounds
<1>9. CASE FinishGroup \/ CollectResults \/ Return
  BY <1>1, <1>9 DEF FinishGroup, CollectResults, Return, PoolInv
<1>10. ASSUME NEW w \in Workers, Handoff(w)
       PROVE  PoolInv'
  <2>1. dpc # "closed" /\ stage \in {"cold", "round"}
    BY <1>10 DEF Handoff, PoolInv
  <2>2. JobSet' = JobSet
    BY <1>10, <2>1 DEF Handoff, JobSet
  <2>3. QED
    BY <1>10, <2>1, <2>2, TakePool DEF Handoff
<1>11. ASSUME NEW w \in Workers, Take(w)
       PROVE  PoolInv'
  BY <1>11, TakePool DEF Take, Buffered, JobSet, PoolInv
<1>12. ASSUME NEW w \in Workers, WorkerExit(w)
       PROVE  PoolInv'
  <2>1. wpc \in [Workers -> WorkerPCs]
    BY DEF TypeOK, PoolTypeOK
  <2>2. /\ wpc[w] = "recv"
        /\ wpc' = [wpc EXCEPT ![w] = "exited"]
        /\ UNCHANGED <<todo, dpc, wjob, stage, group, dispatched, readyList>>
    BY <1>12 DEF WorkerExit
  <2>3. \A v \in Workers : Busy(v)' => Busy(v) /\ wpc'[v] = wpc[v]
    BY <2>1, <2>2 DEF Busy, BusyPCs, ColdPCs, WarmPCs, MeasurePCs, ProbePCs
  <2>4. UNCHANGED <<JobSet, PhasePCs>>
    BY <2>2 DEF JobSet, PhasePCs
  <2>5. stage \in {"cold", "warm", "round", "dnssec"}
    BY <2>2 DEF PoolInv, Joined
  <2>6. QED
    BY <2>2, <2>3, <2>4, <2>5 DEF PoolInv, SessionExclusive
<1>13. CASE Interrupt \/ Terminated \/ UNCHANGED vars
  BY <1>2, <1>13 DEF Interrupt, Terminated, JobSet
<1>14. QED
  BY <1>3, <1>4, <1>5, <1>6, <1>7, <1>8, <1>9, <1>10, <1>11, <1>12, <1>13
     DEF OtherStep, Controller

-----------------------------------------------------------------------------
\* GroupInv: job steps do not touch the group's bookkeeping.
LEMMA JobGroup ==
    ASSUME GroupInv, NEW w \in Workers, Summary(w)
    PROVE  GroupInv'
BY DEF GroupInv, Summary, groupVars, InGroup

\* GroupInv through the other steps: the phases of a group follow each other,
\* and only a cancelled dispatcher leaves targets behind.
LEMMA OtherGroup ==
    ASSUME IInv, OtherStep
    PROVE  GroupInv'
<1> TypeOK /\ PoolInv /\ GroupInv /\ GroupTypeOK /\ PoolTypeOK
  BY DEF IInv, TypeOK
<1> NGroups \in Nat
  BY SchedulerAssumption DEF SchedulerAssumption
<1> USE DEF groupVars, poolVars, vars, InGroup
<1>1. ASSUME UNCHANGED <<group, reported, dispatched, readyList>>,
             stage' \notin {"cold", "next", "done"}, stage \notin {"next", "done"},
             stage' = "warm" => readyList = {},
             stage' \in {"warm", "prepared", "round", "between", "measured", "dnssec"}
                => dispatched = Group[group],
             stage' \in {"finish", "collect"} /\ dispatched # Group[group] => ctxDone'
      PROVE  GroupInv'
  BY <1>1 DEF GroupInv
<1>2. CASE StartGroup
  BY <1>2, SpawnFacts DEF StartGroup, GroupInv, GroupTypeOK
<1>3. CASE SkipGroup \/ CollectResults
  <2>1. group \in 1..NGroups /\ group' = group + 1 /\ reported' = reported \cup Group[group]
    BY <1>3 DEF SkipGroup, CollectResults, GroupInv, GroupTypeOK
  <2>2. 1..(group' - 1) = 1..(group - 1) \cup {group}
    BY <2>1
  <2>3. reported' = UNION {Group[g] : g \in 1..(group' - 1)}
    BY <2>1, <2>2 DEF GroupInv
  <2>4. stage' = "next"
    BY <1>3 DEF SkipGroup, CollectResults
  <2>5. QED
    BY <2>3, <2>4 DEF GroupInv
<1>4. CASE DispatchCheck
  BY <1>4 DEF DispatchCheck, GroupInv
<1>5. CASE DispatchCancelled
  BY <1>5 DEF DispatchCancelled, GroupInv
<1>6. CASE ColdBarrier
  BY <1>1, <1>6 DEF ColdBarrier, GroupInv, Joined
<1>7. CASE WarmBarrier
  BY <1>7 DEF WarmBarrier, GroupInv
<1>8. CASE BeginMeasuring \/ AfterRound \/ AfterRounds
  BY <1>1, <1>8 DEF BeginMeasuring, AfterRound, AfterRounds, StartRound, GroupInv
<1>9. CASE RoundBarrier \/ DNSSECBarrier \/ FinishGroup
  BY <1>1, <1>9 DEF RoundBarrier, DNSSECBarrier, FinishGroup, GroupInv
<1>10. CASE Return
  BY <1>10 DEF Return, GroupInv
<1>11. ASSUME NEW w \in Workers, Handoff(w)
       PROVE  GroupInv'
  <2>1. PICK t \in todo : /\ todo' = todo \ {t}
                          /\ dispatched' = IF stage = "cold" THEN dispatched \cup {t}
                                           ELSE dispatched
    BY <1>11 DEF Handoff
  <2>2. dpc' = "check" /\ UNCHANGED <<ctxDone, group, stage, readyList, reported>>
    BY <1>11 DEF Handoff
  <2>3. stage = "cold" => todo \subseteq Group[group]
    BY DEF PoolInv, JobSet
  <2>4. QED
    BY <2>1, <2>2, <2>3 DEF GroupInv
<1>12. ASSUME NEW w \in Workers, Take(w)
       PROVE  GroupInv'
  BY <1>12 DEF Take, Buffered, GroupInv
<1>13. ASSUME NEW w \in Workers, WorkerExit(w)
       PROVE  GroupInv'
  BY <1>13 DEF WorkerExit, GroupInv
<1>14. CASE Interrupt
  BY <1>14 DEF Interrupt, GroupInv
<1>15. CASE Terminated \/ UNCHANGED vars
  BY <1>15 DEF Terminated, GroupInv
<1>16. QED
  BY <1>2, <1>3, <1>4, <1>5, <1>6, <1>7, <1>8, <1>9, <1>10, <1>11, <1>12, <1>13,
     <1>14, <1>15 DEF OtherStep, Controller

-----------------------------------------------------------------------------
\* A worker's job is a target of the current group that is not reported.
LEMMA JobTarget ==
    ASSUME IInv, NEW w \in Workers, Busy(w)
    PROVE  /\ InGroup
           /\ wjob[w] \in Targets /\ wjob[w] \in dispatched /\ wjob[w] \notin reported
<1>1. InGroup /\ wjob[w] \in JobSet /\ wjob[w] \notin todo
      /\ stage \in {"cold", "warm", "round", "dnssec"}
  BY DEF IInv, PoolInv, Joined, InGroup, Busy, BusyPCs, ColdPCs, WarmPCs, MeasurePCs, ProbePCs
<1>2. group \in 1..NGroups /\ dispatched \subseteq Group[group] /\ readyList \subseteq dispatched
      /\ (stage = "cold" => dispatched = Group[group] \ todo)
      /\ reported = UNION {Group[g] : g \in 1..(group - 1)}
  BY <1>1 DEF IInv, GroupInv
<1>3. wjob[w] \in dispatched
  BY <1>1, <1>2 DEF JobSet
<1>4. \A g \in 1..(group - 1) : g \in 1..NGroups /\ g # group
  BY <1>2, SchedulerAssumption DEF SchedulerAssumption
<1>5. \A g \in 1..(group - 1) : Group[g] \cap Group[group] = {}
  BY <1>2, <1>4, SchedulerAssumption DEF SchedulerAssumption
<1>6. QED
  BY <1>1, <1>2, <1>3, <1>5 DEF Targets

\* StatusInv: each way a job step changes its runner's flags keeps them in
\* agreement, because the runner is the worker's own.
LEMMA JobStatus ==
    ASSUME IInv, NEW w \in Workers, Summary(w)
    PROVE  StatusInv'
<1> DEFINE t == wjob[w]
<1>1. /\ Busy(w) /\ t \in Targets /\ InGroup
      /\ \A v \in Workers : v # w /\ Busy(v) => wjob[v] # t
  BY JobTarget DEF Summary, IInv, PoolInv, SessionExclusive
<1>2. FlagTypeOK /\ wpc \in [Workers -> WorkerPCs] /\ StatusInv
      /\ wjob \in [Workers -> Targets \cup {0}]
  BY DEF IInv, TypeOK, PoolTypeOK
<1>3. UNCHANGED <<ctxDone, stage, readyList>>
  BY DEF Summary, groupVars
<1>4. \A v \in Workers : v # w => wpc'[v] = wpc[v] /\ wjob'[v] = wjob[v]
  BY <1>2 DEF Summary, Onward, Back
<1>5. wpc'[w] \in UnfinishedPCs => wjob'[w] = t
  BY <1>2 DEF Summary, Onward, Back, UnfinishedPCs, ColdPCs
<1>6. \A v \in Workers : wpc[v] \in UnfinishedPCs => Busy(v) /\ ~finished[wjob[v]]
  BY <1>2 DEF StatusInv, UnfinishedPCs, Busy, BusyPCs, WarmPCs
<1>7. wpc[w] \in UnfinishedPCs \cup MeasurePCs => ~openFailed[t]
  <2>1. CASE wpc[w] \in UnfinishedPCs
    BY <1>1, <1>2, <1>6, <2>1 DEF StatusInv
  <2>2. CASE wpc[w] \in MeasurePCs
    <3>1. stage = "round" /\ t \in readyList
      BY <1>1, <2>2 DEF IInv, PoolInv, PhasePCs, JobSet, MeasurePCs, ColdPCs, WarmPCs, ProbePCs
    <3>2. QED
      BY <1>1, <1>2, <3>1 DEF StatusInv, InGroup
  <2>3. QED
    BY <2>1, <2>2
<1>8. wpc[w] \in UnfinishedPCs => stage \in {"cold", "warm"}
  BY <1>1 DEF IInv, PoolInv, PhasePCs, UnfinishedPCs, MeasurePCs, ColdPCs, WarmPCs, ProbePCs
<1>9. stage \in {"cold", "warm"} => readyList = {}
  BY DEF IInv, GroupInv
<1>10. ASSUME NEW v \in Workers, v # w, Busy(v)
       PROVE  /\ wpc'[v] = wpc[v] /\ wjob'[v] = wjob[v]
              /\ wjob[v] \in Targets /\ wjob[v] # t
  BY <1>1, <1>4, <1>10, JobTarget
<1> DEFINE Agree(u) ==
        /\ incomplete[u] => ctxDone /\ ~openFailed[u]
        /\ finished[u] => incomplete[u] \/ openFailed[u]
        /\ openFailed[u] => finished[u]
        /\ ready[u] => ~finished[u] /\ ~incomplete[u]
<1>11. ASSUME \A u \in Targets : Agree(u)',
              \A u \in readyList : ~openFailed'[u],
              \A u \in Targets : u # t => ready'[u] = ready[u] /\ finished'[u] = finished[u],
              stage = "cold" => ~ready'[t],
              wpc'[w] \in UnfinishedPCs => ~finished'[t],
              wpc'[w] \in ColdPCs \cup WarmPCs => ~ready'[t]
       PROVE  StatusInv'
  <2>1. dispatched' = dispatched /\ todo' = todo /\ dispatched \subseteq Targets
        /\ todo \subseteq Targets
    BY DEF Summary, groupVars, IInv, TypeOK, GroupTypeOK, PoolTypeOK
  <2>2. stage = "cold" => \A u \in dispatched : ~ready'[u]
    BY <1>2, <1>11, <2>1 DEF StatusInv
  <2>3. stage = "warm" => \A u \in todo : ~ready'[u]
    <3>1. t \notin todo
      BY <1>1 DEF IInv, PoolInv
    <3>2. QED
      BY <1>2, <1>11, <2>1, <3>1 DEF StatusInv
  <2>4. ASSUME NEW v \in Workers
        PROVE  /\ wpc'[v] \in UnfinishedPCs => ~finished'[wjob'[v]]
               /\ wpc'[v] \in ColdPCs \cup WarmPCs => ~ready'[wjob'[v]]
    <3>1. CASE v = w
      <4>1. wpc'[w] \in ColdPCs \cup WarmPCs => wjob'[w] = t
        BY <1>2 DEF Summary, Onward, Back, ColdPCs, WarmPCs
      <4>2. QED
        BY <1>5, <1>11, <3>1, <4>1
    <3>2. CASE v # w
      <4>1. wpc'[v] = wpc[v]
        BY <1>4, <3>2
      <4>2. wpc[v] \in UnfinishedPCs \cup ColdPCs \cup WarmPCs => Busy(v)
        BY DEF UnfinishedPCs, Busy, BusyPCs, WarmPCs
      <4>3. QED
        BY <1>2, <1>10, <1>11, <3>2, <4>1, <4>2 DEF StatusInv
    <3>3. QED
      BY <3>1, <3>2
  <2>5. QED
    BY <1>3, <1>11, <2>1, <2>2, <2>3, <2>4 DEF StatusInv, InGroup
<1>12. \A u \in Targets : Agree(u)
  BY <1>2 DEF StatusInv
<1>13. \A u \in readyList : ~openFailed[u]
  BY <1>1, <1>2 DEF StatusInv
<1>14. stage = "cold" => ~ready[t]
  BY <1>2, JobTarget, <1>1 DEF StatusInv
<1>15. wpc[w] \in ColdPCs \cup WarmPCs => ~ready[t]
  BY <1>2 DEF StatusInv
<1>16. CASE Kept(w)
  <2>1. wpc'[w] \in UnfinishedPCs => ~finished[t]
    BY <1>6, <1>16 DEF Kept
  <2>2. wpc'[w] \in ColdPCs \cup WarmPCs => ~ready[t]
    <3>1. wpc'[w] \in ColdPCs \cup WarmPCs => wpc[w] \in ColdPCs \cup WarmPCs
      BY <1>2 DEF Summary, Onward, Back, ColdPCs, WarmPCs, MeasurePCs, ProbePCs
    <3>2. QED
      BY <1>15, <3>1
  <2>3. \A u \in Targets : Agree(u)'
    BY <1>3, <1>12, <1>16 DEF Kept
  <2>4. QED
    BY <1>11, <1>13, <1>14, <1>16, <2>1, <2>2, <2>3 DEF Kept
<1>17. CASE Aborted(w)
  <2>1. wpc'[w] \notin UnfinishedPCs \cup ColdPCs \cup WarmPCs
    BY <1>2, <1>17 DEF Aborted, Back, UnfinishedPCs, ColdPCs, WarmPCs
  <2>2. /\ ready' = [u \in Targets |-> IF u = t THEN FALSE ELSE ready[u]]
        /\ finished' = [u \in Targets |-> IF u = t THEN TRUE ELSE finished[u]]
        /\ incomplete' = [u \in Targets |-> IF u = t THEN TRUE ELSE incomplete[u]]
        /\ openFailed' = openFailed /\ ctxDone /\ ~openFailed[t]
    BY <1>7, <1>17 DEF Aborted, Abort
  <2>3. \A u \in Targets : Agree(u)'
    BY <1>3, <1>12, <2>2
  <2>4. QED
    BY <1>1, <1>11, <1>13, <2>1, <2>2, <2>3
<1>18. CASE Failed(w)
  <2>1. wpc'[w] \notin UnfinishedPCs \cup ColdPCs \cup WarmPCs
    BY <1>2, <1>18 DEF Failed, Back, UnfinishedPCs, ColdPCs, WarmPCs
  <2>2. wpc[w] \in UnfinishedPCs /\ ~ctxDone
    BY <1>18 DEF Failed
  <2>3. ~ready[t] /\ ~incomplete[t] /\ readyList = {}
    BY <1>1, <1>8, <1>9, <1>12, <1>15, <2>2 DEF UnfinishedPCs, WarmPCs
  <2>4. /\ openFailed' = [openFailed EXCEPT ![t] = TRUE]
        /\ finished' = [finished EXCEPT ![t] = TRUE]
        /\ UNCHANGED <<ready, incomplete>>
    BY <1>18 DEF Failed
  <2>5. \A u \in Targets : Agree(u)'
    BY <1>1, <1>2, <1>3, <1>12, <2>3, <2>4 DEF FlagTypeOK
  <2>6. QED
    BY <1>2, <1>11, <2>1, <2>3, <2>4, <2>5 DEF FlagTypeOK
<1>19. CASE Readied(w)
  <2>1. wpc'[w] \notin UnfinishedPCs \cup ColdPCs \cup WarmPCs
    BY <1>2, <1>19 DEF Readied, Back, UnfinishedPCs, ColdPCs, WarmPCs
  <2>2. ~finished[t] /\ ~incomplete[t]
    BY <1>1, <1>6, <1>12, <1>19 DEF Readied, UnfinishedPCs
  <2>3. /\ ready' = [ready EXCEPT ![t] = TRUE]
        /\ UNCHANGED <<finished, openFailed, incomplete>>
    BY <1>19 DEF Readied
  <2>4. stage # "cold"
    BY <1>1, <1>19 DEF Readied, IInv, PoolInv, PhasePCs, ColdPCs
  <2>5. \A u \in Targets : Agree(u)'
    BY <1>1, <1>2, <1>3, <1>12, <2>2, <2>3 DEF FlagTypeOK
  <2>6. QED
    BY <1>2, <1>11, <1>13, <2>1, <2>3, <2>4, <2>5 DEF FlagTypeOK
<1>20. QED
  BY <1>16, <1>17, <1>18, <1>19 DEF Summary

\* The targets of the group to come, or being measured, are not reported yet.
LEMMA GroupUnreported ==
    ASSUME GroupInv, group \in 1..NGroups
    PROVE  Group[group] \subseteq Targets /\ Group[group] \cap reported = {}
<1>1. \A g \in 1..(group - 1) : g \in 1..NGroups /\ g # group
  BY SchedulerAssumption DEF SchedulerAssumption
<1>2. \A g \in 1..(group - 1) : Group[g] \cap Group[group] = {}
  BY <1>1, SchedulerAssumption DEF SchedulerAssumption
<1>3. QED
  BY <1>2 DEF GroupInv, Targets

\* Between phases no worker is at any of the program points of a job.
LEMMA JoinedIdle ==
    ASSUME Joined
    PROVE  \A w \in Workers : wpc[w] \notin UnfinishedPCs \cup ColdPCs \cup WarmPCs
BY DEF Joined, UnfinishedPCs, ColdPCs, WarmPCs

\* StatusInv through the other steps: a new job is untouched, and an abort
\* reaches no runner that failed to open.
LEMMA OtherStatus ==
    ASSUME IInv, OtherStep
    PROVE  StatusInv'
<1> /\ PoolInv /\ GroupInv /\ StatusInv /\ FreshInv
    /\ PoolTypeOK /\ GroupTypeOK /\ FlagTypeOK
  BY DEF IInv, TypeOK
<1> USE DEF groupVars, poolVars, runnerVars, vars
<1> DEFINE Agree(u) ==
        /\ incomplete[u] => ctxDone /\ ~openFailed[u]
        /\ finished[u] => incomplete[u] \/ openFailed[u]
        /\ openFailed[u] => finished[u]
        /\ ready[u] => ~finished[u] /\ ~incomplete[u]
           Idle == \A w \in Workers : wpc[w] \notin UnfinishedPCs \cup ColdPCs \cup WarmPCs
<1>1. \A u \in Targets : Agree(u)
  BY DEF StatusInv
<1>2. ASSUME NEW jobs, NEW d, Spawn(jobs, d)
      PROVE  Idle'
  BY <1>2, SpawnFacts DEF UnfinishedPCs, ColdPCs, WarmPCs
<1>3. ASSUME UNCHANGED wpc, Joined
      PROVE  Idle'
  BY <1>3, JoinedIdle DEF UnfinishedPCs, ColdPCs, WarmPCs
<1>4. ASSUME NEW S, Abort(S), ctxDone, UNCHANGED <<ctxDone, openFailed>>,
             \A u \in S : ~openFailed[u]
      PROVE  \A u \in Targets : Agree(u)'
  BY <1>1, <1>4 DEF Abort
<1>5. ASSUME UNCHANGED <<ctxDone, ready, finished, openFailed, incomplete>>
      PROVE  \A u \in Targets : Agree(u)'
  BY <1>1, <1>5
<1>6. CASE StartGroup
  <2>1. Idle' /\ \A u \in Targets : Agree(u)'
    BY <1>2, <1>5, <1>6 DEF StartGroup
  <2>2. QED
    BY <1>6, <2>1 DEF StartGroup, StatusInv
<1>7. CASE SkipGroup \/ CollectResults
  <2>1. /\ group \in 1..NGroups /\ Joined /\ UNCHANGED <<wpc, ctxDone>> /\ stage' = "next"
        /\ UNCHANGED <<ready, finished, openFailed>>
    BY <1>7 DEF SkipGroup, CollectResults, PoolInv, GroupInv, InGroup, GroupTypeOK
  <2>2. PICK S \in SUBSET Group[group] :
          /\ incomplete' = [u \in Targets |-> incomplete[u] \/ u \in S]
          /\ S # {} => ctxDone
          /\ \A u \in S : ~InGroup \/ u \notin dispatched
    <3>1. CASE SkipGroup
      BY <3>1 DEF SkipGroup, InGroup
    <3>2. CASE CollectResults
      <4>1. WITNESS Group[group] \ dispatched \in SUBSET Group[group]
      <4>2. QED
        BY <2>1, <3>2 DEF CollectResults, GroupInv, InGroup
    <3>3. QED
      BY <1>7, <3>1, <3>2
  <2>3. \A u \in S : ~ready[u] /\ ~finished[u] /\ ~openFailed[u] /\ u \in Targets
    BY <2>1, <2>2, GroupUnreported DEF FreshInv
  <2>4. \A u \in Targets : Agree(u)'
    BY <1>1, <2>1, <2>2, <2>3
  <2>5. Idle'
    BY <1>3, <2>1
  <2>6. QED
    BY <2>1, <2>4, <2>5 DEF StatusInv, InGroup
<1>8. CASE ColdBarrier
  <2>1. Idle'
    BY <1>2, <1>3, <1>8 DEF ColdBarrier
  <2>2. \A u \in Targets : Agree(u)'
    <3>1. \A u \in {v \in dispatched : ~finished[v]} : ~openFailed[u]
      BY <1>1 DEF GroupTypeOK
    <3>2. QED
      BY <1>4, <1>5, <1>8, <3>1 DEF ColdBarrier, RunnerUnchanged
  <2>3. readyList' = {} /\ (stage' = "warm" => todo' = dispatched /\ ready' = ready)
        /\ stage' # "cold" /\ stage = "cold"
    BY <1>8, SpawnFacts DEF ColdBarrier, GroupInv, RunnerUnchanged
  <2>4. QED
    BY <2>1, <2>2, <2>3 DEF StatusInv
<1>9. CASE WarmBarrier
  <2>1. Idle' /\ \A u \in Targets : Agree(u)'
    BY <1>3, <1>5, <1>9 DEF WarmBarrier
  <2>2. \A u \in readyList' : u \in Targets /\ ready[u]
    BY <1>9 DEF WarmBarrier, GroupTypeOK
  <2>3. QED
    BY <1>1, <1>9, <2>1, <2>2 DEF WarmBarrier, StatusInv
<1>10. CASE BeginMeasuring \/ AfterRound \/ AfterRounds
  <2>1. Joined
    BY <1>10 DEF BeginMeasuring, AfterRound, AfterRounds, PoolInv
  <2>2. Idle'
    BY <1>2, <1>3, <1>10, <2>1 DEF BeginMeasuring, AfterRound, AfterRounds, StartRound
  <2>3. UNCHANGED <<ctxDone, ready, finished, openFailed, incomplete, readyList>>
        /\ stage' \notin {"cold", "warm"} /\ InGroup
    BY <1>10 DEF BeginMeasuring, AfterRound, AfterRounds, StartRound, InGroup
  <2>4. QED
    BY <1>5, <2>2, <2>3 DEF StatusInv
<1>11. CASE RoundBarrier \/ FinishGroup
  <2>1. Joined /\ InGroup /\ UNCHANGED <<wpc, readyList>> /\ stage' \notin {"cold", "warm"}
    BY <1>11 DEF RoundBarrier, FinishGroup, PoolInv, InGroup
  <2>2. UNCHANGED <<ctxDone, openFailed>>
        /\ \/ RunnerUnchanged
           \/ ctxDone /\ \E S \in SUBSET readyList : Abort(S)
    BY <1>11 DEF RoundBarrier, FinishGroup, PoolInv, JobSet
  <2>3. \A u \in Targets : Agree(u)'
    BY <1>4, <1>5, <2>1, <2>2 DEF StatusInv, RunnerUnchanged
  <2>4. QED
    BY <1>3, <2>1, <2>2, <2>3 DEF StatusInv
<1>12. CASE DNSSECBarrier \/ Return
  BY <1>12 DEF DNSSECBarrier, Return, StatusInv, InGroup
<1>13. ASSUME NEW w \in Workers, Handoff(w)
       PROVE  StatusInv'
  <2>1. PICK t \in todo : /\ todo' = todo \ {t}
                          /\ wjob' = [wjob EXCEPT ![w] = t]
                          /\ dispatched' = IF stage = "cold" THEN dispatched \cup {t}
                                           ELSE dispatched
    BY <1>13 DEF Handoff
  <2>2. /\ wpc' = [wpc EXCEPT ![w] = Entry] /\ stage \in {"cold", "round"}
        /\ UNCHANGED <<ctxDone, stage, readyList, runnerVars>>
    BY <1>13 DEF Handoff, PoolInv
  <2>3. stage = "cold" => ~ready[t] /\ ~finished[t]
    <3>1. SUFFICES ASSUME stage = "cold" PROVE ~ready[t] /\ ~finished[t]
      OBVIOUS
    <3>2. t \in Group[group] /\ t \notin dispatched /\ group \in 1..NGroups
      BY <3>1 DEF PoolInv, JobSet, GroupInv, InGroup
    <3>3. QED
      BY <3>2, GroupUnreported DEF FreshInv
  <2>4. Entry \in ColdPCs \cup WarmPCs \cup UnfinishedPCs => stage = "cold"
    BY <2>2 DEF Entry, ColdPCs, WarmPCs, UnfinishedPCs
  <2>5. \A v \in Workers : v # w => wpc'[v] = wpc[v] /\ wjob'[v] = wjob[v]
    BY <2>1, <2>2 DEF PoolTypeOK
  <2>6. wpc'[w] = Entry /\ wjob'[w] = t
    BY <2>1, <2>2 DEF PoolTypeOK
  <2>7. \A v \in Workers :
          /\ wpc'[v] \in UnfinishedPCs => ~finished[wjob'[v]]
          /\ wpc'[v] \in ColdPCs \cup WarmPCs => ~ready[wjob'[v]]
    BY <2>3, <2>4, <2>5, <2>6 DEF StatusInv
  <2>8. stage = "cold" => \A u \in dispatched' : ~ready[u]
    BY <2>1, <2>3 DEF StatusInv
  <2>9. QED
    BY <1>5, <2>2, <2>7, <2>8 DEF StatusInv, InGroup
<1>14. ASSUME NEW w \in Workers, Take(w)
       PROVE  StatusInv'
  <2>1. PICK t \in todo : todo' = todo \ {t} /\ wjob' = [wjob EXCEPT ![w] = t]
    BY <1>14 DEF Take
  <2>2. /\ wpc' = [wpc EXCEPT ![w] = Entry] /\ stage \in {"warm", "dnssec"}
        /\ UNCHANGED <<ctxDone, stage, readyList, runnerVars>>
    BY <1>14 DEF Take, Buffered
  <2>3. stage = "warm" => ~ready[t]
    BY DEF StatusInv
  <2>4. Entry \notin UnfinishedPCs /\ (Entry \in ColdPCs \cup WarmPCs => stage = "warm")
    BY <2>2 DEF Entry, ColdPCs, WarmPCs, UnfinishedPCs
  <2>5. \A v \in Workers : v # w => wpc'[v] = wpc[v] /\ wjob'[v] = wjob[v]
    BY <2>1, <2>2 DEF PoolTypeOK
  <2>6. wpc'[w] = Entry /\ wjob'[w] = t
    BY <2>1, <2>2 DEF PoolTypeOK
  <2>7. \A v \in Workers :
          /\ wpc'[v] \in UnfinishedPCs => ~finished[wjob'[v]]
          /\ wpc'[v] \in ColdPCs \cup WarmPCs => ~ready[wjob'[v]]
    BY <2>3, <2>4, <2>5, <2>6 DEF StatusInv
  <2>8. QED
    BY <1>5, <2>1, <2>2, <2>7 DEF StatusInv, InGroup
<1>15. ASSUME NEW w \in Workers, WorkerExit(w)
       PROVE  StatusInv'
  <2>1. /\ wpc' = [wpc EXCEPT ![w] = "exited"]
        /\ UNCHANGED <<ctxDone, groupVars, todo, wjob, runnerVars>>
    BY <1>15 DEF WorkerExit
  <2>2. \A v \in Workers :
          wpc'[v] \in UnfinishedPCs \cup ColdPCs \cup WarmPCs => wpc'[v] = wpc[v]
    BY <2>1 DEF PoolTypeOK, UnfinishedPCs, ColdPCs, WarmPCs
  <2>3. QED
    BY <2>1, <2>2 DEF StatusInv, InGroup
<1>16. CASE DispatchCheck \/ DispatchCancelled \/ Terminated \/ UNCHANGED vars
  BY <1>16 DEF DispatchCheck, DispatchCancelled, Terminated, StatusInv, InGroup
<1>17. CASE Interrupt
  BY <1>17 DEF Interrupt, StatusInv, InGroup
<1>18. QED
  BY <1>6, <1>7, <1>8, <1>9, <1>10, <1>11, <1>12, <1>13, <1>14, <1>15, <1>16, <1>17
     DEF OtherStep, Controller

-----------------------------------------------------------------------------
\* FreshInv: a job step touches nothing but its own runner, which was handed
\* to a worker.
LEMMA JobFresh ==
    ASSUME IInv, NEW w \in Workers, Summary(w)
    PROVE  FreshInv'
<1>1. wjob[w] \in dispatched /\ InGroup /\ wjob[w] \in Targets
  BY JobTarget DEF Summary
<1>2. UNCHANGED <<reported, dispatched, stage>> /\ FreshInv /\ FlagTypeOK
  BY DEF Summary, groupVars, IInv, TypeOK
<1>3. \A u \in Targets : u # wjob[w] =>
        /\ ready'[u] = ready[u] /\ finished'[u] = finished[u]
        /\ openFailed'[u] = openFailed[u] /\ incomplete'[u] = incomplete[u]
  <2>1. CASE Kept(w)
    BY <2>1 DEF Kept
  <2>2. CASE Aborted(w)
    BY <2>2 DEF Aborted, Abort
  <2>3. CASE Failed(w)
    BY <2>3, <1>2 DEF Failed, FlagTypeOK
  <2>4. CASE Readied(w)
    BY <2>4, <1>2 DEF Readied, FlagTypeOK
  <2>5. QED
    BY <2>1, <2>2, <2>3, <2>4 DEF Summary
<1>4. QED
  BY <1>1, <1>2, <1>3 DEF FreshInv, InGroup

\* Nor do the other steps touch an unreported target before its turn: aborts
\* reach dispatched targets only, and a report covers the targets it marks.
LEMMA OtherFresh ==
    ASSUME IInv, OtherStep
    PROVE  FreshInv'
<1> /\ PoolInv /\ GroupInv /\ StatusInv /\ FreshInv
    /\ PoolTypeOK /\ GroupTypeOK /\ FlagTypeOK
  BY DEF IInv, TypeOK
<1> USE DEF groupVars, poolVars, runnerVars, vars
<1>1. CASE StartGroup
  BY <1>1 DEF StartGroup, FreshInv, InGroup
<1>2. CASE SkipGroup
  <2>1. /\ UNCHANGED <<ready, finished, openFailed, stage, dispatched>> /\ ~InGroup
        /\ \A u \in Targets \ reported' : u \notin reported /\ incomplete'[u] = incomplete[u]
    BY <1>2 DEF SkipGroup, InGroup, FlagTypeOK
  <2>2. QED
    BY <2>1 DEF FreshInv
<1>3. CASE CollectResults
  <2>1. /\ UNCHANGED <<ready, finished, openFailed>> /\ dispatched \subseteq Group[group]
        /\ \A u \in Targets \ reported' :
             u \notin reported /\ u \notin Group[group] /\ incomplete'[u] = incomplete[u]
    BY <1>3 DEF CollectResults, InGroup, FlagTypeOK, GroupInv
  <2>2. QED
    BY <2>1 DEF FreshInv
<1>4. ASSUME NEW S \in SUBSET dispatched, Abort(S) \/ RunnerUnchanged, InGroup, InGroup',
             UNCHANGED <<reported, dispatched, openFailed>>
      PROVE  FreshInv'
  BY <1>4 DEF FreshInv, Abort, RunnerUnchanged
<1>5. CASE ColdBarrier
  <2>1. {t \in dispatched : ~finished[t]} \in SUBSET dispatched
    OBVIOUS
  <2>2. QED
    BY <1>4, <1>5, <2>1 DEF ColdBarrier, InGroup
<1>6. CASE RoundBarrier \/ FinishGroup
  <2>1. InGroup /\ InGroup' /\ UNCHANGED <<reported, dispatched, openFailed>>
    BY <1>6 DEF RoundBarrier, FinishGroup, InGroup
  <2>2. todo \in SUBSET dispatched \/ stage # "round"
    BY <2>1 DEF PoolInv, JobSet, GroupInv
  <2>3. readyList \in SUBSET dispatched
    BY <2>1 DEF GroupInv
  <2>4. QED
    BY <1>4, <1>6, <2>1, <2>2, <2>3 DEF RoundBarrier, FinishGroup
<1>7. CASE WarmBarrier \/ BeginMeasuring \/ AfterRound \/ AfterRounds \/ DNSSECBarrier
  BY <1>7 DEF WarmBarrier, BeginMeasuring, AfterRound, AfterRounds, StartRound,
     DNSSECBarrier, FreshInv, InGroup
<1>8. CASE \/ DispatchCheck \/ DispatchCancelled \/ Return \/ Interrupt \/ Terminated
           \/ UNCHANGED vars
  BY <1>8 DEF DispatchCheck, DispatchCancelled, Return, Interrupt, Terminated,
     FreshInv, InGroup
<1>9. ASSUME NEW w \in Workers, Handoff(w) \/ Take(w) \/ WorkerExit(w)
      PROVE  FreshInv'
  <2>1. UNCHANGED <<stage, reported, runnerVars>> /\ dispatched \subseteq dispatched'
    BY <1>9 DEF Handoff, Take, WorkerExit
  <2>2. QED
    BY <2>1 DEF FreshInv, InGroup
<1>10. QED
  BY <1>1, <1>2, <1>3, <1>5, <1>6, <1>7, <1>8, <1>9 DEF OtherStep, Controller

-----------------------------------------------------------------------------
\* SettledInv: a worker leaves its warm job only once the runner is ready or
\* finished, and the groups already reported are out of its reach.
LEMMA JobSettled ==
    ASSUME IInv, NEW w \in Workers, Summary(w)
    PROVE  SettledInv'
<1> DEFINE t == wjob[w]
<1>1. /\ t \in Targets /\ t \in dispatched /\ t \notin reported
      /\ Busy(w) /\ InGroup /\ wpc[w] \in PhasePCs
  BY JobTarget DEF Summary, IInv, PoolInv
<1>2. /\ FlagTypeOK /\ wpc \in [Workers -> WorkerPCs] /\ SettledInv /\ GroupInv
      /\ wjob \in [Workers -> Targets \cup {0}]
      /\ dispatched \subseteq Targets
      /\ UNCHANGED <<ctxDone, group, stage, todo, dispatched, readyList, reported>>
  BY DEF IInv, TypeOK, PoolTypeOK, GroupTypeOK, Summary, groupVars
<1>3. \A u \in Targets :
        /\ finished[u] => finished'[u]
        /\ u # t => /\ ready'[u] = ready[u] /\ incomplete'[u] = incomplete[u]
                    /\ openFailed'[u] = openFailed[u]
  <2>1. CASE Kept(w)
    BY <2>1 DEF Kept
  <2>2. CASE Aborted(w)
    BY <2>2 DEF Aborted, Abort
  <2>3. CASE Failed(w)
    BY <2>3, <1>2 DEF Failed, FlagTypeOK
  <2>4. CASE Readied(w)
    BY <2>4, <1>2 DEF Readied, FlagTypeOK
  <2>5. QED
    BY <2>1, <2>2, <2>3, <2>4 DEF Summary
<1>4. ASSUME stage = "warm", NEW u \in dispatched
      PROVE  \/ u \in todo \/ ready'[u] \/ finished'[u]
             \/ \E v \in Workers : Busy(v)' /\ wjob'[v] = u
  <2>1. wpc[w] \in WarmPCs
    BY <1>1, <1>4 DEF PhasePCs
  <2>2. CASE u = t
    <3>1. CASE Onward(w)
      <4>1. wpc'[w] \in WarmPCs /\ wjob'[w] = u
        BY <2>1, <2>2, <3>1 DEF Onward, WarmPCs, ColdPCs, MeasurePCs, ProbePCs
      <4>2. QED
        BY <4>1 DEF Busy, BusyPCs
    <3>2. CASE Back(w)
      <4>1. wpc'[w] = "recv"
        BY <1>2, <3>2 DEF Back
      <4>2. CASE Kept(w)
        BY <1>3, <2>1, <2>2, <4>1, <4>2, <1>4, <1>2 DEF Kept
      <4>3. CASE Aborted(w)
        BY <1>1, <2>2, <4>3 DEF Aborted, Abort
      <4>4. CASE Failed(w)
        BY <1>1, <1>2, <2>2, <4>4 DEF Failed, FlagTypeOK
      <4>5. CASE Readied(w)
        BY <1>1, <1>2, <2>2, <4>5 DEF Readied, FlagTypeOK
      <4>6. QED
        BY <4>2, <4>3, <4>4, <4>5 DEF Summary
    <3>3. QED
      BY <3>1, <3>2 DEF Summary
  <2>3. CASE u # t
    <3>1. \/ u \in todo \/ ready[u] \/ finished[u]
          \/ \E v \in Workers : Busy(v) /\ wjob[v] = u
      BY <1>2, <1>4 DEF SettledInv
    <3>2. ASSUME NEW v \in Workers, Busy(v), wjob[v] = u
          PROVE  Busy(v)' /\ wjob'[v] = u
      <4>1. wpc'[v] = wpc[v] /\ wjob'[v] = wjob[v]
        BY <1>2, <2>3, <3>2 DEF Summary, Onward, Back
      <4>2. QED
        BY <3>2, <4>1 DEF Busy
    <3>3. QED
      BY <1>2, <1>3, <2>3, <3>1, <3>2
  <2>4. QED
    BY <2>2, <2>3
<1>5. ASSUME NEW g \in 1..(group - 1)
      PROVE  (Uncut(Group[g]) \/ Cut(Group[g]))'
  <2>1. Group[g] \subseteq Targets /\ t \notin Group[g]
    <3>1. group \in 1..NGroups
      BY <1>1, <1>2 DEF GroupInv
    <3>2. g \in 1..NGroups
      BY <3>1, SchedulerAssumption DEF SchedulerAssumption
    <3>3. QED
      BY <1>1, <1>2, <3>2 DEF GroupInv, Targets
  <2>2. QED
    BY <1>2, <1>3, <2>1 DEF SettledInv, Uncut, Cut
<1>6. stage # "collect"
  BY <1>1 DEF PhasePCs
<1>7. stage \in {"prepared", "round", "between", "measured", "dnssec", "finish"}
        => \A u \in dispatched : u \in readyList \/ finished'[u]
  BY <1>2, <1>3 DEF SettledInv
<1>8. QED
  BY <1>2, <1>4, <1>5, <1>6, <1>7 DEF SettledInv

\* The groups reported so far lie inside reported.
LEMMA PastGroups ==
    ASSUME GroupInv, group \in 1..(NGroups + 1), NEW g \in 1..(group - 1)
    PROVE  g \in 1..NGroups /\ Group[g] \subseteq reported /\ Group[g] \subseteq Targets
<1>1. g \in 1..NGroups
  BY SchedulerAssumption DEF SchedulerAssumption
<1>2. QED
  BY <1>1 DEF GroupInv, Targets

\* An abort cuts targets that are not reported, and settles the groups that
\* are: their fate stands.
LEMMA PastKept ==
    ASSUME GroupInv, GroupTypeOK, SettledInv, group' = group,
           UNCHANGED <<incomplete, openFailed>>
             \/ \E S : S \cap reported = {} /\ Abort(S) /\ UNCHANGED openFailed
    PROVE  \A g \in 1..(group' - 1) : (Uncut(Group[g]) \/ Cut(Group[g]))'
<1> SUFFICES ASSUME NEW g \in 1..(group - 1)
             PROVE  (Uncut(Group[g]) \/ Cut(Group[g]))'
  OBVIOUS
<1>1. Group[g] \subseteq reported /\ Group[g] \subseteq Targets
  BY PastGroups DEF GroupTypeOK
<1>2. Uncut(Group[g]) \/ Cut(Group[g])
  BY DEF SettledInv
<1>3. \A t \in Group[g] : incomplete'[t] = incomplete[t] /\ openFailed'[t] = openFailed[t]
  <2>1. CASE UNCHANGED <<incomplete, openFailed>>
    BY <2>1
  <2>2. ASSUME NEW S, S \cap reported = {}, Abort(S), UNCHANGED openFailed
        PROVE  \A t \in Group[g] : incomplete'[t] = incomplete[t] /\ openFailed'[t] = openFailed[t]
    BY <1>1, <2>2 DEF Abort
  <2>3. QED
    BY <2>1, <2>2
<1>4. QED
  BY <1>2, <1>3 DEF Uncut, Cut

\* SettledInv through the other steps: the warm barrier finds every job done,
\* FinishGroup gives the group one fate and CollectResults reports it.
LEMMA OtherSettled ==
    ASSUME IInv, OtherStep
    PROVE  SettledInv'
<1> /\ PoolInv /\ GroupInv /\ StatusInv /\ SettledInv
    /\ PoolTypeOK /\ GroupTypeOK /\ FlagTypeOK
  BY DEF IInv, TypeOK
<1> USE DEF groupVars, poolVars, runnerVars, vars
<1> DEFINE Mid == {"prepared", "round", "between", "measured", "dnssec", "finish"}
           Past == \A g \in 1..(group' - 1) : (Uncut(Group[g]) \/ Cut(Group[g]))'
           Split(D, R, F) == \A t \in D : t \in R \/ F[t]
<1>1. CASE StartGroup
  <2>1. Past
    BY <1>1, PastKept DEF StartGroup
  <2>2. QED
    BY <1>1, <2>1 DEF StartGroup, SettledInv
<1>2. CASE SkipGroup
  <2>1. /\ UNCHANGED openFailed /\ stage' = "next" /\ group' = group + 1
        /\ group \in 1..NGroups
        /\ \A t \in Targets : incomplete'[t] = (incomplete[t] \/ t \in Group[group])
    BY <1>2 DEF SkipGroup, GroupTypeOK
  <2>2. ASSUME NEW g \in 1..(group - 1)
        PROVE  (Uncut(Group[g]) \/ Cut(Group[g]))'
    <3>1. Group[g] \subseteq Targets /\ Group[g] \cap Group[group] = {}
      BY <2>1, PastGroups, GroupUnreported DEF GroupTypeOK
    <3>2. QED
      BY <2>1, <3>1 DEF SettledInv, Uncut, Cut
  <2>3. \A t \in Group[group] : incomplete'[t]
    BY <2>1, GroupUnreported
  <2>4. Past
    <3>1. ASSUME NEW g \in 1..group, g \notin 1..(group - 1)
          PROVE  g = group
      BY <2>1, <3>1, SchedulerAssumption DEF SchedulerAssumption
    <3>2. QED
      BY <2>1, <2>2, <2>3, <3>1 DEF Cut
  <2>5. QED
    BY <2>1, <2>4 DEF SettledInv
<1>3. CASE CollectResults
  <2>1. /\ UNCHANGED openFailed /\ stage' = "next" /\ group' = group + 1
        /\ group \in 1..NGroups
        /\ \A t \in Targets : incomplete'[t] =
             (incomplete[t] \/ (t \in Group[group] /\ t \notin dispatched))
    BY <1>3 DEF CollectResults, GroupInv, InGroup
  <2>2. ASSUME NEW g \in 1..(group - 1)
        PROVE  (Uncut(Group[g]) \/ Cut(Group[g]))'
    <3>1. Group[g] \subseteq Targets /\ Group[g] \cap Group[group] = {}
      BY <2>1, PastGroups, GroupUnreported DEF GroupTypeOK
    <3>2. QED
      BY <2>1, <3>1 DEF SettledInv, Uncut, Cut
  <2>3. \/ \A t \in Group[group] : ~incomplete'[t]
        \/ \A t \in Group[group] : incomplete'[t] \/ openFailed'[t]
    <3>1. Group[group] \subseteq Targets
      BY <2>1, GroupUnreported
    <3>2. \/ dispatched = Group[group] /\ Uncut(dispatched)
          \/ Cut(dispatched)
      BY <1>3 DEF CollectResults, SettledInv
    <3>3. QED
      BY <2>1, <3>1, <3>2 DEF Uncut, Cut
  <2>4. Past
    <3>1. ASSUME NEW g \in 1..group, g \notin 1..(group - 1)
          PROVE  g = group
      BY <2>1, <3>1, SchedulerAssumption DEF SchedulerAssumption
    <3>2. QED
      BY <2>1, <2>2, <2>3, <3>1 DEF Uncut, Cut
  <2>5. QED
    BY <2>1, <2>4 DEF SettledInv
<1>4. CASE ColdBarrier
  <2>1. {t \in dispatched : ~finished[t]} \cap reported = {}
    <3>1. dispatched \subseteq Group[group] /\ group \in 1..NGroups
      BY <1>4 DEF ColdBarrier, GroupInv, InGroup
    <3>2. QED
      BY <3>1, GroupUnreported
  <2>2. Past
    BY <1>4, <2>1, PastKept DEF ColdBarrier, RunnerUnchanged
  <2>3. CASE ctxDone
    <3>1. Abort({t \in dispatched : ~finished[t]}) /\ stage' = "finish"
          /\ UNCHANGED dispatched /\ dispatched \subseteq Targets
      BY <1>4, <2>3 DEF ColdBarrier, GroupTypeOK
    <3>2. \A t \in dispatched : finished'[t]
      BY <3>1 DEF Abort
    <3>3. QED
      BY <2>2, <3>1, <3>2 DEF SettledInv
  <2>4. CASE ~ctxDone
    BY <1>4, <2>2, <2>4, SpawnFacts DEF ColdBarrier, SettledInv
  <2>5. QED
    BY <2>3, <2>4
<1>5. CASE WarmBarrier
  <2>1. Past
    BY <1>5, PastKept DEF WarmBarrier
  <2>2. \A t \in dispatched : ready[t] \/ finished[t]
    BY <1>5 DEF WarmBarrier, SettledInv, Joined, Busy, BusyPCs, ColdPCs, WarmPCs,
       MeasurePCs, ProbePCs
  <2>3. QED
    BY <1>5, <2>1, <2>2 DEF WarmBarrier, SettledInv
<1>6. ASSUME stage \in Mid, stage' \in Mid, UNCHANGED <<group, dispatched, readyList>>,
             \/ RunnerUnchanged
             \/ \E S : S \cap reported = {} /\ Abort(S),
             UNCHANGED openFailed
      PROVE  SettledInv'
  <2>1. Past
    BY <1>6, PastKept DEF RunnerUnchanged
  <2>2. \A t \in dispatched : finished[t] => finished'[t]
    BY <1>6 DEF RunnerUnchanged, Abort, GroupTypeOK
  <2>3. QED
    BY <1>6, <2>1, <2>2 DEF SettledInv
<1>7. CASE BeginMeasuring \/ AfterRound \/ AfterRounds \/ DNSSECBarrier
  BY <1>6, <1>7 DEF BeginMeasuring, AfterRound, AfterRounds, DNSSECBarrier, StartRound,
     RunnerUnchanged
<1>8. InGroup => readyList \cap reported = {}
  BY GroupUnreported DEF GroupInv
<1>9. CASE RoundBarrier
  <2>1. todo \cap reported = {}
    BY <1>8, <1>9 DEF RoundBarrier, PoolInv, JobSet, InGroup
  <2>2. QED
    BY <1>6, <1>9, <2>1 DEF RoundBarrier
<1>10. CASE FinishGroup
  <2>1. /\ UNCHANGED <<ctxDone, group, dispatched, openFailed>>
        /\ stage = "finish" /\ stage' = "collect" /\ dispatched \subseteq Targets
    BY <1>10 DEF FinishGroup, GroupTypeOK
  <2>2. Past
    BY <1>8, <1>10, PastKept DEF FinishGroup, InGroup, RunnerUnchanged
  <2>3. CASE ctxDone
    <3>1. \A t \in dispatched : t \in readyList \/ incomplete[t] \/ openFailed[t]
      BY <2>1 DEF SettledInv, StatusInv
    <3>2. Cut(dispatched)'
      BY <1>10, <2>1, <2>3, <3>1 DEF FinishGroup, Abort, Cut
    <3>3. QED
      BY <2>1, <2>2, <2>3, <3>2 DEF SettledInv
  <2>4. CASE ~ctxDone
    <3>1. dispatched = Group[group]
      BY <2>1, <2>4 DEF GroupInv
    <3>2. Uncut(dispatched)'
      BY <1>10, <2>1, <2>4 DEF FinishGroup, RunnerUnchanged, Uncut, StatusInv
    <3>3. QED
      BY <2>1, <2>2, <3>1, <3>2 DEF SettledInv
  <2>5. QED
    BY <2>3, <2>4
<1>11. CASE \/ DispatchCheck \/ DispatchCancelled \/ Interrupt \/ Terminated
            \/ UNCHANGED vars
  <2>1. /\ UNCHANGED <<group, stage, dispatched, readyList, todo, runnerVars, wpc, wjob>>
        /\ ctxDone => ctxDone'
    BY <1>11 DEF DispatchCheck, DispatchCancelled, Interrupt, Terminated
  <2>2. QED
    BY <2>1 DEF SettledInv, Uncut, Cut, Busy
<1>12. CASE Return
  <2>1. Past
    BY <1>12, PastKept DEF Return
  <2>2. QED
    BY <1>12, <2>1 DEF Return, SettledInv
<1>13. ASSUME NEW w \in Workers, Handoff(w)
       PROVE  SettledInv'
  <2>1. Past
    BY <1>13, PastKept DEF Handoff
  <2>2. stage \in {"cold", "round"} /\ UNCHANGED <<stage, readyList, runnerVars>>
        /\ (stage # "cold" => dispatched' = dispatched)
    BY <1>13 DEF Handoff, PoolInv
  <2>3. QED
    BY <2>1, <2>2 DEF SettledInv
<1>14. ASSUME NEW w \in Workers, Take(w) \/ WorkerExit(w)
       PROVE  SettledInv'
  <2>1. /\ UNCHANGED <<ctxDone, groupVars, runnerVars>> /\ wpc[w] = "recv" /\ ~Busy(w)
    BY <1>14 DEF Take, WorkerExit, Busy, BusyPCs, ColdPCs, WarmPCs, MeasurePCs, ProbePCs
  <2>2. Past
    BY <2>1, PastKept
  <2>3. \A v \in Workers : v # w => wpc'[v] = wpc[v] /\ wjob'[v] = wjob[v]
    BY <1>14 DEF Take, WorkerExit, PoolTypeOK
  <2>4. \A v \in Workers : Busy(v) => Busy(v)' /\ wjob'[v] = wjob[v]
    BY <2>1, <2>3 DEF Busy
  <2>5. stage = "warm" => \A t \in todo : t \in todo' \/ (Busy(w)' /\ wjob'[w] = t)
    <3>1. CASE Take(w)
      BY <3>1 DEF Take, Entry, Busy, BusyPCs, WarmPCs, PoolTypeOK
    <3>2. CASE WorkerExit(w)
      BY <3>2 DEF WorkerExit
    <3>3. QED
      BY <1>14, <3>1, <3>2
  <2>6. stage = "warm" => \A t \in dispatched :
          \/ t \in todo' \/ ready[t] \/ finished[t]
          \/ \E v \in Workers : Busy(v)' /\ wjob'[v] = t
    BY <2>4, <2>5 DEF SettledInv
  <2>7. QED
    BY <2>1, <2>2, <2>6 DEF SettledInv, Uncut, Cut
<1>15. QED
  BY <1>1, <1>2, <1>3, <1>4, <1>5, <1>7, <1>9, <1>10, <1>11, <1>12, <1>13, <1>14
     DEF OtherStep, Controller

-----------------------------------------------------------------------------
\* Nothing has begun: every part of the invariant holds.
LEMMA InitInv == Init => IInv
<1> SUFFICES ASSUME Init PROVE IInv
  OBVIOUS
<1> USE DEF Init
<1>1. NGroups \in Nat /\ 1 \in 1..(NGroups + 1) /\ 1..(1 - 1) = {}
  BY SchedulerAssumption DEF SchedulerAssumption
<1>2. TypeOK
  <2>1. PoolTypeOK
    BY DEF PoolTypeOK, WorkerPCs
  <2>2. GroupTypeOK
    BY <1>1 DEF GroupTypeOK, Stages
  <2>3. FlagTypeOK /\ DataTypeOK
    BY DEF FlagTypeOK, DataTypeOK
  <2>4. QED
    BY <2>1, <2>2, <2>3 DEF TypeOK
<1>3. PoolInv
  BY DEF PoolInv, Joined, Busy, BusyPCs, ColdPCs, WarmPCs, MeasurePCs, ProbePCs,
     SessionExclusive
<1>4. GroupInv
  BY <1>1 DEF GroupInv, InGroup
<1>5. StatusInv
  BY DEF StatusInv, InGroup, UnfinishedPCs, ColdPCs, WarmPCs
<1>6. FreshInv /\ SettledInv
  BY <1>1 DEF FreshInv, SettledInv
<1>7. QED
  BY <1>2, <1>3, <1>4, <1>5, <1>6 DEF IInv

\* Every step is a job step of a worker or one of the others.
LEMMA StepCases ==
    ASSUME [Next]_vars
    PROVE  OtherStep \/ \E w \in Workers : JobStep(w)
BY DEF Next, Worker, OtherStep, JobStep

\* IInv is inductive.
LEMMA StepInv == IInv /\ [Next]_vars => IInv'
<1> SUFFICES ASSUME IInv, [Next]_vars PROVE IInv'
  OBVIOUS
<1>1. ASSUME NEW w \in Workers, JobStep(w)
      PROVE  IInv'
  <2>1. TypeOK /\ PoolInv /\ GroupInv
    BY DEF IInv
  <2>2. Summary(w)
    BY <1>1, <2>1, JobSummary
  <2>3. TypeOK'
    BY <1>1, <2>1, JobType
  <2>4. PoolInv' /\ GroupInv'
    BY <2>1, <2>2, JobPool, JobGroup
  <2>5. StatusInv' /\ FreshInv' /\ SettledInv'
    BY <2>2, JobStatus, JobFresh, JobSettled
  <2>6. QED
    BY <2>3, <2>4, <2>5 DEF IInv
<1>2. CASE OtherStep
  <2>1. TypeOK' /\ PoolInv' /\ GroupInv'
    BY <1>2, OtherType, OtherPool, OtherGroup
  <2>2. StatusInv' /\ FreshInv' /\ SettledInv'
    BY <1>2, OtherStatus, OtherFresh, OtherSettled
  <2>3. QED
    BY <2>1, <2>2 DEF IInv
<1>3. QED
  BY <1>1, <1>2, StepCases

\* IInv holds in every reachable state, for any number of groups, targets,
\* workers and queries.
THEOREM Invariant == Spec => []IInv
BY InitInv, StepInv, PTL DEF Spec

\* Every variable keeps its type.
THEOREM TypeCorrect == Spec => []TypeOK
<1>1. IInv => TypeOK
  BY DEF IInv
<1>2. QED
  BY <1>1, Invariant, PTL

\* No session is used by two goroutines at once: prepareTargets,
\* runQueryRound and probeDNSSECTargets never give one target to two workers.
THEOREM Exclusive == Spec => []SessionExclusive
<1>1. IInv => SessionExclusive
  BY DEF IInv, PoolInv
<1>2. QED
  BY <1>1, Invariant, PTL

\* An interrupted group is reported cut as a whole: runProtocolFair never
\* mixes measured and incomplete targets in one group's results.
THEOREM WholeOrCut == Spec => []AllOrNothing
<1>1. IInv => AllOrNothing
  <2> SUFFICES ASSUME IInv, NEW g \in 1..NGroups, Group[g] \subseteq reported
               PROVE  \/ \A t \in Group[g] : ~incomplete[t]
                      \/ \A t \in Group[g] : incomplete[t] \/ openFailed[t]
    BY DEF AllOrNothing
  <2>1. PICK t \in Group[g] : TRUE
    BY SchedulerAssumption DEF SchedulerAssumption
  <2>2. PICK h \in 1..(group - 1) : t \in Group[h]
    BY <2>1 DEF IInv, GroupInv
  <2>3. h \in 1..NGroups
    BY PastGroups DEF IInv, TypeOK, GroupTypeOK
  <2>4. g = h
    BY <2>1, <2>2, <2>3, SchedulerAssumption DEF SchedulerAssumption
  <2>5. QED
    BY <2>2, <2>4 DEF IInv, SettledInv, Uncut, Cut
<1>2. QED
  BY <1>1, Invariant, PTL

\* Without an interrupt no target is ever reported incomplete.
THEOREM OnlyInterruptsCut == Spec => []IncompleteMeansInterrupted
<1>1. IInv => IncompleteMeansInterrupted
  BY DEF IInv, StatusInv, IncompleteMeansInterrupted
<1>2. QED
  BY <1>1, Invariant, PTL

-----------------------------------------------------------------------------
\* The abstract state of BenchmarkRun does not move while a group is being
\* measured: the flags of reported targets are out of every worker's reach.
LEMMA OutcomeKept ==
    ASSUME UNCHANGED reported,
           \A t \in reported \cap Targets :
             incomplete'[t] = incomplete[t] /\ openFailed'[t] = openFailed[t]
    PROVE  [t \in Targets |-> Outcome(t)]' = [t \in Targets |-> Outcome(t)]
BY DEF Outcome

\* A job step is a stutter of BenchmarkRun.
LEMMA JobStutters ==
    ASSUME IInv, NEW w \in Workers, Summary(w)
    PROVE  UNCHANGED Contract!vars
<1>1. wjob[w] \notin reported
  BY JobTarget DEF Summary
<1>2. UNCHANGED <<ctxDone, group, stage, reported>> /\ FlagTypeOK
  BY DEF Summary, groupVars, IInv, TypeOK
<1>3. \A t \in reported \cap Targets :
        incomplete'[t] = incomplete[t] /\ openFailed'[t] = openFailed[t]
  <2>1. CASE Kept(w)
    BY <2>1 DEF Kept
  <2>2. CASE Aborted(w)
    BY <1>1, <2>2 DEF Aborted, Abort
  <2>3. CASE Failed(w)
    BY <1>1, <1>2, <2>3 DEF Failed, FlagTypeOK
  <2>4. CASE Readied(w)
    BY <2>4 DEF Readied
  <2>5. QED
    BY <2>1, <2>2, <2>3, <2>4 DEF Summary
<1>4. QED
  BY <1>2, <1>3, OutcomeKept DEF Contract!vars

\* The other steps are the steps of BenchmarkRun or stutters.
LEMMA OtherImplements ==
    ASSUME IInv, OtherStep
    PROVE  [Contract!Next]_(Contract!vars)
<1> /\ PoolInv /\ GroupInv /\ StatusInv /\ FreshInv /\ SettledInv
    /\ PoolTypeOK /\ GroupTypeOK /\ FlagTypeOK
  BY DEF IInv, TypeOK
<1> USE DEF groupVars, poolVars, runnerVars, vars
<1> DEFINE Frozen == \A t \in reported \cap Targets :
                       incomplete'[t] = incomplete[t] /\ openFailed'[t] = openFailed[t]
<1>1. CASE StartGroup
  <2>1. UNCHANGED <<reported, incomplete, openFailed>>
    BY <1>1 DEF StartGroup
  <2>2. [t \in Targets |-> Outcome(t)]' = [t \in Targets |-> Outcome(t)]
    BY <2>1, OutcomeKept
  <2>3. Contract!BeginGroup
    BY <1>1, <2>2 DEF StartGroup, Contract!BeginGroup
  <2>4. QED
    BY <2>3 DEF Contract!Next, Contract!Progress
<1>2. CASE SkipGroup
  <2>1. /\ stage = "next" /\ stage' = "next" /\ ctxDone /\ ctxDone'
        /\ group' = group + 1 /\ group <= NGroups /\ group \in 1..NGroups
        /\ UNCHANGED openFailed /\ reported' = reported \cup Group[group]
        /\ \A t \in Targets : incomplete'[t] = (incomplete[t] \/ t \in Group[group])
    BY <1>2 DEF SkipGroup, GroupTypeOK
  <2>2. \A t \in Targets :
          Outcome(t)' = IF t \in Group[group] THEN "incomplete" ELSE Outcome(t)
    BY <2>1 DEF Outcome
  <2>3. [t \in Targets |-> Outcome(t)]' =
          [t \in Targets |-> IF t \in Group[group]
                             THEN [u \in Targets |-> "incomplete"][t]
                             ELSE [u \in Targets |-> Outcome(u)][t]]
    BY <2>2
  <2>4. Contract!SkipGroup
    BY <2>1, <2>3 DEF Contract!SkipGroup, Contract!ReportGroup, Contract!Targets, Targets
  <2>5. QED
    BY <2>4 DEF Contract!Next, Contract!Progress
<1>3. CASE CollectResults
  <2>1. /\ stage = "collect" /\ stage' = "next" /\ UNCHANGED ctxDone
        /\ group' = group + 1 /\ group \in 1..NGroups
        /\ UNCHANGED openFailed /\ reported' = reported \cup Group[group]
        /\ \A t \in Targets : incomplete'[t] =
             (incomplete[t] \/ (t \in Group[group] /\ t \notin dispatched))
    BY <1>3 DEF CollectResults, GroupInv, InGroup
  <2>2. Group[group] \subseteq Targets
    BY <2>1, GroupUnreported
  <2> DEFINE report == [t \in Targets |-> IF incomplete'[t] THEN "incomplete"
                                          ELSE IF openFailed[t] THEN "failed" ELSE "measured"]
  <2>3. report \in [Targets -> {"measured", "failed", "incomplete"}]
    OBVIOUS
  <2>4. \/ \A t \in Group[group] : report[t] \in {"measured", "failed"}
        \/ ctxDone /\ \A t \in Group[group] : report[t] \in {"incomplete", "failed"}
    <3>1. CASE dispatched = Group[group] /\ Uncut(dispatched)
      BY <2>1, <2>2, <3>1 DEF Uncut
    <3>2. CASE Cut(dispatched) /\ (dispatched # Group[group] => ctxDone)
      <4>1. CASE ctxDone
        BY <2>1, <2>2, <3>2, <4>1 DEF Cut
      <4>2. CASE ~ctxDone
        BY <2>1, <2>2, <3>2, <4>2 DEF StatusInv
      <4>3. QED
        BY <4>1, <4>2
    <3>3. QED
      BY <2>1, <3>1, <3>2 DEF SettledInv
  <2>5. \A t \in Targets :
          Outcome(t)' = IF t \in Group[group] THEN report[t] ELSE Outcome(t)
    BY <2>1 DEF Outcome
  <2>6. [t \in Targets |-> Outcome(t)]' =
          [t \in Targets |-> IF t \in Group[group] THEN report[t]
                             ELSE [u \in Targets |-> Outcome(u)][t]]
    BY <2>5
  <2> HIDE DEF report
  <2>7. Contract!EndGroup
    <3>1. Contract!Targets = Targets
      BY DEF Contract!Targets, Targets
    <3>2. Contract!Whole(report) \/ (ctxDone /\ Contract!Cut(report))
      BY <2>4 DEF Contract!Whole, Contract!Cut
    <3>3. Contract!ReportGroup(report)
      BY <2>1, <2>6, <3>1 DEF Contract!ReportGroup
    <3>4. QED
      BY <2>1, <2>3, <3>1, <3>2, <3>3 DEF Contract!EndGroup
  <2>8. QED
    BY <2>7 DEF Contract!Next, Contract!Progress
<1>4. ASSUME UNCHANGED <<ctxDone, group, reported>>,
             stage \notin {"next", "done"} <=> stage' \notin {"next", "done"},
             stage = "done" <=> stage' = "done",
             Frozen
      PROVE  UNCHANGED Contract!vars
  BY <1>4, OutcomeKept DEF Contract!vars
<1>5. ASSUME NEW S, S \cap reported = {}, Abort(S), UNCHANGED openFailed
      PROVE  Frozen
  BY <1>5 DEF Abort
<1>6. CASE ColdBarrier
  <2>1. {t \in dispatched : ~finished[t]} \cap reported = {}
    <3>1. dispatched \subseteq Group[group] /\ group \in 1..NGroups
      BY <1>6 DEF ColdBarrier, GroupInv, InGroup
    <3>2. QED
      BY <3>1, GroupUnreported
  <2>2. QED
    BY <1>4, <1>5, <1>6, <2>1 DEF ColdBarrier, RunnerUnchanged
<1>7. CASE RoundBarrier \/ FinishGroup
  <2>1. InGroup
    BY <1>7 DEF RoundBarrier, FinishGroup, InGroup
  <2>2. readyList \cap reported = {}
    BY <2>1, GroupUnreported DEF GroupInv
  <2>3. RoundBarrier => todo \cap reported = {}
    BY <2>2 DEF RoundBarrier, PoolInv, JobSet
  <2>4. QED
    BY <1>4, <1>5, <1>7, <2>2, <2>3 DEF RoundBarrier, FinishGroup, RunnerUnchanged
<1>8. CASE \/ WarmBarrier \/ BeginMeasuring \/ AfterRound \/ AfterRounds \/ DNSSECBarrier
           \/ DispatchCheck \/ DispatchCancelled \/ Terminated \/ UNCHANGED vars
  BY <1>4, <1>8 DEF WarmBarrier, BeginMeasuring, AfterRound, AfterRounds, StartRound,
     DNSSECBarrier, DispatchCheck, DispatchCancelled, Terminated
<1>9. ASSUME NEW w \in Workers, Handoff(w) \/ Take(w) \/ WorkerExit(w)
      PROVE  UNCHANGED Contract!vars
  BY <1>4, <1>9 DEF Handoff, Take, WorkerExit
<1>10. CASE Return
  <2>1. [t \in Targets |-> Outcome(t)]' = [t \in Targets |-> Outcome(t)]
    BY <1>10, OutcomeKept DEF Return
  <2>2. Contract!Return
    BY <1>10, <2>1 DEF Return, Contract!Return
  <2>3. QED
    BY <2>2 DEF Contract!Next, Contract!Progress
<1>11. CASE Interrupt
  <2>1. [t \in Targets |-> Outcome(t)]' = [t \in Targets |-> Outcome(t)]
    BY <1>11, OutcomeKept DEF Interrupt
  <2>2. Contract!Interrupt
    BY <1>11, <2>1 DEF Interrupt, Contract!Interrupt
  <2>3. QED
    BY <2>2 DEF Contract!Next
<1>12. QED
  BY <1>1, <1>2, <1>3, <1>6, <1>7, <1>8, <1>9, <1>10, <1>11 DEF OtherStep, Controller

\* The scheduler implements the safety part of the contract of Run: groups in
\* order, each reported whole or cut, nothing reported twice or withdrawn.
THEOREM Implements == Spec => Contract!Spec
<1>1. Init => Contract!Init
  <2> SUFFICES ASSUME Init PROVE Contract!Init
    OBVIOUS
  <2>1. \A t \in Targets : Outcome(t) = "pending"
    BY DEF Init, Outcome
  <2>2. QED
    BY <2>1 DEF Init, Contract!Init, Contract!Targets, Targets
<1>2. IInv /\ [Next]_vars => [Contract!Next]_(Contract!vars)
  <2> SUFFICES ASSUME IInv, [Next]_vars PROVE [Contract!Next]_(Contract!vars)
    OBVIOUS
  <2>1. ASSUME NEW w \in Workers, JobStep(w)
        PROVE  UNCHANGED Contract!vars
    BY <2>1, JobSummary, JobStutters DEF IInv
  <2>2. QED
    BY <2>1, StepCases, OtherImplements
<1>3. QED
  BY <1>1, <1>2, Invariant, PTL DEF Spec, Contract!Spec

-----------------------------------------------------------------------------
(***************************************************************************)
(* The sessions and samples: the invariant SInv, and what the report and   *)
(* the phases promise because of it.  The steps inside a job are           *)
(* summarised again, by what they do to sessions, probes and samples.      *)
(***************************************************************************)

\* What a job step does to the sessions of the worker's target ...
SessionStep(w) ==
    LET t == wjob[w] IN
    /\ \/ session' = session /\ (wpc'[w] \in OnSessionPCs => wpc[w] \in OnSessionPCs)
       \/ /\ wpc[w] = "warmOpen" /\ wpc'[w] = "warmCheck"
          /\ session' = [session EXCEPT ![t] = "open"]
    /\ \/ /\ coldOpen' = coldOpen
          /\ wpc[w] # "coldQuery" /\ wpc'[w] # "coldQuery"
       \/ /\ coldOpen' = [coldOpen EXCEPT ![t] = TRUE]
          /\ wpc[w] # "coldQuery" /\ wpc'[w] = "coldQuery"
       \/ /\ coldOpen' = [coldOpen EXCEPT ![t] = FALSE]
          /\ wpc[w] = "coldQuery" /\ wpc'[w] # "coldQuery"
    /\ wpc'[w] = "measureQuery" => ready[t] /\ ready' = ready

\* ... to its cold probes ...
ColdStep(w) ==
    LET t == wjob[w] IN
    \/ /\ cold' = cold
       /\ wpc[w] \in ColdPCs /\ wpc'[w] = "recv" => finished'[t]
    \/ /\ wpc[w] \in ColdPCs
       /\ cold' = [cold EXCEPT ![t] = @ + 1]
       /\ wpc'[w] \in ColdPCs => cold[t] + 1 < ColdProbes
       /\ wpc'[w] = "recv" => finished'[t] \/ cold[t] + 1 >= ColdProbes

\* ... and to its observations and its verdict.
SampleStep(w) ==
    LET t == wjob[w] IN
    \/ /\ obs' = obs /\ openFailed' = openFailed
       /\ wpc[w] \in MeasurePCs /\ wpc'[w] = "recv" => ~ready'[t]
    \/ /\ obs' = [obs EXCEPT ![t] = NQueries]
       /\ openFailed' = [openFailed EXCEPT ![t] = TRUE]
       /\ wpc[w] \in ColdPCs \cup WarmPCs
    \/ /\ obs' = [obs EXCEPT ![t] = @ + 1] /\ openFailed' = openFailed
       /\ wpc[w] = "measureQuery" /\ wpc'[w] = "recv" /\ UNCHANGED ready

VerdictStep(w) ==
    LET t == wjob[w] IN
    /\ \/ verdict' = verdict
       \/ verdict' = [verdict EXCEPT ![t] = TRUE]
    /\ wpc[w] \in ProbePCs /\ wpc'[w] = "recv" =>
         verdict'[t] \/ ctxDone \/ ~ready[t] \/ session[t] = "none"

\* WarmOpen opens the measured session, the cold steps a session of their own.
LEMMA JobSessionStep ==
    ASSUME TypeOK, NEW w \in Workers, JobStep(w)
    PROVE  SessionStep(w)
<1> wpc \in [Workers -> WorkerPCs]
  BY DEF TypeOK, PoolTypeOK
<1> USE DEF ColdPCs, WarmPCs, MeasurePCs, ProbePCs, OnSessionPCs,
        SessionStep, GoTo, BackToChannel, RunnerUnchanged, AbortOr, WorkerFrame
<1>1. CASE NewRunner(w) \/ ColdCheck(w)
  BY <1>1, SMT DEF NewRunner, ColdCheck, FailOpen
<1>2. CASE ColdOpen(w) \/ ColdQuery(w)
  BY <1>2, SMT DEF ColdOpen, ColdQuery, EndProbe
<1>3. CASE WarmOpen(w)
  BY <1>3, SMT DEF WarmOpen, FailOpen
<1>4. CASE WarmStart(w) \/ WarmCheck(w) \/ WarmQuery(w)
  BY <1>4, SMT DEF WarmStart, WarmCheck, WarmQuery, runnerVars
<1>5. CASE MeasureCheck(w) \/ MeasureQuery(w)
  BY <1>5, SMT DEF MeasureCheck, MeasureQuery
<1>6. CASE ProbeCheck(w) \/ SignedQuery(w) \/ BogusQuery(w)
  BY <1>6, SMT DEF ProbeCheck, SignedQuery, BogusQuery, runnerVars
<1>7. QED
  BY <1>1, <1>2, <1>3, <1>4, <1>5, <1>6 DEF JobStep

\* EndProbe counts the probe; a worker gives up its cold job early only with an
\* ended runner.
LEMMA JobColdStep ==
    ASSUME TypeOK, NEW w \in Workers, wjob[w] \in Targets, JobStep(w)
    PROVE  ColdStep(w)
<1> wpc \in [Workers -> WorkerPCs]
  BY DEF TypeOK, PoolTypeOK
<1> cold \in [Targets -> Nat] /\ ColdProbes \in Nat
  BY SchedulerAssumption DEF TypeOK, DataTypeOK
<1> \A t \in Targets : Abort({t}) \/ FailOpen(t) => finished'[t]
  BY DEF Abort, FailOpen, TypeOK, FlagTypeOK
<1> USE DEF ColdPCs, WarmPCs, MeasurePCs, ProbePCs,
        ColdStep, GoTo, BackToChannel, RunnerUnchanged, AbortOr, WorkerFrame
<1>1. CASE NewRunner(w) \/ ColdCheck(w)
  BY <1>1, SMT DEF NewRunner, ColdCheck
<1>2. CASE ColdOpen(w)
  <2>1. wpc[w] = "coldOpen"
    BY <1>2 DEF ColdOpen
  <2>2. CASE /\ cold' = [cold EXCEPT ![wjob[w]] = @ + 1]
             /\ AbortOr(w, wjob[w], IF cold[wjob[w]] + 1 < ColdProbes
                                   THEN GoTo(w, "coldCheck") ELSE BackToChannel(w))
    BY <2>1, <2>2, SMT
  <2>3. CASE UNCHANGED cold /\ GoTo(w, "coldQuery")
    BY <2>1, <2>3, SMT
  <2>4. QED
    BY <1>2, <2>2, <2>3 DEF ColdOpen, EndProbe
<1>3. CASE ColdQuery(w)
  <2>1. /\ wpc[w] = "coldQuery" /\ cold' = [cold EXCEPT ![wjob[w]] = @ + 1]
        /\ AbortOr(w, wjob[w], IF cold[wjob[w]] + 1 < ColdProbes
                              THEN GoTo(w, "coldCheck") ELSE BackToChannel(w))
    BY <1>3 DEF ColdQuery, EndProbe
  <2>2. QED
    BY <2>1, SMT
<1>4. CASE WarmOpen(w)
  BY <1>4, SMT DEF WarmOpen, FailOpen
<1>5. CASE WarmStart(w) \/ WarmCheck(w) \/ WarmQuery(w)
  BY <1>5, SMT DEF WarmStart, WarmCheck, WarmQuery, runnerVars
<1>6. CASE MeasureCheck(w) \/ MeasureQuery(w)
  BY <1>6, SMT DEF MeasureCheck, MeasureQuery
<1>7. CASE ProbeCheck(w) \/ SignedQuery(w) \/ BogusQuery(w)
  BY <1>7, SMT DEF ProbeCheck, SignedQuery, BogusQuery, runnerVars
<1>8. QED
  BY <1>1, <1>2, <1>3, <1>4, <1>5, <1>6, <1>7 DEF JobStep

\* MeasureQuery counts the observation; a measuring worker that goes back without
\* one leaves a runner that is no longer ready.
LEMMA JobSampleStep ==
    ASSUME TypeOK, NEW w \in Workers, wjob[w] \in Targets, ready[wjob[w]] => ~finished[wjob[w]],
           JobStep(w)
    PROVE  SampleStep(w)
<1> wpc \in [Workers -> WorkerPCs]
  BY DEF TypeOK, PoolTypeOK
<1> obs \in [Targets -> Nat]
  BY DEF TypeOK, DataTypeOK
<1> \A t \in Targets : Abort({t}) => finished'[t] /\ ~ready'[t]
  BY DEF Abort
<1> USE DEF ColdPCs, WarmPCs, MeasurePCs, ProbePCs,
        SampleStep, GoTo, BackToChannel, RunnerUnchanged, AbortOr, WorkerFrame
<1>1. CASE NewRunner(w) \/ ColdCheck(w)
  BY <1>1, SMT DEF NewRunner, ColdCheck, FailOpen
<1>2. CASE ColdOpen(w) \/ ColdQuery(w)
  BY <1>2, SMT DEF ColdOpen, ColdQuery, EndProbe
<1>3. CASE WarmOpen(w)
  BY <1>3, SMT DEF WarmOpen, FailOpen
<1>4. CASE WarmStart(w) \/ WarmCheck(w) \/ WarmQuery(w)
  BY <1>4, SMT DEF WarmStart, WarmCheck, WarmQuery, runnerVars
<1>5. CASE MeasureCheck(w)
  BY <1>5, SMT DEF MeasureCheck
<1>6. CASE MeasureQuery(w)
  BY <1>6, SMT DEF MeasureQuery
<1>7. CASE ProbeCheck(w) \/ SignedQuery(w) \/ BogusQuery(w)
  BY <1>7, SMT DEF ProbeCheck, SignedQuery, BogusQuery, runnerVars
<1>8. QED
  BY <1>1, <1>2, <1>3, <1>4, <1>5, <1>6, <1>7 DEF JobStep

\* A worker leaves a DNSSEC probe with a verdict, unless the run is cancelled.
LEMMA JobVerdictStep ==
    ASSUME TypeOK, NEW w \in Workers, wjob[w] \in Targets, JobStep(w)
    PROVE  VerdictStep(w)
<1> wpc \in [Workers -> WorkerPCs]
  BY DEF TypeOK, PoolTypeOK
<1> verdict \in [Targets -> BOOLEAN]
  BY DEF TypeOK, DataTypeOK
<1> USE DEF ColdPCs, WarmPCs, MeasurePCs, ProbePCs,
        VerdictStep, GoTo, BackToChannel, RunnerUnchanged, AbortOr, WorkerFrame
<1>1. CASE NewRunner(w) \/ ColdCheck(w)
  BY <1>1, SMT DEF NewRunner, ColdCheck, FailOpen
<1>2. CASE ColdOpen(w) \/ ColdQuery(w)
  BY <1>2, SMT DEF ColdOpen, ColdQuery, EndProbe
<1>3. CASE WarmOpen(w)
  BY <1>3, SMT DEF WarmOpen, FailOpen
<1>4. CASE WarmStart(w) \/ WarmCheck(w) \/ WarmQuery(w)
  BY <1>4, SMT DEF WarmStart, WarmCheck, WarmQuery, runnerVars
<1>5. CASE MeasureCheck(w) \/ MeasureQuery(w)
  BY <1>5, SMT DEF MeasureCheck, MeasureQuery
<1>6. CASE ProbeCheck(w) \/ SignedQuery(w)
  BY <1>6, SMT DEF ProbeCheck, SignedQuery, runnerVars
<1>7. CASE BogusQuery(w)
  BY <1>7, SMT DEF BogusQuery, runnerVars
<1>8. QED
  BY <1>1, <1>2, <1>3, <1>4, <1>5, <1>6, <1>7 DEF JobStep

-----------------------------------------------------------------------------
\* A job step leaves everything alone but its own worker and that worker's
\* target, and it ends the job exactly when the worker goes back.
JobFrame(w) ==
    LET t == wjob[w] IN
    /\ t \in Targets /\ t \in dispatched /\ t \notin reported /\ t \notin todo /\ InGroup
    /\ stage = "round" => t \in readyList
    /\ UNCHANGED <<ctxDone, group, stage, round, dispatched, readyList, reported, todo, dpc>>
    /\ wpc[w] \in PhasePCs /\ (wpc'[w] = "recv" \/ wpc'[w] \in PhasePCs)
    /\ \A v \in Workers : v # w =>
        wpc'[v] = wpc[v] /\ wjob'[v] = wjob[v] /\ (Busy(v) => wjob[v] # t)
    /\ wpc'[w] # "recv" => wjob'[w] = t
    /\ \A u \in Targets : u # t =>
        /\ ready'[u] = ready[u] /\ finished'[u] = finished[u]
        /\ openFailed'[u] = openFailed[u] /\ incomplete'[u] = incomplete[u]
    /\ ready'[t] => ready[t] \/ wpc[w] = "warmQuery"
    /\ ready[t] => ready'[t] \/ finished'[t]
    /\ finished[t] => finished'[t]

LEMMA JobFrames ==
    ASSUME IInv, NEW w \in Workers, JobStep(w)
    PROVE  JobFrame(w)
<1> DEFINE t == wjob[w]
<1>1. /\ Summary(w) /\ TypeOK /\ PoolInv
      /\ wpc \in [Workers -> WorkerPCs] /\ wjob \in [Workers -> Targets \cup {0}]
      /\ FlagTypeOK
  BY JobSummary DEF IInv, TypeOK, PoolTypeOK
<1>2. t \in Targets /\ t \in dispatched /\ t \notin reported /\ InGroup
  BY <1>1, JobTarget DEF Summary
<1>3. /\ wpc[w] \in PhasePCs /\ t \notin todo /\ (stage = "round" => t \in readyList)
      /\ \A v \in Workers : v # w /\ Busy(v) => wjob[v] # t
  BY <1>1 DEF PoolInv, Summary, JobSet, SessionExclusive
<1>4. /\ \A v \in Workers : v # w => wpc'[v] = wpc[v] /\ wjob'[v] = wjob[v]
      /\ wpc'[w] # "recv" => wjob'[w] = t
      /\ wpc'[w] = "recv" \/ wpc'[w] \in PhasePCs
  <2>1. CASE Back(w)
    BY <1>1, <2>1 DEF Back
  <2>2. CASE Onward(w)
    BY <1>1, <1>3, <2>2 DEF Onward, PhasePCs, ColdPCs, WarmPCs, MeasurePCs, ProbePCs
  <2>3. QED
    BY <1>1, <2>1, <2>2 DEF Summary
<1>5. /\ \A u \in Targets : u # t =>
            /\ ready'[u] = ready[u] /\ finished'[u] = finished[u]
            /\ openFailed'[u] = openFailed[u] /\ incomplete'[u] = incomplete[u]
      /\ ready'[t] => ready[t] \/ wpc[w] = "warmQuery"
      /\ ready[t] => ready'[t] \/ finished'[t]
      /\ finished[t] => finished'[t]
  <2>1. CASE Kept(w)
    BY <2>1 DEF Kept
  <2>2. CASE Aborted(w)
    BY <1>2, <2>2 DEF Aborted, Abort
  <2>3. CASE Failed(w)
    BY <1>1, <1>2, <2>3 DEF Failed, FlagTypeOK
  <2>4. CASE Readied(w)
    BY <1>1, <1>2, <2>4 DEF Readied, FlagTypeOK
  <2>5. QED
    BY <1>1, <2>1, <2>2, <2>3, <2>4 DEF Summary
<1>6. UNCHANGED <<ctxDone, group, stage, round, dispatched, readyList, reported, todo, dpc>>
  BY <1>1 DEF Summary, groupVars
<1>7. QED
  BY <1>2, <1>3, <1>4, <1>5, <1>6 DEF JobFrame

\* A target is held after a job step by the worker that held it before, if at
\* all; the step's own target is held until the worker goes back.
LEMMA JobHeld ==
    ASSUME NEW w \in Workers, JobFrame(w), NEW t, t = wjob[w], NEW u
    PROVE  /\ u # t => (Held(u)' <=> Held(u)) /\ (Pending(u)' <=> Pending(u))
           /\ Held(t) /\ Pending(t)
           /\ (Held(t)' <=> wpc'[w] # "recv") /\ (Pending(t)' <=> wpc'[w] # "recv")
<1>1. PhasePCs \subseteq BusyPCs /\ "recv" \notin BusyPCs
  BY DEF PhasePCs, BusyPCs, ColdPCs, WarmPCs, MeasurePCs, ProbePCs
<1>2. /\ Busy(w) /\ t \notin todo /\ todo' = todo
      /\ (Busy(w)' <=> wpc'[w] # "recv") /\ (Busy(w)' => wjob'[w] = t)
      /\ \A v \in Workers : v # w =>
            (Busy(v)' <=> Busy(v)) /\ wjob'[v] = wjob[v] /\ (Busy(v) => wjob[v] # t)
  BY <1>1 DEF JobFrame, Busy
<1>3. \A v \in Workers : u # t => (Busy(v)' /\ wjob'[v] = u <=> Busy(v) /\ wjob[v] = u)
  BY <1>2
<1>4. u # t => (Held(u)' <=> Held(u))
  BY <1>3 DEF Held
<1>5. Held(t) /\ (Held(t)' <=> wpc'[w] # "recv")
  BY <1>2 DEF Held
<1>6. QED
  BY <1>2, <1>4, <1>5 DEF Pending

-----------------------------------------------------------------------------
\* SInv through the steps inside a job, part by part.
LEMMA JobSamples ==
    ASSUME IInv, SInv, NEW w \in Workers, JobStep(w)
    PROVE  SInv'
<1> PICK t : t = wjob[w]
  OBVIOUS
<1>1. JobFrame(w)
  BY JobFrames
<1> /\ t \in Targets /\ t \in dispatched /\ t \notin reported /\ t \notin todo /\ InGroup
    /\ wpc[w] \in PhasePCs
    /\ UNCHANGED <<ctxDone, group, stage, round, dispatched, readyList, reported, todo, dpc>>
  BY <1>1 DEF JobFrame
<1> /\ StatusInv /\ GroupInv /\ PoolInv /\ DataTypeOK /\ FlagTypeOK /\ GroupTypeOK
    /\ BlankInv /\ SessionInv /\ ColdInv /\ SampleInv /\ VerdictInv /\ CompleteInv
  BY DEF IInv, SInv, TypeOK
<1> InGroup'
  BY DEF InGroup
<1>2. SessionStep(w) /\ ColdStep(w) /\ SampleStep(w) /\ VerdictStep(w)
  <2>1. ready[t] => ~finished[t]
    BY DEF StatusInv
  <2>2. QED
    BY <2>1, JobSessionStep, JobColdStep, JobSampleStep, JobVerdictStep DEF IInv
\* What happens to the targets of other workers: nothing.
<1>3. \A u \in Targets : u # t =>
        /\ ready'[u] = ready[u] /\ finished'[u] = finished[u]
        /\ openFailed'[u] = openFailed[u] /\ incomplete'[u] = incomplete[u]
        /\ session'[u] = session[u] /\ coldOpen'[u] = coldOpen[u]
        /\ cold'[u] = cold[u] /\ obs'[u] = obs[u] /\ verdict'[u] = verdict[u]
  <2>1. \A u \in Targets : u # t => session'[u] = session[u] /\ coldOpen'[u] = coldOpen[u]
    BY <1>2 DEF SessionStep, DataTypeOK
  <2>2. \A u \in Targets : u # t => cold'[u] = cold[u]
    BY <1>2 DEF ColdStep, DataTypeOK
  <2>3. \A u \in Targets : u # t => obs'[u] = obs[u] /\ verdict'[u] = verdict[u]
    BY <1>2 DEF SampleStep, VerdictStep, DataTypeOK
  <2>4. QED
    BY <1>1, <2>1, <2>2, <2>3 DEF JobFrame
<1>4. \A u : /\ u # t => (Held(u)' <=> Held(u)) /\ (Pending(u)' <=> Pending(u))
             /\ Held(t) /\ Pending(t)
             /\ (Held(t)' <=> wpc'[w] # "recv") /\ (Pending(t)' <=> wpc'[w] # "recv")
  BY <1>1, JobHeld
<1>5. BlankInv'
  BY <1>3 DEF BlankInv
<1>6. SessionInv'
  <2>1. \A v \in Workers : v # w =>
          wpc'[v] = wpc[v] /\ wjob'[v] = wjob[v] /\ (Busy(v) => wjob[v] # t)
    BY <1>1 DEF JobFrame
  <2>2. wpc'[w] # "recv" => wjob'[w] = t
    BY <1>1 DEF JobFrame
  <2>3. \A v \in Workers : wpc[v] \in OnSessionPCs \cup {"coldQuery"} => Busy(v)
    BY DEF Busy, BusyPCs, OnSessionPCs, ColdPCs, WarmPCs, MeasurePCs, ProbePCs
  <2>4. \A v \in Workers : v # w /\ Busy(v) => wjob[v] \in Targets
    BY JobTarget
  <2>5. /\ session[t] = "open" => session'[t] = "open"
        /\ wpc'[w] \in OnSessionPCs => session'[t] = "open"
        /\ ready'[t] => session'[t] = "open"
    BY <1>1, <1>2 DEF SessionStep, DataTypeOK, JobFrame, SessionInv, OnSessionPCs
  <2>6. \A v \in Workers :
          /\ wpc'[v] \in OnSessionPCs => session'[wjob'[v]] = "open"
          /\ wpc'[v] = "measureQuery" => ready'[wjob'[v]]
    <3>1. ASSUME NEW v \in Workers, v # w, wpc'[v] \in OnSessionPCs
          PROVE  session'[wjob'[v]] = "open" /\ (wpc'[v] = "measureQuery" => ready'[wjob'[v]])
      BY <1>3, <2>1, <2>3, <2>4, <3>1 DEF SessionInv
    <3>2. /\ wpc'[w] \in OnSessionPCs => session'[wjob'[w]] = "open"
          /\ wpc'[w] = "measureQuery" => ready'[wjob'[w]]
      BY <1>2, <2>2, <2>5 DEF SessionStep, OnSessionPCs, MeasurePCs, ProbePCs
    <3>3. QED
      BY <3>1, <3>2 DEF OnSessionPCs, MeasurePCs
  <2>7. \A u \in Targets :
          coldOpen'[u] => \E v \in Workers : wpc'[v] = "coldQuery" /\ wjob'[v] = u
    <3>1. CASE wpc'[w] = "coldQuery"
      BY <1>3, <2>1, <2>2, <3>1 DEF SessionInv, SessionStep
    <3>2. CASE wpc'[w] # "coldQuery"
      BY <1>2, <1>3, <2>1, <2>3, <3>2 DEF SessionInv, SessionStep, DataTypeOK
    <3>3. QED
      BY <3>1, <3>2
  <2>8. stage = "cold" => \A u \in Group[group] : session'[u] = "none"
    BY <1>2 DEF SessionStep, SessionInv, PhasePCs, ColdPCs
  <2>9. \A u \in reported : session'[u] # "open"
    BY <1>3 DEF SessionInv, GroupTypeOK
  <2>10. \A u \in Targets \ reported :
           ready'[u] \/ (InGroup /\ u \in readyList) => session'[u] = "open"
    BY <1>3, <2>5 DEF SessionInv
  <2>11. QED
    BY <2>6, <2>7, <2>8, <2>9, <2>10 DEF SessionInv
<1>7. ColdInv'
  <2>1. /\ wpc'[w] \in ColdPCs => cold'[t] < ColdProbes
        /\ stage # "cold" => cold' = cold
        /\ stage = "cold" /\ wpc'[w] = "recv" => finished'[t] \/ cold'[t] = ColdProbes
    <3>1. /\ wpc[w] \in ColdPCs <=> stage = "cold"
          /\ wpc'[w] \in ColdPCs => stage = "cold"
      BY <1>1 DEF JobFrame, PhasePCs, ColdPCs, WarmPCs, MeasurePCs, ProbePCs
    <3>2. wpc[w] \in ColdPCs => cold[t] < ColdProbes
      BY DEF ColdInv
    <3>3. ColdProbes \in Nat /\ cold[t] \in Nat
      BY SchedulerAssumption DEF DataTypeOK
    <3>4. CASE cold' = cold /\ (wpc[w] \in ColdPCs /\ wpc'[w] = "recv" => finished'[t])
      BY <3>1, <3>2, <3>4
    <3>5. CASE cold' = [cold EXCEPT ![t] = @ + 1] /\ wpc[w] \in ColdPCs
      BY <1>2, <3>1, <3>2, <3>3, <3>5 DEF ColdStep, DataTypeOK
    <3>6. QED
      BY <1>2, <3>4, <3>5 DEF ColdStep
  <2>2. \A v \in Workers : wpc'[v] \in ColdPCs => cold'[wjob'[v]] < ColdProbes
    <3>1. ASSUME NEW v \in Workers, v # w, wpc'[v] \in ColdPCs
          PROVE  cold'[wjob'[v]] < ColdProbes
      <4>1. wpc'[v] = wpc[v] /\ wjob'[v] = wjob[v] /\ Busy(v) /\ wjob[v] # t
        BY <1>1, <3>1 DEF JobFrame, Busy, BusyPCs
      <4>2. QED
        BY <1>3, <3>1, <4>1, JobTarget DEF ColdInv
    <3>2. wpc'[w] \in ColdPCs => cold'[wjob'[w]] < ColdProbes
      BY <1>1, <2>1 DEF JobFrame, ColdPCs
    <3>3. QED
      BY <3>1, <3>2
  <2>3. ASSUME NEW u \in dispatched
        PROVE  finished'[u] \/ cold'[u] = ColdProbes \/ (stage = "cold" /\ Held(u)')
    <3>1. CASE u = t
      BY <1>1, <1>4, <2>1, <3>1 DEF ColdInv, JobFrame
    <3>2. CASE u # t
      BY <1>3, <1>4, <3>2 DEF ColdInv, GroupTypeOK
    <3>3. QED
      BY <3>1, <3>2
  <2>4. QED
    BY <2>2, <2>3 DEF ColdInv
<1>8. SampleInv'
  <2>1. \A u \in Targets : openFailed'[u] => obs'[u] = NQueries
    BY <1>2, <1>3 DEF SampleStep, SampleInv, SessionInv, StatusInv, DataTypeOK
  <2>2. stage \in {"cold", "warm"} => \A u \in dispatched : ~openFailed'[u] => obs'[u] = 0
    BY <1>2, <1>3 DEF SampleStep, SampleInv, GroupTypeOK, FlagTypeOK, PhasePCs, ColdPCs, WarmPCs
  <2>3. ASSUME stage \in {"round", "dnssec"}, NEW u \in readyList
        PROVE  /\ ready'[u] \/ finished'[u]
               /\ ready'[u] => obs'[u] = IF stage = "round" /\ Pending(u)'
                                        THEN round - 1 ELSE round
    <3>1. u \in Targets
      BY DEF GroupTypeOK
    <3>2. CASE u # t
      BY <1>3, <1>4, <2>3, <3>1, <3>2 DEF SampleInv
    <3>3. CASE u = t
      <4>1. wpc[w] \in MeasurePCs \cup ProbePCs /\ (wpc[w] \in MeasurePCs <=> stage = "round")
        BY <2>3 DEF PhasePCs, MeasurePCs, ProbePCs
      <4>2. ready'[t] => ready[t]
        BY <1>1, <4>1 DEF JobFrame, MeasurePCs, ProbePCs
      <4>3. ready'[t] \/ finished'[t]
        BY <1>1, <2>3, <3>3 DEF JobFrame, SampleInv
      <4>4. /\ ready[t] /\ stage = "round" => obs[t] = round - 1
            /\ ready[t] /\ stage # "round" => obs[t] = round
        BY <1>4, <2>3, <3>3 DEF SampleInv
      <4>5. ready'[t] /\ stage = "round" =>
              IF wpc'[w] = "recv" THEN obs'[t] = obs[t] + 1 ELSE obs'[t] = obs[t]
        BY <1>2, <4>1 DEF SampleStep, DataTypeOK, ColdPCs, WarmPCs, MeasurePCs, ProbePCs
      <4>6. stage # "round" => obs' = obs
        BY <1>2, <2>3, <4>1 DEF SampleStep, ColdPCs, WarmPCs, MeasurePCs, ProbePCs
      <4>7. QED
        BY <1>4, <3>3, <4>2, <4>3, <4>4, <4>5, <4>6 DEF GroupTypeOK
    <3>4. QED
      BY <3>2, <3>3
  <2>4. stage \in {"cold", "warm", "round", "dnssec"}
    BY DEF PhasePCs
  <2>5. QED
    BY <2>1, <2>2, <2>3, <2>4 DEF SampleInv
<1>9. VerdictInv'
  <2>1. ASSUME stage = "dnssec", NEW u \in readyList, ready'[u]
        PROVE  Pending(u)' \/ verdict'[u] \/ ctxDone
    <3>1. u \in Targets /\ u \notin reported
      BY GroupUnreported DEF GroupTypeOK, GroupInv
    <3>2. CASE u # t
      BY <1>3, <1>4, <2>1, <3>1, <3>2 DEF VerdictInv
    <3>3. CASE u = t
      <4>1. wpc[w] \in ProbePCs /\ ready[t] /\ session[t] = "open"
        BY <1>1, <2>1, <3>1, <3>3 DEF JobFrame, PhasePCs, ProbePCs, SessionInv
      <4>2. QED
        BY <1>2, <1>4, <3>3, <4>1 DEF VerdictStep
    <3>4. QED
      BY <3>2, <3>3
  <2>2. stage # "finish"
    BY DEF PhasePCs
  <2>3. QED
    BY <2>1, <2>2 DEF VerdictInv
<1>10. CompleteInv'
  <2>1. stage # "collect"
    BY DEF PhasePCs
  <2>2. \A u \in reported : u \in Targets /\ u # t
    BY DEF GroupTypeOK
  <2>3. QED
    BY <1>3, <2>1, <2>2 DEF CompleteInv, Sampled
<1>11. QED
  BY <1>5, <1>6, <1>7, <1>8, <1>9, <1>10 DEF SInv

-----------------------------------------------------------------------------
\* The steps of the scheduler goroutine between two pools ...
BarrierStep ==
    \/ StartGroup \/ SkipGroup \/ ColdBarrier \/ WarmBarrier \/ BeginMeasuring
    \/ RoundBarrier \/ AfterRound \/ AfterRounds \/ DNSSECBarrier \/ FinishGroup
    \/ CollectResults \/ Return

\* ... the steps that touch neither a worker nor a runner ...
QuietStep ==
    DispatchCheck \/ DispatchCancelled \/ Interrupt \/ Terminated \/ UNCHANGED vars

\* ... and the steps of a worker at its channel.
ChannelStep(w) == Handoff(w) \/ Take(w) \/ WorkerExit(w)

LEMMA OtherCases ==
    ASSUME OtherStep
    PROVE  BarrierStep \/ QuietStep \/ \E w \in Workers : ChannelStep(w)
BY DEF OtherStep, Controller, BarrierStep, QuietStep, ChannelStep

\* No worker is busy on either side of a barrier.
LEMMA BarrierIdle ==
    ASSUME IInv, BarrierStep
    PROVE  /\ Joined
           /\ \A w \in Workers : ~Busy(w) /\ ~Busy(w)'
           /\ UNCHANGED <<ctxDone, openFailed, cold, coldOpen, obs, verdict>>
<1> PoolInv
  BY DEF IInv
<1> USE DEF poolVars, runnerVars
<1>1. Joined
  BY DEF BarrierStep, StartGroup, SkipGroup, ColdBarrier, WarmBarrier, BeginMeasuring,
     RoundBarrier, AfterRound, AfterRounds, DNSSECBarrier, FinishGroup, CollectResults,
     Return, PoolInv
<1>2. \A w \in Workers : ~Busy(w)
  BY <1>1 DEF Joined, Busy, BusyPCs, ColdPCs, WarmPCs, MeasurePCs, ProbePCs
<1>3. UNCHANGED wpc \/ \E jobs, d : Spawn(jobs, d)
  BY DEF BarrierStep, StartGroup, SkipGroup, ColdBarrier, WarmBarrier, BeginMeasuring,
     RoundBarrier, AfterRound, AfterRounds, DNSSECBarrier, FinishGroup, CollectResults,
     Return, StartRound
<1>4. \A w \in Workers : ~Busy(w)'
  BY <1>2, <1>3, SpawnFacts DEF Busy
<1>5. UNCHANGED <<ctxDone, openFailed, cold, coldOpen, obs, verdict>>
  BY DEF BarrierStep, StartGroup, SkipGroup, ColdBarrier, WarmBarrier, BeginMeasuring,
     RoundBarrier, AfterRound, AfterRounds, DNSSECBarrier, FinishGroup, CollectResults,
     Return
<1>6. QED
  BY <1>1, <1>2, <1>4, <1>5

\* So the clauses of SInv about workers hold trivially after it.
LEMMA BarrierWorkers ==
    ASSUME IInv, SInv, BarrierStep
    PROVE  /\ \A t \in Targets : ~coldOpen'[t]
           /\ \A w \in Workers : wpc'[w] \notin OnSessionPCs \cup ColdPCs \cup {"measureQuery"}
           /\ \A t : ~Held(t) /\ ~Held(t)'
           /\ \A t : (Pending(t) <=> t \in todo) /\ (Pending(t)' <=> t \in todo')
<1>1. /\ \A w \in Workers : ~Busy(w) /\ ~Busy(w)'
      /\ coldOpen' = coldOpen
  BY BarrierIdle
<1>2. OnSessionPCs \cup ColdPCs \cup {"measureQuery"} \subseteq BusyPCs
  BY DEF OnSessionPCs, BusyPCs, ColdPCs, WarmPCs, MeasurePCs, ProbePCs
<1>3. \A w \in Workers : /\ wpc'[w] \notin OnSessionPCs \cup ColdPCs \cup {"measureQuery"}
                          /\ wpc[w] # "coldQuery"
  BY <1>1, <1>2 DEF Busy, ColdPCs
<1>4. \A t \in Targets : ~coldOpen'[t]
  BY <1>1, <1>3 DEF SInv, SessionInv
<1>5. \A t : ~Held(t) /\ ~Held(t)'
  BY <1>1 DEF Held
<1>6. QED
  BY <1>3, <1>4, <1>5 DEF Pending

\* BlankInv and SessionInv at the barriers: runners become ready in the warm
\* phase only, and CollectResults closes the sessions of what it reports.
LEMMA BarrierSessions ==
    ASSUME IInv, SInv, BarrierStep
    PROVE  BlankInv' /\ SessionInv'
<1> /\ PoolInv /\ GroupInv /\ DataTypeOK /\ FlagTypeOK /\ GroupTypeOK
    /\ BlankInv /\ SessionInv
  BY DEF IInv, SInv, TypeOK
<1> USE DEF poolVars, groupVars, runnerVars
<1>1. /\ UNCHANGED <<cold, obs>>
      /\ \A t \in Targets : ~coldOpen'[t]
      /\ \A w \in Workers : wpc'[w] \notin OnSessionPCs \cup {"measureQuery"}
  BY BarrierIdle, BarrierWorkers
<1>2. CASE StartGroup
  <2>1. /\ stage' = "cold" /\ dispatched' = {} /\ readyList' = {} /\ ~InGroup
        /\ UNCHANGED <<group, reported, session, ready>> /\ group \in 1..NGroups
    BY <1>2 DEF StartGroup, InGroup, GroupTypeOK
  <2>2. \A t \in Group[group] : session[t] = "none"
    BY <2>1, GroupUnreported DEF BlankInv
  <2>3. BlankInv'
    BY <1>1, <2>1 DEF BlankInv
  <2>4. QED
    BY <1>1, <2>1, <2>2, <2>3 DEF SessionInv
<1>3. CASE SkipGroup
  <2>1. /\ stage' = stage /\ ~InGroup /\ ~InGroup' /\ stage # "cold"
        /\ UNCHANGED <<session, ready>> /\ reported' = reported \cup Group[group]
        /\ group \in 1..NGroups
    BY <1>3 DEF SkipGroup, InGroup, GroupTypeOK
  <2>2. \A t \in Group[group] : session[t] = "none"
    BY <2>1, GroupUnreported DEF BlankInv
  <2>3. QED
    BY <1>1, <2>1, <2>2 DEF BlankInv, SessionInv
<1>4. CASE CollectResults
  <2>1. /\ ~InGroup' /\ InGroup /\ group \in 1..NGroups /\ stage' = "next"
        /\ reported' = reported \cup Group[group] /\ dispatched \subseteq Group[group]
        /\ UNCHANGED ready
        /\ \A t \in Targets : session'[t] = IF t \in dispatched /\ session[t] = "open"
                                          THEN "closed" ELSE session[t]
    BY <1>4 DEF CollectResults, InGroup, GroupInv
  <2>2. \A t \in reported' : t \in Targets /\ session'[t] # "open"
    BY <2>1, GroupUnreported DEF BlankInv, SessionInv, GroupTypeOK
  <2>3. \A t \in Targets \ reported' :
          /\ session'[t] = session[t] /\ t \notin reported /\ t \notin dispatched
    BY <2>1
  <2>4. QED
    BY <1>1, <2>1, <2>2, <2>3 DEF BlankInv, SessionInv
<1>5. CASE \/ ColdBarrier \/ WarmBarrier \/ BeginMeasuring \/ RoundBarrier \/ AfterRound
           \/ AfterRounds \/ DNSSECBarrier \/ FinishGroup
  <2>1. /\ InGroup /\ InGroup' /\ stage' # "cold"
        /\ UNCHANGED <<session, reported, dispatched, group>>
    BY <1>5 DEF ColdBarrier, WarmBarrier, BeginMeasuring, RoundBarrier, AfterRound,
       AfterRounds, DNSSECBarrier, FinishGroup, StartRound, InGroup
  <2>2. ready' = ready \/ \E S : Abort(S)
    BY <1>5 DEF ColdBarrier, WarmBarrier, BeginMeasuring, RoundBarrier, AfterRound,
       AfterRounds, DNSSECBarrier, FinishGroup, RunnerUnchanged
  <2>3. \A t \in Targets : ready'[t] => ready[t]
    BY <2>2 DEF Abort
  <2>4. \A t \in readyList' : t \in readyList \/ ready[t]
    BY <1>5 DEF ColdBarrier, WarmBarrier, BeginMeasuring, RoundBarrier, AfterRound,
       AfterRounds, DNSSECBarrier, FinishGroup, RunnerUnchanged
  <2>5. BlankInv'
    BY <1>1, <2>1 DEF BlankInv
  <2>6. QED
    BY <1>1, <2>1, <2>3, <2>4, <2>5 DEF SessionInv
<1>6. CASE Return
  BY <1>1, <1>6 DEF Return, BlankInv, SessionInv, InGroup
<1>7. QED
  BY <1>2, <1>3, <1>4, <1>5, <1>6 DEF BarrierStep

\* ColdInv at the barriers: with no worker left every dispatched target is
\* done with its cold probes.
LEMMA BarrierCold ==
    ASSUME IInv, SInv, BarrierStep
    PROVE  ColdInv'
<1> FlagTypeOK /\ GroupTypeOK /\ ColdInv
  BY DEF IInv, SInv, TypeOK
<1> USE DEF poolVars, groupVars, runnerVars
<1>1. /\ UNCHANGED cold
      /\ \A w \in Workers : wpc'[w] \notin ColdPCs
      /\ \A t : ~Held(t)
  BY BarrierIdle, BarrierWorkers
<1>2. CASE StartGroup \/ SkipGroup \/ CollectResults \/ Return
  BY <1>1, <1>2 DEF StartGroup, SkipGroup, CollectResults, Return, ColdInv, InGroup
<1>3. CASE \/ ColdBarrier \/ WarmBarrier \/ BeginMeasuring \/ RoundBarrier \/ AfterRound
           \/ AfterRounds \/ DNSSECBarrier \/ FinishGroup
  <2>1. InGroup /\ UNCHANGED dispatched
    BY <1>3 DEF ColdBarrier, WarmBarrier, BeginMeasuring, RoundBarrier, AfterRound,
       AfterRounds, DNSSECBarrier, FinishGroup, InGroup
  <2>2. finished' = finished \/ \E S : Abort(S)
    BY <1>3 DEF ColdBarrier, WarmBarrier, BeginMeasuring, RoundBarrier, AfterRound,
       AfterRounds, DNSSECBarrier, FinishGroup, RunnerUnchanged
  <2>3. \A t \in Targets : finished[t] => finished'[t]
    BY <2>2 DEF Abort
  <2>4. QED
    BY <1>1, <2>1, <2>3 DEF ColdInv, GroupTypeOK
<1>4. QED
  BY <1>2, <1>3 DEF BarrierStep

\* CompleteInv at the barriers: FinishGroup finds an uncancelled group with
\* all its samples, CollectResults marks what no worker was given.
LEMMA BarrierComplete ==
    ASSUME IInv, SInv, BarrierStep
    PROVE  CompleteInv'
<1> /\ FlagTypeOK /\ GroupTypeOK /\ GroupInv /\ StatusInv /\ SettledInv
    /\ ColdInv /\ SampleInv /\ VerdictInv /\ CompleteInv
  BY DEF IInv, SInv, TypeOK
<1> USE DEF poolVars, groupVars, runnerVars, RunnerUnchanged
<1>1. UNCHANGED <<ctxDone, openFailed, cold, obs, verdict>> /\ \A t : ~Held(t)
  BY BarrierIdle, BarrierWorkers
<1>2. ASSUME reported' = reported, \A t \in reported : incomplete[t] => incomplete'[t]
      PROVE  \A t \in reported' : ~incomplete'[t] /\ ~openFailed'[t] =>
               Sampled(t)' /\ cold'[t] = ColdProbes
  BY <1>1, <1>2 DEF CompleteInv, Sampled
<1>3. CASE SkipGroup
  <2>1. /\ reported' = reported \cup Group[group] /\ stage' # "collect"
        /\ \A t \in Targets : incomplete'[t] = (incomplete[t] \/ t \in Group[group])
    BY <1>3 DEF SkipGroup
  <2>2. Group[group] \subseteq Targets
    BY <1>3, GroupUnreported DEF SkipGroup, GroupTypeOK
  <2>3. QED
    BY <1>1, <2>1, <2>2 DEF CompleteInv, Sampled, GroupTypeOK
<1>4. CASE CollectResults
  <2>1. /\ reported' = reported \cup Group[group] /\ stage' = "next" /\ InGroup
        /\ stage = "collect"
        /\ \A t \in Targets : incomplete'[t] =
             (incomplete[t] \/ (t \in Group[group] /\ t \notin dispatched))
    BY <1>4 DEF CollectResults, InGroup
  <2>2. Group[group] \subseteq Targets
    BY <2>1, GroupUnreported DEF GroupInv
  <2>3. ASSUME NEW t \in Group[group], ~incomplete'[t], ~openFailed[t]
        PROVE  Sampled(t) /\ cold[t] = ColdProbes
    <3>1. t \in dispatched /\ ~finished[t]
      BY <2>1, <2>2, <2>3 DEF StatusInv
    <3>2. QED
      BY <2>1, <3>1 DEF CompleteInv, ColdInv
  <2>4. \A t \in reported : ~incomplete'[t] => ~incomplete[t]
    BY <2>1 DEF GroupTypeOK
  <2>5. QED
    BY <1>1, <2>1, <2>3, <2>4 DEF CompleteInv, Sampled
<1>5. CASE FinishGroup
  <2>1. /\ stage = "finish" /\ stage' = "collect" /\ dispatched \subseteq Targets
        /\ UNCHANGED <<reported, dispatched>>
        /\ \A t \in Targets :
             (incomplete[t] => incomplete'[t]) /\ (finished[t] => finished'[t])
    BY <1>5 DEF FinishGroup, Abort, GroupTypeOK
  <2>2. ASSUME NEW t \in dispatched, ~finished'[t]
        PROVE  Sampled(t)
    <3>1. t \in readyList /\ ~finished[t]
      BY <2>1, <2>2 DEF SettledInv
    <3>2. ~ctxDone
      BY <1>5, <2>1, <2>2, <3>1 DEF FinishGroup, Abort
    <3>3. ready[t] /\ obs[t] = round
      BY <2>1, <3>1 DEF SampleInv
    <3>4. round = NQueries
      BY <2>1, <3>1, <3>2 DEF SampleInv
    <3>5. DNSSEC => verdict[t]
      BY <2>1, <3>1, <3>2, <3>3 DEF VerdictInv
    <3>6. QED
      BY <3>3, <3>4, <3>5 DEF Sampled
  <2>3. \A t \in reported : incomplete[t] => incomplete'[t]
    BY <2>1 DEF GroupTypeOK
  <2>4. QED
    BY <1>1, <1>2, <2>1, <2>2, <2>3 DEF CompleteInv, Sampled
<1>6. CASE \/ StartGroup \/ ColdBarrier \/ WarmBarrier \/ BeginMeasuring \/ RoundBarrier
           \/ AfterRound \/ AfterRounds \/ DNSSECBarrier \/ Return
  <2>1. reported' = reported /\ stage' # "collect"
    BY <1>6 DEF StartGroup, ColdBarrier, WarmBarrier, BeginMeasuring, RoundBarrier,
       AfterRound, AfterRounds, DNSSECBarrier, Return, StartRound
  <2>2. incomplete' = incomplete \/ \E S : Abort(S)
    BY <1>6 DEF StartGroup, ColdBarrier, WarmBarrier, BeginMeasuring, RoundBarrier,
       AfterRound, AfterRounds, DNSSECBarrier, Return
  <2>3. \A t \in reported : incomplete[t] => incomplete'[t]
    BY <2>2 DEF Abort, GroupTypeOK
  <2>4. QED
    BY <1>2, <2>1, <2>3 DEF CompleteInv
<1>7. QED
  BY <1>3, <1>4, <1>5, <1>6 DEF BarrierStep

\* A round starts with one sample of every live target still to come.
LEMMA RoundSamples ==
    ASSUME IInv, SInv, StartRound, stage \in {"prepared", "between"}, round < NQueries,
           BarrierStep, UNCHANGED <<readyList, runnerVars>>
    PROVE  SampleInv'
<1> /\ FlagTypeOK /\ GroupTypeOK /\ SampleInv /\ NQueries \in Nat
  BY SchedulerAssumption DEF IInv, SInv, TypeOK
<1>1. /\ round' = round + 1 /\ stage' = "round" /\ todo' = readyList /\ dpc' = "check"
      /\ UNCHANGED <<readyList, ready, finished, obs, openFailed>>
  BY SpawnFacts DEF StartRound, runnerVars
<1>2. \A t \in readyList : Pending(t)'
  BY <1>1, BarrierWorkers
<1>3. \A t \in readyList : (ready[t] \/ finished[t]) /\ (ready[t] => obs[t] = round)
  BY DEF SampleInv
<1>4. QED
  BY <1>1, <1>2, <1>3 DEF SampleInv, GroupTypeOK

\* SampleInv at the barriers: a round that was not cancelled left no job, so
\* every live target has one sample more.
LEMMA BarrierSamples ==
    ASSUME IInv, SInv, BarrierStep
    PROVE  SampleInv'
<1> /\ FlagTypeOK /\ GroupTypeOK /\ GroupInv /\ StatusInv /\ SampleInv /\ NQueries \in Nat
  BY SchedulerAssumption DEF IInv, SInv, TypeOK
<1> USE DEF poolVars, groupVars, runnerVars, RunnerUnchanged
<1>1. UNCHANGED <<ctxDone, openFailed, obs>> /\ Joined
  BY BarrierIdle
<1>2. \A t : (Pending(t) <=> t \in todo) /\ (Pending(t)' <=> t \in todo')
  BY BarrierWorkers
<1>3. CASE StartGroup
  BY <1>1, <1>3 DEF StartGroup, SampleInv
<1>4. CASE SkipGroup \/ Return \/ CollectResults
  BY <1>1, <1>4 DEF SkipGroup, Return, CollectResults, SampleInv, InGroup
<1>5. CASE ColdBarrier
  <2>1. /\ stage = "cold" /\ InGroup /\ stage' \in {"warm", "finish"} /\ readyList = {}
        /\ UNCHANGED <<round, dispatched, readyList>> /\ round = 0
        /\ (stage' = "finish" => ctxDone)
    BY <1>5 DEF ColdBarrier, InGroup, GroupInv, SampleInv
  <2>2. QED
    BY <1>1, <2>1 DEF SampleInv
<1>6. CASE WarmBarrier
  <2>1. /\ stage = "warm" /\ InGroup /\ stage' = "prepared" /\ round = 0
        /\ readyList' = {t \in dispatched : ready[t]} /\ dispatched \subseteq Targets
        /\ UNCHANGED <<round, dispatched, ready>>
    BY <1>6 DEF WarmBarrier, InGroup, SampleInv, GroupTypeOK
  <2>2. \A t \in dispatched : ready[t] => obs[t] = 0
    BY <2>1 DEF SampleInv, StatusInv
  <2>3. QED
    BY <1>1, <2>1, <2>2 DEF SampleInv
<1>7. CASE BeginMeasuring
  <2>1. CASE StartRound
    <3>1. round < NQueries
      BY <1>7, <2>1 DEF BeginMeasuring, StartRound, SampleInv
    <3>2. QED
      BY <1>7, <2>1, <3>1, RoundSamples DEF BeginMeasuring
  <2>2. CASE /\ ctxDone \/ readyList = {} \/ NQueries = 0
             /\ stage' \in {"finish", "measured"} /\ UNCHANGED round
    <3>1. stage = "prepared" /\ InGroup /\ UNCHANGED <<ready, finished, readyList>> /\ round = 0
      BY <1>7 DEF BeginMeasuring, InGroup, SampleInv
    <3>2. QED
      BY <1>1, <2>2, <3>1 DEF SampleInv
  <2>3. QED
    BY <1>7, <2>1, <2>2 DEF BeginMeasuring
<1>8. CASE RoundBarrier
  <2>1. /\ stage = "round" /\ stage' = "between" /\ InGroup /\ dpc = "closed"
        /\ UNCHANGED <<round, readyList, todo>> /\ readyList \subseteq Targets
    BY <1>1, <1>8 DEF RoundBarrier, InGroup, GroupTypeOK, Joined
  <2>2. \A t \in readyList : (ready[t] \/ finished[t]) /\
          (ready[t] => obs[t] = IF t \in todo THEN round - 1 ELSE round)
    BY <1>2, <2>1 DEF SampleInv
  <2>3. CASE ctxDone
    <3>1. \A t \in Targets :
            IF t \in todo THEN ~ready'[t] /\ finished'[t]
            ELSE ready'[t] = ready[t] /\ finished'[t] = finished[t]
      BY <1>8, <2>3 DEF RoundBarrier, Abort
    <3>2. \A t \in readyList : (ready'[t] \/ finished'[t]) /\ (ready'[t] => obs[t] = round)
      BY <2>1, <2>2, <3>1
    <3>3. QED
      BY <1>1, <2>1, <3>2, SMT DEF SampleInv, InGroup
  <2>4. CASE ~ctxDone
    <3>1. todo = {} /\ UNCHANGED <<ready, finished>>
      BY <1>8, <2>1, <2>4 DEF RoundBarrier, SampleInv
    <3>2. QED
      BY <1>1, <2>1, <2>2, <3>1, SMT DEF SampleInv, InGroup
  <2>5. QED
    BY <2>3, <2>4
<1>9. CASE AfterRound
  <2>1. CASE StartRound /\ round < NQueries
    BY <1>9, <2>1, RoundSamples DEF AfterRound
  <2>2. CASE stage' = "measured" /\ UNCHANGED round /\ (ctxDone \/ ~(round < NQueries))
    <3>1. stage = "between" /\ InGroup /\ UNCHANGED <<ready, finished, readyList>>
      BY <1>9 DEF AfterRound, InGroup
    <3>2. ctxDone \/ round = NQueries
      BY <2>2, <3>1 DEF SampleInv, GroupTypeOK
    <3>3. QED
      BY <1>1, <2>2, <3>1, <3>2 DEF SampleInv
  <2>3. QED
    BY <1>9, <2>1, <2>2 DEF AfterRound
<1>10. CASE AfterRounds \/ DNSSECBarrier
  <2>1. /\ stage \in {"measured", "dnssec"} /\ stage' \in {"dnssec", "finish"}
        /\ InGroup /\ UNCHANGED <<ready, finished, readyList, round>>
    BY <1>10 DEF AfterRounds, DNSSECBarrier, InGroup
  <2>2. QED
    BY <1>1, <2>1 DEF SampleInv
<1>11. CASE FinishGroup
  BY <1>1, <1>11 DEF FinishGroup, SampleInv, InGroup
<1>12. QED
  BY <1>3, <1>4, <1>5, <1>6, <1>7, <1>8, <1>9, <1>10, <1>11 DEF BarrierStep

\* VerdictInv at the barriers: the DNSSEC barrier opens when no probe is left.
LEMMA BarrierVerdict ==
    ASSUME IInv, SInv, BarrierStep
    PROVE  VerdictInv'
<1> VerdictInv /\ GroupInv
  BY DEF IInv, SInv
<1> USE DEF poolVars, groupVars, runnerVars
<1>1. UNCHANGED <<ctxDone, verdict>>
  BY BarrierIdle
<1>2. \A t : (Pending(t) <=> t \in todo) /\ (Pending(t)' <=> t \in todo')
  BY BarrierWorkers
<1>3. CASE AfterRounds
  <2>1. UNCHANGED <<ready, readyList>> /\ stage = "measured"
    BY <1>3 DEF AfterRounds
  <2>2. CASE stage' = "dnssec" /\ todo' = readyList
    BY <1>2, <2>1, <2>2 DEF VerdictInv
  <2>3. CASE stage' = "finish" /\ ~(DNSSEC /\ readyList # {} /\ ~ctxDone)
    BY <1>1, <2>1, <2>3 DEF VerdictInv
  <2>4. QED
    BY <1>3, <2>2, <2>3, SpawnFacts DEF AfterRounds
<1>4. CASE DNSSECBarrier
  BY <1>1, <1>2, <1>4 DEF DNSSECBarrier, VerdictInv
<1>5. CASE ColdBarrier
  BY <1>5 DEF ColdBarrier, VerdictInv, GroupInv
<1>6. CASE BeginMeasuring
  BY <1>1, <1>6 DEF BeginMeasuring, StartRound, VerdictInv
<1>7. CASE \/ StartGroup \/ SkipGroup \/ WarmBarrier \/ RoundBarrier \/ AfterRound
           \/ FinishGroup \/ CollectResults \/ Return
  BY <1>7 DEF StartGroup, SkipGroup, WarmBarrier, RoundBarrier, AfterRound, StartRound,
     FinishGroup, CollectResults, Return, VerdictInv
<1>8. QED
  BY <1>3, <1>4, <1>5, <1>6, <1>7 DEF BarrierStep

-----------------------------------------------------------------------------
\* A closed dispatcher, or an interrupt, takes nothing away.
LEMMA QuietSamples ==
    ASSUME IInv, SInv, QuietStep
    PROVE  SInv'
<1> /\ PoolInv /\ GroupTypeOK
    /\ BlankInv /\ SessionInv /\ ColdInv /\ SampleInv /\ VerdictInv /\ CompleteInv
  BY DEF IInv, SInv, TypeOK
<1> USE DEF groupVars, poolVars, runnerVars, vars
<1>1. /\ UNCHANGED <<groupVars, runnerVars, todo, wpc, wjob>>
      /\ ctxDone => ctxDone'
      /\ dpc' = dpc \/ ~(dpc' = "closed" /\ todo # {}) \/ ctxDone
  BY DEF QuietStep, DispatchCheck, DispatchCancelled, Interrupt, Terminated
<1>2. \A t : (Held(t)' <=> Held(t)) /\ (Pending(t)' <=> Pending(t))
  BY <1>1 DEF Held, Pending, Busy
<1>3. BlankInv' /\ SessionInv' /\ ColdInv'
  BY <1>1, <1>2 DEF BlankInv, SessionInv, ColdInv, InGroup
<1>4. SampleInv'
  BY <1>1, <1>2 DEF SampleInv, InGroup
<1>5. VerdictInv' /\ CompleteInv'
  BY <1>1, <1>2 DEF VerdictInv, CompleteInv, Sampled
<1>6. QED
  BY <1>3, <1>4, <1>5 DEF SInv

\* A job moves from the channel into a worker's hands and stays pending.
LEMMA TakeHeld ==
    ASSUME NEW w \in Workers, NEW t \in todo, wpc[w] = "recv",
           wpc \in [Workers -> WorkerPCs], wjob \in [Workers -> Targets \cup {0}],
           todo' = todo \ {t}, wjob' = [wjob EXCEPT ![w] = t],
           wpc' = [wpc EXCEPT ![w] = Entry]
    PROVE  /\ Held(t)' /\ \A u : u # t => (Held(u)' <=> Held(u))
           /\ \A u : Pending(u)' <=> Pending(u)
           /\ wpc'[w] = Entry /\ wjob'[w] = t
           /\ \A v \in Workers : v # w => wpc'[v] = wpc[v] /\ wjob'[v] = wjob[v]
<1>1. Entry \in BusyPCs /\ "recv" \notin BusyPCs
  BY DEF Entry, BusyPCs, ColdPCs, WarmPCs, MeasurePCs, ProbePCs
<1>2. /\ wpc'[w] = Entry /\ wjob'[w] = t
      /\ \A v \in Workers : v # w => wpc'[v] = wpc[v] /\ wjob'[v] = wjob[v]
  OBVIOUS
<1>3. /\ Busy(w)' /\ ~Busy(w)
      /\ \A v \in Workers : v # w => (Busy(v)' <=> Busy(v))
  BY <1>1, <1>2 DEF Busy
<1>4. Held(t)' /\ \A u : u # t => (Held(u)' <=> Held(u))
  BY <1>2, <1>3 DEF Held
<1>5. QED
  BY <1>2, <1>4 DEF Pending

\* SInv when a worker takes a job: a cold one is untouched, a measuring one
\* comes from the ready list.
LEMMA TakeSamples ==
    ASSUME IInv, SInv, NEW w \in Workers, NEW t \in todo, wpc[w] = "recv",
           stage \in {"cold", "warm", "round", "dnssec"},
           todo' = todo \ {t}, wjob' = [wjob EXCEPT ![w] = t],
           wpc' = [wpc EXCEPT ![w] = Entry],
           dispatched' = IF stage = "cold" THEN dispatched \cup {t} ELSE dispatched,
           dpc' = "closed" => dpc = "closed",
           UNCHANGED <<ctxDone, group, stage, round, readyList, reported, runnerVars>>
    PROVE  SInv'
<1> /\ PoolInv /\ GroupInv /\ GroupTypeOK /\ FlagTypeOK /\ DataTypeOK /\ PoolTypeOK
    /\ BlankInv /\ SessionInv /\ ColdInv /\ SampleInv /\ VerdictInv /\ CompleteInv
  BY DEF IInv, SInv, TypeOK
<1> USE DEF runnerVars
<1>1. /\ Held(t)' /\ \A u : u # t => (Held(u)' <=> Held(u))
      /\ \A u : Pending(u)' <=> Pending(u)
      /\ wpc'[w] = Entry /\ wjob'[w] = t
      /\ \A v \in Workers : v # w => wpc'[v] = wpc[v] /\ wjob'[v] = wjob[v]
  BY TakeHeld DEF PoolTypeOK
<1>2. /\ InGroup /\ InGroup' /\ t \in JobSet
      /\ Group[group] \subseteq Targets /\ Group[group] \cap reported = {}
      /\ dispatched \subseteq Group[group] /\ readyList \subseteq dispatched
  BY GroupUnreported DEF InGroup, GroupInv, PoolInv
<1>3. t \in Targets /\ t \notin reported /\ t \in Group[group]
  BY <1>2 DEF JobSet
<1>4. stage = "cold" => /\ t \notin dispatched
                        /\ session[t] = "none" /\ cold[t] = 0 /\ obs[t] = 0
  BY <1>2, <1>3 DEF GroupInv, BlankInv
<1>5. BlankInv'
  BY <1>2, <1>4 DEF BlankInv
<1>6. SessionInv'
  <2>1. /\ stage \in {"round", "dnssec"} => session[t] = "open"
        /\ wpc'[w] # "measureQuery" /\ wpc'[w] # "coldQuery"
        /\ wpc'[w] \in OnSessionPCs => stage \in {"round", "dnssec"}
    BY <1>1, <1>2, <1>3 DEF JobSet, SessionInv, Entry, OnSessionPCs, MeasurePCs, ProbePCs
  <2>2. \A u \in Targets :
          coldOpen'[u] => \E v \in Workers : wpc'[v] = "coldQuery" /\ wjob'[v] = u
    <3> SUFFICES ASSUME NEW u \in Targets, coldOpen[u]
                 PROVE  \E v \in Workers : wpc'[v] = "coldQuery" /\ wjob'[v] = u
      OBVIOUS
    <3>1. PICK v \in Workers : wpc[v] = "coldQuery" /\ wjob[v] = u
      BY DEF SessionInv
    <3>2. v # w
      BY <3>1
    <3>3. QED
      BY <1>1, <3>1, <3>2
  <2>3. \A v \in Workers :
          /\ wpc'[v] \in OnSessionPCs => session'[wjob'[v]] = "open"
          /\ wpc'[v] = "measureQuery" => ready'[wjob'[v]]
    BY <1>1, <2>1 DEF SessionInv
  <2>4. /\ \A u \in reported : session[u] # "open"
        /\ \A u \in Targets \ reported :
             ready[u] \/ (InGroup /\ u \in readyList) => session[u] = "open"
        /\ stage = "cold" => \A u \in Group[group] : session[u] = "none"
    BY DEF SessionInv
  <2>5. QED
    BY <1>2, <2>2, <2>3, <2>4 DEF SessionInv
<1>7. ColdInv'
  <2>1. \A v \in Workers : wpc'[v] \in ColdPCs => cold[wjob'[v]] < ColdProbes
    <3>1. wpc'[w] \in ColdPCs => cold[t] < ColdProbes
      BY <1>1, <1>4, SchedulerAssumption DEF SchedulerAssumption, Entry, ColdPCs
    <3>2. QED
      BY <1>1, <3>1 DEF ColdInv
  <2>2. \A u \in dispatched' :
          finished[u] \/ cold[u] = ColdProbes \/ (stage = "cold" /\ Held(u)')
    BY <1>1, <1>2 DEF ColdInv
  <2>3. QED
    BY <1>2, <2>1, <2>2 DEF ColdInv
<1>8. SampleInv'
  <2>1. stage \in {"cold", "warm"} => \A u \in dispatched' : ~openFailed[u] => obs[u] = 0
    BY <1>4 DEF SampleInv
  <2>2. stage = "round" /\ dpc' = "closed" /\ todo' # {} => ctxDone
    BY DEF SampleInv
  <2>3. QED
    BY <1>1, <1>2, <2>1, <2>2 DEF SampleInv
<1>9. VerdictInv' /\ CompleteInv'
  BY <1>1 DEF VerdictInv, CompleteInv, Sampled
<1>10. QED
  BY <1>5, <1>6, <1>7, <1>8, <1>9 DEF SInv

LEMMA ChannelSamples ==
    ASSUME IInv, SInv, NEW w \in Workers, ChannelStep(w)
    PROVE  SInv'
<1> PoolInv /\ PoolTypeOK
  BY DEF IInv, TypeOK
<1>1. CASE Handoff(w)
  <2>1. stage \in {"cold", "round"} /\ dpc' # "closed"
    BY <1>1 DEF Handoff, PoolInv
  <2>2. PICK t \in todo : /\ todo' = todo \ {t}
                          /\ wjob' = [wjob EXCEPT ![w] = t]
                          /\ dispatched' = IF stage = "cold" THEN dispatched \cup {t}
                                           ELSE dispatched
    BY <1>1 DEF Handoff
  <2>3. QED
    BY <1>1, <2>1, <2>2, TakeSamples DEF Handoff
<1>2. CASE Take(w)
  <2>1. stage \in {"warm", "dnssec"}
    BY <1>2 DEF Take, Buffered
  <2>2. PICK t \in todo : todo' = todo \ {t} /\ wjob' = [wjob EXCEPT ![w] = t]
    BY <1>2 DEF Take
  <2>3. QED
    BY <1>2, <2>1, <2>2, TakeSamples DEF Take, groupVars
<1>3. CASE WorkerExit(w)
  <2>1. /\ UNCHANGED <<ctxDone, groupVars, runnerVars, todo, dpc, wjob>>
        /\ wpc[w] = "recv" /\ wpc'[w] = "exited"
        /\ \A v \in Workers : v # w => wpc'[v] = wpc[v]
    BY <1>3 DEF WorkerExit, PoolTypeOK
  <2>2. "recv" \notin BusyPCs /\ "exited" \notin BusyPCs
    BY DEF BusyPCs, ColdPCs, WarmPCs, MeasurePCs, ProbePCs
  <2>3. \A v \in Workers : (Busy(v)' <=> Busy(v)) /\ (Busy(v) => wpc'[v] = wpc[v])
    BY <2>1, <2>2 DEF Busy
  <2>4. \A t : (Held(t)' <=> Held(t)) /\ (Pending(t)' <=> Pending(t))
    BY <2>1, <2>3 DEF Held, Pending
  <2>5. /\ BlankInv /\ SessionInv /\ ColdInv /\ SampleInv /\ VerdictInv /\ CompleteInv
        /\ OnSessionPCs \cup ColdPCs \cup {"measureQuery"} \subseteq BusyPCs
    BY DEF SInv, OnSessionPCs, BusyPCs, ColdPCs, WarmPCs, MeasurePCs, ProbePCs
  <2>6. BlankInv' /\ SampleInv' /\ VerdictInv' /\ CompleteInv'
    BY <2>1, <2>4, <2>5 DEF BlankInv, SampleInv, VerdictInv, CompleteInv, Sampled, InGroup,
       groupVars, runnerVars
  <2>7. SessionInv'
    <3>1. \A v \in Workers :
            wpc'[v] \in OnSessionPCs \cup {"measureQuery", "coldQuery"} => wpc'[v] = wpc[v]
      BY <2>1, <2>5 DEF OnSessionPCs, ColdPCs, MeasurePCs, ProbePCs
    <3>2. \A v \in Workers : wpc[v] = "coldQuery" => wpc'[v] = "coldQuery"
      BY <2>1
    <3>3. QED
      BY <2>1, <2>5, <3>1, <3>2 DEF SessionInv, InGroup, groupVars, runnerVars
  <2>8. ColdInv'
    <3>1. \A v \in Workers : wpc'[v] \in ColdPCs => wpc'[v] = wpc[v]
      BY <2>1 DEF ColdPCs
    <3>2. QED
      BY <2>1, <2>4, <2>5, <3>1 DEF ColdInv, InGroup, groupVars, runnerVars
  <2>9. QED
    BY <2>6, <2>7, <2>8 DEF SInv
<1>4. QED
  BY <1>1, <1>2, <1>3 DEF ChannelStep

LEMMA InitSamples == Init => SInv
<1> SUFFICES ASSUME Init PROVE SInv
  OBVIOUS
<1>1. BlankInv /\ SessionInv /\ ColdInv
  BY DEF Init, BlankInv, SessionInv, ColdInv, InGroup, OnSessionPCs, ColdPCs, MeasurePCs,
     ProbePCs
<1>2. SampleInv /\ VerdictInv /\ CompleteInv
  BY DEF Init, SampleInv, VerdictInv, CompleteInv, InGroup
<1>3. QED
  BY <1>1, <1>2 DEF SInv

\* SInv is inductive over IInv.
LEMMA StepSamples == IInv /\ SInv /\ [Next]_vars => SInv'
<1> SUFFICES ASSUME IInv, SInv, [Next]_vars PROVE SInv'
  OBVIOUS
<1>1. CASE \E w \in Workers : JobStep(w)
  BY <1>1, JobSamples
<1>2. CASE BarrierStep
  BY <1>2, BarrierSessions, BarrierCold, BarrierSamples, BarrierVerdict, BarrierComplete
  DEF SInv
<1>3. CASE QuietStep
  BY <1>3, QuietSamples
<1>4. CASE \E w \in Workers : ChannelStep(w)
  BY <1>4, ChannelSamples
<1>5. QED
  BY <1>1, <1>2, <1>3, <1>4, StepCases, OtherCases

\* SInv holds in every reachable state, whatever the groups, the pool size,
\* the number of queries and the moment of an interrupt.
THEOREM Samples == Spec => []SInv
BY InitInv, StepInv, InitSamples, StepSamples, PTL DEF Spec

-----------------------------------------------------------------------------
\* A worker finds the session of its target open, and no session outlives the
\* report of its target: the worker functions need no check of their own, and
\* targetRunner.close misses no path.
THEOREM SessionsHeld == Spec => []SessionsOpenWhileUsed
<1>1. IInv /\ SInv => SessionsOpenWhileUsed
  <2> SUFFICES ASSUME IInv, SInv PROVE SessionsOpenWhileUsed
    OBVIOUS
  <2>1. SessionInv /\ reported \subseteq Targets
    BY DEF IInv, SInv, TypeOK, GroupTypeOK
  <2>2. \A w \in Workers : wpc[w] = "coldQuery" => wjob[w] \notin reported
    BY JobTarget DEF Busy, BusyPCs, ColdPCs
  <2>3. QED
    BY <2>1, <2>2 DEF SessionsOpenWhileUsed, SessionInv
<1>2. QED
  BY <1>1, Invariant, Samples, PTL

\* A target that is reported without the incomplete mark has every sample:
\* one observation per query, all its cold probes, its DNSSEC verdict.
THEOREM NothingMissing == Spec => []CompleteMeansAll
<1>1. IInv /\ SInv => CompleteMeansAll
  <2> SUFFICES ASSUME IInv, SInv, NEW t \in reported, ~incomplete[t]
               PROVE  /\ obs[t] = NQueries
                      /\ openFailed[t] \/ cold[t] = ColdProbes
                      /\ DNSSEC /\ ~openFailed[t] => verdict[t]
    BY DEF CompleteMeansAll
  <2>1. t \in Targets
    BY DEF IInv, TypeOK, GroupTypeOK
  <2>2. CASE openFailed[t]
    BY <2>1, <2>2 DEF SInv, SampleInv
  <2>3. CASE ~openFailed[t]
    BY <2>3 DEF SInv, CompleteInv, Sampled
  <2>4. QED
    BY <2>2, <2>3
<1>2. QED
  BY <1>1, Invariant, Samples, PTL

\* prepareTargets keeps the cold probes and the measured sessions of a group
\* apart, and runQueryRound keeps its targets within one query of each other.
THEOREM RoundsInStep == Spec => []InStep
<1>1. IInv /\ SInv => InStep
  <2> SUFFICES ASSUME IInv, SInv PROVE InStep
    OBVIOUS
  <2>1. SessionInv /\ SampleInv /\ PoolInv /\ GroupTypeOK /\ DataTypeOK
    BY DEF IInv, SInv, TypeOK
  <2>2. ASSUME NEW w \in Workers, wpc[w] \in ColdPCs
        PROVE  \A t \in Group[group] : session[t] = "none"
    <3>1. stage = "cold"
      BY <2>1, <2>2 DEF PoolInv, Busy, BusyPCs, PhasePCs, ColdPCs, WarmPCs, MeasurePCs, ProbePCs
    <3>2. QED
      BY <2>1, <3>1 DEF SessionInv
  <2>3. ASSUME stage \in {"round", "between", "measured", "dnssec", "finish"},
               NEW t \in readyList, NEW u \in readyList, ready[t], ready[u]
        PROVE  obs[t] <= obs[u] + 1
    <3>1. t \in Targets /\ u \in Targets /\ obs[t] \in Nat /\ obs[u] \in Nat /\ round \in Nat
      BY <2>1 DEF GroupTypeOK, DataTypeOK
    <3>2. obs[t] \in {round - 1, round} /\ obs[u] \in {round - 1, round}
      BY <2>1, <2>3 DEF SampleInv
    <3>3. QED
      BY <3>1, <3>2
  <2>4. QED
    BY <2>2, <2>3 DEF InStep
<1>2. QED
  BY <1>1, Invariant, Samples, PTL

-----------------------------------------------------------------------------
\* What an interrupted step may not do: begin an exchange on a measured
\* session or start a pool.
QuietAfterInterrupt ==
    /\ \A w \in Workers :
         wpc'[w] \in {"coldOpen", "coldQuery", "warmQuery", "measureQuery",
                      "signedQuery", "bogusQuery"} /\ wpc'[w] # wpc[w]
            => wpc[w] = "coldOpen"
    /\ Joined => Joined'

\* Inside a job every way on but that of ColdOpen reads the context.
LEMMA JobQuiet ==
    ASSUME TypeOK, ctxDone, NEW w \in Workers, JobStep(w)
    PROVE  QuietAfterInterrupt
<1> wpc \in [Workers -> WorkerPCs]
  BY DEF TypeOK, PoolTypeOK
<1>1. /\ Busy(w)
        /\ \/ wpc' = [wpc EXCEPT ![w] = "recv"]
           \/ \E pc \in {"coldCheck", "warmOpen", "warmCheck"} : wpc' = [wpc EXCEPT ![w] = pc]
           \/ wpc[w] = "coldOpen" /\ wpc' = [wpc EXCEPT ![w] = "coldQuery"]
  <2> USE DEF ColdPCs, WarmPCs, MeasurePCs, ProbePCs, Busy, BusyPCs, GoTo, BackToChannel
  <2>1. CASE NewRunner(w) \/ ColdCheck(w)
    BY <2>1 DEF NewRunner, ColdCheck, AbortOr
  <2>2. CASE ColdOpen(w) \/ ColdQuery(w)
    BY <2>2 DEF ColdOpen, ColdQuery, EndProbe, AbortOr
  <2>3. CASE WarmStart(w) \/ WarmOpen(w) \/ WarmCheck(w) \/ WarmQuery(w)
    BY <2>3 DEF WarmStart, WarmOpen, WarmCheck, WarmQuery, AbortOr
  <2>4. CASE MeasureCheck(w) \/ MeasureQuery(w)
    BY <2>4 DEF MeasureCheck, MeasureQuery, AbortOr
  <2>5. CASE ProbeCheck(w) \/ SignedQuery(w) \/ BogusQuery(w)
    BY <2>5 DEF ProbeCheck, SignedQuery, BogusQuery
  <2>6. QED
    BY <2>1, <2>2, <2>3, <2>4, <2>5 DEF JobStep
<1>2. ~Joined
  BY <1>1 DEF Joined, Busy, BusyPCs, ColdPCs, WarmPCs, MeasurePCs, ProbePCs
<1>3. QED
  BY <1>1, <1>2 DEF QuietAfterInterrupt

\* The scheduler goroutine spawns a pool only while the context is live, and a
\* job handed over begins at a check.
LEMMA OtherQuiet ==
    ASSUME TypeOK, ctxDone, OtherStep
    PROVE  QuietAfterInterrupt
<1> wpc \in [Workers -> WorkerPCs]
  BY DEF TypeOK, PoolTypeOK
<1> USE DEF poolVars
<1>1. CASE \/ StartGroup \/ SkipGroup \/ ColdBarrier \/ WarmBarrier \/ BeginMeasuring
           \/ RoundBarrier \/ AfterRound \/ AfterRounds \/ DNSSECBarrier \/ FinishGroup
           \/ CollectResults \/ Return
  <2>1. UNCHANGED <<wpc, dpc>>
    BY <1>1 DEF StartGroup, SkipGroup, ColdBarrier, WarmBarrier, BeginMeasuring,
       RoundBarrier, AfterRound, AfterRounds, DNSSECBarrier, FinishGroup, CollectResults,
       Return
  <2>2. QED
    BY <2>1 DEF QuietAfterInterrupt, Joined
<1>2. CASE DispatchCheck \/ DispatchCancelled \/ Interrupt \/ Terminated \/ UNCHANGED vars
  <2>1. wpc' = wpc /\ (dpc = "closed" => dpc' = "closed")
    BY <1>2 DEF DispatchCheck, DispatchCancelled, Interrupt, Terminated, vars
  <2>2. QED
    BY <2>1 DEF QuietAfterInterrupt, Joined
<1>3. ASSUME NEW w \in Workers, Handoff(w) \/ Take(w) \/ WorkerExit(w)
      PROVE  QuietAfterInterrupt
  <2>1. /\ wpc[w] = "recv"
        /\ \E pc \in {Entry, "exited"} : wpc' = [wpc EXCEPT ![w] = pc]
    BY <1>3 DEF Handoff, Take, WorkerExit
  <2>2. QED
    BY <2>1 DEF QuietAfterInterrupt, Joined, Entry
<1>4. QED
  BY <1>1, <1>2, <1>3 DEF OtherStep, Controller

\* "No new network work starts after a cancel": once the context is done, no
\* step puts a question on a measured session or starts a pool.
THEOREM QuietOnceInterrupted == Spec => NoNewWorkAfterInterrupt
<1>1. IInv /\ [Next]_vars =>
        [ctxDone =>
           /\ \A w \in Workers :
                wpc'[w] \in {"coldOpen", "coldQuery", "warmQuery", "measureQuery",
                             "signedQuery", "bogusQuery"} /\ wpc'[w] # wpc[w]
                   => wpc[w] = "coldOpen"
           /\ Joined => Joined']_vars
  BY StepCases, JobQuiet, OtherQuiet DEF IInv, QuietAfterInterrupt
<1>2. QED
  BY <1>1, Invariant, PTL DEF Spec, NoNewWorkAfterInterrupt
=============================================================================
