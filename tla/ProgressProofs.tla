---------------------------- MODULE ProgressProofs ----------------------------
(***************************************************************************)
(* Proofs about Progress, for any number of targets, rounds and workers:   *)
(* the renderer ends up with the engine's own counts although the events   *)
(* that carry them overtake each other, and nothing renders after Finish.  *)
(***************************************************************************)
EXTENDS Progress, TLAPS

\* The stages before the first measured round, and those whose workers send
\* events of their own: each phase counts one counter.
Early == {"queued", "cold", "warm", "abort"}
Late == {"measure", "dnssec", "end"}
Counter == [cold |-> "cold", warm |-> "targets", dnssec |-> "dnssec"]

\* What is shown: every line that is logged has moved its phase's milestone.
ViewInv ==
    /\ phase \in 0..Complete
    /\ state \in [Counters -> Nat]
    /\ milestones \in [Phases -> NotStarted..Steps]
    /\ lines \in [Phases -> Nat]
    /\ \A p \in Phases : lines[p] <= milestones[p] + 1

\* The renderer's life: only a terminal is rendered to, the line that stands
\* on it is known to be there, and Finish waits for the refresh goroutine.
LifeInv ==
    /\ loop \in {"off", "on", "exited"}
    /\ caller \in {"start", "engine", "marked", "waiting", "finished"}
    /\ interactive \in BOOLEAN /\ rendered \in BOOLEAN /\ finished \in BOOLEAN
    /\ stop \in BOOLEAN /\ cursor \in BOOLEAN /\ garbled \in BOOLEAN
    /\ cursor => rendered
    /\ rendered \/ loop # "off" => interactive
    /\ finished <=> caller \in {"marked", "waiting", "finished"}
    /\ caller = "start" => stage = "queued"
    /\ finished => stage = "end"
    /\ caller = "finished" => loop # "on" /\ ~rendered

\* The engine's own counts.
JobInv ==
    /\ stage \in Early \cup Late
    /\ ctxDone \in BOOLEAN
    /\ taken \in 0..NTargets /\ done \in 0..NTargets
    /\ dispatched \in 0..NTargets /\ ready \in 0..NTargets
    /\ rounds \in 0..NQueries
    /\ exchanges \in Nat /\ exchanges <= ready * rounds
    /\ done <= IF stage = "abort" THEN dispatched ELSE taken
    /\ stage = "queued" => taken = 0 /\ dispatched = 0
    /\ stage = "cold" => taken = dispatched
    /\ stage \in {"warm", "measure", "dnssec"} => dispatched = NTargets
    /\ stage = "dnssec" => taken <= ready
    /\ stage \in Early => ready = 0 /\ rounds = 0 /\ exchanges = 0

\* What the renderer knows of them, stage by stage.
StageInv ==
    /\ stage \in Early => \A c \in {"exchanges", "exchangesTotal"} : state[c] = 0
    /\ stage \notin {"dnssec", "end"} => \A c \in {"dnssec", "dnssecTotal"} : state[c] = 0
    /\ stage = "queued" => state["cold"] = 0
    /\ stage \in {"queued", "cold"} => state["targets"] = 0
    /\ stage = "abort" => state["targets"] = done
    /\ stage \in Late => /\ state["targets"] = dispatched
                         /\ state["exchanges"] = exchanges
                         /\ state["exchangesTotal"] = ready * NQueries
    /\ stage = "dnssec" => state["dnssecTotal"] = ready
    /\ state["cold"] <= NTargets
    /\ state["dnssec"] <= state["dnssecTotal"]

\* The event with a phase's latest count has arrived or is on its way, and no
\* event claims more.
FlyingInv ==
    IF stage \in DOMAIN Counter
    THEN LET c == Counter[stage] IN
         /\ state[c] <= done
         /\ flying \subseteq {c} \X (1..done)
         /\ state[c] = done \/ <<c, done>> \in flying
    ELSE flying = {}

PInv == ViewInv /\ LifeInv /\ JobInv /\ StageInv /\ FlyingInv


-----------------------------------------------------------------------------
LEMMA MaxOfTwo ==
    ASSUME NEW a \in Nat, NEW b \in Nat
    PROVE  Max({a, b}) = IF a >= b THEN a ELSE b
BY DEF Max

\* progressMilestone counts in quarters.
LEMMA MilestoneRange ==
    ASSUME NEW completed \in Nat, NEW total \in Nat
    PROVE  Milestone(completed, total) \in 0..Steps
<1>1. ASSUME 0 < completed, completed < total
      PROVE  (completed * Steps) \div total \in 0..Steps
  <2>1. completed * 4 < 4 * total
    BY <1>1
  <2>2. (completed * 4) \div total \in 0..4
    BY <1>1, <2>1
  <2>3. QED
    BY <2>2 DEF Steps
<1>2. QED
  BY <1>1 DEF Milestone, Steps

LEMMA ReachedRange ==
    ASSUME NEW p \in Phases, NEW s \in [Counters -> Nat]
    PROVE  Reached(p, s) \in 0..Steps
<1>1. /\ s["targets"] \in Nat /\ s["cold"] \in Nat /\ s["exchanges"] \in Nat
      /\ s["exchangesTotal"] \in Nat /\ s["dnssec"] \in Nat /\ s["dnssecTotal"] \in Nat
      /\ NTargets \in Nat
  BY ProgressAssumption DEF ProgressAssumption, Counters
<1>2. Max({s["cold"], s["targets"]}) + s["targets"] \in Nat
  BY <1>1, MaxOfTwo
<1>3. 2 * NTargets \in Nat
  BY <1>1
<1>4. QED
  BY <1>1, <1>2, <1>3, MilestoneRange DEF Reached

\* emitPhaseLocked logs a line only for a milestone that is new.
LEMMA EmitFacts ==
    ASSUME ViewInv, NEW P, NEW s \in [Counters -> Nat], Emit(P, s)
    PROVE  /\ milestones' \in [Phases -> NotStarted..Steps]
           /\ lines' \in [Phases -> Nat]
           /\ \A p \in Phases : lines'[p] <= milestones'[p] + 1
<1>1. ASSUME NEW p \in Phases
      PROVE  /\ milestones[p] \in NotStarted..Steps /\ lines[p] \in Nat
             /\ lines[p] <= milestones[p] + 1
             /\ Reached(p, s) \in 0..Steps
  BY ReachedRange DEF ViewInv
<1>2. QED
  BY <1>1 DEF Emit, NotStarted, Steps

\* The larger of what a counter was and what the event says is kept, and shown,
\* if at all, on a terminal.
Applied(event) ==
    /\ ViewInv'
    /\ \A c \in Counters :
         state'[c] = IF c \in DOMAIN event /\ event[c] > state[c] THEN event[c] ELSE state[c]
    /\ \/ UNCHANGED <<rendered, cursor>>
       \/ interactive /\ rendered' = TRUE /\ cursor' = TRUE

LEMMA UpdateFacts ==
    ASSUME ViewInv, ~finished, NEW p \in Phases, NEW event,
           \A c \in DOMAIN event : event[c] \in Nat,
           Update(p, event)
    PROVE  Applied(event)
<1> DEFINE s == [c \in Counters |->
                   IF c \in DOMAIN event THEN Max({state[c], event[c]}) ELSE state[c]]
<1>1. \A c \in Counters : state[c] \in Nat
  BY DEF ViewInv
<1>2. \A c \in Counters :
         s[c] = IF c \in DOMAIN event /\ event[c] > state[c] THEN event[c] ELSE state[c]
  BY <1>1, MaxOfTwo
<1>3. s \in [Counters -> Nat]
  BY <1>1, <1>2
<1>4. state' = s /\ phase' = Max({phase, p})
  BY DEF Update
<1> HIDE DEF s
<1>5. phase' \in 0..Complete
  BY <1>4, MaxOfTwo DEF ViewInv, Phases, Complete, Preparing
<1>6. /\ \/ UNCHANGED <<milestones, lines>>
         \/ Emit({q \in Phases : q = p \/ (q < p /\ milestones[q] # NotStarted)}, s)
      /\ \/ UNCHANGED <<rendered, cursor>>
         \/ interactive /\ rendered' = TRUE /\ cursor' = TRUE
  BY DEF Update, Render, s
<1>7. ViewInv'
  <2>1. CASE UNCHANGED <<milestones, lines>>
    BY <1>3, <1>4, <1>5, <2>1 DEF ViewInv
  <2>2. CASE Emit({q \in Phases : q = p \/ (q < p /\ milestones[q] # NotStarted)}, s)
    BY <1>3, <1>4, <1>5, <2>2, EmitFacts DEF ViewInv
  <2>3. QED
    BY <1>6, <2>1, <2>2
<1>8. QED
  BY <1>2, <1>4, <1>6, <1>7 DEF Applied

-----------------------------------------------------------------------------
LEMMA InitPInv == Init => PInv
<1> SUFFICES ASSUME Init PROVE PInv
  OBVIOUS
<1>1. NTargets \in Nat /\ NQueries \in Nat
  BY ProgressAssumption DEF ProgressAssumption
<1>2. \A c \in Counters : state[c] = 0
  BY DEF Init
<1>3. ViewInv
  BY DEF Init, ViewInv, NotStarted, Steps, Complete, Phases
<1>4. LifeInv
  BY DEF Init, LifeInv
<1>5. JobInv
  <2>1. exchanges \in Nat /\ exchanges <= ready * rounds
    BY DEF Init
  <2>2. stage \in Early \cup Late /\ ctxDone \in BOOLEAN
    BY DEF Init, Early, Late
  <2>3. QED
    BY <1>1, <2>1, <2>2 DEF Init, JobInv
<1>6. StageInv
  BY <1>1, <1>2 DEF Init, StageInv, Early, Late, Counters
<1>7. FlyingInv
  BY DEF Init, FlyingInv, Counter
<1>8. QED
  BY <1>3, <1>4, <1>5, <1>6, <1>7 DEF PInv

\* Steps of the renderer and of runBenchmark leave the counts alone.
LEMMA RendererKeeps ==
    ASSUME PInv, Renderer \/ Refresh \/ RefreshStops \/ Diagnostic
    PROVE  PInv'
<1>1. UNCHANGED <<phase, state, milestones, lines, engineVars>>
  BY DEF Renderer, Start, Finish, FinishStops, FinishEnds, Refresh, RefreshStops, Diagnostic,
     viewVars, lifeVars
<1>2. ViewInv' /\ JobInv' /\ StageInv' /\ FlyingInv'
  BY <1>1 DEF PInv, ViewInv, JobInv, StageInv, FlyingInv, engineVars
<1>3. LifeInv'
  <2>1. CASE Start
    BY <2>1, <1>1 DEF PInv, LifeInv, Start, Render, engineVars
  <2>2. CASE Finish
    BY <2>2, <1>1 DEF PInv, LifeInv, Finish, viewVars, engineVars
  <2>3. CASE FinishStops
    BY <2>3, <1>1 DEF PInv, LifeInv, FinishStops, viewVars, engineVars
  <2>4. CASE FinishEnds
    BY <2>4, <1>1 DEF PInv, LifeInv, FinishEnds, engineVars
  <2>5. CASE Refresh
    BY <2>5, <1>1 DEF PInv, LifeInv, Refresh, Render, lifeVars, engineVars
  <2>6. CASE RefreshStops
    BY <2>6, <1>1 DEF PInv, LifeInv, RefreshStops, viewVars, engineVars
  <2>7. CASE Diagnostic
    BY <2>7, <1>1 DEF PInv, LifeInv, Diagnostic, Render, lifeVars, engineVars
  <2>8. QED
    BY <2>1, <2>2, <2>3, <2>4, <2>5, <2>6, <2>7 DEF Renderer
<1>4. QED
  BY <1>2, <1>3 DEF PInv

-----------------------------------------------------------------------------
\* The engine works while the renderer lives, and shows on a terminal only.
LEMMA EngineLife ==
    ASSUME LifeInv, EngineFrame, caller = "engine",
           \/ UNCHANGED <<rendered, cursor>>
           \/ interactive /\ rendered' = TRUE /\ cursor' = TRUE
    PROVE  LifeInv'
<1>1. ~finished
  BY DEF LifeInv
<1>2. UNCHANGED <<interactive, finished, loop, stop, caller, garbled>>
  BY DEF EngineFrame, lifeVars
<1>3. cursor' \in BOOLEAN /\ rendered' \in BOOLEAN
  BY DEF LifeInv
<1>4. (cursor' => rendered') /\ (rendered' => interactive)
  BY DEF LifeInv
<1>5. QED
  BY <1>1, <1>2, <1>3, <1>4 DEF LifeInv

\* Where the engine is, Finish has not been called.
LEMMA NotFinished == LifeInv /\ JobInv /\ stage \notin {"queued", "end"} =>
                         caller = "engine" /\ ~finished
BY DEF LifeInv

LEMMA BeginGroupKeeps == PInv /\ BeginGroup => PInv'
<1> SUFFICES ASSUME PInv, BeginGroup PROVE PInv'
  OBVIOUS
<1> DEFINE event == [targets |-> 0]
<1>1. /\ caller = "engine" /\ ~finished /\ stage = "queued" /\ stage' = "cold"
      /\ flying = {} /\ taken' = 0 /\ done' = 0
      /\ Update(Preparing, event) /\ EngineFrame
      /\ UNCHANGED <<flying, dispatched, ready, rounds, exchanges, ctxDone>>
  BY DEF BeginGroup, Enter, PInv, LifeInv
<1>2. DOMAIN event = {"targets"} /\ event["targets"] = 0
      /\ \A c \in DOMAIN event : event[c] \in Nat
  OBVIOUS
<1> HIDE DEF event
<1>3. Preparing \in Phases
  BY DEF Preparing, Phases, Complete
<1>4. /\ ViewInv'
      /\ \A c \in Counters : state'[c] = state[c]
      /\ \/ UNCHANGED <<rendered, cursor>>
         \/ interactive /\ rendered' = TRUE /\ cursor' = TRUE
  <2>1. \A c \in Counters : state[c] \in Nat
    BY DEF PInv, ViewInv
  <2>2. Applied(event)
    BY <1>1, <1>2, <1>3, UpdateFacts, Zenon DEF PInv
  <2>3. QED
    BY <1>2, <2>1, <2>2 DEF Applied
<1>5. LifeInv'
  BY <1>1, <1>4, EngineLife DEF PInv
<1>6. JobInv'
  BY <1>1, ProgressAssumption DEF PInv, JobInv, Early, Late, ProgressAssumption
<1>7. StageInv'
  BY <1>1, <1>4 DEF PInv, StageInv, Early, Late, Counters
<1>8. FlyingInv'
  BY <1>1, <1>4 DEF PInv, StageInv, FlyingInv, Counter, Counters
<1>9. QED
  BY <1>4, <1>5, <1>6, <1>7, <1>8 DEF PInv

\* A worker of the phase takes a job, gives up a cancelled probe, or counts a
\* job and owes the event.
LEMMA WorkerKeeps ==
    ASSUME PInv, stage \in DOMAIN Counter, EngineFrame,
           UNCHANGED <<viewVars, stage, ready, rounds, exchanges, ctxDone>>,
           \/ /\ UNCHANGED <<done, flying>>
              /\ taken' \in done..NTargets
              /\ stage = "dnssec" => taken' <= ready
              /\ dispatched' = IF stage = "cold" THEN taken' ELSE dispatched
           \/ CountJob(Counter[stage]) /\ UNCHANGED dispatched
    PROVE  PInv'
<1>1. stage \in {"cold", "warm", "dnssec"} /\ UNCHANGED <<rendered, cursor>>
  BY DEF Counter, viewVars
<1>2. caller = "engine"
  BY <1>1, NotFinished DEF PInv
<1>3. LifeInv'
  BY <1>1, <1>2, EngineLife DEF PInv
<1>4. ViewInv'
  BY DEF PInv, ViewInv, viewVars
<1>5. StageInv'
  BY <1>1 DEF PInv, StageInv, viewVars, Early, Late
<1>6. taken \in 0..NTargets /\ done \in 0..NTargets /\ NTargets \in Nat /\ done <= taken
      /\ (stage = "dnssec" => taken <= ready) /\ (stage = "cold" => taken = dispatched)
      /\ dispatched \in 0..NTargets /\ ready \in 0..NTargets
  BY <1>1, ProgressAssumption DEF PInv, JobInv, ProgressAssumption
<1>7. CASE /\ UNCHANGED <<done, flying>>
           /\ taken' \in done..NTargets
           /\ stage = "dnssec" => taken' <= ready
           /\ dispatched' = IF stage = "cold" THEN taken' ELSE dispatched
  <2>1. JobInv'
    BY <1>1, <1>6, <1>7 DEF PInv, JobInv
  <2>2. FlyingInv'
    BY <1>7 DEF PInv, FlyingInv, viewVars
  <2>3. QED
    BY <1>3, <1>4, <1>5, <2>1, <2>2 DEF PInv
<1>8. CASE CountJob(Counter[stage]) /\ UNCHANGED dispatched
  <2> DEFINE c == Counter[stage]
  <2>1. done < taken /\ done' = done + 1 /\ taken' = taken
        /\ flying' = flying \cup {<<c, done + 1>>}
    BY <1>8 DEF CountJob
  <2>2. JobInv'
    BY <1>1, <1>6, <1>8, <2>1 DEF PInv, JobInv
  <2>3. state' = state /\ stage' = stage
    BY DEF viewVars
  <2>4. state[c] <= done /\ flying \subseteq {c} \X (1..done) /\ state[c] \in Nat
    BY <1>1 DEF PInv, FlyingInv, ViewInv, Counter, Counters
  <2> HIDE DEF c
  <2>5. flying' \subseteq {c} \X (1..done')
    BY <1>6, <2>1, <2>4
  <2>6. state'[c] <= done' /\ <<c, done'>> \in flying'
    BY <1>6, <2>1, <2>3, <2>4
  <2>7. FlyingInv'
    BY <2>3, <2>5, <2>6 DEF FlyingInv, c
  <2>8. QED
    BY <1>3, <1>4, <1>5, <2>2, <2>7 DEF PInv
<1>9. QED
  BY <1>7, <1>8

LEMMA PrepareKeeps == PInv /\ Prepare => PInv'
<1> SUFFICES ASSUME PInv, Prepare PROVE PInv'
  OBVIOUS
<1>1. /\ stage \in {"cold", "warm"} /\ EngineFrame
      /\ UNCHANGED <<viewVars, stage, ready, rounds, exchanges, ctxDone>>
  BY DEF Prepare
<1>2. taken \in 0..NTargets /\ done \in 0..NTargets /\ done <= taken /\ NTargets \in Nat
      /\ (stage = "cold" => taken = dispatched)
  BY <1>1, ProgressAssumption DEF PInv, JobInv, ProgressAssumption
<1>3. stage \in DOMAIN Counter
      /\ Counter[stage] = IF stage = "cold" THEN "cold" ELSE "targets"
  BY <1>1 DEF Counter
<1>4. \/ /\ UNCHANGED <<done, flying>>
         /\ taken' = taken + 1 /\ taken < NTargets
         /\ dispatched' = IF stage = "cold" THEN dispatched + 1 ELSE dispatched
      \/ CountJob(Counter[stage]) /\ UNCHANGED dispatched
  BY <1>3 DEF Prepare, TakeJob
<1>5. CASE /\ UNCHANGED <<done, flying>>
           /\ taken' = taken + 1 /\ taken < NTargets
           /\ dispatched' = IF stage = "cold" THEN dispatched + 1 ELSE dispatched
  <2>1. taken' \in done..NTargets
        /\ dispatched' = IF stage = "cold" THEN taken' ELSE dispatched
    BY <1>2, <1>5
  <2>2. QED
    BY <1>1, <1>3, <1>5, <2>1, WorkerKeeps
<1>6. CASE CountJob(Counter[stage]) /\ UNCHANGED dispatched
  BY <1>1, <1>3, <1>6, WorkerKeeps
<1>7. QED
  BY <1>4, <1>5, <1>6

LEMMA ProbeKeeps == PInv /\ Probe => PInv'
<1> SUFFICES ASSUME PInv, Probe PROVE PInv'
  OBVIOUS
<1>1. /\ stage = "dnssec" /\ EngineFrame
      /\ UNCHANGED <<viewVars, stage, dispatched, ready, rounds, exchanges, ctxDone>>
  BY DEF Probe
<1>2. taken \in 0..NTargets /\ done \in 0..NTargets /\ done <= taken /\ NTargets \in Nat
      /\ taken <= ready /\ ready \in 0..NTargets
  BY <1>1, ProgressAssumption DEF PInv, JobInv, ProgressAssumption
<1>3. stage \in DOMAIN Counter /\ Counter[stage] = "dnssec"
  BY <1>1 DEF Counter
<1>4. CASE TakeJob(ready) /\ UNCHANGED flying
  <2>1. taken' \in done..NTargets /\ taken' <= ready /\ UNCHANGED <<done, flying>>
    BY <1>2, <1>4 DEF TakeJob
  <2>2. QED
    BY <1>1, <1>3, <2>1, WorkerKeeps
<1>5. CASE CountJob("dnssec")
  BY <1>1, <1>3, <1>5, WorkerKeeps
<1>6. CASE done < taken /\ taken' = taken - 1 /\ UNCHANGED <<done, flying>>
  <2>1. taken' \in done..NTargets /\ taken' <= ready
    BY <1>2, <1>6
  <2>2. QED
    BY <1>1, <1>3, <1>6, <2>1, WorkerKeeps
<1>7. QED
  BY <1>4, <1>5, <1>6 DEF Probe

\* An event that arrives late is overtaken, not believed.
LEMMA DeliverKeeps == PInv /\ Deliver => PInv'
<1> SUFFICES ASSUME PInv, Deliver PROVE PInv'
  OBVIOUS
<1>1. PICK e \in flying :
        /\ Update(IF stage = "dnssec" THEN DNSSEC ELSE Preparing, [x \in {e[1]} |-> e[2]])
        /\ flying' = flying \ {e}
  BY DEF Deliver
<1>2. EngineFrame /\ UNCHANGED <<stage, taken, done, dispatched, ready, rounds, exchanges, ctxDone>>
  BY DEF Deliver
<1>3. stage \in {"cold", "warm", "dnssec"} /\ stage \in DOMAIN Counter
  BY DEF PInv, FlyingInv, Counter
<1> DEFINE c == Counter[stage]
           n == e[2]
           event == [x \in {e[1]} |-> e[2]]
<1>4. c = (CASE stage = "cold" -> "cold" [] stage = "warm" -> "targets" [] OTHER -> "dnssec")
  BY <1>3 DEF Counter
<1>5. state[c] <= done /\ flying \subseteq {c} \X (1..done)
      /\ (state[c] = done \/ <<c, done>> \in flying)
  BY <1>3 DEF PInv, FlyingInv
<1> HIDE DEF c
<1>6. done \in 0..NTargets /\ (stage = "dnssec" => done <= ready) /\ NTargets \in Nat
  BY <1>3, ProgressAssumption DEF PInv, JobInv, ProgressAssumption
<1>7. e = <<c, n>> /\ e[1] = c /\ n \in 1..done /\ n \in Nat
  BY <1>5, <1>6
<1>8. DOMAIN event = {c} /\ event[c] = n /\ \A x \in DOMAIN event : event[x] \in Nat
  BY <1>7
<1> HIDE DEF event
<1>9. caller = "engine" /\ ~finished
  BY <1>3, NotFinished DEF PInv
<1>10. Applied(event)
  <2> DEFINE p == IF stage = "dnssec" THEN DNSSEC ELSE Preparing
  <2>1. p \in Phases
    BY DEF Preparing, DNSSEC, Phases, Complete
  <2>2. Update(p, event)
    BY <1>1 DEF event
  <2> HIDE DEF p
  <2>3. QED
    BY <1>8, <1>9, <2>1, <2>2, UpdateFacts, Zenon DEF PInv
<1>11. /\ c \in Counters
       /\ state'[c] = IF n > state[c] THEN n ELSE state[c]
       /\ \A x \in Counters \ {c} : state'[x] = state[x]
       /\ \A x \in Counters : state[x] \in Nat
  BY <1>3, <1>4, <1>8, <1>10 DEF Applied, Counters, PInv, ViewInv
<1>12. LifeInv'
  BY <1>2, <1>9, <1>10, EngineLife DEF PInv, Applied
<1>13. JobInv'
  BY <1>2 DEF PInv, JobInv
<1>14. StageInv'
  BY <1>2, <1>3, <1>4, <1>5, <1>6, <1>7, <1>11
  DEF PInv, StageInv, Early, Late, Counters
<1>15. FlyingInv'
  <2>1. state'[c] <= done
    BY <1>5, <1>6, <1>7, <1>11
  <2>2. flying' \subseteq {c} \X (1..done)
    BY <1>1, <1>5
  <2>3. state'[c] = done \/ <<c, done>> \in flying'
    BY <1>1, <1>5, <1>6, <1>7, <1>11
  <2>4. Counter[stage'] = c /\ stage' \in DOMAIN Counter /\ done' = done
    BY <1>2, <1>3 DEF c
  <2>5. QED
    BY <2>1, <2>2, <2>3, <2>4 DEF FlyingInv
<1>16. QED
  BY <1>10, <1>12, <1>13, <1>14, <1>15 DEF PInv, Applied

-----------------------------------------------------------------------------
\* Between the phases: what the events before a stage say.
LEMMA ColdBarrierKeeps == PInv /\ ColdBarrier => PInv'
<1> SUFFICES ASSUME PInv, ColdBarrier PROVE PInv'
  OBVIOUS
<1>1. /\ stage = "cold" /\ taken = done /\ flying = {} /\ flying' = {}
      /\ taken = NTargets \/ ctxDone
      /\ stage' = (IF ctxDone THEN "abort" ELSE "warm") /\ taken' = 0 /\ done' = 0
      /\ UNCHANGED <<viewVars, flying, dispatched, ready, rounds, exchanges, ctxDone>>
      /\ EngineFrame
  BY DEF ColdBarrier
<1>2. ViewInv' /\ UNCHANGED <<state, rendered, cursor>>
  BY <1>1 DEF PInv, ViewInv, viewVars
<1>3. LifeInv'
  <2>1. caller = "engine"
    BY <1>1, NotFinished DEF PInv
  <2>2. QED
    BY <1>1, <1>2, <2>1, EngineLife DEF PInv
<1>4. JobInv'
  BY <1>1, ProgressAssumption DEF PInv, JobInv, Early, Late, ProgressAssumption
<1>5. StageInv'
  BY <1>1, <1>2 DEF PInv, StageInv, Early, Late
<1>6. FlyingInv'
  <2>1. state'["targets"] = 0
    BY <1>1, <1>2 DEF PInv, StageInv
  <2>2. QED
    BY <1>1, <2>1 DEF FlyingInv, Counter
<1>7. QED
  BY <1>2, <1>3, <1>4, <1>5, <1>6 DEF PInv

\* Outside the phases' workers, all events have arrived.
LEMMA NothingFlies == FlyingInv /\ stage \notin {"cold", "warm", "dnssec"} => flying = {}
BY DEF FlyingInv, Counter

LEMMA AbortDispatchedKeeps == PInv /\ AbortDispatched => PInv'
<1> SUFFICES ASSUME PInv, AbortDispatched PROVE PInv'
  OBVIOUS
<1> DEFINE event == [targets |-> done + 1]
<1>1. /\ stage = "abort" /\ done < dispatched /\ done' = done + 1
      /\ Update(Preparing, event) /\ EngineFrame
      /\ UNCHANGED <<stage, taken, flying, dispatched, ready, rounds, exchanges, ctxDone>>
  BY DEF AbortDispatched
<1>2. done \in 0..NTargets /\ dispatched \in 0..NTargets /\ NTargets \in Nat
  BY ProgressAssumption DEF PInv, JobInv, ProgressAssumption
<1>3. DOMAIN event = {"targets"} /\ event["targets"] = done + 1
      /\ \A c \in DOMAIN event : event[c] \in Nat
  BY <1>2
<1> HIDE DEF event
<1>4. caller = "engine" /\ ~finished
  BY <1>1, NotFinished DEF PInv
<1>5. Preparing \in Phases
  BY DEF Preparing, Phases, Complete
<1>6. Applied(event)
  BY <1>1, <1>3, <1>4, <1>5, UpdateFacts, Zenon DEF PInv
<1>7. state["targets"] = done
  BY <1>1 DEF PInv, StageInv
<1>8. /\ state'["targets"] = done + 1
      /\ \A c \in Counters \ {"targets"} : state'[c] = state[c]
  BY <1>2, <1>3, <1>6, <1>7 DEF Applied, Counters
<1>9. LifeInv'
  BY <1>1, <1>4, <1>6, EngineLife DEF PInv, Applied
<1>10. JobInv'
  BY <1>1, <1>2 DEF PInv, JobInv
<1>11. StageInv'
  BY <1>1, <1>8 DEF PInv, StageInv, Early, Late, Counters
<1>12. FlyingInv'
  <2>1. flying' = {}
    BY <1>1, NothingFlies DEF PInv
  <2>2. QED
    BY <1>1, <2>1 DEF FlyingInv, Counter
<1>13. QED
  BY <1>6, <1>9, <1>10, <1>11, <1>12 DEF PInv, Applied

LEMMA ProductFacts ==
    ASSUME NEW a \in Nat, NEW b \in Nat, NEW c \in Nat
    PROVE  /\ a * b \in Nat /\ a * (b + 1) = a * b + a /\ a * 0 = 0 /\ 0 * a = 0
           /\ b <= c => a * b <= a * c /\ b * a <= c * a
           /\ b < c => a * b + a <= a * c
<1>1. a * b \in Nat /\ a * (b + 1) = a * b + a /\ a * 0 = 0 /\ 0 * a = 0
  OBVIOUS
<1>2. ASSUME b <= c
      PROVE  a * b <= a * c /\ b * a <= c * a
  <2>1. PICK d \in Nat : c = b + d
    BY <1>2
  <2>2. a * c = a * b + a * d /\ a * d \in Nat /\ b * a = a * b /\ c * a = a * c
    BY <2>1
  <2>3. QED
    BY <1>1, <2>2
<1>3. ASSUME b < c
      PROVE  a * b + a <= a * c
  <2>1. PICK d \in Nat : c = (b + 1) + d
    <3>1. c - (b + 1) \in Nat /\ c = (b + 1) + (c - (b + 1))
      BY <1>3
    <3>2. QED
      BY <3>1
  <2>2. a * c = a * (b + 1) + a * d /\ a * d \in Nat
    BY <2>1
  <2>3. QED
    BY <1>1, <2>2
<1>4. QED
  BY <1>1, <1>2, <1>3

LEMMA BeginMeasuringKeeps == PInv /\ BeginMeasuring => PInv'
<1> SUFFICES ASSUME PInv, BeginMeasuring PROVE PInv'
  OBVIOUS
<1> DEFINE total == ready' * NQueries
           event == [targets |-> dispatched, exchangesTotal |-> total]
<1>1. /\ stage = "warm" /\ done = NTargets /\ stage' = "measure" /\ flying = {}
      /\ flying' = {} /\ taken' = 0 /\ done' = 0 /\ ready' \in 0..NTargets
      /\ Update(Measuring, event) /\ EngineFrame
      /\ UNCHANGED <<dispatched, rounds, exchanges, ctxDone>>
  BY DEF BeginMeasuring, Enter
<1>2. dispatched \in 0..NTargets /\ NTargets \in Nat /\ NQueries \in Nat /\ rounds = 0
      /\ exchanges = 0 /\ ready' \in Nat
  BY <1>1, ProgressAssumption DEF PInv, JobInv, Early, ProgressAssumption
<1>3. total \in Nat /\ ready' * rounds = 0
  BY <1>2, ProductFacts
<1> HIDE DEF total
<1>4. /\ DOMAIN event = {"targets", "exchangesTotal"} /\ event["targets"] = dispatched
      /\ event["exchangesTotal"] = total
      /\ \A c \in DOMAIN event : event[c] \in Nat
  BY <1>2, <1>3
<1> HIDE DEF event
<1>5. caller = "engine" /\ ~finished
  BY <1>1, NotFinished DEF PInv
<1>6. Measuring \in Phases
  BY DEF Measuring, Preparing, Phases, Complete
<1>7. Applied(event)
  BY <1>1, <1>4, <1>5, <1>6, UpdateFacts, Zenon DEF PInv
<1>8. state["targets"] = dispatched /\ state["exchangesTotal"] = 0
  <2>1. state["targets"] = done
    BY <1>1 DEF PInv, FlyingInv, Counter
  <2>2. QED
    BY <1>1, <2>1 DEF PInv, JobInv, StageInv, Early
<1>9. /\ state'["targets"] = dispatched /\ state'["exchangesTotal"] = total
      /\ \A c \in Counters \ {"targets", "exchangesTotal"} : state'[c] = state[c]
  BY <1>2, <1>3, <1>4, <1>7, <1>8 DEF Applied, Counters
<1>10. LifeInv'
  BY <1>1, <1>5, <1>7, EngineLife DEF PInv, Applied
<1>11. JobInv'
  <2>1. exchanges' = 0 /\ rounds' = 0
    BY <1>1, <1>2
  <2>2. ready' * 0 = 0
    BY <1>2, ProductFacts
  <2>3. exchanges' \in Nat /\ exchanges' <= ready' * rounds'
    BY <2>1, <2>2
  <2>4. stage' \in Early \cup Late /\ stage' \notin Early /\ ctxDone' \in BOOLEAN
        /\ rounds' \in 0..NQueries /\ dispatched' = NTargets
    BY <1>1 DEF PInv, JobInv, Early, Late
  <2>5. taken' \in 0..NTargets /\ done' \in 0..NTargets /\ done' <= taken'
        /\ dispatched' \in 0..NTargets
    BY <1>1, <1>2
  <2>6. QED
    BY <1>1, <2>3, <2>4, <2>5 DEF JobInv
<1>12. StageInv'
  <2>1. state'["exchanges"] = 0
    BY <1>1, <1>9 DEF PInv, StageInv, Early, Counters
  <2>2. QED
    BY <1>1, <1>2, <1>9, <2>1 DEF PInv, StageInv, Early, Late, Counters, total
<1>13. FlyingInv'
  BY <1>1 DEF FlyingInv, Counter
<1>14. QED
  BY <1>7, <1>10, <1>11, <1>12, <1>13 DEF PInv, Applied

LEMMA RoundKeeps == PInv /\ Round => PInv'
<1> SUFFICES ASSUME PInv, Round PROVE PInv'
  OBVIOUS
<1>1. /\ stage = "measure" /\ rounds < NQueries /\ EngineFrame
      /\ rounds' = (IF ctxDone THEN NQueries ELSE rounds + 1)
      /\ UNCHANGED <<stage, taken, done, flying, dispatched, ready, ctxDone>>
  BY DEF Round
<1>2. PICK n \in (IF ctxDone THEN 0..ready ELSE {ready}) :
        /\ exchanges' = exchanges + n
        /\ IF ready > 0
           THEN Update(Measuring, [targets |-> dispatched, exchanges |-> exchanges + n])
           ELSE UNCHANGED viewVars
  BY DEF Round
<1> DEFINE event == [targets |-> dispatched, exchanges |-> exchanges + n]
<1>3. /\ dispatched \in 0..NTargets /\ NTargets \in Nat /\ NQueries \in Nat
      /\ rounds \in Nat /\ exchanges \in Nat /\ ready \in Nat /\ n \in 0..ready
      /\ exchanges <= ready * rounds
  BY <1>1, ProgressAssumption DEF PInv, JobInv, ProgressAssumption
<1>4. /\ DOMAIN event = {"targets", "exchanges"} /\ event["targets"] = dispatched
      /\ event["exchanges"] = exchanges + n
      /\ \A c \in DOMAIN event : event[c] \in Nat
  BY <1>3
<1>5. caller = "engine" /\ ~finished
  BY <1>1, NotFinished DEF PInv
<1>6. Measuring \in Phases
  BY DEF Measuring, Preparing, Phases, Complete
<1>7. state["targets"] = dispatched /\ state["exchanges"] = exchanges
  BY <1>1 DEF PInv, StageInv, Late
<1>8. /\ ViewInv'
      /\ state'["exchanges"] = exchanges + n
      /\ \A c \in Counters \ {"exchanges"} : state'[c] = state[c]
      /\ \/ UNCHANGED <<rendered, cursor>>
         \/ interactive /\ rendered' = TRUE /\ cursor' = TRUE
  <2>1. CASE ready > 0
    <3>1. Update(Measuring, event)
      BY <1>2, <2>1
    <3> HIDE DEF event
    <3>2. Applied(event)
      BY <1>4, <1>5, <1>6, <3>1, UpdateFacts, Zenon DEF PInv
    <3>3. QED
      BY <1>3, <1>4, <1>7, <3>2 DEF Applied, Counters
  <2>2. CASE ~(ready > 0)
    BY <1>2, <1>3, <1>7, <2>2 DEF PInv, ViewInv, viewVars
  <2>3. QED
    BY <2>1, <2>2
<1>9. LifeInv'
  BY <1>1, <1>5, <1>8, EngineLife DEF PInv
<1>10. exchanges' \in Nat /\ exchanges' <= ready' * rounds' /\ rounds' \in 0..NQueries
  <2>1. ready * rounds + ready <= ready * NQueries
        /\ ready * (rounds + 1) = ready * rounds + ready
    BY <1>1, <1>3, ProductFacts
  <2>2. exchanges + n <= ready * rounds + ready
    BY <1>3, ProductFacts
  <2>3. CASE ctxDone
    BY <1>1, <1>2, <1>3, <2>1, <2>2, <2>3, ProductFacts
  <2>4. CASE ~ctxDone
    BY <1>1, <1>2, <1>3, <2>1, <2>2, <2>4, ProductFacts
  <2>5. QED
    BY <2>3, <2>4
<1>11. JobInv'
  BY <1>1, <1>10 DEF PInv, JobInv, Early
<1>12. StageInv'
  BY <1>1, <1>2, <1>8 DEF PInv, StageInv, Early, Late, Counters
<1>13. FlyingInv'
  BY <1>1 DEF PInv, FlyingInv, Counter
<1>14. QED
  BY <1>8, <1>9, <1>11, <1>12, <1>13 DEF PInv

LEMMA BeginDNSSECKeeps == PInv /\ BeginDNSSEC => PInv'
<1> SUFFICES ASSUME PInv, BeginDNSSEC PROVE PInv'
  OBVIOUS
<1> DEFINE event == [dnssecTotal |-> ready]
<1>1. /\ stage = "measure" /\ stage' = "dnssec" /\ flying = {}
      /\ flying' = {} /\ taken' = 0 /\ done' = 0
      /\ Update(DNSSEC, event) /\ EngineFrame
      /\ UNCHANGED <<dispatched, ready, rounds, exchanges, ctxDone>>
  BY DEF BeginDNSSEC, Enter
<1>2. NTargets \in Nat /\ ready \in 0..NTargets
  BY ProgressAssumption DEF PInv, JobInv, ProgressAssumption
<1>3. /\ DOMAIN event = {"dnssecTotal"} /\ event["dnssecTotal"] = ready
      /\ \A c \in DOMAIN event : event[c] \in Nat
  BY <1>2
<1> HIDE DEF event
<1>4. caller = "engine" /\ ~finished
  BY <1>1, NotFinished DEF PInv
<1>5. DNSSEC \in Phases
  BY DEF DNSSEC, Preparing, Phases, Complete
<1>6. Applied(event)
  BY <1>1, <1>3, <1>4, <1>5, UpdateFacts, Zenon DEF PInv
<1>7. state["dnssec"] = 0 /\ state["dnssecTotal"] = 0
  BY <1>1 DEF PInv, StageInv
<1>8. /\ state'["dnssecTotal"] = ready /\ state'["dnssec"] = 0
      /\ \A c \in Counters \ {"dnssecTotal"} : state'[c] = state[c]
  BY <1>2, <1>3, <1>6, <1>7 DEF Applied, Counters
<1>9. LifeInv'
  BY <1>1, <1>4, <1>6, EngineLife DEF PInv, Applied
<1>10. JobInv'
  BY <1>1, <1>2 DEF PInv, JobInv, Early, Late
<1>11. StageInv'
  BY <1>1, <1>2, <1>8 DEF PInv, StageInv, Early, Late, Counters
<1>12. FlyingInv'
  BY <1>1, <1>8 DEF FlyingInv, Counter
<1>13. QED
  BY <1>6, <1>9, <1>10, <1>11, <1>12 DEF PInv, Applied

\* Wherever the group got to, its last event repeats the engine's counts.
LEMMA CompleteGroupKeeps == PInv /\ CompleteGroup => PInv'
<1> SUFFICES ASSUME PInv, CompleteGroup PROVE PInv'
  OBVIOUS
<1> DEFINE total == ready' * NQueries
           event == [targets |-> dispatched, exchanges |-> exchanges, exchangesTotal |-> total]
<1>1. /\ stage \in {"abort", "warm", "measure", "dnssec"}
      /\ stage = "abort" => done = dispatched
      /\ stage = "warm" => done = NTargets
      /\ ready' \in IF stage = "warm" THEN 0..NTargets ELSE {ready}
      /\ stage' = "end" /\ flying = {} /\ flying' = {} /\ taken' = 0 /\ done' = 0
      /\ Update(Complete, event) /\ EngineFrame
      /\ UNCHANGED <<dispatched, rounds, exchanges, ctxDone>>
  BY DEF CompleteGroup, Enter
<1>2. /\ dispatched \in 0..NTargets /\ NTargets \in Nat /\ NQueries \in Nat
      /\ exchanges \in Nat /\ ready \in 0..NTargets /\ rounds \in 0..NQueries
      /\ exchanges <= ready * rounds
  BY ProgressAssumption DEF PInv, JobInv, ProgressAssumption
<1>3. ready' \in 0..NTargets /\ ready' \in Nat /\ (stage # "warm" => ready' = ready)
  BY <1>1, <1>2
<1>4. total \in Nat
  BY <1>2, <1>3, ProductFacts
<1>5. /\ state["targets"] = dispatched
      /\ state["exchanges"] = exchanges
      /\ state["exchangesTotal"] <= total
  <2>1. CASE stage \in {"abort", "warm"}
    <3>1. state["targets"] = done
      BY <1>1, <2>1 DEF PInv, FlyingInv, StageInv, Counter
    <3>2. done = dispatched /\ exchanges = 0
      BY <1>1, <2>1 DEF PInv, JobInv, Early
    <3>3. state["exchanges"] = 0 /\ state["exchangesTotal"] = 0
      BY <2>1 DEF PInv, StageInv, Early
    <3>4. QED
      BY <1>4, <3>1, <3>2, <3>3
  <2>2. CASE stage \in {"measure", "dnssec"}
    <3>1. ready' = ready
      BY <1>1, <2>2
    <3>2. state["exchangesTotal"] = total
      BY <2>2, <3>1 DEF PInv, StageInv, Late
    <3>3. QED
      BY <1>4, <2>2, <3>2 DEF PInv, StageInv, Late
  <2>3. QED
    BY <1>1, <2>1, <2>2
<1>6. exchanges' \in Nat /\ exchanges' <= ready' * rounds'
  <2>1. CASE stage = "warm"
    <3>1. exchanges = 0 /\ rounds = 0
      BY <2>1 DEF PInv, JobInv, Early
    <3>2. ready' * 0 = 0
      BY <1>3, ProductFacts
    <3>3. exchanges' = 0 /\ rounds' = 0
      BY <1>1, <3>1
    <3>4. QED
      BY <3>2, <3>3
  <2>2. CASE stage # "warm"
    BY <1>1, <1>2, <1>3, <2>2
  <2>3. QED
    BY <2>1, <2>2
<1> HIDE DEF total
<1>7. /\ DOMAIN event = {"targets", "exchanges", "exchangesTotal"}
      /\ event["targets"] = dispatched
      /\ event["exchanges"] = exchanges /\ event["exchangesTotal"] = total
      /\ \A c \in DOMAIN event : event[c] \in Nat
  BY <1>2, <1>4
<1> HIDE DEF event
<1>8. caller = "engine" /\ ~finished
  BY <1>1, NotFinished DEF PInv
<1>9. Complete \in Phases
  BY DEF Preparing, Phases, Complete
<1>10. Applied(event)
  BY <1>1, <1>7, <1>8, <1>9, UpdateFacts, Zenon DEF PInv
<1>11. /\ state'["targets"] = dispatched /\ state'["exchanges"] = exchanges
       /\ state'["exchangesTotal"] = total
       /\ \A c \in Counters \ {"exchangesTotal"} : state'[c] = state[c]
  <2>1. \A c \in Counters : state[c] \in Nat
    BY DEF PInv, ViewInv
  <2>2. QED
    BY <1>2, <1>4, <1>5, <1>7, <1>10, <2>1 DEF Applied, Counters
<1>12. LifeInv'
  BY <1>1, <1>8, <1>10, EngineLife DEF PInv, Applied
<1>13. JobInv'
  <2>1. stage' \in Early \cup Late /\ stage' \notin Early /\ ctxDone' \in BOOLEAN
    BY <1>1 DEF PInv, JobInv, Early, Late
  <2>2. taken' \in 0..NTargets /\ done' \in 0..NTargets /\ done' <= taken'
        /\ dispatched' \in 0..NTargets /\ rounds' \in 0..NQueries /\ ready' \in 0..NTargets
    BY <1>1, <1>2, <1>3
  <2>3. QED
    BY <1>1, <1>6, <2>1, <2>2 DEF JobInv
<1>14. StageInv'
  BY <1>1, <1>11 DEF PInv, StageInv, Early, Late, Counters, total
<1>15. FlyingInv'
  BY <1>1 DEF FlyingInv, Counter
<1>16. QED
  BY <1>10, <1>12, <1>13, <1>14, <1>15 DEF PInv, Applied

LEMMA StepPInv == PInv /\ [Next]_vars => PInv'
<1> SUFFICES ASSUME PInv, [Next]_vars PROVE PInv'
  OBVIOUS
<1>1. CASE Renderer \/ Refresh \/ RefreshStops \/ Diagnostic
  BY <1>1, RendererKeeps
<1>2. CASE Engine
  BY <1>2, BeginGroupKeeps, PrepareKeeps, ProbeKeeps, DeliverKeeps, ColdBarrierKeeps,
     AbortDispatchedKeeps, BeginMeasuringKeeps, RoundKeeps, BeginDNSSECKeeps,
     CompleteGroupKeeps
  DEF Engine
<1>3. CASE Interrupt
  BY <1>3 DEF Interrupt, viewVars, lifeVars, PInv, ViewInv, LifeInv, JobInv, StageInv, FlyingInv
<1>4. CASE UNCHANGED vars
  BY <1>4 DEF vars, viewVars, lifeVars, engineVars, PInv, ViewInv, LifeInv, JobInv, StageInv,
     FlyingInv
<1>5. QED
  BY <1>1, <1>2, <1>3, <1>4 DEF Next, Over

-----------------------------------------------------------------------------
\* The counters never run past their totals.
LEMMA Bounded == PInv => CountersBounded
<1> SUFFICES ASSUME PInv PROVE CountersBounded
  OBVIOUS
<1>1. /\ dispatched \in 0..NTargets /\ done \in 0..NTargets /\ NTargets \in Nat
      /\ exchanges \in Nat /\ ready \in Nat /\ rounds \in Nat /\ NQueries \in Nat
      /\ rounds <= NQueries /\ exchanges <= ready * rounds
  BY ProgressAssumption DEF PInv, JobInv, ProgressAssumption
<1>2. state["targets"] <= NTargets
  <2>1. CASE stage \in {"queued", "cold"}
    BY <1>1, <2>1 DEF PInv, StageInv
  <2>2. CASE stage = "warm"
    BY <1>1, <2>2 DEF PInv, FlyingInv, ViewInv, Counter, Counters
  <2>3. CASE stage \in Late \cup {"abort"}
    BY <1>1, <2>3 DEF PInv, StageInv
  <2>4. QED
    BY <2>1, <2>2, <2>3 DEF PInv, JobInv, Early, Late
<1>3. state["exchanges"] <= state["exchangesTotal"]
  <2>1. exchanges <= ready * NQueries
    <3>1. ready * rounds <= ready * NQueries /\ ready * rounds \in Nat
          /\ ready * NQueries \in Nat
      BY <1>1, ProductFacts
    <3>2. QED
      BY <1>1, <3>1
  <2>2. CASE stage \in Early
    BY <2>2 DEF PInv, StageInv
  <2>3. CASE stage \in Late
    BY <2>1, <2>3 DEF PInv, StageInv
  <2>4. QED
    BY <2>2, <2>3 DEF PInv, JobInv
<1>4. QED
  BY <1>2, <1>3 DEF CountersBounded, PInv, StageInv

LEMMA Typed == PInv => TypeOK
<1> SUFFICES ASSUME PInv PROVE TypeOK
  OBVIOUS
<1>1. NTargets \in Nat /\ NQueries \in Nat
  BY ProgressAssumption DEF ProgressAssumption
<1>2. lines \in [Phases -> 0..(Steps + 1)]
  <2>1. ASSUME NEW p \in Phases
        PROVE  lines[p] \in 0..(Steps + 1)
    <3>1. milestones[p] \in NotStarted..Steps /\ lines[p] \in Nat
          /\ lines[p] <= milestones[p] + 1
      BY DEF PInv, ViewInv
    <3>2. QED
      BY <3>1 DEF NotStarted, Steps
  <2>2. QED
    BY <2>1 DEF PInv, ViewInv
<1>3. flying \subseteq {"cold", "targets", "dnssec"} \X (1..NTargets)
  <2>1. CASE stage \in DOMAIN Counter
    <3>1. done <= NTargets /\ done \in Nat
      BY <1>1 DEF PInv, JobInv
    <3>2. flying \subseteq {Counter[stage]} \X (1..done)
      BY <2>1 DEF PInv, FlyingInv
    <3>3. Counter[stage] \in {"cold", "targets", "dnssec"}
      BY <2>1 DEF Counter
    <3>4. 1..done \subseteq 1..NTargets
      BY <1>1, <3>1
    <3>5. QED
      BY <3>2, <3>3, <3>4
  <2>2. CASE stage \notin DOMAIN Counter
    BY <2>2 DEF PInv, FlyingInv
  <2>3. QED
    BY <2>1, <2>2
<1>4. exchanges \in 0..(NTargets * NQueries)
  <2>1. /\ ready \in Nat /\ rounds \in Nat /\ ready <= NTargets /\ rounds <= NQueries
        /\ exchanges \in Nat /\ exchanges <= ready * rounds
    BY <1>1 DEF PInv, JobInv
  <2>2. ready * rounds <= ready * NQueries /\ ready * NQueries <= NTargets * NQueries
        /\ ready * rounds \in Nat /\ ready * NQueries \in Nat /\ NTargets * NQueries \in Nat
    BY <1>1, <2>1, ProductFacts
  <2>3. QED
    BY <2>1, <2>2
<1>5. {taken, done, dispatched, ready} \subseteq 0..NTargets /\ rounds \in 0..NQueries
  BY DEF PInv, JobInv
<1>6. {interactive, rendered, finished, stop, ctxDone, cursor, garbled} \subseteq BOOLEAN
      /\ stage \in {"queued", "cold", "warm", "abort", "measure", "dnssec", "end"}
      /\ loop \in {"off", "on", "exited"}
      /\ caller \in {"start", "engine", "marked", "waiting", "finished"}
  BY DEF PInv, LifeInv, JobInv, Early, Late
<1>7. QED
  BY <1>2, <1>3, <1>4, <1>5, <1>6, Bounded DEF PInv, ViewInv, TypeOK

LEMMA Agreeing == PInv => CaughtUp
<1> SUFFICES ASSUME PInv, flying = {}
             PROVE  /\ stage = "cold" => state["cold"] = done
                    /\ stage \in {"warm", "abort"} => state["targets"] = done
                    /\ stage \in Late => /\ state["targets"] = dispatched
                                         /\ state["exchanges"] = exchanges
                    /\ stage = "dnssec" => state["dnssec"] = done
  BY Typed DEF CaughtUp, Late
<1>1. QED
  BY DEF PInv, StageInv, FlyingInv, Counter

\* PInv holds of every reachable state.
THEOREM ProgressInvariant == Spec => []PInv
BY InitPInv, StepPInv, PTL DEF Spec

\* When no event is on its way the renderer shows the engine's own counts, and
\* no counter or milestone ever runs past its total (Update, emitPhaseLocked).
THEOREM ShowsTheCounts == Spec => []CaughtUp
BY ProgressInvariant, Agreeing, PTL

\* Once Finish has returned nothing renders any more and the progress line has
\* ended (Finish, refreshLoop).
THEOREM FinishIsQuiet == Spec => []QuietAfterFinish
<1>1. PInv => QuietAfterFinish
  BY DEF PInv, LifeInv, QuietAfterFinish
<1>2. QED
  BY ProgressInvariant, <1>1, PTL
===============================================================================
