------------------------------- MODULE Progress -------------------------------
(***************************************************************************)
(* The progress renderer of src/cmd/speedns/main.go and what drives it: a  *)
(* protocol group's workers (Update, from several goroutines at once, each *)
(* a counter it has incremented before), the refresh goroutine, dependency *)
(* diagnostics (Write) and Finish.  One group is followed; the states of   *)
(* different protocols do not touch.  Every method works under the         *)
(* renderer's mutex, so one critical section is one action.  The elapsed   *)
(* time, the spinner and the wording are left out: of the terminal, what   *)
(* is kept is whether the cursor stands at the end of a progress line.     *)
(***************************************************************************)
EXTENDS Integers, FiniteSets, FiniteSetsExt

CONSTANTS
    NTargets,  \* targets of the group
    NQueries,  \* measured rounds
    NWorkers   \* goroutines of a phase

ASSUME ProgressAssumption ==
    NTargets \in Nat \ {0} /\ NQueries \in Nat \ {0} /\ NWorkers \in Nat \ {0}

\* progressPhaseRank.
Preparing == 1
Measuring == 2
DNSSEC == 3
Complete == 4
Phases == Preparing..Complete

\* progressMilestoneSteps.
Steps == 4
NotStarted == -1

Counters == {"targets", "exchanges", "exchangesTotal", "cold", "dnssec", "dnssecTotal"}

VARIABLES
    interactive,  \* the renderer writes to a terminal
    phase,        \* state.phase of the protocol
    state,        \* [Counters -> Nat]: its counters
    milestones,   \* phaseMilestones of the protocol
    rendered,     \* p.rendered
    finished,     \* p.finished
    loop,         \* refreshLoop: "off", "on" or "exited" (done is closed)
    stop,         \* p.stop is closed
    caller,       \* runBenchmark: "start", "engine", "marked", "waiting" or "finished"
    stage,        \* the engine's phase of the group
    taken,        \* jobs of the phase taken
    done,         \* jobs of the phase counted (the atomic counters)
    flying,       \* events counted but not yet delivered
    dispatched,   \* targets that reached a preparation worker
    ready,        \* len(ready)
    rounds,       \* rounds finished
    exchanges,    \* completedExchanges
    ctxDone,      \* the run is cancelled
    lines,        \* (history) lines logged for each phase
    cursor,       \* (history) a progress line stands on the terminal
    garbled       \* (history) a diagnostic was written onto it

engineVars == <<stage, taken, done, flying, dispatched, ready, rounds, exchanges, ctxDone>>
viewVars   == <<phase, state, milestones, rendered, lines, cursor>>
lifeVars   == <<interactive, finished, loop, stop, caller>>
vars       == <<viewVars, lifeVars, engineVars, garbled>>

Init ==
    /\ interactive \in BOOLEAN
    /\ phase = 0
    /\ state = [c \in Counters |-> 0]
    /\ milestones = [p \in Phases |-> NotStarted]
    /\ rendered = FALSE
    /\ finished = FALSE
    /\ loop = "off"
    /\ stop = FALSE
    /\ caller = "start"
    /\ stage = "queued"
    /\ taken = 0
    /\ done = 0
    /\ flying = {}
    /\ dispatched = 0
    /\ ready = 0
    /\ rounds = 0
    /\ exchanges = 0
    /\ ctxDone = FALSE
    /\ lines = [p \in Phases |-> 0]
    /\ cursor = FALSE
    /\ garbled = FALSE

-----------------------------------------------------------------------------
(***************************************************************************)
(* The renderer.                                                           *)
(***************************************************************************)

\* progressMilestone and progressPhaseUnits.
Milestone(completed, total) ==
    IF total <= 0 \/ completed <= 0 THEN 0
    ELSE IF completed >= total THEN Steps
    ELSE (completed * Steps) \div total

Reached(p, s) ==
    CASE p = Preparing -> Milestone(Max({s["cold"], s["targets"]}) + s["targets"], 2 * NTargets)
      [] p = Measuring -> Milestone(s["exchanges"], s["exchangesTotal"])
      [] p = DNSSEC -> Milestone(s["dnssec"], s["dnssecTotal"])
      [] OTHER -> Milestone(s["targets"], NTargets)

\* emitPhaseLocked for the phases of P: a line when a phase starts, and when it
\* has passed another milestone.
Emit(P, s) ==
    LET news == {p \in P : Reached(p, s) > milestones[p]} IN
    /\ milestones' = [p \in Phases |-> IF p \in news THEN Reached(p, s) ELSE milestones[p]]
    /\ lines' = [p \in Phases |-> IF p \in news THEN lines[p] + 1 ELSE lines[p]]

\* renderLocked.
Render == rendered' = TRUE /\ cursor' = TRUE

\* Mutant: a counter is what the last event said.
UpdateLast(p, event) ==
    IF finished THEN UNCHANGED viewVars ELSE
    LET s == [c \in Counters |-> IF c \in DOMAIN event THEN event[c] ELSE state[c]] IN
    /\ state' = s
    /\ phase' = p
    /\ IF interactive
       THEN Render /\ UNCHANGED <<milestones, lines>>
       ELSE Emit({q \in Phases : q = p \/ (q < p /\ milestones[q] # NotStarted)}, s)
            /\ UNCHANGED <<rendered, cursor>>

\* Update: counters only grow, an event of an earlier phase renders nothing.
Update(p, event) ==
    IF finished THEN UNCHANGED viewVars ELSE
    LET s == [c \in Counters |->
                IF c \in DOMAIN event THEN Max({state[c], event[c]}) ELSE state[c]] IN
    /\ state' = s
    /\ phase' = Max({phase, p})
    /\ IF p < phase
       THEN UNCHANGED <<milestones, rendered, lines, cursor>>
       ELSE IF interactive
       THEN Render /\ UNCHANGED <<milestones, lines>>
       ELSE Emit({q \in Phases : q = p \/ (q < p /\ milestones[q] # NotStarted)}, s)
            /\ UNCHANGED <<rendered, cursor>>

\* Start, which runBenchmark calls before the engine.
Start ==
    /\ caller = "start"
    /\ caller' = "engine"
    /\ IF interactive
       THEN Render /\ loop' = "on"
       ELSE UNCHANGED <<rendered, cursor, loop>>
    /\ UNCHANGED <<phase, state, milestones, lines, interactive, finished, stop, engineVars, garbled>>

\* refreshLoop: case <-ticker.C
Refresh ==
    /\ loop = "on"
    /\ IF finished THEN UNCHANGED <<rendered, cursor>> ELSE Render
    /\ UNCHANGED <<phase, state, milestones, lines, lifeVars, engineVars, garbled>>

\* refreshLoop: case <-stop
RefreshStops ==
    /\ loop = "on"
    /\ stop
    /\ loop' = "exited"
    /\ UNCHANGED <<viewVars, interactive, finished, stop, caller, engineVars, garbled>>

\* Write, a line some dependency logs.
Diagnostic ==
    /\ caller # "start"
    /\ IF interactive /\ rendered /\ ~finished
       THEN Render /\ UNCHANGED garbled
       ELSE /\ garbled' = (garbled \/ cursor)
            /\ cursor' = FALSE
            /\ UNCHANGED rendered
    /\ UNCHANGED <<phase, state, milestones, lines, lifeVars, engineVars>>

\* Finish, called when the engine has returned.
Finish ==
    /\ caller = "engine"
    /\ stage = "end"
    /\ finished' = TRUE
    /\ caller' = "marked"
    /\ UNCHANGED <<viewVars, interactive, loop, stop, engineVars, garbled>>

\* Mutant: the refresh goroutine is not told to stop.
FinishForgetsStop ==
    /\ caller = "marked"
    /\ caller' = "waiting"
    /\ UNCHANGED <<viewVars, interactive, finished, stop, loop, engineVars, garbled>>

FinishStops ==
    /\ caller = "marked"
    /\ stop' = (loop # "off")
    /\ caller' = "waiting"
    /\ UNCHANGED <<viewVars, interactive, finished, loop, engineVars, garbled>>

\* Mutant: Finish does not wait for the refresh goroutine.
FinishAtOnce ==
    /\ caller = "waiting"
    /\ caller' = "finished"
    /\ IF interactive /\ rendered
       THEN rendered' = FALSE /\ cursor' = FALSE
       ELSE UNCHANGED <<rendered, cursor>>
    /\ UNCHANGED <<phase, state, milestones, lines, interactive, finished, loop, stop, engineVars, garbled>>

\* Finish after <-done: the newline that ends the progress line.
FinishEnds ==
    /\ caller = "waiting"
    /\ loop # "on"
    /\ caller' = "finished"
    /\ IF interactive /\ rendered
       THEN rendered' = FALSE /\ cursor' = FALSE
       ELSE UNCHANGED <<rendered, cursor>>
    /\ UNCHANGED <<phase, state, milestones, lines, interactive, finished, loop, stop, engineVars, garbled>>

-----------------------------------------------------------------------------
(***************************************************************************)
(* The engine, as far as emitProgress shows it.                            *)
(***************************************************************************)

EngineFrame == UNCHANGED <<lifeVars, garbled>>

\* runProtocolFair's event of its own before it enters a stage.
Enter(from, to, p, event) ==
    /\ caller = "engine"
    /\ stage = from
    /\ flying = {}
    /\ stage' = to
    /\ taken' = 0
    /\ done' = 0
    /\ Update(p, event)
    /\ EngineFrame

BeginGroup ==
    /\ Enter("queued", "cold", Preparing, [targets |-> 0])
    /\ UNCHANGED <<flying, dispatched, ready, rounds, exchanges, ctxDone>>

\* A phase's worker takes a job; a cancelled dispatcher hands out no more.
TakeJob(jobs) ==
    /\ taken < jobs
    /\ taken - done + Cardinality(flying) < NWorkers
    /\ taken' = taken + 1
    /\ UNCHANGED done

\* The job is done and counted (the atomic Add), its event still to be sent.
CountJob(counter) ==
    /\ done < taken
    /\ done' = done + 1
    /\ flying' = flying \cup {<<counter, done + 1>>}
    /\ UNCHANGED taken

\* The workers of prepareTargets, cold and warm.
Prepare ==
    /\ \/ stage = "cold" /\ ~ctxDone /\ TakeJob(NTargets) /\ dispatched' = dispatched + 1 /\ UNCHANGED flying
       \/ stage = "cold" /\ CountJob("cold") /\ UNCHANGED dispatched
       \/ stage = "warm" /\ TakeJob(NTargets) /\ UNCHANGED <<flying, dispatched>>
       \/ stage = "warm" /\ CountJob("targets") /\ UNCHANGED dispatched
    /\ UNCHANGED <<viewVars, stage, ready, rounds, exchanges, ctxDone>>
    /\ EngineFrame

\* The workers of probeDNSSECTargets: a cancelled probe is not counted.
Probe ==
    /\ stage = "dnssec"
    /\ \/ ~ctxDone /\ TakeJob(ready) /\ UNCHANGED flying
       \/ CountJob("dnssec")
       \/ ctxDone /\ done < taken /\ taken' = taken - 1 /\ UNCHANGED <<done, flying>>
    /\ UNCHANGED <<viewVars, stage, dispatched, ready, rounds, exchanges, ctxDone>>
    /\ EngineFrame

\* A worker's event reaches the renderer.
Deliver ==
    /\ \E e \in flying :
        /\ Update(IF stage = "dnssec" THEN DNSSEC ELSE Preparing, [c \in {e[1]} |-> e[2]])
        /\ flying' = flying \ {e}
    /\ UNCHANGED <<stage, taken, done, dispatched, ready, rounds, exchanges, ctxDone>>
    /\ EngineFrame

\* The cold barrier.  A cancelled run counts the dispatched targets one by one.
ColdBarrier ==
    /\ stage = "cold"
    /\ taken = done /\ flying = {}
    /\ taken = NTargets \/ ctxDone
    /\ stage' = IF ctxDone THEN "abort" ELSE "warm"
    /\ taken' = 0
    /\ done' = 0
    /\ UNCHANGED <<viewVars, flying, dispatched, ready, rounds, exchanges, ctxDone>>
    /\ EngineFrame

AbortDispatched ==
    /\ stage = "abort"
    /\ done < dispatched
    /\ done' = done + 1
    /\ Update(Preparing, [targets |-> done + 1])
    /\ UNCHANGED <<stage, taken, flying, dispatched, ready, rounds, exchanges, ctxDone>>
    /\ EngineFrame

\* The warm barrier: some targets are ready, and the measurement begins.
BeginMeasuring ==
    /\ ~ctxDone
    /\ stage = "warm" /\ done = NTargets
    /\ ready' \in 0..NTargets
    /\ Enter("warm", "measure", Measuring,
             [targets |-> dispatched, exchangesTotal |-> ready' * NQueries])
    /\ UNCHANGED <<flying, dispatched, rounds, exchanges, ctxDone>>

\* A round ends; a cancelled one has completed any part of its exchanges.
Round ==
    /\ stage = "measure"
    /\ rounds < NQueries
    /\ rounds' = IF ctxDone THEN NQueries ELSE rounds + 1
    /\ \E n \in (IF ctxDone THEN 0..ready ELSE {ready}) :
        /\ exchanges' = exchanges + n
        /\ IF ready > 0
           THEN Update(Measuring, [targets |-> dispatched, exchanges |-> exchanges + n])
           ELSE UNCHANGED viewVars
    /\ UNCHANGED <<stage, taken, done, flying, dispatched, ready, ctxDone>>
    /\ EngineFrame

BeginDNSSEC ==
    /\ rounds = NQueries /\ ready > 0 /\ ~ctxDone
    /\ Enter("measure", "dnssec", DNSSEC, [dnssecTotal |-> ready])
    /\ UNCHANGED <<flying, dispatched, ready, rounds, exchanges, ctxDone>>

\* The group's last event, wherever it got to.  (The DNSSEC phase is opt-in.)
CompleteGroup ==
    /\ \/ stage = "abort" /\ done = dispatched
       \/ stage = "warm" /\ done = NTargets /\ ctxDone
       \/ stage = "measure" /\ rounds = NQueries
       \/ stage = "dnssec" /\ taken = done /\ (done = ready \/ ctxDone)
    /\ ready' \in IF stage = "warm" THEN 0..NTargets ELSE {ready}
    /\ Enter(stage, "end", Complete,
             [targets |-> dispatched, exchanges |-> exchanges, exchangesTotal |-> ready' * NQueries])
    /\ UNCHANGED <<flying, dispatched, rounds, exchanges, ctxDone>>

Interrupt ==
    /\ ~ctxDone
    /\ caller = "engine"
    /\ ctxDone' = TRUE
    /\ UNCHANGED <<viewVars, lifeVars, stage, taken, done, flying, dispatched, ready, rounds,
                   exchanges, garbled>>

Over == caller = "finished" /\ UNCHANGED vars

Engine == BeginGroup \/ Prepare \/ Probe \/ Deliver \/ ColdBarrier \/ AbortDispatched
          \/ BeginMeasuring \/ Round \/ BeginDNSSEC \/ CompleteGroup

Renderer == Start \/ Finish \/ FinishStops \/ FinishEnds

Next == Renderer \/ Engine \/ Refresh \/ RefreshStops \/ Diagnostic \/ Interrupt \/ Over

Spec == Init /\ [][Next]_vars

\* runBenchmark goes on, the engine's goroutines go on, and the refresh
\* goroutine takes the closed channel: its select may prefer a tick each time,
\* but a tick comes every half second and the closed channel is always ready.
FairSpec == Spec /\ WF_vars(Renderer) /\ WF_vars(Engine) /\ WF_vars(RefreshStops)

-----------------------------------------------------------------------------
\* What is shown never runs past its total, although the halves of the
\* preparation and the phases report into one state.
CountersBounded ==
    /\ state["targets"] <= NTargets /\ state["cold"] <= NTargets
    /\ state["exchanges"] <= state["exchangesTotal"]
    /\ state["dnssec"] <= state["dnssecTotal"]

\* Types, the totals the counters stay within, and the log of a redirected run,
\* which has at most five lines for a phase whatever the order of the events
\* (comment of progressMilestoneSteps).
TypeOK ==
    /\ phase \in 0..Complete
    /\ state \in [Counters -> Nat]
    /\ CountersBounded
    /\ milestones \in [Phases -> NotStarted..Steps]
    /\ lines \in [Phases -> 0..(Steps + 1)]
    /\ loop \in {"off", "on", "exited"}
    /\ caller \in {"start", "engine", "marked", "waiting", "finished"}
    /\ stage \in {"queued", "cold", "warm", "abort", "measure", "dnssec", "end"}
    /\ {taken, done, dispatched, ready} \subseteq 0..NTargets
    /\ flying \subseteq {"cold", "targets", "dnssec"} \X (1..NTargets)
    /\ rounds \in 0..NQueries
    /\ exchanges \in 0..(NTargets * NQueries)
    /\ {interactive, rendered, finished, stop, ctxDone, cursor, garbled} \subseteq BOOLEAN

\* When no event is on its way the renderer shows the engine's own counts: an
\* event overtaken by a later one has not pulled them back.
CaughtUp ==
    /\ TypeOK
    /\ flying = {} /\ ~finished =>
        /\ stage = "cold" => state["cold"] = done
        /\ stage \in {"warm", "abort"} => state["targets"] = done
        /\ stage \in {"measure", "dnssec", "end"} => /\ state["targets"] = dispatched
                                                    /\ state["exchanges"] = exchanges
        /\ stage = "dnssec" => state["dnssec"] = done

\* After Finish nothing renders any more: the refresh goroutine has gone and
\* the terminal's line has ended.
QuietAfterFinish == caller = "finished" => loop # "on" /\ ~rendered /\ ~cursor

\* "Write keeps diagnostics emitted by dependencies from corrupting an active
\* interactive progress line" (comment of Write).
DiagnosticsApart == ~garbled

\* Finish returns, so the report comes after the progress display.
FinishReturns == finished ~> caller = "finished"
=============================================================================
