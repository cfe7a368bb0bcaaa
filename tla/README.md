# SpeeDNS in TLA+

SpeeDNS benchmarks DNS resolvers over UDP, TCP, DoT, DoH and DoQ. This
directory holds a model of it in TLA+: which endpoints a run measures, what the
measurement scheduler, the transport sessions, the report delivery and the
progress display do when goroutines interleave, peers go silent, datagrams are
late, the operator interrupts and the file system refuses, what is concluded from
the observations, and what `diff` concludes from two reports. TLC checks small
instances; TLAPS proves every safety property of the runs for every value of the
constants.

    cd tla
    tlc -config MCScheduler.cfg MCScheduler      # a run: module and cfg are in PROJECT.json
    tlapm SchedulerProofs.tla                    # the proofs: every module named ...Proofs

`PROJECT.json` lists the components, the runs, the source lines each definition
translates, the hazards each property is for and, for every property, a mutation
of the model that breaks it. Definitions commented `Mutant:` are those mutations
and take no part in the specifications.

## The program

`speedns run` goes through these parts in order; `speedns diff` uses only the
last ones.

| Component (source) | State | Operations | Interacts with |
| --- | --- | --- | --- |
| Run command (`cmd/speedns/main.go`, `runBenchmark`) | the run's context, the pending errors, the output handle | preflight, interrupt handling, engine call, writing and finalising the report, exit status | signals, file system, every part below |
| Selection (`runBenchmark`, `loadProfiles`) | profiles of four sources, available families, targets | load, validate, detect, filter, classify, expand, check assertions | files, interface inventory; hands targets to the engine |
| System resolver discovery (`internal/systemdns`) | none | `Discover` for each platform | scutil, adapters, resolv.conf |
| Catalog and families (`internal/catalog`) | none | `Validate`, `ParseResolverFlag`, `FilterProfilesByFamily`, `Expand` | called by the selection |
| Cache groups (`main.go`, `cacheMissTargets`) | union-find over the profiles | merge profiles that share a cache, keep one endpoint of each | filters the targets of a cache-miss run |
| Domain corpus (`internal/domains`) | none | load, normalise, generate names | hands names to the engine |
| Scheduler (`internal/benchmark`) | groups, phases, work channels, one `targetRunner` per target | `Run`, `runProtocolFair`, `prepareTargets`, `runQueryRound`, `probeDNSSECTargets`, `abort` | opens, queries and closes sessions; emits progress events |
| Stream and DoQ sessions (`internal/transport`) | connection, sticky start of the dial plan, reconnect flag, closed | `Open`, `Query` (reconnects by itself), `Close` | the network |
| DoH sessions (`internal/transport`) | connections, pending connection, counters, closed | `Open`, `Query`, `Close`, the dial hook | `net/http`, which calls back on goroutines of its own |
| UDP sessions and validation (`internal/transport`) | the resolved peer; a socket and a deadline per query | `Open`, `Query` (skips replies with another ID) | the network |
| Statistics, rankings, divergence (`internal/benchmark`) | none: functions of the observations | divergence, percentiles, scores, bootstrap intervals, ties, paired effects, warnings | fill the report |
| Progress renderer (`main.go`) | per-protocol state, milestones, refresh goroutine, what stands on the terminal | `Start`, `Update`, `Write`, `Finish` | workers' events, diagnostics |
| Assertions (`assertions.go`) | none | refuse names nothing measures; judge the report | exit status |
| Diff (`diff.go`, `internal/compare`) | two reports | load, gate, compare, require, emit | exit status |
| Report writers (`internal/report`) | none | compact warnings, table, JSON, CSV | output handle |

A UDP query never falls back to TCP: a truncated reply is a failed sample.

What is hard in it, and what makes each part correct:

* **Scheduler.** A pool of goroutines, three kinds of phases with barriers, an
  unbuffered channel whose dispatcher also watches the context, and an interrupt
  that is looked at in a dozen places. Correct means: a session has one user at a
  time, targets of a group are measured in step, a group is reported whole or
  incomplete as a whole, every session is closed, and `Run` returns.
* **Stream and DoQ sessions.** A reconnect shares its query's deadline, so where
  it starts decides whether one silent address starves every later query.
  Correct means: reconnects stick to the address that worked, move on when the
  deadline passes there, visit all addresses, and the reconnect flag is honest.
* **DoH sessions.** `net/http` finishes dials after the request that started
  them, or after `Close`. Correct means: every connection always has an owner who
  will close it, and the counter behind the reconnect flag counts the right ones.
* **Report delivery.** Temporary file, sync, chmod, rename, directory sync, or a
  copy where renaming is refused; each can fail, and the process can be killed
  between any two. Correct means: old report or new report, never part of one,
  and an exit status that tells the truth about delivery.
* **UDP sessions.** Every query reads from a socket of its own, but ports and IDs
  come again and late answers wander. Correct means: a message counted for a query
  answers it, and strays cannot keep a query waiting.
* **Progress.** Events overtake each other; a refresh goroutine races `Finish`.
* **Selection.** Sources are trusted differently, filters look at one thing and
  transports dial another, groups are made of all profiles and applied to what is
  left. Correct means: what is dialled is of the family asked for, no endpoint goes
  without a reason the operator can see, and one endpoint for each cache.
* **Conclusions.** A response counts or not by what other resolvers answered, by a
  reconnect and by its own outcome; rankings tie; summaries share out endpoints.
  Correct means: like is compared with like, every observation has one use, every
  diagnosis is told once, a condition passes on evidence only.
* **Diff.** Two reports differ in any combination of presence, locality,
  interruption and size. Correct means: no target is passed over, one response is
  noise, and the exit status is honest.

`PROJECT.json` lists the same as hazards, each at its line, including those no
property covers yet.

## The modules

| Module | Models | Kind |
| --- | --- | --- |
| `Scheduler` | `Run`, `runProtocolFair`, `prepareTargets`, `runQueryRound`, `targetRunner`, `probeDNSSECTargets` | component |
| `BenchmarkRun` | what `Run` promises its caller | abstract specification |
| `SchedulerRefinement` | the refinement mapping, `ImplementsContract` | refinement |
| `SchedulerInvariant` | the inductive invariants `IInv` and `SInv` | invariant |
| `SchedulerProofs` | its theorems, with the refinement | proofs |
| `MCScheduler` | instance for TLC | model checking |
| `Reconnect` | `dialPlan`, `stickyReopen`, `streamSession`, `doqFactory.open`, `doqSession` | component |
| `ReconnectProofs` | its inductive invariant and theorems | proofs |
| `DoHSession` | `doHFactory`, `doHSession`, `doHConn` over `net/http` | component |
| `RunCommand` | `runBenchmark`, `interruptContext`, `preflightOutput`, `outputWriter` and its finalisers | component |
| `RunCommandProofs` | its inductive invariant and theorems | proofs |
| `UDPExchange` | `udpFactory.Open`, `udpSession.Query`, `validateResponse` | component |
| `SessionProofs` | the inductive invariants and theorems of `DoHSession` and `UDPExchange` | proofs |
| `Progress` | `progressRenderer` and the events of `emitProgress` | component |
| `ProgressProofs` | its inductive invariant and theorems | proofs |
| `Analysis` | the end of `Run`: divergence, statistics, rankings, paired effects | component |
| `Verdicts` | `collectWarnings`, `compactWarnings`, assertions; extends `Analysis` | composition |
| `VerdictsProofs` | the inductive invariant and theorems of `Analysis` and `Verdicts` | proofs |
| `MCVerdicts` | runs of one to three targets for TLC | model checking |
| `SystemResolvers` | `Discover` | component |
| `Catalog` | `Validate`, `ParseResolverFlag`, `FilterProfilesByFamily`, `Expand`, `CacheKeys`; extends `SystemResolvers` | component |
| `CacheGroups` | `cacheGroups`, `cacheMissTargets`, `cacheMissPrefers` | component |
| `Selection` | `runBenchmark` up to the first query; extends `Catalog` and `CacheGroups` | composition |
| `SelectionProofs` | the inductive invariants and theorems of `CacheGroups` and of `Selection` | proofs |
| `MCSelection` | command lines and hosts for TLC | model checking |
| `Diff` | `runDiff`, `Gate`, `Compare`, `Conditions`, `Require` | component |
| `DiffProofs` | its step invariant and theorems | proofs |
| `MCDiff` | pairs of reports for TLC | model checking |

A run passes through `Selection`, then `RunCommand`, whose engine call is
`Scheduler` on one side and `Progress` on the other; sessions are `Reconnect`,
`DoHSession` and `UDPExchange`; the observations go through `Analysis` and
`Verdicts`, and the report on disk is one of the two that `Diff` reads. What one
part hands to the next is the interface between the modules:

* a session is one worker's at a time (`SessionExclusive`), so the session modules
  may assume calls that follow each other;
* a complete target has an observation of every query, an incomplete one those of
  the rounds it got through, and the targets of a group that was cut off are at
  most one round apart (`CompleteMeansAll`, `AllOrNothing`, `InStep`): the initial
  states of `Analysis` are these results;
* `RunCommand` sees of the engine only the report and error it returns, which
  `BenchmarkRun` describes;
* the counts of a result in `Diff` fit together as `Analysis` makes them: what
  `DiffAssumption` asks of them is the theorem `StatisticsFit`.

### Scheduler

`stage` is where the goroutine of `Run` stands; `todo`, `dpc` are the work
channel and the dispatcher; `wpc`, `wjob` are the workers; the variables indexed
by target are the fields of `targetRunner` and its result. A worker's network
call is the time between two of its steps: `coldOpen`, `warmQuery` and so on are
the places where it waits, and the step out of them is the return, with the
context read where the code reads it after the call. A `select` between a waiting
worker and a done context is two actions enabled together. `Abort` is
`targetRunner.abort`, `FailOpen` the synthetic observations of a session that
cannot be opened. Left out: observations' contents, and the order of results
within a group (results are put at their index, whatever the schedule).

`BenchmarkRun` knows no workers: groups are taken in order, each report is
*whole* (all measured or failed to open) or, after an interrupt, *cut* (all
incomplete or failed to open), and `Run` returns. A group may end whole although
the interrupt has come: the code's last look at the context is before it collects
the results.

### Reconnect

One module for TCP, DoT and DoQ, which share the dial plan and differ in where a
hostname is resolved. `hostname` chooses between N bootstrap literals, each a
candidate, and one hostname candidate that resolves to N addresses. `start` is
`stickyReopen`'s variable, `reached` is `doqFactory`'s; both are moved on by
`After` when a deadline passes. `net` says how each peer answers now and changes
under the session: it answers, accepts and fails the TLS handshake (`halfUp`),
refuses, or stays silent. `Lives` and `Expires` are the two ways a failing attempt
ends: the caller's context has time left, or not. A refusal or a late answer can
use up the rest of a deadline, so a reachable address that is not dialled first
may still fail.

### DoHSession

The session's methods run on the worker; each dial is a goroutine of `net/http`.
The actions under the heading *net/http* are external: a request takes a pooled
connection or starts a dial and waits; whatever connection becomes usable first
serves it; the dial it started goes on without it. These are the behaviours the
session's own comments rely on (`transport.go:908`). `HadToOpen` is the
documented meaning of the reconnect flag, `FlagTellsOfDials` what the code does.

### UDPExchange

One action for each way a query's loop goes on: `Skip`, `Reject`, `Accept` and
`Expire`, after `Send` or `SendFails`. A reply in flight is the query it was made
for and a shape; whether it is foreign or answers another question follows from
what the two queries asked. IDs and ports may be drawn again, which is what makes a
late reply dangerous. The order of the checks is the code's, so a reply that does
not unpack, or is signed, fails a query even if it belongs to another.

### RunCommand

One action per file-system call. `disk` is the set of contents a power failure
could leave behind, so a missing sync is visible: a rename adds the new report
only if the temporary file was synced, and the old one remains possible until the
directory is synced. A kill is a signal under the default disposition, possible
before the handler is registered and after `stopSignals`; nothing in the process
runs after it, so every invariant on `dest`, `disk` and `temp` is a statement
about what a kill at that point leaves.

### Progress

One protocol group's events against the renderer's mutex: a worker counts a job
and delivers its event in two steps, so events overtake each other. The terminal
is reduced to whether a progress line stands on it.

### Analysis and Verdicts

`Analysis` is the tail of `Run`: four actions, one for each pass over the results.
Initial states are the results the scheduler can return: every combination of a
few kinds of observation, with a group cut short or a target unopened. Arithmetic
is exact: latencies are small integers, percentiles are in twentieths, scores in a
common unit (`Scale`) that every division in an instance leaves whole, so the
properties are about the algorithm and not about floating point. The seeded
replicates of `bootstrapCI` are replaced by all draws and its interval by their
range; `ReplicateIsResample` is about the single replicate, which the code computes
from rank counts instead of from a resample. Left out are the figures that only
fill the report: minima, deviations, cold medians, response-code counts.

Nothing is sorted or folded step by step. A sample is a function from queries to
integers, with gaps where an observation is left out: no figure depends on places being
closed up. A value's `Position` is the number of values before it, equal ones in the
order of their indices, which is its rank in `rankValues`; `Sorted` inverts it,
`CountedValue` is where the walk of `countedValues` over the counts stops, and `InOrder`
is `sort.Slice` by keys and ID. The mutants of these definitions are off by one, keep
one class of a tie or leave out a key, and TLC tells them from the definitions.

`Verdicts` adds what a reader is told: the warnings of each target, the lines the
table makes of them, and one `--assert` condition. Conditions are independent, so
one stands for any number.

Two assumptions describe an instance. `AnalysisAssumption`: a run asks at least one
query, every target has a policy, an observation is one `measure` can make, and `Scale`
is divisible by every number of samples. `ConditionAssumption`: a condition names
targets of the run and a winner condition at least one, because
`validateAssertionTargets` has refused all others.

### SystemResolvers, Catalog and Selection

Operators of the first two modules are the functions of their packages; `Selection`
is the part of `runBenchmark` that calls them, one action per step, each of which
may refuse the run. An address is its canonical key with a family and a scope; the
checks on one text, URL or port are the flag `wellFormed`; a zone, a label and
redaction are left out. One thing about spelling stays, because it decides something: a
file may write a literal in brackets, which validation, the filter and the dialler take
off and `classifyLocalResolvers` does not (`Bracketed`, `Parsed`). The interface inventory is read twice, by
`detectAddressFamilies` and by `hostOwnAddresses`, and the two readings are separate
inputs, because the host may change in between. What a filter leaves of a list keeps
its places, as a function with gaps: no later step depends on places being closed up,
and an endpoint is known by its declared place throughout. `Group` runs the actions of
`CacheGroups` on the profiles of this run.

Two assumptions describe the instance. `BundledAssumption`: the embedded catalog is
valid and gives no `bootstrap_addresses`, as in `data/resolvers.yaml` (a test of the
package loads it). `InputAssumption`: what a file, a flag or a discovery yields is a list
of profiles, valid or not; the family is one of the four that flag parsing accepts; and
for a cache-miss run `NProfiles` and `NEndpoints` are those of its profiles.

### CacheGroups

The loops of `cacheGroups`, one assignment at a time: `find` walks parents by
`Find`, for the key's owner first and then for the profile. By itself the module
starts from any assignment of non-empty key sets and any selected endpoints, which
is what the proofs are about; `Selection` starts it from the profiles of a run. `rep`
is a history variable: the profile `find` would end at. Each target is a profile
and a place in its documented order, and the loop over the targets may take them in
any order, of which the one of `catalog.Expand` is one.

### Diff

`Load`, `CompareReports`, `Require` and `Emit` are the steps of `runDiff`, and
`ExitCode` is what a delivered diff exits with. The
initial states are pairs of reports the run command can have written: counts that
fit together, and the status `resultStatus` derives from them. `readable` stands for
all that `Load` checks in a file; the comparability contract is a record of fields
that must match, two of them in the instance.

`HonestExit` says of the two reports, not of `Compare`'s findings, what each status
means: 4, that the runs asked the same and something a required condition forbids
happened; 0, that they asked the same and nothing of the kind did, over at least one
compared target if anything was required; 3, that they did not ask the same, or that
conditions were required, no target was compared and none of the conditions is broken
all the same. So a failed condition is never hidden by one that could not be evaluated.
`no-behaviour-change` forbids every kind of finding. A changed qualification needs no
clause of its own: it is a finding only together with a moved count or an outcome of
opening or answering (`StatusMeans`).

## The runs

| Run | Instance | States | Shows |
| --- | --- | --- | --- |
| `scheduler` | groups {1,2,3} and {4}, 2 workers, 2 queries, 2 cold probes, 2 warm-ups, DNSSEC, fair | 28,032 | `SessionExclusive`, targets in step, complete means all, a group whole or cut, sessions open while used, what an interrupt stops and marks, and the refinement of `BenchmarkRun` with its fairness |
| `reconnect` | 3 addresses, 3 network events, fair | 243,094 | stickiness, rotation, honest flag, no leaked socket, recovery |
| `doh_session` | 3 dials besides Open's, 4 queries, fair | 61,457 | ownership, connection accounting, release after `Close` |
| `doh_flag` | as above | - | finding 1 |
| `run_command` | 2 signals, every kind of destination | 10,103 | old or new, truthful status, nothing lost, nothing left |
| `second_interrupt` | as above | - | finding 2 |
| `progress` | 5 targets, 2 rounds, 3 workers, fair | 4,914 | counters that catch up, quiet terminal, `Finish` returns |
| `progress_diagnostics` | as above | - | finding 3 |
| `selection` | 4,248 command lines and hosts, 1 to 3 profiles | 78,159 | the family dialled, every endpoint accounted for, groups are the caches, one preferred endpoint of each |
| `udp` | 2 queries, 2 IDs, ports and questions, 2 replies in flight, 2 ticks, fair | 183,627 | a counted message answers its query; every query ends |
| `analysis` | 6 kinds of runs of 1 to 3 targets | 358,395 | like with like, replicates are resamples, rankings, one line for each diagnosis, no pass without evidence |
| `diff` | every pair of results at 4 queries, odd pairs, runs that differ | 338,046 | every target accounted for, one response is noise, honest exit status |

### Why these bounds are enough

* A group wider than the pool makes the dispatcher wait for a worker, so an
  interrupt can leave targets undispatched; a second group can be skipped. Two of
  everything counted by a loop (queries, cold probes, warm-ups) gives a first, a
  next and a last iteration. More workers than two add no new pair of racing
  workers. The proofs remove the bounds for the properties they cover.
* Three addresses tell "the next one" from "the other one": with two, moving on
  from the wrong list (the mutant of `EveryAddressHasItsTurn`) can go unnoticed.
  Three network events let the connection die, an address fall silent and another
  come back within one session. `MaxEvents` bounds only the environment; the
  session itself runs on for ever.
* A misattributed DoH dial needs a dial left over from one query, a second
  connection in the pool, and a later query; 3 dials and 4 queries leave room for
  two such dials to overlap. `net/http` is not made to stop at the bound: past it a
  request only waits, as for a dial that does not finish.
* Two signals are the first interrupt and the second; all further ones do what the
  second does. Every kind of destination, one change of it during the benchmark,
  and every possible failure of every call are included.
* Five targets against four milestone steps make a step skip a target; three
  workers let an event be overtaken by two others.
* Two UDP queries, two IDs, ports and questions: the later query can share any of
  them with the earlier one. Two replies in flight allow a repeated and a late one;
  two ticks leave a query some time and then none. `MaxFlight` bounds the network
  only, which may refill it for ever.
* Analysis: one target with three or four queries for percentiles that interpolate
  and draws that repeat; two targets with two queries and all seven kinds of
  observation for divergence against reconnects and failures; three for ties, for
  majorities and for summaries that share a protocol in part. `MinimumSamples` is
  2 instead of 20, so that qualification is reached and missed.
* Selection: one bundled profile of both families, at most two from a file, one flag
  and one host chosen from fourteen of all platforms. Three profiles give a chain
  through a third, in every declared order; `NEndpoints` = 10 is five protocols times
  two addresses. Command lines that must be refused are inputs, too.
* Diff: four queries under a floor of two responses, every pair of results whose
  counts fit together, and every pair of the odd ones (incomplete, local, unopened,
  silent, with each verdict) alone, next to a second target, or under a redacted
  name. Each condition is required alone, and two of them together, so that one can fail
  where the other has nothing to go by. Counts large enough for the one percent floor are not in the instance.

### Fairness

* Scheduler: each goroutine keeps running and each network call returns, because
  every `Open` and `Query` runs under `opts.Timeout`. Weak fairness per worker and
  for the controlling goroutine; none for the interrupt, and none for the choice
  inside a `select`, which is not needed.
* Reconnect: a call in progress ends (deadlines), and the benchmark asks again while
  the session is open. The network owes nothing; its events are bounded, so it settles.
* DoHSession: `Close` runs to its end and each dial goroutine runs. A dial has a finite
  list of candidates with timeouts, which the model does not count, so strong
  fairness says that it gives up rather than trying candidates for ever.
* UDPExchange: time passes and a read whose deadline has passed returns. Nothing is
  assumed of the network or the server.
* Progress: `runBenchmark`, the engine and the refresh goroutine go on. The refresh
  goroutine's `select` may prefer a tick to the closed channel every time both are
  ready, but a tick comes twice a second and the closed channel is always ready.
* CacheGroups and Selection have no liveness property; `find` ends because parents are
  never later than their children, which `TypeOK` states. Analysis, Verdicts and Diff
  are finite sequences of steps.
* RunCommand has no liveness property: writing to a pipe may block as long as its
  reader likes.

## What is proved

Every theorem is about a specification with its constants left open. What it assumes
of them is the module's `...Assumption`, which TLC evaluates in the runs: numbers that
are natural, sets that are not empty, runs and conditions the program can have, and
reports whose counts fit together. Each module of proofs has one inductive invariant, or two, made of named
parts; TLC checked each on the run's instance before it was proved.

### Scheduler

For every number of groups, every partition of targets into non-empty disjoint groups,
every pool size and every number of queries, cold probes and warm-ups:

| Theorem | States |
| --- | --- |
| `Invariant`, `Samples` | `Spec => []IInv`, `Spec => []SInv` |
| `TypeCorrect` | `Spec => []TypeOK` |
| `Exclusive` | `Spec => []SessionExclusive` |
| `WholeOrCut` | `Spec => []AllOrNothing` |
| `OnlyInterruptsCut` | `Spec => []IncompleteMeansInterrupted` |
| `SessionsHeld` | `Spec => []SessionsOpenWhileUsed` |
| `NothingMissing` | `Spec => []CompleteMeansAll` |
| `RoundsInStep` | `Spec => []InStep` |
| `QuietOnceInterrupted` | `Spec => NoNewWorkAfterInterrupt` |
| `Implements` | `Spec => Contract!Spec`, the safety part of the refinement |

`AllOrNothing` is not inductive: whether the targets of a group share one fate when
it is reported depends on which of them ever reached a worker and in what state.
`IInv` adds what the argument needs:

* `PoolInv`: outside a phase the pool is joined; a busy worker's job belongs to the
  phase, is no longer in the channel and is nobody else's (this contains
  `SessionExclusive`).
* `GroupInv`: which targets are dispatched and which are reported; only a cancelled
  dispatcher leaves some behind, so a group that was not fully dispatched has
  `ctxDone`.
* `StatusInv`: a runner's flags agree; a worker in a preparation phase holds a
  runner that has not ended.
* `FreshInv`: a target no worker was given is untouched.
* `SettledInv`: after the warm phase a dispatched target is ready or finished; at the
  end of a group its targets share one fate. `FinishGroup` is where it is
  established: it aborts what is ready when the context is done, and if it is
  not, no target can be incomplete.

The thirteen steps a worker takes inside a job are first reduced to one relation
(`JobStep => Summary`), then each part of the invariant is shown once for that
relation and once for each of the other steps. The refinement follows: a worker's
step changes nothing the contract sees, because no reported target has a worker
(`JobStutters`); each step of the controller maps to a contract step or a stutter.

`SInv` stands on `IInv` and carries what a report says of its samples. The number of
samples of a live target follows from where its round is (`SampleInv`): `round`, or
one less while the target is still in the channel or in a worker's hands. A phase that
ends without a done context has served everybody (`ColdInv`, `VerdictInv`), a runner
that became ready keeps its session until the results are collected (`SessionInv`),
and `CompleteInv` is what is left of all that when the group is reported.

### Sessions

| Module, for any number of | Theorem | States |
| --- | --- | --- |
| `ReconnectProofs`, addresses | `ReconnectInvariant` | `Spec => []RInv` |
| | `NoSocketIsLost` | `Spec => []NoSocketLeak` |
| | `ReconnectFlagHonest` | `Spec => []ReconnectSampleIsHonest` |
| | `ReconnectsStick` | `Spec => []Sticky` |
| | `RotationIsComplete` | `Spec => []EveryAddressHasItsTurn` |
| `SessionProofs`, dials and queries | `NoneEscapes` | `Spec => []EveryConnectionOwned` |
| | `FlagHonest` | `Spec => []FlagTellsOfDials` |
| `SessionProofs`, UDP queries, ports, IDs, replies | `CountedRepliesAnswer` | `UDPSpec => []AnswersItsQuery` |

* `RInv`. A session of literal candidates begins a reconnect at `start`, one with a
  hostname at `reached`; `Aim` is the one that counts, and the argument is about it.
  `AimInv` says that a reconnect in progress has dialled nothing yet, or `Aim` first;
  so a deadline that passes moves `Aim` on by exactly one. `TriedInv` is the rotation:
  the addresses tried since the last connection are those that lead up to `Aim`, one
  after the other. N of them in a row are all there are (an argument about distances in
  a circle of N), and with none `Aim` is where the session was last. `PhaseInv` ties socket, connection and
  call together.
* `DInv`. `given` records who handed which connection to `net/http`. `Given`: Open's
  pending connection goes to one dial at most and any other only to its own dial.
  `Counted`: the counter is bounded by the dials that handed over their own, so it fits
  its type without a guard. `Flagged`: while a query is asking, the counter has moved
  exactly if a connection was recorded since.
* `UInv` is the property itself, with the remark that a reply under way was made for a
  query that has been asked.

### Report delivery and progress

| Module, for any number of | Theorem | States |
| --- | --- | --- |
| `RunCommandProofs`, signals | `ReportInvariant` | `Spec => []CInv` |
| | `AtomicReplacement` | `Spec => []OldOrNew` |
| | `StatusHonest` | `Spec => []StatusMeansDelivered` |
| | `CopyKeepsReport` | `Spec => []FinishedReportKept` |
| | `NothingLeftBehind` | `Spec => []NoLitter` |
| `ProgressProofs`, targets, rounds, workers | `ProgressInvariant` | `Spec => []PInv` |
| | `ShowsTheCounts` | `Spec => []CaughtUp` |
| | `FinishIsQuiet` | `Spec => []QuietAfterFinish` |

* `CInv` says, for each place of the run, how far the report has come: `ReportInv` for
  destination, disk and temporary file, `EndInv` for what each exit status stands for,
  `LitterInv` for where a temporary file may be. The rename is safe because a report
  that reaches it is complete and synced; the disk is that of the destination or the new
  one from then on.
* `PInv`. Events overtake each other, so what the renderer knows is only bounded by the
  engine's counts. `FlyingInv` is the point: the event with a phase's latest count has
  arrived, or it is on its way, and no event claims more; since the renderer keeps the
  maximum, it is right when nothing flies. `LifeInv` has the refresh goroutine's part.

### Selection and cache groups

For every catalog, command line and host, every number of profiles, addresses and keys,
all properties of the run `selection`:

| Theorem | States |
| --- | --- |
| `Invariant` | `Spec => []IInv` |
| `TypeCorrect` | `Spec => []TypeOK` |
| `GroupsFound` | `Spec => []GroupsAreCaches` |
| `OnePerCache` | `Spec => []OneEndpointPerCache` |
| `SelectionInvariant` | `SelectionSpec => []SInv` |
| `SelectionGroups` | `SelectionSpec => [](TypeOK /\ GroupsAreCaches /\ OneEndpointPerCache)` |
| `Family` | `SelectionSpec => []FamilyHonoured` |
| `MeasuredOnce` | `SelectionSpec => []ResolverMeasuredOnce` |
| `Accounted` | `SelectionSpec => []EndpointsAccounted` |

The first four are about `CacheGroups` alone. "A chain of shared keys links i and j" is
said without recursion: every labelling
that gives one label to profiles with a common key gives one to i and j. So one
half of `GroupsFound` is an invariant over all labellings (`Sound`: no more is merged
than is linked), and for the other half `rep` itself is the labelling to look at
(`Complete`: the profiles seen with a key are in one tree). `Forest` says where
`find` ends without following parents, `Picked` what the selection loop has kept of
the targets seen so far; a new target displaces the kept one exactly when it is
preferred, because the preference is a strict total order.

`SInv` is `IInv` with what `runBenchmark` has decided at each step: the profiles are the
normalized ones of the input (`SourcesRead`), of each profile that is left the filter has
left exactly what it should (`FamilyFiltered`), the rows are all rows of these, or those
of them that were kept, with the others told (`TargetsExpanded`), and `CacheGroups` is
started from its own initial state on the declared profiles and handed all rows
(`GroupsCalled`), so that `IInv` holds from there on. `ReasonsTold` is the part that is
easily lost: if auto took an address away, fewer are left, and the difference of the two
counts is a warning (`FewerAddresses`, about finite sets). Then

* `Family`: a candidate or address left by the filter was allowed (`KeptAddress`,
  `KeptCandidate`); hostnames cannot be among them under 4 and 6.
* `MeasuredOnce`: two rows of a run have two places, because identifiers and addresses
  are unique in a checked list (`PlacesDiffer`); two places that were both kept are not
  linked, or each would be preferred to the other; so some labelling tells them
  apart, and the profiles with the first one's label are the group that separates them.
* `Accounted`: what the filter had no reason to drop stays (`Stays`) and becomes a row;
  a row that was not kept has a kept one with the same root.

### Analysis and Verdicts

For any runs, that is any number of targets, protocols, policies and queries and any
kinds of observation, any conditions, any timeout and any threshold of samples, all
properties of the run `analysis`:

| Theorem | States |
| --- | --- |
| `VerdictsInvariant` | `Spec => []VInv` |
| `SampleIsFair` | `Spec => []FairSample` |
| `ReplicatesAreResamples` | `Spec => []ReplicateIsResample` |
| `RankingIsFair` | `Spec => []FairRanking` |
| `LossesToldOnce` | `Spec => []ToldOnce` |
| `PassesOnEvidence` | `Spec => []PassNeedsEvidence` |
| `StatisticsFit` | `Spec => []CountsFit` |

`VInv` says that what a pass has written is still what it would write: flags and details
those of `Marked`, statistics of `Counted`, rankings of `Placed`, effects of `Paired`,
lines of `Told`, reasons of `Judged`. It needs an argument because `markDivergence`
changes the results it reads: `Marked` is restated in terms of the comparison group of
one observation (`MarkedTargets`), which the flags do not change. The theorems then
follow from what the passes compute.

* Sorting without induction. In a finite ordered set each element has a place, no two
  the same, and every place is taken (`Places`, by counting: the elements below are
  fewer than all, and the places are as many as the elements). `Positions`, `SortedSample`
  and `InOrderLists` are this lemma for samples and for rankings; `BeforeIsOrder` shows
  that comparing by keys, first difference first and ID last, is such an order.
* `ReplicatesAreResamples`. The running total of the counts up to a rank is the number of
  draws that hit a value of that rank or less (`RunningTotal`). So the rank where the walk
  stops for position k is the one below which at most k and up to which more than k draws
  lie, and the value there is the one at position k of the drawn values
  (`CountedValueIsSorted`), although equal values have ranks of their own and a rank may
  be drawn often or never. Percentiles, penalty and score are then the same.
* `SampleIsFair`. `Partition`: scored, penalised and left out are disjoint and all there
  is. `StrictMajority`: an observation that is scored was not divergent, so its class is
  the only one of the largest count in its group.
* `RankingIsFair`. An interval is not empty (`IntervalOrdered`), so the leader overlaps
  with itself and is in its tie. `RankingLists`: a ranking lists each comparable target
  once, tie first. A better target has the smaller key (`BetterKey`), and the first in
  order has the smallest first key (`FirstInOrder`), which makes the target ranked first
  the reference (`ReferenceFirst`); protocols share no target, so effects cannot mix.
* `LossesToldOnce`. The joint lines do not overlap (`JointOnce`), and an endpoint that is
  in none has a line exactly if it has a diagnosis (`LinesOnce`); every loss makes a
  diagnosis (`LossDiagnosed`), an endpoint without one is in no joint line
  (`NothingToTell`).
* `PassesOnEvidence`. No reasons means that no protocol is dead, that no subject is
  without scored samples and that there are winners; counts that are not zero have an
  observation behind them (`EvidenceCounts`), and winners are ranked, so comparable.
* `StatisticsFit` is what `Diff` assumes of a result, said of the statistics: usable,
  refused and truncated responses are disjoint sets of queries, and a target that was
  not cut off has an observation of each, also if its session could not be opened.

### Diff

For any pair of reports, any `--require` and any number of queries, also those for
which one percent is more than two responses:

| Theorem | States |
| --- | --- |
| `DiffInvariant` | `Spec => []StepInv` |
| `EveryTargetIsAccounted` | `Spec => []EveryTargetAccounted` |
| `NoiseIsNoFinding` | `Spec => []OneResponseIsNoise` |
| `ExitStatusHonest` | `Spec => []HonestExit` |

`StepInv` says what each step of `runDiff` has at hand: nothing, or `Compare`'s result
for the two reports, or a status that follows from it. The rest is about `Compare`.
`FindingCases` lists the ways a finding comes about, and each theorem goes through
them: a count that moved by one is below a floor of two (`CloseIsQuiet`), the
floor is reached exactly by two responses and one percent (`FloorMeans`,
`CountMeans`), so a target has a finding exactly when an outcome of it changed
(`FindingMeansChange`, `ChangeMeansFinding`), and each condition passes exactly when
what it forbids has not happened (`FailingTargets`, `TargetSets`, `Regressions`,
`BehaviourChanges`). That a target compared was asked all its questions in both runs
(`ComparedResults`) is why counts on different bases never hide a regression.

### Only model-checked

* Liveness and what rests on fairness: `InterruptMarksGroup`, `Recovers`,
  `EveryQueryEnds`, `CloseReleasesAll`, `FinishReturns`, and the fairness part of the
  refinement. The provers know no `ENABLED`.
* The three violations, of course: they are traces.

## Findings

All three are differences between what a comment or document says and what the code
does in a rare schedule.

1. **A DoH query can be taken for a reconnect it did not make** (`doh_flag`).
   `endQuery` compares a count of recorded connections before and after the query. In
   the trace two queries time out while their dials are still under way, and a third
   one, served by the connection `Open` made, sees one of those dials recorded. A
   likelier schedule: a dial hangs in its handshake until its query times out, the
   next query dials anew and leaves its connection in the pool, and the query after
   it runs on that one while the first dial is recorded. Its sample is reported as a
   reconnect, against the comment of `LastQueryReconnected` and METHODOLOGY.
2. **A second interrupt can be swallowed** (`second_interrupt`). The handler goroutine
   releases the registration after it has received the first signal. A second signal
   sent in between lands in the channel, which nobody reads again.
3. **A diagnostic can land on the progress line** (`progress_diagnostics`). `Finish`
   marks the renderer finished, releases the mutex, waits for the refresh goroutine
   and only then ends the line; `Write` takes its raw path in between.

One more difference was met while modelling and has no run of its own. A resolver file
may write `"[::1]"`; it is valid and it is dialled, but `classifyLocalResolvers`
(main.go:819) parses the text with its brackets, fails and skips it. So a resolver on
the measuring host is ranked with remote ones, against METHODOLOGY.md:194.
`Parsed` models this; the instance has such a file.

Rough edges that contradict no promise:

* `cacheMissTargets` links profiles by addresses and TLS names, not by
  `bootstrap_addresses`, so two profiles whose transports dial one literal are two
  caches. `classifyLocalResolvers` looks at profile addresses only as well: an
  encrypted transport whose candidates are on this host is ranked.
* A resolver with a private address listed before one on this host is both local and
  reported as reached over the network.
* `sanitizeAddress` maps `fe80::1%a` and `fe80::1:a` to one identifier; a host that
  lists both is refused.
* A winner condition is judged against the ranked protocols only; a protocol without a
  ranking is skipped, unless it is dead.
* In a comparison by `diff`, a redacted target is never missing, so
  `no-removed-targets` can pass although one went. And one lost datagram is a finding
  after all when it was the only response (`FAILED` has no floor, findings.go:48).
* A flip of the qualification is held back as boundary crossing also when the usable
  count did not change at all.

## Not modelled

* Formatting: report writers apart from the compact warnings, diff rendering, text
  helpers, terminal widths. They keep no state.
* Decoding: flags, YAML, JSON reports, `scutil` output, the domain corpus. What could
  be wrong in them is in the spelling of one text, below the level of the model; the
  outcomes, refusal or a value, are inputs of `Selection` and `Diff`.
* The generator of the bootstrap's draws, floating point and rounding: the model has
  all draws and exact numbers.
* `assessDNSSEC`, a table over two answers.
* Figures that only fill the report (minima, deviations, cold medians, counts by code).

## Plan

Written, most important first: the scheduler and its contract, the three kinds of
sessions, report delivery, progress, the cache groups, the selection of what is
measured, the conclusions from the observations, and diff; with proofs of all safety
and action properties of their runs. What could come next, in the order of worth:

1. The safety half of `InterruptMarksGroup` as an invariant, with a history variable for
   the targets an interrupt found, so that only its progress rests on fairness.
2. The text-level parts listed above, if a defect in one of them is ever found.
