------------------------------ MODULE Analysis ------------------------------
(***************************************************************************)
(* What the engine makes of a run's observations (internal/benchmark, the  *)
(* end of Run): divergent responses are excluded, statistics and scores    *)
(* counted, the targets of each protocol ranked and paired with the        *)
(* winner.                                                                 *)
(*                                                                         *)
(* An initial state is a result runProtocol can return: a target has an    *)
(* observation of every query, those made before an interrupt if one cut   *)
(* its group, in the midst of a round perhaps, or a failure for every      *)
(* query if no session could be opened (Scheduler, BenchmarkRun). A target stands for its ID, whose     *)
(* order is that of the numbers; a query is its position.                  *)
(*                                                                         *)
(* Arithmetic is exact, rounding is abstracted: percentiles are in         *)
(* twentieths of a millisecond, scores in hundredths times Scale, which is *)
(* divisible by every number of samples. The seeded replicates of the      *)
(* bootstrap are replaced by all possible draws and its interval by their  *)
(* range, which is what 1,000 replicates give for two samples.             *)
(***************************************************************************)
EXTENDS Integers, Sequences, FiniteSets, TLC, SequencesExt, FiniteSetsExt

CONSTANTS
    Cohorts,       \* what runs there are, see Cohort
    Timeout,       \* a query's budget, in milliseconds
    Scale,
    MinimumSamples \* MinimumRecommendedSamples, 20 in the code

Classes == {"answer", "nodata", "nxdomain"}

\* The fields of an observation. measure sets a class for every message that is
\* not truncated, and calls NOERROR and NXDOMAIN usable.
Observed == [success : BOOLEAN, truncated : BOOLEAN, reconnected : BOOLEAN,
             class : Classes \cup {"refused", ""}, latency : 0 .. Timeout]

Failure == [success |-> FALSE, truncated |-> FALSE, reconnected |-> FALSE,
            class |-> "", latency |-> 0]

\* A run: the protocol and declared policy of every target, which of them are
\* local resolvers or IPv6 endpoints, how many queries it asks of each, and what
\* one of them may come to.
IsCohort(c) ==
    /\ c.queries \in 1 .. Scale
    /\ Len(c.protocol) \in Nat /\ DOMAIN c.protocol = 1 .. Len(c.protocol)
    /\ DOMAIN c.policy = DOMAIN c.protocol
    /\ c.local \cup c.ipv6 \subseteq DOMAIN c.protocol
    /\ \A k \in c.kinds : k \in Observed /\ k.success = (k.class # "") /\ (k.truncated => ~k.success)

ASSUME AnalysisAssumption ==
    /\ Timeout \in Nat /\ MinimumSamples \in Nat \ {0} /\ Scale \in Nat \ {0}
    /\ \A c \in Cohorts : IsCohort(c) /\ \A n \in 1 .. c.queries : Scale % n = 0

VARIABLES
    cohort,     \* the run's targets and queries
    cut,        \* protocols whose group an interrupt left incomplete
    unopened,   \* targets whose session could not be opened
    stage,      \* the step of Run's tail that comes next
    results,    \* [Targets -> sequence of observations]
    details,    \* the divergence section
    stats,      \* [Targets -> statistics]
    rankings,   \* [Protocols -> the ranked targets in order]
    tied,       \* targets flagged as tied
    effects     \* the paired effects

given == <<cohort, cut, unopened>>

Targets     == DOMAIN cohort.protocol
Protocols   == Range(cohort.protocol)
Members(p)  == {t \in Targets : cohort.protocol[t] = p}
Local(t)    == t \in cohort.local

\* markIncomplete and failedObservations: both leave the error they met.
Incomplete(t) == cohort.protocol[t] \in cut /\ t \notin unopened
OpenError(t)  == cohort.protocol[t] \in cut \/ t \in unopened

\* An observation before the comparison with the other targets'.
Fresh(o) == [seen |-> o, divergent |-> FALSE]

Init ==
    /\ cohort \in Cohorts
    /\ cut \in SUBSET Protocols /\ unopened \in SUBSET Targets
    /\ stage = "divergence"
    /\ \E made \in [Targets -> 0 .. cohort.queries],
          seen \in [Targets -> [1 .. cohort.queries -> cohort.kinds]] :
          /\ \A t \in Targets : cohort.protocol[t] \notin cut => made[t] = cohort.queries
          /\ \A p \in Protocols : \A t, u \in Members(p) \ unopened : made[t] <= made[u] + 1
          /\ results = [t \in Targets |->
                IF t \in unopened THEN [q \in 1 .. cohort.queries |-> Fresh(Failure)]
                ELSE [q \in 1 .. made[t] |-> Fresh(seen[t][q])]]
    /\ details = {} /\ stats = <<>> /\ rankings = <<>> /\ tied = {} /\ effects = {}

----------------------------------------------------------------------------
(***************************************************************************)
(* markDivergence: within a protocol group, the successful observations of *)
(* one query by targets of one policy are compared; those outside the most *)
(* frequent class are divergent, and all of them when two classes tie.     *)
(***************************************************************************)
\* observationUsable, for the observations measure can make.
Usable(o) == o.success /\ o.class \in Classes

\* One comparison group: the targets of a protocol and policy that have a
\* successful observation of query q.
Compared(p, policy, q) ==
    {t \in Members(p) : /\ cohort.policy[t] = policy
                        /\ q \in DOMAIN results[t] /\ results[t][q].seen.success}

ClassOf(t, q) == results[t][q].seen.class

\* Mutant: a tied plurality goes to one of its classes.
BaselinesFirst(group, q) ==
    {CHOOSE c \in {ClassOf(t, q) : t \in group} :
        \A t \in group : Cardinality({u \in group : ClassOf(u, q) = c})
                           >= Cardinality({u \in group : ClassOf(u, q) = ClassOf(t, q)})}

\* The classes of the largest count.
Baselines(group, q) ==
    LET Count(c) == Cardinality({t \in group : ClassOf(t, q) = c})
        classes  == {ClassOf(t, q) : t \in group}
    IN  {c \in classes : \A d \in classes : Count(c) >= Count(d)}

\* divergenceTreatment
Treatment(o) == IF Usable(o) THEN "latency-excluded" ELSE "failure-penalized"

\* The entry of the divergence section, if the group disagrees.
Excluded(group, q) ==
    IF Cardinality({ClassOf(t, q) : t \in group}) <= 1 THEN {}
    ELSE {t \in group : Baselines(group, q) # {ClassOf(t, q)}}

Detail(p, policy, q) ==
    [protocol |-> p, policy |-> policy, query |-> q,
     excluded |-> {[target |-> t, treatment |-> Treatment(results[t][q].seen)] :
                      t \in Excluded(Compared(p, policy, q), q)}]

Details ==
    {d \in {Detail(p, policy, q) : p \in Protocols, policy \in Range(cohort.policy),
                                   q \in 1 .. cohort.queries} : d.excluded # {}}

MarkDivergence ==
    /\ stage = "divergence" /\ stage' = "statistics"
    /\ details' = Details
    /\ results' = [t \in Targets |-> [q \in DOMAIN results[t] |->
                     [results[t][q] EXCEPT !.divergent =
                        \E d \in details' : d.query = q /\ \E x \in d.excluded : x.target = t]]]
    /\ UNCHANGED <<given, stats, rankings, tied, effects>>

----------------------------------------------------------------------------
(***************************************************************************)
(* Percentiles and the score. A sample is a function to integers; values   *)
(* are counted from 0 in ascending order, as in the code.                  *)
(***************************************************************************)
\* Where value i of a sample stands among its values; equal ones stand in the
\* order of their indices.
Position(sample, i) ==
    Cardinality({j \in DOMAIN sample :
                    sample[j] < sample[i] \/ (sample[j] = sample[i] /\ j < i)})

Size(sample) == Cardinality(DOMAIN sample)

Sorted(sample) ==
    [k \in 0 .. Size(sample) - 1 |-> sample[CHOOSE i \in DOMAIN sample : Position(sample, i) = k]]

\* The two values a percentile interpolates between and the upper one's weight,
\* at position p (n - 1) / 20 (percentilePosition, interpolate).
Interpolated(value, n, p) ==
    LET position == p * (n - 1)
        weight   == position % 20
    IN  (20 - weight) * value[position \div 20]
          + (IF weight = 0 THEN 0 ELSE weight * value[position \div 20 + 1])

\* percentile: zero of an empty sample.
Percentile(sample, p) ==
    IF Size(sample) = 0 THEN 0 ELSE Interpolated(Sorted(sample), Size(sample), p)

\* counts[0] + ... + counts[r]
Total(counts, r) == Cardinality(UNION {{s} \X (1 .. counts[s]) : s \in 0 .. r})

\* Mutant: a walk that stops one position early.
CountedValueEarly(sorted, counts, k) ==
    sorted[CHOOSE r \in DOMAIN sorted :
             /\ Total(counts, r) >= k
             /\ \A s \in 0 .. r - 1 : Total(counts, s) < k]

\* countedValues: the value at position k of the sorted multiset that holds
\* sorted[r] counts[r] times.
CountedValue(sorted, counts, k) ==
    sorted[CHOOSE r \in DOMAIN sorted :
             /\ Total(counts, r) > k
             /\ \A s \in 0 .. r - 1 : Total(counts, s) <= k]

CountedPercentile(sorted, counts, total, p) ==
    IF total = 0 THEN 0
    ELSE Interpolated([k \in 0 .. total - 1 |-> CountedValue(sorted, counts, k)], total, p)

\* The price of failures among n samples, and the score's latency terms without
\* and with the p95: compositeScore is 0.6 median + 0.4 p95 + penalty.
Penalty(failures, n)          == (100 * Scale * Timeout * failures) \div n
MedianTerm(median)            == Scale * 3 * median
Score(median, p95, failed, n) == MedianTerm(median) + Scale * 2 * p95 + Penalty(failed, n)

\* scoreFromSamples: a sample is a latency, or -1 for a failure.
Latencies(samples) == Restrict(samples, {i \in DOMAIN samples : samples[i] >= 0})
ScoreOf(samples) ==
    LET latencies == Latencies(samples)
    IN  Score(Percentile(latencies, 10), Percentile(latencies, 19),
              Size(samples) - Size(latencies), Size(samples))

\* One replicate of bootstrapCI: the samples are drawn by index, and its score
\* is read off how often each rank (rankValues) was drawn.
Replicate(samples, draw) ==
    LET latencies == Latencies(samples)
        hits      == {i \in DOMAIN draw : draw[i] \in DOMAIN latencies}
        counts    == [r \in 0 .. Size(latencies) - 1 |->
                        Cardinality({i \in hits : Position(latencies, draw[i]) = r})]
        drawn     == Cardinality(hits)
    IN  Score(CountedPercentile(Sorted(latencies), counts, drawn, 10),
              CountedPercentile(Sorted(latencies), counts, drawn, 19),
              Size(samples) - drawn, Size(samples))

Draws(samples) == [DOMAIN samples -> DOMAIN samples]

\* bootstrapCI: a single sample is its own interval.
Interval(samples) ==
    LET scores == IF Size(samples) < 2 THEN {ScoreOf(samples)}
                  ELSE {Replicate(samples, d) : d \in Draws(samples)}
    IN  [low |-> Min(scores), high |-> Max(scores)]

----------------------------------------------------------------------------
(***************************************************************************)
(* calculateStatistics: every observation is scored, priced as a failure,  *)
(* or left out of the score.                                               *)
(***************************************************************************)
LeftOut(o)   == Usable(o.seen) /\ (o.divergent \/ o.seen.reconnected)
Scored(o)    == Usable(o.seen) /\ ~LeftOut(o)
Penalised(o) == ~Usable(o.seen)

\* The samples of the score, each at its query.
Samples(t) ==
    [q \in {r \in DOMAIN results[t] : ~LeftOut(results[t][r])} |->
        IF Scored(results[t][q]) THEN results[t][q].seen.latency ELSE -1]

Statistics(t) ==
    LET Count(Test(_)) == Cardinality({q \in DOMAIN results[t] : Test(results[t][q])})
        samples   == Samples(t)
        latencies == Latencies(samples)
        ci        == IF Size(latencies) = 0 THEN [low |-> 0, high |-> 0] ELSE Interval(samples)
    IN  [total            |-> Len(results[t]),
         successes        |-> Count(LAMBDA o : o.seen.success),
         failures         |-> Count(LAMBDA o : ~o.seen.success),
         truncated        |-> Count(LAMBDA o : o.seen.truncated),
         reconnects       |-> Count(LAMBDA o : o.seen.reconnected),
         usable           |-> Count(LAMBDA o : Usable(o.seen)),
         resolverFailures |-> Count(LAMBDA o : o.seen.success /\ ~Usable(o.seen)),
         divergent        |-> Count(LAMBDA o : o.divergent),
         scored           |-> Size(latencies),
         penalised        |-> Size(samples) - Size(latencies),
         median           |-> Percentile(latencies, 10),
         p95              |-> Percentile(latencies, 19),
         score            |-> IF Size(latencies) = 0 THEN 0 ELSE ScoreOf(samples),
         low              |-> ci.low,
         high             |-> ci.high]

\* The recommendation: 99% of all observations usable (MinimumRecommendedSuccessRate).
Recommended(t) ==
    /\ ~Local(t) /\ ~Incomplete(t) /\ stats[t].scored >= MinimumSamples
    /\ stats[t].total > 0 /\ 100 * stats[t].usable >= 99 * stats[t].total

CalculateStatistics ==
    /\ stage = "statistics" /\ stage' = "rankings"
    /\ stats' = [t \in Targets |-> Statistics(t)]
    /\ UNCHANGED <<given, results, details, rankings, tied, effects>>

----------------------------------------------------------------------------
(***************************************************************************)
(* makeRankings: strict score order, then the targets whose interval       *)
(* overlaps the leader's are brought forward and put in an order of their  *)
(* own.                                                                    *)
(***************************************************************************)
Comparable(t) == stats[t].scored > 0 /\ ~Incomplete(t) /\ ~Local(t)

\* a precedes b by the first of the keys in which they differ, by ID at last.
Before(a, b, keys) ==
    \/ \E i \in DOMAIN keys :
          /\ keys[i][a] < keys[i][b]
          /\ \A j \in 1 .. i - 1 : keys[j][a] = keys[j][b]
    \/ a < b /\ \A i \in DOMAIN keys : keys[i][a] = keys[i][b]

InOrder(members, keys) ==
    [n \in 1 .. Cardinality(members) |->
        CHOOSE t \in members : Cardinality({u \in members : Before(u, t, keys)}) = n - 1]

Scores  == [t \in Targets |-> stats[t].score]
Medians == [t \in Targets |-> stats[t].median]

\* Mutant: the tie group is ordered by median alone.
TieOrderKeyMedian == [t \in Targets |-> stats[t].median]

\* tieOrderKey: the score without its p95 term.
TieOrderKey == [t \in Targets |->
    IF stats[t].scored = 0 THEN 0
    ELSE MedianTerm(stats[t].median) + Penalty(stats[t].penalised, stats[t].scored + stats[t].penalised)]

\* confidenceIntervalsOverlap; an interval of zeros stands for the score alone.
Bounds(t) ==
    IF stats[t].low = 0 /\ stats[t].high = 0 THEN [low |-> stats[t].score, high |-> stats[t].score]
    ELSE [low |-> stats[t].low, high |-> stats[t].high]
Overlap(a, b) == Bounds(a).low <= Bounds(b).high /\ Bounds(b).low <= Bounds(a).high

Competing(p) == {t \in Members(p) : Comparable(t)}
Leader(p)    == InOrder(Competing(p), <<Scores>>)[1]
TieGroup(p)  == {t \in Competing(p) : Overlap(Leader(p), t)}

Ranked       == {p \in Protocols : Competing(p) # {}}
Ranking(p)   == InOrder(TieGroup(p), <<TieOrderKey, Medians>>)
                  \o InOrder(Competing(p) \ TieGroup(p), <<Scores>>)

\* A target that ties with the leader is flagged, the leader too.
Ties == UNION {TieGroup(p) : p \in {q \in Ranked : Cardinality(TieGroup(q)) > 1}}

MakeRankings ==
    /\ stage = "rankings" /\ stage' = "effects"
    /\ rankings' = [p \in Ranked |-> Ranking(p)]
    /\ tied' = Ties
    /\ UNCHANGED <<given, results, details, stats, effects>>

----------------------------------------------------------------------------
(***************************************************************************)
(* calculatePairedEffects: every comparable target against the best ranked *)
(* one, query by query where both have a scored sample of one class.       *)
(***************************************************************************)
\* pairedObservationSamples, pairedLatencyDeltas
Pairs(t, reference) ==
    {q \in DOMAIN results[t] \cap DOMAIN results[reference] :
        /\ Scored(results[t][q]) /\ Scored(results[reference][q])
        /\ ClassOf(t, q) = ClassOf(reference, q)}

Deltas(t, reference) ==
    [q \in Pairs(t, reference) |->
        results[t][q].seen.latency - results[reference][q].seen.latency]

RankIn(p, t) == IF p \in DOMAIN rankings /\ Contains(rankings[p], t)
                THEN CHOOSE i \in DOMAIN rankings[p] : rankings[p][i] = t
                ELSE Cardinality(Targets) + 1

Effect(t, reference) ==
    LET deltas == Deltas(t, reference)
        n      == Size(deltas)
    IN  [target |-> t, reference |-> reference, samples |-> n,
         reason |-> CASE t = reference -> IF n = 0 THEN "no scored samples" ELSE ""
                      [] t # reference /\ n = 0 -> "no shared scored samples"
                      [] t # reference /\ n \in 1 .. MinimumSamples - 1 -> "insufficient paired samples"
                      [] OTHER -> "",
         median |-> IF t # reference /\ n >= MinimumSamples THEN Percentile(deltas, 10) ELSE 0]

\* The target the others of its protocol are compared with.
Reference(p) ==
    LET ranks == [t \in Targets |-> RankIn(p, t)]
    IN  InOrder(Competing(p), <<ranks, Scores>>)[1]

Effects == UNION {{Effect(t, Reference(p)) : t \in Competing(p)} : p \in Protocols}

CalculatePairedEffects ==
    /\ stage = "effects" /\ stage' = "analysed"
    /\ effects' = Effects
    /\ UNCHANGED <<given, results, details, stats, rankings, tied>>

----------------------------------------------------------------------------
\* Only like is compared with like, and nothing escapes: a latency is scored for
\* a query only if its response class is the one most of the resolvers of that
\* policy gave, strictly; every observation is scored, priced as a failure or
\* left out, exactly once; a failed or unusable response is priced whatever
\* else it is; and the section on divergence says which of the two befell an
\* excluded response (markDivergence, calculateStatistics).
FairSample ==
    stage \notin {"divergence", "statistics"} =>
        \A t \in Targets :
            /\ LET Having(Test(_)) == Cardinality({q \in DOMAIN results[t] : Test(results[t][q])})
               IN  /\ stats[t].scored + stats[t].penalised + Having(LeftOut) = stats[t].total
                   /\ stats[t].penalised = Having(Penalised)
            /\ \A q \in DOMAIN results[t] : Scored(results[t][q]) =>
                 LET group    == Compared(cohort.protocol[t], cohort.policy[t], q)
                     Count(c) == Cardinality({u \in group : ClassOf(u, q) = c})
                 IN  \A u \in group : ClassOf(u, q) # ClassOf(t, q) =>
                         Count(ClassOf(t, q)) > Count(ClassOf(u, q))
            /\ \A d \in details : \A x \in d.excluded : x.target = t =>
                 x.treatment = IF Penalised(results[t][d.query])
                               THEN "failure-penalized" ELSE "latency-excluded"

\* A replicate read off rank counts is the score of the resample it stands for,
\* for every sample with a latency and every draw (bootstrapCI against
\* scoreFromSamples).
ReplicateIsResample ==
    stage = "rankings" =>
        \A t \in {u \in Targets : stats[u].scored > 0} :
            \A d \in Draws(Samples(t)) :
                Replicate(Samples(t), d) = ScoreOf([i \in DOMAIN d |-> Samples(t)[d[i]]])

\* The ranking is fair. Of two targets tied with the leader, the one with the
\* better median and no more failures, or with fewer failures and no worse a
\* median, is ahead; behind the tie the score decides; the target with the best
\* score is in the tie; and every other comparable target is compared, query by
\* query, with the one that is ranked first (makeRankings,
\* calculatePairedEffects).
FairRanking ==
    stage = "analysed" =>
        \A p \in DOMAIN rankings :
            LET order     == rankings[p]
                first     == Cardinality(TieGroup(p))
                Rate(t)   == Penalty(stats[t].penalised, stats[t].scored + stats[t].penalised)
                Better(a, b) == /\ stats[a].median <= stats[b].median /\ Rate(a) <= Rate(b)
                                /\ stats[a].median < stats[b].median \/ Rate(a) < Rate(b)
            IN  /\ \A i, j \in DOMAIN order : i < j =>
                      IF j <= first THEN ~Better(order[j], order[i])
                      ELSE /\ i > first => stats[order[i]].score <= stats[order[j]].score
                           /\ stats[order[j]].score >= stats[Leader(p)].score
                /\ \A t \in Competing(p) : stats[t].score >= stats[Leader(p)].score
                /\ Leader(p) \in {order[i] : i \in 1 .. first}
                /\ {e.target : e \in {f \in effects : f.reference = order[1]}} = Competing(p)
=============================================================================
