------------------------------ MODULE Verdicts ------------------------------
(***************************************************************************)
(* What a finished run tells: the warnings of the report                   *)
(* (internal/benchmark, collectWarnings; internal/report, the one line per *)
(* endpoint of the table) and the verdict of one --assert condition        *)
(* (cmd/speedns/assertions.go). Conditions of one run are independent, so  *)
(* one stands for any number.                                              *)
(*                                                                         *)
(* A resolver name in a condition is the set of targets it matches, never  *)
(* empty: validateAssertionTargets has refused any other before the run.   *)
(* Rates are in percent and latencies in milliseconds.                     *)
(***************************************************************************)
EXTENDS Analysis

CONSTANT Conditions(_)   \* the conditions to be judged in a cohort

IsCondition(x, c) ==
    \/ x.kind = "winner" /\ x.winner \in (SUBSET DOMAIN c.protocol) \ {{}}
    \/ x.kind = "numeric" /\ x.subject \in SUBSET DOMAIN c.protocol

ASSUME ConditionAssumption ==
    \A c \in Cohorts : \A x \in Conditions(c) : IsCondition(x, c)

VARIABLES
    lines,      \* the compact warnings: [about : targets, kind]
    condition,  \* the condition judged
    reasons     \* why it fails

allVars == <<given, stage, results, details, stats, rankings, tied, effects, lines, condition, reasons>>

----------------------------------------------------------------------------
\* collectWarnings: the diagnoses of one target.
Warnings(t) ==
    {w \in {"incomplete", "unopened", "failed", "divergent", "truncated", "unusable", "local", "ineligible"} :
        CASE w = "incomplete" -> Incomplete(t)
          [] w = "unopened"   -> OpenError(t) /\ ~Incomplete(t)
          [] w = "failed"     -> stats[t].failures > 0
          [] w = "divergent"  -> stats[t].divergent > 0
          [] w = "truncated"  -> stats[t].truncated > 0
          [] w = "unusable"   -> stats[t].resolverFailures > 0
          [] w = "local"      -> Local(t)
          [] w = "ineligible" -> ~Local(t) /\ stats[t].scored > 0 /\ ~Incomplete(t) /\ ~Recommended(t)}

\* transportUnavailable
NeverAnswered(t) ==
    IF Incomplete(t) \/ stats[t].total = 0 THEN OpenError(t) /\ ~Incomplete(t)
    ELSE /\ stats[t].failures = stats[t].total
         /\ stats[t].divergent = 0 /\ stats[t].truncated = 0

\* ipv6UnavailableWarning: two or more IPv6 endpoints, none of which answered.
ByFamily ==
    IF Cardinality(cohort.ipv6) >= 2 /\ \A t \in cohort.ipv6 : NeverAnswered(t)
    THEN {[about |-> cohort.ipv6, kind |-> "no IPv6 path"]} ELSE {}

\* Mutant: the line of a protocol speaks for all of its endpoints.
RestAll(p) == Members(p)

\* The endpoints of a protocol that have no line yet.
Rest(p) == Members(p) \ UNION {l.about : l \in ByFamily}

\* One line for a protocol none of whose remaining endpoints can be compared.
ByProtocol ==
    {[about |-> Rest(p),
      kind  |-> CASE \A t \in Rest(p) : stats[t].failures = stats[t].total -> "transport failed"
                  [] \E t \in Rest(p) : stats[t].failures < stats[t].total
                     /\ \A u \in Rest(p) : stats[u].usable = 0 -> "responses unusable"
                  [] OTHER -> "nothing comparable"]
       : p \in {q \in Protocols :
                  /\ Rest(q) # {}
                  /\ \A t \in Rest(q) : ~Incomplete(t) /\ stats[t].total > 0 /\ stats[t].scored = 0}}

\* compactWarnings: an endpoint without one gets a line of its own, made of its
\* failures or else of the first diagnosis that has no place there.
Lines ==
    LET joint == ByFamily \cup ByProtocol
        alone == Targets \ UNION {l.about : l \in joint}
    IN  joint \cup {[about |-> {t}, kind |-> "own"] : t \in {u \in alone : Warnings(u) # {}}}

CompactWarnings ==
    /\ stage = "analysed" /\ stage' = "told"
    /\ lines' = Lines
    /\ UNCHANGED <<given, results, details, stats, rankings, tied, effects, condition, reasons>>

----------------------------------------------------------------------------
\* deadProtocols: local targets do not count, unmeasured ones keep it alive.
Dead ==
    {p \in Protocols :
        /\ \E t \in Members(p) : ~Local(t)
        /\ \A t \in Members(p) : Local(t) \/ (stats[t].total > 0 /\ stats[t].usable = 0)}

\* reportWinners: rank one and whatever ties with it.
Winners(p) == {t \in Range(rankings[p]) : t = rankings[p][1] \/ t \in tied}

IsLatencyMetric(metric) == metric \in {"median", "p95", "score"}

\* assertionMetricValue, as a fraction: a rate without observations is zero.
MetricValue(t, metric) ==
    LET Rate(n) == IF stats[t].total = 0 THEN <<0, 1>> ELSE <<100 * n, stats[t].total>>
    IN  CASE metric = "usable"  -> Rate(stats[t].usable)
          [] metric = "success" -> Rate(stats[t].successes)
          [] metric = "median"  -> <<stats[t].median, 20>>
          [] metric = "p95"     -> <<stats[t].p95, 20>>
          [] metric = "score"   -> <<stats[t].score, 100 * Scale>>

\* assertionComparison
Holds(t, c) ==
    LET actual   == MetricValue(t, c.metric)[1]
        expected == c.value * MetricValue(t, c.metric)[2]
    IN  CASE c.operator = ">=" -> actual >= expected
          [] c.operator = "<=" -> actual <= expected
          [] c.operator = ">"  -> actual > expected
          [] c.operator = "<"  -> actual < expected
          [] c.operator = "="  -> actual = expected

\* Mutant: a median of no samples is compared as if it were one.
SubjectReasonsZero(c) ==
    {[about |-> {t}, why |-> "value"] : t \in {u \in c.subject : ~Holds(u, c)}}

\* subjectAssertionReasons
SubjectReasons(c) ==
    LET silent == {t \in c.subject : IsLatencyMetric(c.metric) /\ stats[t].scored = 0}
    IN  {[about |-> {t}, why |-> "no scored samples"] : t \in silent}
          \cup {[about |-> {t}, why |-> "value"] : t \in {u \in c.subject \ silent : ~Holds(u, c)}}

\* The branches without a subject, protocol by protocol.
ProtocolReasons(c) ==
    IF DOMAIN rankings = {} THEN {[about |-> {}, why |-> "no winners"]}
    ELSE IF c.kind = "winner"
    THEN {[about |-> Members(p), why |-> "does not win"] :
            p \in {q \in DOMAIN rankings : Winners(q) \cap c.winner = {}}}
    ELSE {[about |-> {rankings[p][1]}, why |-> "value"] :
            p \in {q \in DOMAIN rankings : ~Holds(rankings[q][1], c)}}

\* evaluateAssertionsWithOptions
Reasons(c) ==
    {[about |-> Members(p), why |-> "dead"] : p \in Dead}
      \cup (IF c.kind = "numeric" /\ c.subject # {} THEN SubjectReasons(c) ELSE ProtocolReasons(c))

Judge ==
    /\ stage = "told" /\ stage' = "judged"
    /\ \E c \in Conditions(cohort) :
          /\ condition' = {c}
          /\ reasons' = Reasons(c)
    /\ UNCHANGED <<given, results, details, stats, rankings, tied, effects, lines>>

----------------------------------------------------------------------------
Analyse ==
    /\ MarkDivergence \/ CalculateStatistics \/ MakeRankings \/ CalculatePairedEffects
    /\ UNCHANGED <<lines, condition, reasons>>

Next == Analyse \/ CompactWarnings \/ Judge

Start == Init /\ lines = {} /\ condition = {} /\ reasons = {}

Spec == Start /\ [][Next]_allVars

----------------------------------------------------------------------------
\* Nothing an endpoint lost stays untold and nothing is told twice: an endpoint
\* that was cut off, left a query unanswered or unusable, was truncated or
\* excluded as divergent has exactly one line, its own or one it shares; an
\* endpoint that answered everything comparably has none, unless it is local or
\* short of samples (compactWarnings, with the IPv6 and protocol summaries).
ToldOnce ==
    stage \in {"told", "judged"} =>
        \A t \in Targets :
            LET told == Cardinality({l \in lines : t \in l.about})
            IN  /\ told <= 1
                /\ Incomplete(t) \/ (\E o \in Range(results[t]) : ~Usable(o.seen) \/ o.divergent)
                     => told = 1
                /\ (\A o \in Range(results[t]) : Scored(o)) /\ Recommended(t) => told = 0

\* A condition never passes for want of evidence: every protocol that was
\* measured through has a usable response from the network, a latency was
\* compared for targets with a scored sample only, and a condition without a
\* subject was judged against a winner, and against the winners of every ranked
\* protocol (evaluateAssertionsWithOptions, deadProtocols).
PassNeedsEvidence ==
    \A c \in condition :
        reasons = {} =>
            LET remote(p)   == {t \in Members(p) : ~Local(t)}
                judged      == IF c.kind = "numeric" /\ c.subject # {} THEN c.subject
                               ELSE UNION {Winners(p) : p \in DOMAIN rankings}
            IN  /\ \A p \in Protocols :
                      remote(p) # {} /\ (\A t \in remote(p) : results[t] # <<>>)
                        => \E t \in remote(p) : \E o \in Range(results[t]) : Usable(o.seen)
                /\ judged # {}
                /\ (c.kind = "numeric" /\ IsLatencyMetric(c.metric)) \/ c.kind = "winner"
                     => \A t \in judged : \E o \in Range(results[t]) : Scored(o)
                /\ c.kind = "winner" =>
                     \A p \in DOMAIN rankings : c.winner \cap (TieGroup(p) \cup {rankings[p][1]}) # {}
=============================================================================
