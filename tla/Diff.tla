-------------------------------- MODULE Diff --------------------------------
(***************************************************************************)
(* speedns diff (cmd/speedns/diff.go, internal/compare): two reports are   *)
(* loaded, held against the comparability contract, compared target by     *)
(* target, judged by the --require conditions, and the exit status tells   *)
(* the outcome.                                                            *)
(*                                                                         *)
(* Initial states are pairs of reports the run command can have written:   *)
(* the counts of a result fit together as calculateStatistics makes them,  *)
(* and its status is resultStatus's. What is printed is left out.          *)
(***************************************************************************)
EXTENDS Integers, FiniteSets, TLC, FiniteSetsExt

CONSTANTS
    Pairs,         \* the pairs of reports: [baseline, current]
    Requests,      \* the sets of names --require is given
    Redacted,      \* target IDs that redaction assigned by position
    Queries,       \* queries per target
    MinimumSamples \* MinimumRecommendedSamples, 20 in the code

Names == {"no-new-failed-targets", "no-removed-targets", "target-set-identical",
          "no-dnssec-regression", "no-behaviour-change"}

Verdicts == {"", "validating", "not-validating", "inconclusive"}

\* A result as report.go publishes it. Its responses are NOERROR, which is usable,
\* or REFUSED, which is not; a truncated one is neither.
IsResult(r) ==
    /\ {r.usable, r.refused, r.truncated, r.answers, r.scored} \subseteq Nat
    /\ r.local \in BOOLEAN /\ r.incomplete \in BOOLEAN /\ r.unopened \in BOOLEAN
    /\ r.total \in 0 .. Queries /\ (~r.incomplete => r.total = Queries)
    /\ r.usable + r.refused + r.truncated <= r.total
    /\ r.answers <= r.usable /\ r.scored <= r.usable
    /\ r.unopened /\ ~r.incomplete => r.usable + r.refused + r.truncated = 0
    /\ r.verdict \in Verdicts

\* A report: whether it can be read, its corpus mode, the fields that must match
\* exactly ("absent" in reports older than the field), its version as minor and
\* patch, and its results by target ID.
IsReport(p) ==
    /\ p.readable \in BOOLEAN /\ p.mode \in {"warm", "cache-miss"}
    /\ IsFiniteSet(DOMAIN p.results)
    /\ \A id \in DOMAIN p.results : IsResult(p.results[id])

ASSUME DiffAssumption ==
    /\ Queries \in Nat \ {0} /\ MinimumSamples \in Nat
    /\ \A p \in Pairs : /\ IsReport(p.baseline) /\ IsReport(p.current)
                        /\ DOMAIN p.baseline.field = DOMAIN p.current.field

VARIABLES
    pair,          \* the two reports
    required,      \* the --require names
    stage,         \* the step of runDiff that comes next
    blockers, findings, suppressions, compared,   \* the Diff
    outcomes,      \* [required -> outcome of the condition]
    status         \* the exit status

vars == <<pair, required, stage, blockers, findings, suppressions, compared, outcomes, status>>
diff == <<blockers, findings, suppressions, compared>>

Before == pair.baseline.results
After  == pair.current.results
Ids    == DOMAIN Before \cup DOMAIN After

Init ==
    /\ pair \in Pairs /\ required \in Requests
    /\ stage = "load" /\ blockers = {} /\ findings = {} /\ suppressions = {} /\ compared = 0
    /\ outcomes = [n \in {} |-> ""] /\ status = -1

Exit(code) == stage' = "done" /\ status' = code

----------------------------------------------------------------------------
\* Load: a file that cannot be read, is too large or is not a report of schema
\* version 1 with a run and its provenance is a usage error.
Load ==
    /\ stage = "load"
    /\ IF pair.baseline.readable /\ pair.current.readable
       THEN stage' = "compare" /\ UNCHANGED status
       ELSE Exit(2)
    /\ UNCHANGED <<pair, required, diff, outcomes>>

\* Gate: the reasons why the runs cannot be compared. A patch version may differ.
Gate ==
    LET b == pair.baseline  c == pair.current
    IN  IF "cache-miss" \in {b.mode, c.mode} THEN {"run.corpus_mode"}
        ELSE {f \in DOMAIN b.field : "absent" \in {b.field[f], c.field[f]} \/ b.field[f] # c.field[f]}
               \cup {f \in {"speedns_version"} : b.minor # c.minor}

\* resultStatus
Successes(r) == r.usable + r.refused
Qualified(r) == /\ r.scored >= MinimumSamples
                /\ 100 * r.usable >= 99 * r.total
Status(r) ==
    IF r.incomplete THEN "incomplete"
    ELSE IF Successes(r) = 0 THEN "failed"
    ELSE IF r.local THEN "not-comparable"
    ELSE IF Qualified(r) THEN "qualified" ELSE "ineligible"

----------------------------------------------------------------------------
\* The findings and suppressions of one target.
When(condition, set) == IF condition THEN set ELSE {}

Finding(code, id, detail) == [code |-> code, target |-> id, detail |-> detail]
Suppression(reason, id)   == [reason |-> reason, target |-> id]

Differ(a, b) == IF a < b THEN b - a ELSE a - b

\* Mutant: any change of a count is a finding.
FloorOne(total) == 1

\* responseFloor: one percent, rounded up, and at least two responses.
Floor(total) == Max({2, (total + 99) \div 100})

\* The counts a finding may be about.
Counters(r) == [USABLE |-> r.usable, ANSWERS |-> r.answers, TRUNCATED |-> r.truncated,
                NOERROR |-> r.usable, REFUSED |-> r.refused]

HardFacts(id, b, c) ==
    When(b.unopened # c.unopened, {Finding("OPEN", id, "")})
      \cup When((Successes(b) = 0) # (Successes(c) = 0), {Finding("FAILED", id, "")})
      \cup When(b.total # c.total, {Finding("QUERIES", id, "")})

Counted(id, b, c) ==
    LET floor == Floor(Max({b.total, c.total}))
    IN  {Finding(k, id, "") : k \in {n \in DOMAIN Counters(b) :
            Differ(Counters(b)[n], Counters(c)[n]) >= floor}}

\* appendStatusFinding: a flip of the qualification that turns on fewer
\* responses than the floor is held back. The scored count comes first, because
\* the other targets decide what is divergent.
StatusNoise(b, c) ==
    LET floor   == Floor(Max({b.total, c.total}))
        changed == {Status(b), Status(c)}
    IN  IF /\ b.scored # c.scored /\ Differ(b.scored, c.scored) < floor
           /\ "qualified" \in changed
        THEN {"peer-relative"}
        ELSE When(changed = {"qualified", "ineligible"} /\ Differ(b.usable, c.usable) < floor,
                  {"boundary-crossing"})

Decided(verdict) == verdict \in {"validating", "not-validating"}

\* appendTargetFindings: counts on different bases are not compared further.
TargetFindings(id, b, c) ==
    HardFacts(id, b, c)
      \cup When(b.total = c.total,
                Counted(id, b, c)
                  \cup When(Status(b) # Status(c) /\ StatusNoise(b, c) = {}, {Finding("STATUS", id, "")})
                  \cup When(b.verdict # c.verdict /\ Decided(b.verdict) /\ Decided(c.verdict),
                            {Finding("DNSSEC", id, c.verdict)}))

TargetSuppressions(id, b, c) ==
    IF b.total # c.total THEN {Suppression("denominator-mismatch", id)}
    ELSE When(Status(b) # Status(c), {Suppression(n, id) : n \in StatusNoise(b, c)})
           \cup When(b.verdict # c.verdict /\ ~(Decided(b.verdict) /\ Decided(c.verdict)),
                     {Suppression("probe-incomplete", id)})

----------------------------------------------------------------------------
\* Compare: a target is redacted, unpaired, local, incomplete or compared.
Unpaired(id) == id \notin Redacted /\ ~(id \in DOMAIN Before /\ id \in DOMAIN After)
Paired(id)   == id \notin Redacted /\ id \in DOMAIN Before /\ id \in DOMAIN After
IsLocal(id)  == Before[id].local \/ After[id].local
IsPartial(id) == Before[id].incomplete \/ After[id].incomplete

\* Mutant: only the current run is asked whether it was complete.
ComparedCurrent == {id \in Ids : Paired(id) /\ ~IsLocal(id) /\ ~After[id].incomplete}

Compared == {id \in Ids : Paired(id) /\ ~IsLocal(id) /\ ~IsPartial(id)}

Side(id) == IF id \in DOMAIN Before THEN "only in the baseline run" ELSE "only in the current run"

CompareReports ==
    /\ stage = "compare" /\ stage' = "require" /\ blockers' = Gate
    /\ IF Gate # {} THEN UNCHANGED <<findings, suppressions, compared>>
       ELSE /\ findings' = {Finding("PRESENCE", id, Side(id)) : id \in {i \in Ids : Unpaired(i)}}
                  \cup UNION {TargetFindings(id, Before[id], After[id]) : id \in Compared}
            /\ suppressions' =
                  {Suppression("redacted-identity", id) : id \in Ids \cap Redacted}
                  \cup {Suppression("local-position", id) : id \in {i \in Ids : Paired(i) /\ IsLocal(i)}}
                  \cup {Suppression("incomplete-target", id) :
                            id \in {i \in Ids : Paired(i) /\ ~IsLocal(i) /\ IsPartial(i)}}
                  \cup UNION {TargetSuppressions(id, Before[id], After[id]) : id \in Compared}
            /\ compared' = Cardinality(Compared)
    /\ UNCHANGED <<pair, required, outcomes, status>>

----------------------------------------------------------------------------
\* newlyFailed: the finding is about a target that fails now and did not, or was
\* not there, before.
NewlyFailed(f) ==
    CASE f.code = "FAILED"   -> Successes(Before[f.target]) > 0 /\ Successes(After[f.target]) = 0
      [] f.code = "OPEN"     -> ~Before[f.target].unopened /\ After[f.target].unopened
      [] f.code = "PRESENCE" -> /\ f.target \in DOMAIN After
                                /\ Successes(After[f.target]) = 0
                                /\ ~After[f.target].incomplete /\ ~After[f.target].local
      [] OTHER               -> FALSE

\* requireConditions
Passes(name) ==
    ~\E f \in findings :
        CASE name = "no-new-failed-targets" -> NewlyFailed(f)
          [] name = "no-removed-targets"    -> f.code = "PRESENCE" /\ f.detail = "only in the baseline run"
          [] name = "target-set-identical"  -> f.code = "PRESENCE"
          [] name = "no-dnssec-regression"  -> f.code = "DNSSEC" /\ f.detail = "not-validating"
          [] name = "no-behaviour-change"   -> TRUE

\* Conditions: a pass without a compared target is no pass.
Outcome(name) ==
    IF blockers # {} THEN "not-evaluated"
    ELSE IF ~Passes(name) THEN "failed"
    ELSE IF compared = 0 THEN "not-evaluated" ELSE "passed"

\* Require: an unknown name is a usage error.
Require ==
    /\ stage = "require"
    /\ IF required \subseteq Names
       THEN /\ stage' = "emit" /\ outcomes' = [n \in required |-> Outcome(n)]
            /\ UNCHANGED status
       ELSE Exit(2) /\ UNCHANGED outcomes
    /\ UNCHANGED <<pair, required, diff>>

\* Mutant: a condition not evaluated comes before one that failed.
ExitCodeUnevaluatedFirst ==
    IF blockers # {} \/ \E n \in required : outcomes[n] = "not-evaluated" THEN 3
    ELSE IF \E n \in required : outcomes[n] = "failed" THEN 4 ELSE 0

\* What a delivered diff exits with: a refusal comes before a failed condition,
\* a failed condition before one not evaluated.
ExitCode ==
    IF blockers # {} THEN 3
    ELSE IF \E n \in required : outcomes[n] = "failed" THEN 4
    ELSE IF \E n \in required : outcomes[n] = "not-evaluated" THEN 3 ELSE 0

\* The end of runDiff, with exitCodeForError: a diff may fail to be delivered.
Emit ==
    /\ stage = "emit"
    /\ \E delivered \in BOOLEAN : Exit(IF delivered THEN ExitCode ELSE 2)
    /\ UNCHANGED <<pair, required, diff, outcomes>>

Next == Load \/ CompareReports \/ Require \/ Emit

Spec == Init /\ [][Next]_vars

----------------------------------------------------------------------------
\* No target is passed over: in a comparison that was not refused, every target
\* of either report has its counts compared or is named in a finding or a
\* suppression that says why not; no counts of an interrupted or local target
\* are compared; and a compared target whose status or verdict changed is named
\* too (Compare, appendTargetFindings).
EveryTargetAccounted ==
    stage \in {"require", "emit"} /\ blockers = {} =>
        LET named    == {x.target : x \in findings \cup suppressions}
            whole(r) == ~r.incomplete /\ ~r.local
            counted  == {id \in (DOMAIN Before \cap DOMAIN After) \ Redacted :
                            whole(Before[id]) /\ whole(After[id])}
        IN  /\ compared = Cardinality(counted)
            /\ Ids \subseteq counted \cup named
            /\ \A f \in findings : f.code # "PRESENCE" => f.target \in counted
            /\ \A id \in counted :
                  Status(Before[id]) # Status(After[id]) \/ Before[id].verdict # After[id].verdict
                    => id \in named

\* One response more or less is no finding: a target whose counts moved by at
\* most one, that could be opened and answered in both runs, and whose verdict
\* is the same has none, although its qualification may have flipped
\* (responseFloor, appendStatusFinding).
OneResponseIsNoise ==
    \A f \in findings :
        LET b == Before[f.target]  c == After[f.target]
        IN  f.code # "PRESENCE" =>
              \/ \E x \in {<<b.usable, c.usable>>, <<b.refused, c.refused>>, <<b.answers, c.answers>>,
                            <<b.truncated, c.truncated>>, <<b.scored, c.scored>>} : Differ(x[1], x[2]) > 1
              \/ b.unopened # c.unopened \/ b.verdict # c.verdict \/ b.total # c.total
              \/ Successes(b) = 0 \/ Successes(c) = 0

\* The exit status tells the truth about the reports, whatever Compare made of
\* them. Zero, three and four are for known conditions. Three means that the
\* runs did not ask the same, or that conditions were required, nothing was
\* compared, and none of them is broken all the same: a condition broken without
\* a comparison is four (README, "A gate that compared nothing cannot pass").
\* Four means that the runs asked the same and something a condition forbids did
\* happen; zero, that they asked the same and nothing of the kind did, over at
\* least one target compared if anything was required. What the conditions
\* forbid is said of the reports: for no-behaviour-change, any target that came
\* or went and, in one measured whole in both runs, another outcome of opening,
\* answering or validating, or a count that moved by two responses and one
\* percent of the queries (runDiff, Conditions, exitCodeForError).
HonestExit ==
    LET known(r)    == {id \in DOMAIN r : id \notin Redacted}
        paired      == {id \in known(Before) \cap known(After) :
                          \A r \in {Before[id], After[id]} : ~r.local /\ ~r.incomplete}
        added       == known(After) \ known(Before)
        silent(r)   == Successes(r) = 0
        moved(x, y, total) == Differ(x, y) >= 2 /\ 100 * Differ(x, y) >= total
        failing     == {id \in paired : ~silent(Before[id]) /\ silent(After[id])}
                         \cup {id \in paired : ~Before[id].unopened /\ After[id].unopened}
                         \cup {id \in added : silent(After[id]) /\ ~After[id].local /\ ~After[id].incomplete}
        changed     == {id \in paired :
                          LET b == Before[id]  c == After[id]
                          IN  \/ b.unopened # c.unopened \/ ~(silent(b) <=> silent(c))
                              \/ /\ b.verdict # c.verdict
                                 /\ {b.verdict, c.verdict} \subseteq {"validating", "not-validating"}
                              \/ moved(b.usable, c.usable, b.total)
                              \/ moved(b.refused, c.refused, b.total)
                              \/ moved(b.answers, c.answers, b.total)
                              \/ moved(b.truncated, c.truncated, b.total)}
        broken(n)   == CASE n = "no-new-failed-targets" -> failing # {}
                         [] n = "no-removed-targets"    -> ~(known(Before) \subseteq known(After))
                         [] n = "target-set-identical"  -> known(Before) # known(After)
                         [] n = "no-dnssec-regression"  ->
                              \E id \in paired : /\ Before[id].verdict = "validating"
                                                 /\ After[id].verdict = "not-validating"
                         [] n = "no-behaviour-change"   -> changed # {} \/ known(Before) # known(After)
        anyBroken   == \E n \in required : broken(n)
        askedSame   == /\ pair.baseline.mode = "warm" /\ pair.current.mode = "warm"
                       /\ pair.baseline.minor = pair.current.minor
                       /\ \A f \in DOMAIN pair.baseline.field :
                             /\ pair.baseline.field[f] = pair.current.field[f]
                             /\ pair.baseline.field[f] # "absent"
    IN  status \in {0, 3, 4} =>
          /\ required \subseteq Names
          /\ status = 0 => askedSame /\ ~anyBroken /\ (required # {} => paired # {})
          /\ status = 4 => askedSame /\ anyBroken
          /\ status = 3 /\ askedSame => required # {} /\ paired = {} /\ ~anyBroken
============================================================================
