------------------------------ MODULE DiffProofs ------------------------------
(***************************************************************************)
(* Proofs about Diff, for every pair of reports, every set of conditions   *)
(* and every number of queries: what becomes of each target, that one      *)
(* response is noise, and what an exit status tells.                       *)
(***************************************************************************)
EXTENDS Diff, FiniteSetTheorems, TLAPS

\* What Compare returns for two runs that can be compared.
AllFindings ==
    {Finding("PRESENCE", id, Side(id)) : id \in {i \in Ids : Unpaired(i)}}
      \cup UNION {TargetFindings(id, Before[id], After[id]) : id \in Compared}

AllSuppressions ==
    {Suppression("redacted-identity", id) : id \in Ids \cap Redacted}
      \cup {Suppression("local-position", id) : id \in {i \in Ids : Paired(i) /\ IsLocal(i)}}
      \cup {Suppression("incomplete-target", id) :
                id \in {i \in Ids : Paired(i) /\ ~IsLocal(i) /\ IsPartial(i)}}
      \cup UNION {TargetSuppressions(id, Before[id], After[id]) : id \in Compared}

Blank == blockers = {} /\ findings = {} /\ suppressions = {} /\ compared = 0

Judged ==
    /\ blockers = Gate
    /\ IF Gate = {}
       THEN findings = AllFindings /\ suppressions = AllSuppressions
            /\ compared = Cardinality(Compared)
       ELSE findings = {} /\ suppressions = {} /\ compared = 0

\* The exit status of a diff that was delivered.
Verdict ==
    IF blockers # {} THEN 3
    ELSE IF \E n \in required : Outcome(n) = "failed" THEN 4
    ELSE IF \E n \in required : Outcome(n) = "not-evaluated" THEN 3 ELSE 0

\* What each step of runDiff has at hand.
StepInv ==
    /\ pair \in Pairs
    /\ stage \in {"load", "compare", "require", "emit", "done"}
    /\ stage \in {"load", "compare"} => Blank
    /\ stage \in {"require", "emit"} => Judged
    /\ stage # "done" => status = -1
    /\ stage = "emit" => required \subseteq Names /\ outcomes = [n \in required |-> Outcome(n)]
    /\ stage = "done" => \/ status = 2 /\ (Blank \/ Judged)
                         \/ Judged /\ required \subseteq Names /\ status = Verdict

-----------------------------------------------------------------------------
LEMMA SameReports ==
    ASSUME pair' = pair
    PROVE  /\ Gate' = Gate /\ Compared' = Compared
           /\ AllFindings' = AllFindings /\ AllSuppressions' = AllSuppressions
BY DEF Gate, AllFindings, AllSuppressions, Compared, Before, After, Ids, Unpaired, Paired, IsLocal,
   IsPartial, Side

LEMMA SameJudgement ==
    ASSUME StepInv, UNCHANGED <<pair, required, blockers, findings, suppressions, compared>>
    PROVE  /\ Judged' = Judged /\ Blank' = Blank /\ Verdict' = Verdict
           /\ \A n \in required : Outcome(n)' = Outcome(n)
<1>1. Judged' = Judged
  BY SameReports DEF Judged
<1>2. Blank' = Blank
  BY DEF Blank
<1>3. \A n \in required : Outcome(n)' = Outcome(n)
  BY DEF Outcome, Passes, NewlyFailed, Before, After
<1>4. Verdict' = Verdict
  BY <1>3 DEF Verdict
<1>5. QED
  BY <1>1, <1>2, <1>3, <1>4

\* What every step of runDiff can rely on: before Compare nothing has been
\* said, after it the blockers, or else every finding and suppression, are
\* those of the two reports, and an exit status other than a usage error is
\* the one the conditions give.
THEOREM DiffInvariant == Spec => []StepInv
<1>1. Init => StepInv
  BY DEF Init, StepInv, Blank
<1>2. StepInv /\ [Next]_vars => StepInv'
  <2> SUFFICES ASSUME StepInv, [Next]_vars PROVE StepInv'
    OBVIOUS
  <2>1. CASE Load
    BY <2>1 DEF Load, Exit, diff, StepInv, Blank
  <2>2. CASE CompareReports
    <3>1. pair' = pair /\ stage = "compare" /\ stage' = "require" /\ status' = status
      BY <2>2 DEF CompareReports
    <3>2. Judged'
      <4>1. Blank
        BY <3>1 DEF StepInv
      <4>2. QED
        BY <2>2, <3>1, <4>1, SameReports DEF CompareReports, Judged, Blank, AllFindings, AllSuppressions
    <3>3. QED
      BY <3>1, <3>2 DEF StepInv
  <2>3. CASE Require
    <3>1. /\ stage = "require" /\ UNCHANGED <<pair, required, blockers, findings, suppressions, compared>>
      BY <2>3 DEF Require, diff
    <3>2. Judged' /\ \A n \in required : Outcome(n)' = Outcome(n)
      BY <3>1, SameJudgement DEF StepInv
    <3>4. CASE required \subseteq Names
      BY <2>3, <3>1, <3>2, <3>4 DEF StepInv, Require
    <3>5. CASE ~(required \subseteq Names)
      BY <2>3, <3>1, <3>2, <3>5 DEF StepInv, Require, Exit
    <3>6. QED
      BY <3>4, <3>5
  <2>4. CASE Emit
    <3>1. /\ stage = "emit" /\ stage' = "done"
          /\ UNCHANGED <<pair, required, blockers, findings, suppressions, compared>>
      BY <2>4 DEF Emit, diff, Exit
    <3>2. Judged' /\ Verdict' = Verdict
      BY <3>1, SameJudgement DEF StepInv
    <3>3. \A n \in required : outcomes[n] = Outcome(n)
      BY <3>1 DEF StepInv
    <3>4. required \subseteq Names /\ (status' = 2 \/ status' = Verdict)
      BY <2>4, <3>1, <3>3 DEF Emit, Exit, ExitCode, Verdict, StepInv
    <3>5. QED
      BY <3>1, <3>2, <3>4 DEF StepInv
  <2>5. CASE UNCHANGED vars
    <3>1. UNCHANGED <<pair, required, stage, blockers, findings, suppressions, compared, outcomes, status>>
      BY <2>5 DEF vars
    <3>2. QED
      BY <3>1, SameJudgement DEF StepInv
  <2>6. QED
    BY <2>1, <2>2, <2>3, <2>4, <2>5 DEF Next
<1>3. QED
  BY <1>1, <1>2, PTL DEF Spec

-----------------------------------------------------------------------------
(***************************************************************************)
(* What a finding says.                                                    *)
(***************************************************************************)
LEMMA FindingFields ==
    ASSUME NEW code, NEW id, NEW detail
    PROVE  /\ Finding(code, id, detail).code = code
           /\ Finding(code, id, detail).target = id
           /\ Finding(code, id, detail).detail = detail
BY DEF Finding

LEMMA SuppressionTarget ==
    ASSUME NEW reason, NEW id
    PROVE  Suppression(reason, id).target = id
BY DEF Suppression

\* One of the two results has failed.
FailsOnce(b, c) == \/ Successes(b) = 0 /\ Successes(c) # 0
                   \/ Successes(b) # 0 /\ Successes(c) = 0

\* The finding about a count that moved by the floor or more.
CountMoved(f, id, b, c) ==
    \E k \in DOMAIN Counters(b) :
        /\ f = Finding(k, id, "")
        /\ Differ(Counters(b)[k], Counters(c)[k]) >= Floor(Max({b.total, c.total}))

\* The findings about a target, one by one.
FindingReason(f, id, b, c) ==
    \/ f = Finding("OPEN", id, "") /\ b.unopened # c.unopened
    \/ f = Finding("FAILED", id, "") /\ FailsOnce(b, c)
    \/ f = Finding("QUERIES", id, "") /\ b.total # c.total
    \/ b.total = c.total /\ CountMoved(f, id, b, c)
    \/ /\ f = Finding("STATUS", id, "") /\ b.total = c.total
       /\ Status(b) # Status(c) /\ StatusNoise(b, c) = {}
    \/ /\ f = Finding("DNSSEC", id, c.verdict) /\ b.total = c.total
       /\ b.verdict # c.verdict /\ Decided(b.verdict) /\ Decided(c.verdict)

LEMMA FindingCases ==
    ASSUME NEW id, NEW b, NEW c, NEW f \in TargetFindings(id, b, c)
    PROVE  FindingReason(f, id, b, c)
<1> USE DEF FindingReason
<1>1. CASE f \in When(b.unopened # c.unopened, {Finding("OPEN", id, "")})
  BY <1>1 DEF When
<1>2. CASE f \in When((Successes(b) = 0) # (Successes(c) = 0), {Finding("FAILED", id, "")})
  <2>1. ((Successes(b) = 0) # (Successes(c) = 0)) /\ f = Finding("FAILED", id, "")
    BY <1>2, Zenon DEF When
  <2>2. FailsOnce(b, c)
    BY <2>1, Zenon DEF FailsOnce
  <2>3. QED
    BY <2>1, <2>2
<1>3. CASE f \in When(b.total # c.total, {Finding("QUERIES", id, "")})
  BY <1>3 DEF When
<1>4. CASE b.total = c.total /\ f \in Counted(id, b, c)
  BY <1>4 DEF Counted, CountMoved
<1>5. CASE /\ b.total = c.total
           /\ f \in When(Status(b) # Status(c) /\ StatusNoise(b, c) = {}, {Finding("STATUS", id, "")})
  BY <1>5 DEF When
<1>6. CASE /\ b.total = c.total
           /\ f \in When(b.verdict # c.verdict /\ Decided(b.verdict) /\ Decided(c.verdict),
                         {Finding("DNSSEC", id, c.verdict)})
  BY <1>6 DEF When
<1>7. f \in HardFacts(id, b, c) \/ b.total = c.total
  BY DEF TargetFindings, When
<1>8. QED
  BY <1>1, <1>2, <1>3, <1>4, <1>5, <1>6, <1>7, Zenon DEF TargetFindings, HardFacts, When

LEMMA TargetFindingFacts ==
    ASSUME NEW id, NEW b, NEW c, NEW f \in TargetFindings(id, b, c)
    PROVE  /\ f.target = id
           /\ f.code # "PRESENCE"
           /\ f.code = "FAILED" => FailsOnce(b, c)
           /\ f.code = "OPEN" => b.unopened # c.unopened
           /\ f.code = "DNSSEC" => /\ f.detail = c.verdict /\ b.verdict # c.verdict
                                   /\ Decided(b.verdict) /\ Decided(c.verdict)
<1>1. CASE f = Finding("OPEN", id, "") /\ b.unopened # c.unopened
  <2>1. f.code = "OPEN" /\ f.target = id
    BY <1>1 DEF Finding
  <2>2. QED
    BY <1>1, <2>1
<1>2. CASE f = Finding("FAILED", id, "") /\ FailsOnce(b, c)
  <2>1. f.code = "FAILED" /\ f.target = id
    BY <1>2 DEF Finding
  <2>2. QED
    BY <1>2, <2>1
<1>3. CASE \E k \in {"USABLE", "ANSWERS", "TRUNCATED", "NOERROR", "REFUSED", "QUERIES", "STATUS"} :
              f = Finding(k, id, "")
  <2>1. PICK k \in {"USABLE", "ANSWERS", "TRUNCATED", "NOERROR", "REFUSED", "QUERIES", "STATUS"} :
           f = Finding(k, id, "")
    BY <1>3
  <2>2. f.code = k /\ f.target = id
    BY <2>1 DEF Finding
  <2>3. QED
    BY <2>1, <2>2
<1>4. CASE /\ f = Finding("DNSSEC", id, c.verdict) /\ b.total = c.total
           /\ b.verdict # c.verdict /\ Decided(b.verdict) /\ Decided(c.verdict)
  <2>1. f.code = "DNSSEC" /\ f.target = id /\ f.detail = c.verdict
    BY <1>4 DEF Finding
  <2>2. QED
    BY <1>4, <2>1
<1>5. DOMAIN Counters(b) = {"USABLE", "ANSWERS", "TRUNCATED", "NOERROR", "REFUSED"}
  BY DEF Counters
<1>6. CASE b.total = c.total /\ CountMoved(f, id, b, c)
  BY <1>3, <1>5, <1>6 DEF CountMoved
<1>7. CASE f = Finding("QUERIES", id, "") /\ b.total # c.total
  BY <1>3, <1>7
<1>8. CASE /\ f = Finding("STATUS", id, "") /\ b.total = c.total
           /\ Status(b) # Status(c) /\ StatusNoise(b, c) = {}
  BY <1>3, <1>8
<1>9. FindingReason(f, id, b, c)
  BY FindingCases, Zenon
<1>10. QED
  BY <1>1, <1>2, <1>4, <1>6, <1>7, <1>8, <1>9, Zenon DEF FindingReason

LEMMA AllFindingFacts ==
    ASSUME NEW f \in AllFindings
    PROVE  \/ /\ f.code = "PRESENCE" /\ f.target \in Ids /\ Unpaired(f.target)
              /\ f.detail = Side(f.target)
           \/ /\ f.code # "PRESENCE" /\ f.target \in Compared
              /\ f \in TargetFindings(f.target, Before[f.target], After[f.target])
<1>1. CASE f \in {Finding("PRESENCE", id, Side(id)) : id \in {i \in Ids : Unpaired(i)}}
  <2>1. PICK id \in Ids : Unpaired(id) /\ f = Finding("PRESENCE", id, Side(id))
    BY <1>1
  <2>2. QED
    BY <2>1, FindingFields
<1>2. CASE f \in UNION {TargetFindings(id, Before[id], After[id]) : id \in Compared}
  <2>1. PICK id \in Compared : f \in TargetFindings(id, Before[id], After[id])
    BY <1>2
  <2>2. f.target = id /\ f.code # "PRESENCE"
    BY <2>1, TargetFindingFacts
  <2>3. QED
    BY <2>1, <2>2
<1>3. QED
  BY <1>1, <1>2 DEF AllFindings

\* Every target that is not compared has a finding, or a suppression, of its own.
LEMMA NamedWhy ==
    ASSUME NEW id \in Ids, id \notin Compared
    PROVE  id \in {x.target : x \in AllFindings \cup AllSuppressions}
<1>1. CASE id \in Redacted
  <2>1. Suppression("redacted-identity", id) \in AllSuppressions
    BY <1>1 DEF AllSuppressions
  <2>2. QED
    BY <2>1, SuppressionTarget
<1>2. CASE Unpaired(id)
  <2>1. Finding("PRESENCE", id, Side(id)) \in AllFindings
    BY <1>2 DEF AllFindings
  <2>2. QED
    BY <2>1, FindingFields
<1>3. CASE Paired(id) /\ IsLocal(id)
  <2>1. Suppression("local-position", id) \in AllSuppressions
    BY <1>3 DEF AllSuppressions
  <2>2. QED
    BY <2>1, SuppressionTarget
<1>4. CASE Paired(id) /\ ~IsLocal(id) /\ IsPartial(id)
  <2>1. Suppression("incomplete-target", id) \in AllSuppressions
    BY <1>4 DEF AllSuppressions
  <2>2. QED
    BY <2>1, SuppressionTarget
<1>5. QED
  BY <1>1, <1>2, <1>3, <1>4 DEF Compared, Paired, Unpaired

\* A compared target whose status or verdict changed is named as well.
LEMMA ChangeNamed ==
    ASSUME NEW id \in Compared,
           Status(Before[id]) # Status(After[id]) \/ Before[id].verdict # After[id].verdict
    PROVE  id \in {x.target : x \in AllFindings \cup AllSuppressions}
<1> DEFINE b == Before[id]
           c == After[id]
<1>1. \A x \in TargetFindings(id, b, c) : x \in AllFindings
  BY DEF AllFindings
<1>2. \A x \in TargetSuppressions(id, b, c) : x \in AllSuppressions
  BY DEF AllSuppressions
<1> HIDE DEF b, c
<1>3. \E x \in TargetFindings(id, b, c) \cup TargetSuppressions(id, b, c) : x.target = id
  <2>1. CASE b.total # c.total
    <3>1. Suppression("denominator-mismatch", id) \in TargetSuppressions(id, b, c)
      BY <2>1 DEF TargetSuppressions
    <3>2. QED
      BY <3>1, SuppressionTarget
  <2>2. CASE b.total = c.total /\ Status(b) # Status(c) /\ StatusNoise(b, c) = {}
    <3>1. Finding("STATUS", id, "") \in TargetFindings(id, b, c)
      BY <2>2 DEF TargetFindings, When
    <3>2. Finding("STATUS", id, "").target = id
      BY DEF Finding
    <3>3. QED
      BY <3>1, <3>2
  <2>3. CASE b.total = c.total /\ Status(b) # Status(c) /\ StatusNoise(b, c) # {}
    <3>1. PICK n \in StatusNoise(b, c) : TRUE
      BY <2>3
    <3>2. Suppression(n, id) \in TargetSuppressions(id, b, c)
      BY <2>3, <3>1 DEF TargetSuppressions, When
    <3>3. QED
      BY <3>2, SuppressionTarget
  <2>4. CASE /\ b.total = c.total /\ b.verdict # c.verdict
             /\ Decided(b.verdict) /\ Decided(c.verdict)
    <3>1. Finding("DNSSEC", id, c.verdict) \in TargetFindings(id, b, c)
      BY <2>4 DEF TargetFindings, When
    <3>2. QED
      BY <3>1, FindingFields
  <2>5. CASE /\ b.total = c.total /\ b.verdict # c.verdict
             /\ ~(Decided(b.verdict) /\ Decided(c.verdict))
    <3>1. Suppression("probe-incomplete", id) \in TargetSuppressions(id, b, c)
      BY <2>5 DEF TargetSuppressions, When
    <3>2. QED
      BY <3>1, SuppressionTarget
  <2>6. QED
    BY <2>1, <2>2, <2>3, <2>4, <2>5 DEF b, c
<1>4. QED
  BY <1>1, <1>2, <1>3

-----------------------------------------------------------------------------
LEMMA AccountedFor == StepInv => EveryTargetAccounted
<1> SUFFICES ASSUME StepInv, stage \in {"require", "emit"}, blockers = {}
             PROVE  EveryTargetAccounted
  BY DEF EveryTargetAccounted
<1> DEFINE counted == {id \in (DOMAIN Before \cap DOMAIN After) \ Redacted :
                          /\ ~Before[id].incomplete /\ ~Before[id].local
                          /\ ~After[id].incomplete /\ ~After[id].local}
           named == {x.target : x \in findings \cup suppressions}
<1>1. findings = AllFindings /\ suppressions = AllSuppressions /\ compared = Cardinality(Compared)
  BY DEF StepInv, Judged
<1>2. counted = Compared
  BY DEF Compared, Paired, IsLocal, IsPartial, Ids
<1>3. Ids \subseteq counted \cup named
  BY <1>1, <1>2, NamedWhy
<1>4. \A f \in findings : f.code # "PRESENCE" => f.target \in counted
  BY <1>1, <1>2, AllFindingFacts
<1>5. \A id \in counted :
         Status(Before[id]) # Status(After[id]) \/ Before[id].verdict # After[id].verdict
           => id \in named
  BY <1>1, <1>2, ChangeNamed
<1>6. QED
  BY <1>1, <1>2, <1>3, <1>4, <1>5 DEF EveryTargetAccounted

-----------------------------------------------------------------------------
(***************************************************************************)
(* One response is noise.                                                  *)
(***************************************************************************)
LEMMA ComparedResults ==
    ASSUME pair \in Pairs, NEW id \in Compared
    PROVE  /\ IsResult(Before[id]) /\ ~Before[id].incomplete /\ ~Before[id].local
           /\ IsResult(After[id]) /\ ~After[id].incomplete /\ ~After[id].local
           /\ Before[id].total = Queries /\ After[id].total = Queries
<1>1. IsReport(pair.baseline) /\ IsReport(pair.current)
  BY DiffAssumption
<1>2. IsResult(Before[id]) /\ IsResult(After[id])
  BY <1>1 DEF IsReport, Compared, Paired, Before, After
<1>3. /\ ~Before[id].incomplete /\ ~Before[id].local
      /\ ~After[id].incomplete /\ ~After[id].local
  BY DEF Compared, IsLocal, IsPartial
<1>4. QED
  BY <1>2, <1>3 DEF IsResult

LEMMA FloorIsTwo ==
    ASSUME NEW total \in Nat
    PROVE  Floor(Max({total, total})) \in Nat /\ Floor(Max({total, total})) >= 2
<1>1. Max({total, total}) = total
  BY DEF Max
<1> DEFINE percent == (total + 99) \div 100
<1>2. percent \in Nat
  OBVIOUS
<1> HIDE DEF percent
<1>3. \A y \in {2, percent} : IF percent >= 2 THEN percent >= y ELSE 2 >= y
  BY <1>2
<1>4. \E x \in {2, percent} : \A y \in {2, percent} : x >= y
  BY <1>3
<1>5. /\ Max({2, percent}) \in {2, percent}
      /\ \A y \in {2, percent} : Max({2, percent}) >= y
  BY <1>4 DEF Max
<1>6. Max({2, percent}) \in Nat /\ Max({2, percent}) >= 2
  BY <1>2, <1>5
<1>7. Floor(total) = Max({2, percent})
  BY DEF Floor, percent
<1>8. QED
  BY <1>1, <1>6, <1>7

\* Counts that moved by at most one, in a target that answers in both runs.
Close(b, c) ==
    /\ \A x \in {<<b.usable, c.usable>>, <<b.refused, c.refused>>, <<b.answers, c.answers>>,
                 <<b.truncated, c.truncated>>, <<b.scored, c.scored>>} : ~(Differ(x[1], x[2]) > 1)
    /\ b.unopened = c.unopened /\ b.verdict = c.verdict /\ b.total = c.total
    /\ Successes(b) # 0 /\ Successes(c) # 0

LEMMA CloseCounts ==
    ASSUME NEW b, NEW c, IsResult(b), IsResult(c), Close(b, c)
    PROVE  /\ \A k \in DOMAIN Counters(b) :
                 /\ Differ(Counters(b)[k], Counters(c)[k]) \in Nat
                 /\ Differ(Counters(b)[k], Counters(c)[k]) <= 1
           /\ Differ(b.usable, c.usable) \in 0 .. 1
<1>1. /\ Differ(b.usable, c.usable) \in 0 .. 1
      /\ Differ(b.refused, c.refused) \in 0 .. 1
      /\ Differ(b.answers, c.answers) \in 0 .. 1
      /\ Differ(b.truncated, c.truncated) \in 0 .. 1
  BY DEF Close, Differ, IsResult
<1>2. QED
  BY <1>1 DEF Counters

LEMMA CloseIsQuiet ==
    ASSUME NEW id, NEW b, NEW c, IsResult(b), IsResult(c), Close(b, c),
           ~b.incomplete, ~c.incomplete, ~b.local, ~c.local
    PROVE  TargetFindings(id, b, c) = {}
<1> SUFFICES ASSUME NEW f \in TargetFindings(id, b, c) PROVE FALSE
  OBVIOUS
<1> DEFINE floor == Floor(Max({b.total, c.total}))
<1>1. floor \in Nat /\ floor >= 2
  BY FloorIsTwo DEF Close, IsResult
<1> HIDE DEF floor
<1>2. b.unopened = c.unopened /\ b.verdict = c.verdict /\ b.total = c.total
  BY DEF Close
<1>3. ~FailsOnce(b, c)
  BY DEF Close, FailsOnce
<1>4. ~CountMoved(f, id, b, c)
  <2> SUFFICES ASSUME CountMoved(f, id, b, c) PROVE FALSE
    OBVIOUS
  <2>1. PICK k \in DOMAIN Counters(b) : Differ(Counters(b)[k], Counters(c)[k]) >= floor
    BY DEF CountMoved, floor
  <2>2. /\ Differ(Counters(b)[k], Counters(c)[k]) \in Nat
        /\ Differ(Counters(b)[k], Counters(c)[k]) <= 1
    BY <2>1, CloseCounts
  <2> DEFINE moved == Differ(Counters(b)[k], Counters(c)[k])
  <2> HIDE DEF moved
  <2>3. moved \in Nat /\ moved <= 1 /\ moved >= floor
    BY <2>1, <2>2 DEF moved
  <2>4. QED
    BY <1>1, <2>3
<1>5. ~(Status(b) # Status(c) /\ StatusNoise(b, c) = {})
  <2> SUFFICES ASSUME Status(b) # Status(c), StatusNoise(b, c) = {} PROVE FALSE
    OBVIOUS
  <2>1. {Status(b), Status(c)} = {"qualified", "ineligible"}
    BY DEF Status, Close
  <2>2. Differ(b.usable, c.usable) < floor
    BY <1>1, CloseCounts
  <2>3. When({Status(b), Status(c)} = {"qualified", "ineligible"} /\ Differ(b.usable, c.usable) < floor,
             {"boundary-crossing"}) = {"boundary-crossing"}
    BY <2>1, <2>2 DEF When
  <2>4. StatusNoise(b, c) \in {{"peer-relative"}, {"boundary-crossing"}}
    BY <2>3 DEF StatusNoise, floor
  <2>5. QED
    BY <2>4
<1>6. FindingReason(f, id, b, c)
  BY FindingCases, Zenon
<1>7. QED
  BY <1>2, <1>3, <1>4, <1>5, <1>6, Zenon DEF FindingReason

LEMMA NoiseIsSilent == StepInv => OneResponseIsNoise
<1> SUFFICES ASSUME StepInv, NEW f \in findings, f.code # "PRESENCE",
                    Close(Before[f.target], After[f.target])
             PROVE  FALSE
  BY DEF OneResponseIsNoise, Close
<1>1. f \in AllFindings
  BY DEF StepInv, Blank, Judged
<1>2. f.target \in Compared /\ f \in TargetFindings(f.target, Before[f.target], After[f.target])
  BY <1>1, AllFindingFacts
<1>3. pair \in Pairs
  BY DEF StepInv
<1>4. TargetFindings(f.target, Before[f.target], After[f.target]) = {}
  BY <1>2, <1>3, ComparedResults, CloseIsQuiet
<1>5. QED
  BY <1>2, <1>4

-----------------------------------------------------------------------------
(***************************************************************************)
(* What an exit status tells.                                              *)
(***************************************************************************)
Known(r) == {id \in DOMAIN r : id \notin Redacted}

\* The targets that fail now and did not, or were not there, before.
Failing ==
    {id \in Compared : Successes(Before[id]) # 0 /\ Successes(After[id]) = 0}
      \cup {id \in Compared : ~Before[id].unopened /\ After[id].unopened}
      \cup {id \in Known(After) \ Known(Before) :
               Successes(After[id]) = 0 /\ ~After[id].local /\ ~After[id].incomplete}

Regressed == {id \in Compared : /\ Before[id].verdict = "validating"
                                /\ After[id].verdict = "not-validating"}

\* A count that moved by two responses and by one percent of the queries.
Moved(x, y, total) == Differ(x, y) >= 2 /\ 100 * Differ(x, y) >= total

\* What a target did differently, verdicts aside.
Behaves(b, c) ==
    \/ b.unopened # c.unopened
    \/ FailsOnce(b, c)
    \/ Moved(b.usable, c.usable, b.total) \/ Moved(b.refused, c.refused, b.total)
    \/ Moved(b.answers, c.answers, b.total) \/ Moved(b.truncated, c.truncated, b.total)

Revised(b, c) == b.verdict # c.verdict /\ Decided(b.verdict) /\ Decided(c.verdict)

Changed == {id \in Compared : Behaves(Before[id], After[id]) \/ Revised(Before[id], After[id])}

\* The two runs asked the same, and both reports say so.
AskedSame ==
    /\ pair.baseline.mode = "warm" /\ pair.current.mode = "warm"
    /\ pair.baseline.minor = pair.current.minor
    /\ \A f \in DOMAIN pair.baseline.field :
          /\ pair.baseline.field[f] = pair.current.field[f]
          /\ pair.baseline.field[f] # "absent"

\* A target that is there in one run only has a finding that tells which.
LEMMA PresenceFindings ==
    ASSUME NEW id, id \in Ids, Unpaired(id)
    PROVE  \E f \in AllFindings : /\ f.code = "PRESENCE" /\ f.target = id
                                  /\ f.detail = Side(id)
<1>1. Finding("PRESENCE", id, Side(id)) \in AllFindings
  BY DEF AllFindings
<1>2. QED
  BY <1>1, FindingFields

\* Failures, openings and verdicts that changed have a finding each.
LEMMA FactFindings ==
    ASSUME pair \in Pairs, NEW id \in Compared
    PROVE  /\ FailsOnce(Before[id], After[id]) =>
                 \E f \in AllFindings : f.code = "FAILED" /\ f.target = id
           /\ Before[id].unopened # After[id].unopened =>
                 \E f \in AllFindings : f.code = "OPEN" /\ f.target = id
           /\ id \in Regressed => \E f \in AllFindings : f.code = "DNSSEC" /\ f.detail = "not-validating"
<1> DEFINE b == Before[id]
           c == After[id]
<1>1. \A f \in TargetFindings(id, b, c) : f \in AllFindings
  BY DEF AllFindings
<1>2. b.total = c.total
  BY ComparedResults
<1>3. ASSUME FailsOnce(b, c)
      PROVE  \E f \in AllFindings : f.code = "FAILED" /\ f.target = id
  <2>1. (Successes(b) = 0) # (Successes(c) = 0)
    BY <1>3, Zenon DEF FailsOnce
  <2>2. Finding("FAILED", id, "") \in When((Successes(b) = 0) # (Successes(c) = 0), {Finding("FAILED", id, "")})
    BY <2>1, Zenon DEF When
  <2>3. Finding("FAILED", id, "") \in AllFindings
    BY <1>1, <2>2, Zenon DEF TargetFindings, HardFacts
  <2>4. Finding("FAILED", id, "").code = "FAILED" /\ Finding("FAILED", id, "").target = id
    BY DEF Finding
  <2>5. QED
    BY <2>3, <2>4
<1>4. ASSUME b.unopened # c.unopened
      PROVE  \E f \in AllFindings : f.code = "OPEN" /\ f.target = id
  <2>1. Finding("OPEN", id, "") \in TargetFindings(id, b, c)
    BY <1>4 DEF TargetFindings, HardFacts, When
  <2>2. Finding("OPEN", id, "").code = "OPEN" /\ Finding("OPEN", id, "").target = id
    BY DEF Finding
  <2>3. QED
    BY <1>1, <2>1, <2>2
<1>5. ASSUME id \in Regressed
      PROVE  \E f \in AllFindings : f.code = "DNSSEC" /\ f.detail = "not-validating"
  <2>1. b.verdict = "validating" /\ c.verdict = "not-validating"
    BY <1>5 DEF Regressed
  <2>2. Finding("DNSSEC", id, c.verdict) \in TargetFindings(id, b, c)
    BY <1>2, <2>1 DEF TargetFindings, When, Decided
  <2>3. /\ Finding("DNSSEC", id, c.verdict).code = "DNSSEC"
        /\ Finding("DNSSEC", id, c.verdict).detail = c.verdict
    BY DEF Finding
  <2>4. QED
    BY <1>1, <2>1, <2>2, <2>3
<1>6. QED
  BY <1>3, <1>4, <1>5

\* A difference reaches the floor when it is two responses and one percent.
LEMMA FloorMeans ==
    ASSUME NEW total \in Nat, NEW d \in Nat
    PROVE  d >= Floor(Max({total, total})) <=> d >= 2 /\ 100 * d >= total
<1> DEFINE percent == (total + 99) \div 100
<1>1. Max({total, total}) = total
  BY DEF Max
<1>2. percent \in Nat /\ (d >= percent <=> 100 * d >= total)
  OBVIOUS
<1>3. Floor(total) = Max({2, percent})
  BY DEF Floor, percent
<1> HIDE DEF percent
<1>4. \E x \in {2, percent} : \A y \in {2, percent} : x >= y
  <2>1. CASE percent >= 2
    BY <1>2, <2>1
  <2>2. CASE 2 >= percent
    BY <1>2, <2>2
  <2>3. QED
    BY <1>2, <2>1, <2>2
<1>5. /\ Max({2, percent}) \in {2, percent}
      /\ \A y \in {2, percent} : Max({2, percent}) >= y
  BY <1>4 DEF Max
<1>6. d >= Max({2, percent}) <=> d >= 2 /\ d >= percent
  BY <1>2, <1>5
<1>7. QED
  BY <1>1, <1>2, <1>3, <1>6

\* A count has a finding just when it moved.
LEMMA CountMeans ==
    ASSUME NEW b, NEW c, IsResult(b), IsResult(c), b.total = c.total, NEW k \in DOMAIN Counters(b)
    PROVE  /\ Counters(b)[k] \in Nat /\ Counters(c)[k] \in Nat
           /\ Differ(Counters(b)[k], Counters(c)[k]) \in Nat
           /\ Differ(Counters(b)[k], Counters(c)[k]) >= Floor(Max({b.total, c.total}))
                 <=> Moved(Counters(b)[k], Counters(c)[k], b.total)
<1>1. Counters(b)[k] \in Nat /\ Counters(c)[k] \in Nat
  BY DEF Counters, IsResult
<1>2. Differ(Counters(b)[k], Counters(c)[k]) \in Nat
  BY <1>1 DEF Differ
<1> DEFINE d == Differ(Counters(b)[k], Counters(c)[k])
<1>3. Moved(Counters(b)[k], Counters(c)[k], b.total) <=> d >= 2 /\ 100 * d >= b.total
  BY DEF Moved
<1>4. b.total \in Nat
  BY DEF IsResult
<1> HIDE DEF d
<1>5. d \in Nat
  BY <1>2 DEF d
<1>6. d >= Floor(Max({b.total, b.total})) <=> d >= 2 /\ 100 * d >= b.total
  BY <1>4, <1>5, FloorMeans
<1>7. QED
  BY <1>1, <1>3, <1>5, <1>6 DEF d

\* A status finding is about a target that behaves differently: one run has
\* failed, or the usable counts moved.
LEMMA StatusMeans ==
    ASSUME NEW b, NEW c, IsResult(b), IsResult(c), b.total = c.total,
           ~b.incomplete, ~c.incomplete, ~b.local, ~c.local,
           Status(b) # Status(c), StatusNoise(b, c) = {}
    PROVE  FailsOnce(b, c) \/ Moved(b.usable, c.usable, b.total)
<1> SUFFICES ASSUME ~FailsOnce(b, c) PROVE Moved(b.usable, c.usable, b.total)
  OBVIOUS
<1> DEFINE floor == Floor(Max({b.total, c.total}))
<1> HIDE DEF floor
<1>1. {Status(b), Status(c)} = {"qualified", "ineligible"}
  BY DEF Status, FailsOnce
<1>2. ~(Differ(b.usable, c.usable) < floor)
  <2> SUFFICES ASSUME Differ(b.usable, c.usable) < floor PROVE FALSE
    OBVIOUS
  <2>1. When({Status(b), Status(c)} = {"qualified", "ineligible"} /\ Differ(b.usable, c.usable) < floor,
             {"boundary-crossing"}) = {"boundary-crossing"}
    BY <1>1 DEF When
  <2>2. StatusNoise(b, c) \in {{"peer-relative"}, {"boundary-crossing"}}
    BY <2>1 DEF StatusNoise, floor
  <2>3. QED
    BY <2>2
<1>3. floor \in Nat
  BY FloorIsTwo DEF floor, IsResult
<1>4. "USABLE" \in DOMAIN Counters(b) /\ Counters(b)["USABLE"] = b.usable /\ Counters(c)["USABLE"] = c.usable
  BY DEF Counters
<1>5. Differ(b.usable, c.usable) \in Nat
  BY <1>4, CountMeans
<1> DEFINE d == Differ(b.usable, c.usable)
<1> HIDE DEF d
<1>6. d >= floor
  BY <1>2, <1>3, <1>5 DEF d
<1>7. QED
  BY <1>4, <1>6, CountMeans DEF d, floor

\* A target that behaves as before, with no other verdict, has no finding.
LEMMA FindingMeansChange ==
    ASSUME pair \in Pairs, NEW id \in Compared, NEW f \in TargetFindings(id, Before[id], After[id])
    PROVE  id \in Changed
<1> DEFINE b == Before[id]
           c == After[id]
<1>1. /\ IsResult(b) /\ ~b.incomplete /\ ~b.local
      /\ IsResult(c) /\ ~c.incomplete /\ ~c.local
      /\ b.total = c.total
  BY ComparedResults
<1>2. SUFFICES Behaves(b, c) \/ Revised(b, c)
  BY DEF Changed
<1>3. FindingReason(f, id, b, c)
  BY FindingCases, Zenon
<1> HIDE DEF b, c
<1>4. CASE CountMoved(f, id, b, c)
  <2>1. PICK k \in DOMAIN Counters(b) :
               Differ(Counters(b)[k], Counters(c)[k]) >= Floor(Max({b.total, c.total}))
    BY <1>4 DEF CountMoved
  <2>2. Moved(Counters(b)[k], Counters(c)[k], b.total)
    BY <1>1, <2>1, CountMeans
  <2>3. \/ Counters(b)[k] = b.usable /\ Counters(c)[k] = c.usable
        \/ Counters(b)[k] = b.refused /\ Counters(c)[k] = c.refused
        \/ Counters(b)[k] = b.answers /\ Counters(c)[k] = c.answers
        \/ Counters(b)[k] = b.truncated /\ Counters(c)[k] = c.truncated
    BY DEF Counters
  <2>4. QED
    BY <2>2, <2>3 DEF Behaves
<1>5. CASE Status(b) # Status(c) /\ StatusNoise(b, c) = {}
  BY <1>1, <1>5, StatusMeans DEF Behaves
<1>6. QED
  BY <1>1, <1>3, <1>4, <1>5, Zenon DEF FindingReason, Behaves, Revised

\* And a target that changed has one.
LEMMA ChangeMeansFinding ==
    ASSUME pair \in Pairs, NEW id \in Changed
    PROVE  AllFindings # {}
<1>1. id \in Compared
  BY DEF Changed
<1> DEFINE b == Before[id]
           c == After[id]
<1>2. IsResult(b) /\ IsResult(c) /\ b.total = c.total
  BY <1>1, ComparedResults
<1>3. \A f \in TargetFindings(id, b, c) : f \in AllFindings
  BY <1>1 DEF AllFindings
<1>4. Behaves(b, c) \/ Revised(b, c)
  BY DEF Changed
<1>5. ASSUME b.unopened # c.unopened \/ FailsOnce(b, c) PROVE AllFindings # {}
  BY <1>1, <1>5, FactFindings
<1> HIDE DEF b, c
<1>6. ASSUME NEW k \in DOMAIN Counters(b), Moved(Counters(b)[k], Counters(c)[k], b.total)
      PROVE  AllFindings # {}
  <2>1. Differ(Counters(b)[k], Counters(c)[k]) >= Floor(Max({b.total, c.total}))
    BY <1>2, <1>6, CountMeans
  <2>2. Finding(k, id, "") \in Counted(id, b, c)
    BY <2>1 DEF Counted
  <2>3. Finding(k, id, "") \in TargetFindings(id, b, c)
    BY <1>2, <2>2 DEF TargetFindings, When
  <2>4. QED
    BY <1>3, <2>3
<1>7. ASSUME Revised(b, c) PROVE AllFindings # {}
  <2>1. Finding("DNSSEC", id, c.verdict) \in TargetFindings(id, b, c)
    BY <1>2, <1>7 DEF TargetFindings, When, Revised
  <2>2. QED
    BY <1>3, <2>1
<1>8. /\ \A k \in {"USABLE", "REFUSED", "ANSWERS", "TRUNCATED"} : k \in DOMAIN Counters(b)
      /\ Counters(b)["USABLE"] = b.usable /\ Counters(c)["USABLE"] = c.usable
      /\ Counters(b)["REFUSED"] = b.refused /\ Counters(c)["REFUSED"] = c.refused
      /\ Counters(b)["ANSWERS"] = b.answers /\ Counters(c)["ANSWERS"] = c.answers
      /\ Counters(b)["TRUNCATED"] = b.truncated /\ Counters(c)["TRUNCATED"] = c.truncated
  BY DEF Counters
<1>9. ASSUME \/ Moved(b.usable, c.usable, b.total) \/ Moved(b.refused, c.refused, b.total)
             \/ Moved(b.answers, c.answers, b.total) \/ Moved(b.truncated, c.truncated, b.total)
      PROVE  AllFindings # {}
  BY <1>6, <1>8, <1>9
<1>10. QED
  BY <1>4, <1>5, <1>7, <1>9 DEF Behaves

\* What each condition asks of the findings.
LEMMA PassesMeans ==
    /\ Passes("no-new-failed-targets") <=> ~\E f \in findings : NewlyFailed(f)
    /\ Passes("no-removed-targets") <=>
          ~\E f \in findings : f.code = "PRESENCE" /\ f.detail = "only in the baseline run"
    /\ Passes("target-set-identical") <=> ~\E f \in findings : f.code = "PRESENCE"
    /\ Passes("no-dnssec-regression") <=>
          ~\E f \in findings : f.code = "DNSSEC" /\ f.detail = "not-validating"
    /\ Passes("no-behaviour-change") <=> findings = {}
<1>1. Passes("no-new-failed-targets") <=> ~\E f \in findings : NewlyFailed(f)
  BY DEF Passes
<1>2. Passes("no-removed-targets") <=>
          ~\E f \in findings : f.code = "PRESENCE" /\ f.detail = "only in the baseline run"
  BY DEF Passes
<1>3. Passes("target-set-identical") <=> ~\E f \in findings : f.code = "PRESENCE"
  BY DEF Passes
<1>4. Passes("no-dnssec-regression") <=>
          ~\E f \in findings : f.code = "DNSSEC" /\ f.detail = "not-validating"
  BY DEF Passes
<1>5. Passes("no-behaviour-change") <=> findings = {}
  BY DEF Passes
<1>6. QED
  BY <1>1, <1>2, <1>3, <1>4, <1>5

LEMMA NewlyFailedMeans ==
    ASSUME NEW f
    PROVE  /\ f.code = "FAILED" =>
                 (NewlyFailed(f) <=> Successes(Before[f.target]) > 0 /\ Successes(After[f.target]) = 0)
           /\ f.code = "OPEN" =>
                 (NewlyFailed(f) <=> ~Before[f.target].unopened /\ After[f.target].unopened)
           /\ f.code = "PRESENCE" =>
                 (NewlyFailed(f) <=> /\ f.target \in DOMAIN After
                                     /\ Successes(After[f.target]) = 0
                                     /\ ~After[f.target].incomplete /\ ~After[f.target].local)
           /\ f.code \notin {"FAILED", "OPEN", "PRESENCE"} => ~NewlyFailed(f)
BY DEF NewlyFailed

\* Ids that are in one report only are those the presence findings name.
LEMMA OneSided ==
    ASSUME NEW id
    PROVE  /\ id \in Ids /\ Unpaired(id) /\ id \in DOMAIN After
                 <=> id \in Known(After) \ Known(Before)
           /\ id \in Ids /\ Unpaired(id) /\ Side(id) = "only in the baseline run"
                 <=> id \in Known(Before) \ Known(After)
           /\ id \in Ids /\ Unpaired(id)
                 => id \in (Known(After) \ Known(Before)) \cup (Known(Before) \ Known(After))
BY DEF Ids, Unpaired, Known, Side

LEMMA SuccessesAreNat ==
    ASSUME NEW r, IsResult(r)
    PROVE  Successes(r) \in Nat
BY DEF Successes, IsResult

\* The condition no-new-failed-targets fails just when a target is failing.
LEMMA FailingTargets ==
    ASSUME pair \in Pairs, findings = AllFindings
    PROVE  Passes("no-new-failed-targets") <=> Failing = {}
<1>1. ASSUME NEW f \in findings, NewlyFailed(f)
      PROVE  f.target \in Failing
  <2> DEFINE id == f.target
  <2>1. CASE f.code = "PRESENCE"
    <3>1. id \in Ids /\ Unpaired(id)
      BY <2>1, AllFindingFacts
    <3>2. /\ id \in DOMAIN After /\ Successes(After[id]) = 0
          /\ ~After[id].incomplete /\ ~After[id].local
      BY <1>1, <2>1, NewlyFailedMeans
    <3>3. id \in Known(After) \ Known(Before)
      BY <3>1, <3>2, OneSided
    <3>4. QED
      BY <3>2, <3>3 DEF Failing
  <2>2. CASE f.code # "PRESENCE"
    <3>1. id \in Compared
      BY <2>2, AllFindingFacts
    <3>2. Successes(Before[id]) \in Nat
      BY <3>1, ComparedResults, SuccessesAreNat
    <3>3. \/ Successes(Before[id]) > 0 /\ Successes(After[id]) = 0
          \/ ~Before[id].unopened /\ After[id].unopened
      BY <1>1, <2>2, NewlyFailedMeans
    <3>4. QED
      BY <3>1, <3>2, <3>3 DEF Failing
  <2>3. QED
    BY <2>1, <2>2
<1>2. ASSUME NEW id \in Failing
      PROVE  \E f \in findings : NewlyFailed(f)
  <2>1. CASE id \in Compared /\ Successes(Before[id]) # 0 /\ Successes(After[id]) = 0
    <3>1. PICK f \in AllFindings : f.code = "FAILED" /\ f.target = id
      BY <2>1, FactFindings DEF FailsOnce
    <3>2. Successes(Before[id]) \in Nat
      BY <2>1, ComparedResults, SuccessesAreNat
    <3>3. Successes(Before[f.target]) > 0 /\ Successes(After[f.target]) = 0
      BY <2>1, <3>1, <3>2
    <3>4. QED
      BY <3>1, <3>3, NewlyFailedMeans
  <2>2. CASE id \in Compared /\ ~Before[id].unopened /\ After[id].unopened
    <3>1. PICK f \in AllFindings : f.code = "OPEN" /\ f.target = id
      BY <2>2, FactFindings
    <3>2. QED
      BY <2>2, <3>1, NewlyFailedMeans
  <2>3. CASE /\ id \in Known(After) \ Known(Before)
             /\ Successes(After[id]) = 0 /\ ~After[id].local /\ ~After[id].incomplete
    <3>1. PICK f \in AllFindings : f.code = "PRESENCE" /\ f.target = id
      BY <2>3, OneSided, PresenceFindings
    <3>2. id \in DOMAIN After
      BY <2>3 DEF Known
    <3>3. QED
      BY <2>3, <3>1, <3>2, NewlyFailedMeans
  <2>4. QED
    BY <2>1, <2>2, <2>3 DEF Failing
<1>3. QED
  BY <1>1, <1>2, PassesMeans

\* The two conditions about which targets are there.
LEMMA TargetSets ==
    ASSUME findings = AllFindings
    PROVE  /\ Passes("no-removed-targets") <=> Known(Before) \subseteq Known(After)
           /\ Passes("target-set-identical") <=> Known(Before) = Known(After)
<1>1. ASSUME NEW id \in Known(Before) \ Known(After)
      PROVE  \E f \in findings : f.code = "PRESENCE" /\ f.detail = "only in the baseline run"
  <2>1. id \in Ids /\ Unpaired(id) /\ Side(id) = "only in the baseline run"
    BY <1>1, OneSided
  <2>2. PICK f \in AllFindings : f.code = "PRESENCE" /\ f.target = id /\ f.detail = Side(id)
    BY <2>1, PresenceFindings
  <2>3. QED
    BY <2>1, <2>2
<1>2. ASSUME NEW id \in Known(After) \ Known(Before)
      PROVE  \E f \in findings : f.code = "PRESENCE"
  BY <1>2, OneSided, PresenceFindings
<1>3. ASSUME NEW f \in findings, f.code = "PRESENCE"
      PROVE  /\ f.target \in (Known(After) \ Known(Before)) \cup (Known(Before) \ Known(After))
             /\ f.detail = "only in the baseline run" => f.target \in Known(Before) \ Known(After)
  BY <1>3, AllFindingFacts, OneSided
<1>4. Passes("no-removed-targets") <=> Known(Before) \subseteq Known(After)
  BY <1>1, <1>3, PassesMeans
<1>5. Passes("target-set-identical") <=> Known(Before) = Known(After)
  BY <1>1, <1>2, <1>3, PassesMeans
<1>6. QED
  BY <1>4, <1>5

\* The condition no-dnssec-regression fails just when a verdict got worse.
LEMMA Regressions ==
    ASSUME pair \in Pairs, findings = AllFindings
    PROVE  Passes("no-dnssec-regression") <=> Regressed = {}
<1>1. ASSUME NEW f \in findings, f.code = "DNSSEC", f.detail = "not-validating"
      PROVE  f.target \in Regressed
  <2>1. f.target \in Compared /\ f \in TargetFindings(f.target, Before[f.target], After[f.target])
    BY <1>1, AllFindingFacts
  <2>2. /\ f.detail = After[f.target].verdict /\ Before[f.target].verdict # After[f.target].verdict
        /\ Decided(Before[f.target].verdict)
    BY <1>1, <2>1, TargetFindingFacts
  <2>3. QED
    BY <1>1, <2>1, <2>2 DEF Regressed, Decided
<1>2. ASSUME NEW id \in Regressed
      PROVE  \E f \in findings : f.code = "DNSSEC" /\ f.detail = "not-validating"
  <2>1. id \in Compared
    BY DEF Regressed
  <2>2. QED
    BY <2>1, FactFindings
<1>3. QED
  BY <1>1, <1>2, PassesMeans

\* The condition no-behaviour-change passes just when the same targets are there
\* and none of those compared has changed.
LEMMA BehaviourChanges ==
    ASSUME pair \in Pairs, findings = AllFindings
    PROVE  Passes("no-behaviour-change") <=> Changed = {} /\ Known(Before) = Known(After)
<1>1. ASSUME Passes("no-behaviour-change")
      PROVE  Changed = {} /\ Known(Before) = Known(After)
  <2>1. findings = {}
    BY <1>1, PassesMeans
  <2>2. Passes("target-set-identical")
    BY <2>1, PassesMeans
  <2>3. QED
    BY <2>1, <2>2, ChangeMeansFinding, TargetSets
<1>2. ASSUME ~Passes("no-behaviour-change")
      PROVE  Changed # {} \/ Known(Before) # Known(After)
  <2>1. PICK f \in AllFindings : TRUE
    BY <1>2, PassesMeans
  <2>2. CASE f.code = "PRESENCE"
    BY <2>2, AllFindingFacts, OneSided
  <2>3. CASE f.code # "PRESENCE"
    <3>1. f.target \in Compared /\ f \in TargetFindings(f.target, Before[f.target], After[f.target])
      BY <2>3, AllFindingFacts
    <3>2. f.target \in Changed
      BY <3>1, FindingMeansChange
    <3>3. QED
      BY <3>2
  <2>4. QED
    BY <2>2, <2>3
<1>3. QED
  BY <1>1, <1>2

\* What a condition forbids did happen.
Broken(n) ==
    CASE n = "no-new-failed-targets" -> Failing # {}
      [] n = "no-removed-targets"    -> ~(Known(Before) \subseteq Known(After))
      [] n = "target-set-identical"  -> Known(Before) # Known(After)
      [] n = "no-dnssec-regression"  -> Regressed # {}
      [] n = "no-behaviour-change"   -> Changed # {} \/ Known(Before) # Known(After)

LEMMA PassesTold ==
    ASSUME pair \in Pairs, findings = AllFindings, NEW n \in Names
    PROVE  Passes(n) <=> ~Broken(n)
<1>1. CASE n = "no-new-failed-targets"
  <2>1. Broken(n) <=> Failing # {}
    BY <1>1 DEF Broken
  <2>2. QED
    BY <1>1, <2>1, FailingTargets
<1>2. CASE n = "no-removed-targets"
  <2>1. Broken(n) <=> ~(Known(Before) \subseteq Known(After))
    BY <1>2 DEF Broken
  <2>2. QED
    BY <1>2, <2>1, TargetSets
<1>3. CASE n = "target-set-identical"
  <2>1. Broken(n) <=> Known(Before) # Known(After)
    BY <1>3 DEF Broken
  <2>2. QED
    BY <1>3, <2>1, TargetSets
<1>4. CASE n = "no-dnssec-regression"
  <2>1. Broken(n) <=> Regressed # {}
    BY <1>4 DEF Broken
  <2>2. QED
    BY <1>4, <2>1, Regressions
<1>5. CASE n = "no-behaviour-change"
  <2>1. Broken(n) <=> Changed # {} \/ Known(Before) # Known(After)
    BY <1>5 DEF Broken
  <2>2. QED
    BY <1>5, <2>1, BehaviourChanges
<1>6. QED
  BY <1>1, <1>2, <1>3, <1>4, <1>5 DEF Names

LEMMA NothingCompared ==
    ASSUME pair \in Pairs, Cardinality(Compared) = 0
    PROVE  Compared = {}
<1>1. IsFiniteSet(DOMAIN Before)
  BY DiffAssumption DEF IsReport, Before
<1>2. Compared \subseteq DOMAIN Before
  BY DEF Compared, Paired
<1>3. IsFiniteSet(Compared)
  BY <1>1, <1>2, FS_Subset
<1>4. QED
  BY <1>3, FS_EmptySet

\* There is no blocker just when both runs asked the same.
LEMMA GateTold ==
    ASSUME pair \in Pairs
    PROVE  Gate = {} <=> AskedSame
<1> DEFINE p == pair.baseline
           q == pair.current
<1>1. /\ p.mode \in {"warm", "cache-miss"} /\ q.mode \in {"warm", "cache-miss"}
      /\ DOMAIN p.field = DOMAIN q.field
  BY DiffAssumption DEF IsReport
<1>2. CASE "cache-miss" \in {p.mode, q.mode}
  <2>1. Gate = {"run.corpus_mode"}
    BY <1>2 DEF Gate
  <2>2. ~AskedSame
    BY <1>2 DEF AskedSame
  <2>3. QED
    BY <2>1, <2>2
<1>3. CASE p.mode = "warm" /\ q.mode = "warm"
  <2> DEFINE apart   == {f \in DOMAIN p.field : "absent" \in {p.field[f], q.field[f]} \/ p.field[f] # q.field[f]}
             version == {f \in {"speedns_version"} : p.minor # q.minor}
  <2>1. Gate = apart \cup version
    BY <1>3 DEF Gate
  <2>2. version = {} <=> p.minor = q.minor
    OBVIOUS
  <2>3. apart = {} <=> \A f \in DOMAIN p.field : p.field[f] = q.field[f] /\ p.field[f] # "absent"
    OBVIOUS
  <2>4. AskedSame <=> /\ p.minor = q.minor
                      /\ \A f \in DOMAIN p.field : p.field[f] = q.field[f] /\ p.field[f] # "absent"
    BY <1>3 DEF AskedSame
  <2> HIDE DEF apart, version
  <2>5. QED
    BY <2>1, <2>2, <2>3, <2>4
<1>4. QED
  BY <1>1, <1>2, <1>3

LEMMA ExitTold ==
    ASSUME StepInv, status \in {0, 3, 4}
    PROVE  /\ required \subseteq Names
           /\ status = 0 => /\ AskedSame /\ ~\E n \in required : Broken(n)
                            /\ required # {} => Compared # {}
           /\ status = 4 => AskedSame /\ \E n \in required : Broken(n)
           /\ status = 3 /\ AskedSame =>
                 required # {} /\ Compared = {} /\ ~\E n \in required : Broken(n)
<1>1. Judged /\ required \subseteq Names /\ status = Verdict /\ pair \in Pairs
  BY DEF StepInv
<1>2. CASE Gate # {}
  <2>1. status = 3 /\ ~AskedSame
    BY <1>1, <1>2, GateTold DEF Judged, Verdict
  <2>2. QED
    BY <1>1, <2>1
<1>3. CASE Gate = {}
  <2>1. /\ blockers = {} /\ findings = AllFindings /\ compared = Cardinality(Compared)
        /\ AskedSame
    BY <1>1, <1>3, GateTold DEF Judged
  <2>2. \A n \in required : /\ Outcome(n) = "failed" <=> Broken(n)
                            /\ Outcome(n) = "not-evaluated" <=> ~Broken(n) /\ compared = 0
    <3> SUFFICES ASSUME NEW n \in required
                 PROVE  /\ Outcome(n) = "failed" <=> Broken(n)
                        /\ Outcome(n) = "not-evaluated" <=> ~Broken(n) /\ compared = 0
      OBVIOUS
    <3>1. Passes(n) <=> ~Broken(n)
      BY <1>1, <2>1, PassesTold
    <3>2. QED
      BY <2>1, <3>1 DEF Outcome
  <2>3. compared = 0 <=> Compared = {}
    BY <1>1, <2>1, NothingCompared, FS_EmptySet
  <2>4. QED
    BY <1>1, <2>1, <2>2, <2>3 DEF Verdict
<1>4. QED
  BY <1>2, <1>3

LEMMA ExitIsHonest == StepInv => HonestExit
<1> SUFFICES ASSUME StepInv, status \in {0, 3, 4} PROVE HonestExit
  BY DEF HonestExit
<1> DEFINE paired  == {id \in Known(Before) \cap Known(After) :
                         \A r \in {Before[id], After[id]} : ~r.local /\ ~r.incomplete}
           silent(r) == Successes(r) = 0
           failing == {id \in paired : ~silent(Before[id]) /\ silent(After[id])}
                        \cup {id \in paired : ~Before[id].unopened /\ After[id].unopened}
                        \cup {id \in Known(After) \ Known(Before) :
                                 silent(After[id]) /\ ~After[id].local /\ ~After[id].incomplete}
           moved(x, y, total) == Differ(x, y) >= 2 /\ 100 * Differ(x, y) >= total
           altered(b, c) ==
                \/ b.unopened # c.unopened \/ ~(silent(b) <=> silent(c))
                \/ b.verdict # c.verdict /\ {b.verdict, c.verdict} \subseteq {"validating", "not-validating"}
                \/ moved(b.usable, c.usable, b.total) \/ moved(b.refused, c.refused, b.total)
                \/ moved(b.answers, c.answers, b.total) \/ moved(b.truncated, c.truncated, b.total)
           changed == {id \in paired : altered(Before[id], After[id])}
<1>1. paired = Compared
  BY DEF Compared, Paired, IsLocal, IsPartial, Ids, Known
<1> HIDE DEF paired
<1>2. failing = Failing
  BY <1>1 DEF Failing
<1>3. Regressed # {} <=> \E id \in paired : /\ Before[id].verdict = "validating"
                                           /\ After[id].verdict = "not-validating"
  BY <1>1 DEF Regressed
<1>4. changed = Changed
  <2>1. ASSUME NEW b, NEW c
        PROVE  altered(b, c) <=> Behaves(b, c) \/ Revised(b, c)
    <3>1. ~(silent(b) <=> silent(c)) <=> FailsOnce(b, c)
      BY DEF FailsOnce
    <3>2. b.verdict # c.verdict /\ {b.verdict, c.verdict} \subseteq {"validating", "not-validating"}
            <=> Revised(b, c)
      BY DEF Revised, Decided
    <3>3. \A x, y, total : moved(x, y, total) <=> Moved(x, y, total)
      BY DEF Moved
    <3> HIDE DEF moved, silent
    <3>4. QED
      BY <3>1, <3>2, <3>3, Zenon DEF Behaves
  <2> HIDE DEF altered
  <2>2. QED
    BY <1>1, <2>1 DEF Changed
<1> HIDE DEF failing, changed
<1> DEFINE broken(n) ==
        CASE n = "no-new-failed-targets" -> failing # {}
          [] n = "no-removed-targets"    -> ~(Known(Before) \subseteq Known(After))
          [] n = "target-set-identical"  -> Known(Before) # Known(After)
          [] n = "no-dnssec-regression"  ->
               \E id \in paired : /\ Before[id].verdict = "validating"
                                  /\ After[id].verdict = "not-validating"
          [] n = "no-behaviour-change"   -> changed # {} \/ Known(Before) # Known(After)
<1>5. \A n : broken(n) = Broken(n)
  BY <1>2, <1>3, <1>4, Zenon DEF Broken
<1> HIDE DEF broken
<1>6. /\ required \subseteq Names
      /\ status = 0 => /\ AskedSame /\ ~\E n \in required : broken(n)
                       /\ required # {} => paired # {}
      /\ status = 4 => AskedSame /\ \E n \in required : broken(n)
      /\ status = 3 /\ AskedSame =>
            required # {} /\ paired = {} /\ ~\E n \in required : broken(n)
  BY <1>1, <1>5, ExitTold
<1>7. QED
  BY <1>6 DEF HonestExit, AskedSame, broken, failing, changed, altered, moved, silent, paired, Known

-----------------------------------------------------------------------------
\* No target is passed over, whatever reports are compared (Compare,
\* appendTargetFindings).
THEOREM EveryTargetIsAccounted == Spec => []EveryTargetAccounted
BY DiffInvariant, AccountedFor, PTL

\* A target whose counts moved by at most one has no finding, however many
\* queries a target was asked and wherever the qualification lies
\* (responseFloor, appendStatusFinding).
THEOREM NoiseIsNoFinding == Spec => []OneResponseIsNoise
BY DiffInvariant, NoiseIsSilent, PTL

\* The exit status tells the truth about the reports, for all reports and all
\* sets of conditions (runDiff, Conditions, exitCodeForError).
THEOREM ExitStatusHonest == Spec => []HonestExit
BY DiffInvariant, ExitIsHonest, PTL
===============================================================================
