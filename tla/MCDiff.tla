------------------------------- MODULE MCDiff -------------------------------
(* Instances of Diff for TLC: every pair of results one target can have, also  *)
(* next to a second one and under a redacted name; and runs that differ in     *)
(* what they asked.                                                            *)
EXTENDS Diff

Result(usable, refused, truncated, scored) ==
    [total |-> Queries, usable |-> usable, refused |-> refused, truncated |-> truncated,
     answers |-> usable, scored |-> scored, unopened |-> FALSE, incomplete |-> FALSE,
     local |-> FALSE, verdict |-> ""]

Answering == {r \in {Result(u, f, t, s) : u, f, t, s \in 0 .. Queries} : IsResult(r)}

\* Usable responses none of which holds an answer: no count but theirs moves.
NoData == {[Result(u, 0, 0, 0) EXCEPT !.answers = 0] : u \in 0 .. Queries}

Good == Result(Queries, 0, 0, Queries)
Dead == Result(0, 0, 0, 0)
Odd  == {[Good EXCEPT !.verdict = v] : v \in Verdicts}
          \cup {Dead, [Dead EXCEPT !.unopened = TRUE], [Good EXCEPT !.local = TRUE],
                [Good EXCEPT !.answers = 0], [Good EXCEPT !.incomplete = TRUE],
                [Dead EXCEPT !.incomplete = TRUE, !.total = 1], [Dead EXCEPT !.local = TRUE]}

Report(results) ==
    [readable |-> TRUE, mode |-> "warm", field |-> [seed |-> "1", timeout_ms |-> "5"], minor |-> 1,
     results |-> results]

Asked ==
    {Report([r1 |-> Good])} \cup
    {[Report([r1 |-> Good]) EXCEPT !.readable = FALSE], [Report([r1 |-> Good]) EXCEPT !.mode = "cache-miss"],
     [Report([r1 |-> Good]) EXCEPT !.field.seed = "2"], [Report([r1 |-> Good]) EXCEPT !.field.timeout_ms = "absent"],
     [Report([r1 |-> Good]) EXCEPT !.minor = 2]}

Several ==
    {Report(r) : r \in UNION {[ids -> Odd] : ids \in {{}, {"r1"}, {"r2"}}}}
      \cup {Report("r1" :> a @@ "r2" :> b) : a \in Odd, b \in {Good, Dead}}
      \cup {Report("r1" :> a @@ "system-redacted-1" :> b) : a \in {Good, Dead}, b \in {Good, Dead}}

MCPairs ==
    [baseline : Asked, current : Asked]
      \cup [baseline : Several, current : Several]
      \cup [baseline : {Report([r1 |-> a]) : a \in Answering}, current : {Report([r1 |-> a]) : a \in Answering}]
      \cup [baseline : {Report([r1 |-> a]) : a \in NoData}, current : {Report([r1 |-> a]) : a \in NoData}]

MCRequests == {{}, {"no-such-condition"}, {"no-new-failed-targets", "no-removed-targets"}} \cup {{n} : n \in Names}
============================================================================
