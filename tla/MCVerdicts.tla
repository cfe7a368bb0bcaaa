----------------------------- MODULE MCVerdicts -----------------------------
(* Instances of Verdicts for TLC: runs of one target with 3 or 4 queries,     *)
(* where percentiles interpolate and replicates repeat; of two targets with   *)
(* two queries and every kind of observation; of three targets that may tie;  *)
(* and of three that share a protocol in part, with local and IPv6 endpoints. *)
EXTENDS Verdicts

Answered(class, latency) ==
    [success |-> TRUE, truncated |-> FALSE, reconnected |-> FALSE, class |-> class, latency |-> latency]

Fast    == Answered("answer", 1)
Middle  == Answered("answer", 3)
Slow    == Answered("answer", 7)
Blocked == Answered("nxdomain", 1)
Refused == Answered("refused", 1)
Late    == [Fast EXCEPT !.reconnected = TRUE]
Cut     == [Failure EXCEPT !.truncated = TRUE, !.latency = 1]
Lost    == Failure
All     == {Fast, Slow, Blocked, Refused, Late, Cut, Lost}

Of(protocol, policy, local, ipv6, queries, kinds) ==
    [protocol |-> protocol, policy |-> policy, local |-> local, ipv6 |-> ipv6,
     queries |-> queries, kinds |-> kinds]

MCCohorts ==
    { Of(<<"udp">>, <<"none">>, {}, {}, 4, {Fast, Slow, Lost}),
      Of(<<"udp">>, <<"none">>, {}, {}, 3, {Fast, Middle, Slow, Lost}),
      Of(<<"udp", "udp">>, <<"none", "none">>, {}, {}, 2, All),
      Of(<<"udp", "udp", "udp">>, <<"none", "none", "none">>, {}, {}, 2, {Fast, Slow, Lost}),
      Of(<<"udp", "udp", "udp">>, <<"none", "none", "none">>, {}, {}, 1, All),
      Of(<<"udp", "udp", "tcp">>, <<"none", "family", "none">>, {2}, {1, 3}, 1, All) }

\* Every target and, as the targets of one resolver, the first and the last.
MCConditions(c) ==
    LET names == {{t} : t \in DOMAIN c.protocol} \cup {{1, Len(c.protocol)}}
    IN  [kind : {"winner"}, winner : names]
          \cup [kind : {"numeric"}, subject : names \cup {{}}, metric : {"usable", "median"},
                 operator : {"<=", ">="}, value : {5}]
=============================================================================
