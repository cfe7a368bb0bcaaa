---------------------------- MODULE UDPExchange ----------------------------
(***************************************************************************)
(* A UDP session of one target (internal/transport) and the samples the    *)
(* scheduler makes of its queries (targetRunner.measure). The endpoint is  *)
(* resolved once, when the session opens; every query dials a socket of    *)
(* its own, sends one datagram and reads until an answer, an error or its  *)
(* deadline. Nothing falls back to TCP.                                    *)
(*                                                                         *)
(* The network loses, delays, reorders and duplicates datagrams without    *)
(* bound. A source port and a transaction ID may be drawn again by a later *)
(* query, so a late reply can reach the socket of a query it does not      *)
(* belong to. Nothing is assumed of the network or of the server for       *)
(* liveness: a query must end although stray datagrams never cease.        *)
(*                                                                         *)
(* Abstracted: the clock is the number of ticks left to the deadline; a    *)
(* reply is the query it was made for, whose ID and question it carries,   *)
(* and a shape.                                                            *)
(***************************************************************************)
EXTENDS Naturals, Sequences, FiniteSets

CONSTANTS
    Queries,     \* how many queries the session is asked
    Questions,   \* name and type of a query
    Ids,         \* transaction IDs
    Ports,       \* local source ports
    Addresses,   \* what a host name may resolve to
    NoAddress,   \* before Open, and after it failed
    Timeout,     \* a query's budget, in ticks
    MaxFlight    \* bound: replies under way at one moment

ASSUME UDPAssumption ==
    /\ Queries \in Nat \ {0} /\ Timeout \in Nat \ {0} /\ MaxFlight \in Nat
    /\ NoAddress \notin Addresses
    /\ \A S \in {Questions, Ids, Ports, Addresses} : S # {}

\* A reply is a complete message of any response code, or truncated; or it has
\* no response flag or another question section, or bytes after the message, or
\* it does not unpack or carries a TSIG record.
Whole  == {"complete", "truncated"}
Broken == {"mismatched", "extended", "unreadable"}

VARIABLES
    peer,      \* the address every datagram goes to
    opened,    \* Open has been called
    asked,     \* the queries so far, in order: ID, question and source port
    left,      \* ticks to the last query's deadline
    flight,    \* replies under way: [of : the query's number, shape]
    samples    \* what became of the queries that have ended, in order

udpVars == <<peer, opened, asked, left, flight, samples>>

Requests == [id : Ids, question : Questions, port : Ports]
Replies  == [of : 1 .. Queries, shape : Whole \cup Broken]

\* A sample: how it is recorded and the query whose reply made it, 0 without one.
Samples == [outcome : Whole \cup {"unsent", "rejected", "timeout"}, of : 0 .. Queries]

Current == Len(asked)
Reading == Len(samples) < Len(asked)

----------------------------------------------------------------------------
UDPInit ==
    /\ peer = NoAddress /\ opened = FALSE
    /\ asked = <<>> /\ samples = <<>> /\ left = 0 /\ flight = {}

\* udpFactory.Open: a literal endpoint is taken as it is, a name is resolved now
\* and its first address kept; a malformed endpoint and a failing or empty
\* lookup leave no session.
UDPOpen ==
    /\ ~opened /\ opened' = TRUE
    /\ peer' \in Addresses \cup {NoAddress}
    /\ UNCHANGED <<asked, left, flight, samples>>

\* targetRunner.measure, after Query has returned: a complete message is a
\* success of its class, usable or not; a truncated one is a failed sample.
UDPRecord(outcome, of) ==
    samples' = Append(samples, [outcome |-> outcome, of |-> of])

\* queryDeadline: the timeout, or the caller's deadline when that is nearer.
Deadline(context) == IF context < Timeout THEN context ELSE Timeout

MayAsk == peer # NoAddress /\ ~Reading /\ Current < Queries

\* udpSession.Query up to the write: a socket of its own, a fresh ID and, once
\* for the whole query, a deadline. Dialling has used up some of the context.
Send ==
    /\ MayAsk
    /\ \E r \in Requests, context \in 0 .. Timeout :
          /\ asked' = Append(asked, r)
          /\ left' = Deadline(context)
    /\ UNCHANGED <<peer, opened, flight, samples>>

\* The dial or the write fails.
SendFails ==
    /\ MayAsk
    /\ \E r \in Requests : asked' = Append(asked, r)
    /\ UDPRecord("unsent", 0)
    /\ UNCHANGED <<peer, opened, left, flight>>

\* What the read loop makes of a reply on its socket. The order is the code's:
\* unpacking and TSIG come before the ID, so that even a foreign reply fails
\* the query then; a foreign ID is skipped; then validateResponse and
\* rejectTrailingBytes.
Unreadable(d) == d.shape = "unreadable"
Foreign(d) == asked[d.of].id # asked[Current].id

\* Mutant: the question section is counted, not compared.
InvalidShape(d) == d.shape = "mismatched"

Invalid(d) ==
    \/ d.shape = "mismatched"
    \/ asked[d.of].question # asked[Current].question

Extended(d) == d.shape = "extended"

\* The socket is connected and closed with its query: it receives what is
\* addressed to its port while it is open. A read after the deadline fails.
Arrives(d) ==
    /\ Reading /\ left > 0 /\ d \in flight
    /\ asked[d.of].port = asked[Current].port
    /\ flight' = flight \ {d}
    /\ UNCHANGED <<peer, opened, asked>>

\* Mutant: every read gets a fresh deadline.
SkipRenews == \E d \in flight :
    /\ Arrives(d) /\ ~Unreadable(d) /\ Foreign(d)
    /\ left' = Timeout
    /\ UNCHANGED samples

Skip == \E d \in flight :
    /\ Arrives(d) /\ ~Unreadable(d) /\ Foreign(d)
    /\ UNCHANGED <<left, samples>>

Reject == \E d \in flight :
    /\ Arrives(d)
    /\ \/ Unreadable(d)
       \/ ~Foreign(d) /\ (Invalid(d) \/ Extended(d))
    /\ UDPRecord("rejected", d.of)
    /\ UNCHANGED left

Accept == \E d \in flight :
    /\ Arrives(d) /\ ~Unreadable(d) /\ ~Foreign(d) /\ ~Invalid(d) /\ ~Extended(d)
    /\ UDPRecord(d.shape, d.of)
    /\ UNCHANGED left

\* The deadline has passed: the read returns an error.
Expire ==
    /\ Reading /\ left = 0
    /\ UDPRecord("timeout", 0)
    /\ UNCHANGED <<peer, opened, asked, left, flight>>

Tick ==
    /\ Reading /\ left > 0 /\ left' = left - 1
    /\ UNCHANGED <<peer, opened, asked, flight, samples>>

\* The server answers any query that was sent, as often and as late as it likes.
Reply ==
    /\ Cardinality(flight) < MaxFlight
    /\ \E d \in Replies :
          /\ d.of <= Current
          /\ d.of <= Len(samples) => samples[d.of].outcome # "unsent"
          /\ flight' = flight \cup {d}
    /\ UNCHANGED <<peer, opened, asked, left, samples>>

Lose ==
    /\ \E d \in flight : flight' = flight \ {d}
    /\ UNCHANGED <<peer, opened, asked, left, samples>>

UDPNext == UDPOpen \/ Send \/ SendFails \/ Skip \/ Reject \/ Accept \/ Expire \/ Tick \/ Reply \/ Lose

\* Time passes, and a read whose deadline has passed returns.
UDPSpec == UDPInit /\ [][UDPNext]_udpVars /\ WF_udpVars(Tick) /\ WF_udpVars(Expire)

----------------------------------------------------------------------------
\* The types; a query is asked when the one before has its sample, so there are
\* as many samples as queries or one fewer; and no query ever has more than the
\* timeout left (queryDeadline).
UDPTypeOK ==
    /\ peer \in Addresses \cup {NoAddress} /\ opened \in BOOLEAN
    /\ asked \in Seq(Requests) /\ samples \in Seq(Samples)
    /\ Len(asked) - Len(samples) \in {0, 1} /\ Len(asked) <= Queries
    /\ left \in 0 .. Timeout
    /\ flight \subseteq Replies /\ Cardinality(flight) <= MaxFlight

\* Whatever is late, repeated or out of order, a message counted for a query
\* answers that query, or one the network cannot tell from it: an earlier query
\* with the same port, ID and question (the check of the ID in Query, of the
\* question in validateResponse, and the socket per query).
AnswersItsQuery ==
    /\ UDPTypeOK
    /\ \A n \in DOMAIN samples :
        samples[n].outcome \in Whole =>
            samples[n].of \in 1 .. n /\ asked[samples[n].of] = asked[n]

\* Every query ends with a sample, although strays may reach its socket for
\* ever: skipping one does not move the deadline.
EveryQueryEnds ==
    \A n \in 1 .. Queries : Len(asked) >= n ~> Len(samples) >= n

============================================================================
