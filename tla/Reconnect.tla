------------------------------ MODULE Reconnect ------------------------------
(***************************************************************************)
(* A reusable stream or DoQ session of src/internal/transport: Open dials  *)
(* its candidates in order; a query whose connection is gone reconnects    *)
(* inside its own deadline, starting at the address stickyReopen and       *)
(* doqFactory.open prefer.                                                 *)
(*                                                                         *)
(* A session has N addresses.  They are either N bootstrap literals, each  *)
(* a candidate of the dial plan (TCP, DoT, DoQ), or what one hostname      *)
(* candidate resolves to (DoQ): the catalog admits several candidates only *)
(* as literals.  Query holds the session's mutex from end to end and so    *)
(* does Close, so a session's calls never interleave; its peers change     *)
(* under it at any moment.  The message a query carries is left out.       *)
(***************************************************************************)
EXTENDS Naturals, Sequences, SequencesExt

CONSTANTS
    N,         \* number of addresses
    MaxEvents  \* bound on what the network does to the session

ASSUME ReconnectAssumption ==
    N \in Nat \ {0} /\ MaxEvents \in Nat

Addresses == 1..N

\* The hostname's position among the peers, and the lack of an address.
Name == 0
None == 0

VARIABLES
    hostname,   \* the target has one hostname candidate, resolved on every attempt
    net,        \* how each peer (and the system resolver) answers now
    events,     \* network events so far
    session,    \* "opening", "open", "closed" or "failed" (Open's error)
    pc,         \* where the call in progress is
    plan,       \* candidates still to try
    literals,   \* addresses of the current candidate still to dial
    attempt,    \* the address this dial started at (ordered.addresses[0])
    dialled,    \* the first address dialled by this call
    conn,       \* address of session.conn, or None
    alive,      \* that connection still carries exchanges
    sockets,    \* TCP connections not closed
    candidate,  \* the candidate being tried; session.dialAddress at the end
    start,      \* stickyReopen's start
    reached,    \* doqFactory.Open's reached
    lastReconnected,  \* session.lastReconnected
    answered,   \* the last query returned a response
    opened,     \* (history) the current query opened its connection
    lastAddr,   \* (history) the address that connected last
    tried       \* (history) where the last N timed-out reconnects since then began

callVars == <<plan, literals, attempt, dialled, candidate>>
prefVars == <<start, reached>>
histVars == <<opened, lastAddr, tried>>
vars == <<hostname, net, events, session, pc, callVars, conn, alive, sockets, prefVars,
          lastReconnected, answered, histVars>>

\* "halfUp" accepts the TCP connection and then fails the TLS handshake.
Answers == {"up", "halfUp", "refuses", "silent"}

\* dialPlan.addresses, and doqDialAddresses of one candidate.
Candidates == IF hostname THEN <<Name>> ELSE [i \in Addresses |-> i]
Resolved(c) == IF c = Name THEN [i \in Addresses |-> i] ELSE <<c>>

\* Mutant: every attempt starts at the first address.
PreferringNone(list, a) == list

\* dialPlan.preferring and dialPlan.after.
Position(list, a) == CHOOSE i \in DOMAIN list : list[i] = a

Preferring(list, a) ==
    IF Contains(list, a)
    THEN LET i == Position(list, a)
         IN  <<a>> \o SubSeq(list, 1, i - 1) \o SubSeq(list, i + 1, Len(list))
    ELSE list

\* Mutant: the next address is taken from the order the attempt used.
AfterReordered(list, a) ==
    IF Contains(list, a)
    THEN Preferring(list, a)[IF Len(list) > 1 THEN 2 ELSE 1] ELSE a

\* Mutant: a timed-out reconnect does not move on.
AfterNone(list, a) == a

After(list, a) ==
    IF Contains(list, a) THEN list[(Position(list, a) % Len(list)) + 1] ELSE a

Init ==
    /\ hostname \in BOOLEAN
    /\ net \in [Addresses \cup {Name} -> Answers]
    /\ net[Name] \in IF hostname THEN {"up", "refuses", "silent"} ELSE {"up"}
    /\ events = 0
    /\ session = "opening"
    /\ pc = "candidate"
    /\ plan = Candidates
    /\ literals = <<>>
    /\ attempt = None
    /\ dialled = None
    /\ conn = None
    /\ alive = FALSE
    /\ sockets = 0
    /\ candidate = Name
    /\ start = None
    /\ reached = None
    /\ lastReconnected = FALSE
    /\ answered = FALSE
    /\ opened = FALSE
    /\ lastAddr = None
    /\ tried = <<>>

-----------------------------------------------------------------------------
(***************************************************************************)
(* One attempt at a connection.  Open runs without a deadline, so a silent *)
(* peer costs it only that peer's own budget; a query's deadline is never  *)
(* later than a fresh budget would be (openContext), so there a silent     *)
(* peer ends the whole reconnect.                                          *)
(***************************************************************************)

\* What a failing peer does to the attempt: the caller's context lives on, or
\* it is done.  A refusal can come late, and leave too little of the deadline
\* to an address that would have answered.
Lives(answer) == answer # "up" /\ (answer = "silent" => session = "opening")
Expires(answer) == session = "open" /\ (answer = "up" => dialled \notin {None, Head(literals)})

\* The last N entries of a history.
Window(list) == IF Len(list) > N THEN Tail(list) ELSE list

\* The call fails.  In a reconnect, stickyReopen moves on if the deadline
\* passed; Open's error leaves no session.
Fail(expired) ==
    /\ plan' = <<>>
    /\ literals' = <<>>
    /\ IF session = "opening"
       THEN session' = "failed" /\ pc' = "end" /\ UNCHANGED <<start, answered>>
       ELSE /\ pc' = "idle"
            /\ answered' = FALSE
            /\ start' = IF expired THEN After(Candidates, start) ELSE start
            /\ UNCHANGED session
    /\ tried' = IF expired /\ dialled' # None THEN Window(Append(tried, dialled')) ELSE tried
    /\ UNCHANGED <<conn, alive, lastReconnected, opened, lastAddr>>

\* The next candidate: a literal is its own address, a hostname is resolved.
TryCandidate ==
    /\ pc = "candidate"
    /\ plan # <<>>
    /\ UNCHANGED <<hostname, net, events, sockets, reached>>
    /\ LET c == Head(plan)
           answer == IF c = Name THEN net[Name] ELSE "up" IN
       \/ /\ answer = "up"
          /\ candidate' = c
          /\ plan' = Tail(plan)
          /\ literals' = Preferring(Resolved(c), reached)
          /\ attempt' = Head(literals')
          /\ pc' = "dial"
          /\ UNCHANGED <<session, dialled, conn, alive, start, lastReconnected, answered,
                         histVars>>
       \/ /\ Lives(answer)
          /\ plan' = Tail(plan)
          /\ UNCHANGED <<session, pc, literals, attempt, dialled, conn, alive, candidate,
                         start, lastReconnected, answered, histVars>>
       \/ /\ answer # "up" /\ Expires(answer)
          /\ UNCHANGED <<attempt, dialled, candidate>>
          /\ Fail(TRUE)

\* No candidate is left: "all connection candidates failed".
OutOfCandidates ==
    /\ pc = "candidate"
    /\ plan = <<>>
    /\ UNCHANGED <<hostname, net, events, sockets, reached, attempt, dialled, candidate>>
    /\ Fail(FALSE)

\* The address just tried did not work and the caller's context lives on.
NextAddress ==
    /\ literals' = Tail(literals)
    /\ pc' = IF Len(literals) > 1 THEN "dial" ELSE "candidate"
    /\ UNCHANGED <<session, plan, attempt, candidate, conn, alive, start, reached,
                   lastReconnected, answered, histVars>>

\* The deadline passed while an address was tried: the next reconnect starts
\* at the address after the one this attempt started at.
OutOfTime ==
    /\ reached' = After(Resolved(candidate), attempt)
    /\ Fail(TRUE)
    /\ UNCHANGED <<attempt, candidate>>

FirstDial == dialled' = IF dialled = None THEN Head(literals) ELSE dialled

\* DialContext, or quic.DialAddr.
Dial ==
    /\ pc = "dial"
    /\ FirstDial
    /\ UNCHANGED <<hostname, net, events>>
    /\ LET answer == net[Head(literals)] IN
       \/ /\ answer \in {"up", "halfUp"}
          /\ pc' = "handshake"
          /\ sockets' = sockets + 1
          /\ UNCHANGED <<session, plan, literals, attempt, candidate, conn, alive, prefVars,
                         lastReconnected, answered, histVars>>
       \/ /\ answer # "halfUp" /\ Lives(answer)
          /\ NextAddress
          /\ UNCHANGED sockets
       \/ /\ answer # "halfUp" /\ Expires(answer)
          /\ OutOfTime
          /\ UNCHANGED sockets

\* The TLS handshake over the connection just made.
Handshake ==
    /\ pc = "handshake"
    /\ UNCHANGED <<hostname, net, events, dialled>>
    /\ LET a == Head(literals) IN
       \/ /\ net[a] = "up"
          /\ conn' = a
          /\ alive' = TRUE
          /\ reached' = a
          /\ start' = candidate
          /\ lastAddr' = a
          /\ tried' = <<>>
          /\ plan' = <<>>
          /\ literals' = <<>>
          /\ IF session = "opening"
             THEN session' = "open" /\ pc' = "idle" /\ UNCHANGED opened
             ELSE opened' = TRUE /\ pc' = "exchange" /\ UNCHANGED session
          /\ UNCHANGED <<sockets, attempt, candidate, lastReconnected, answered>>
       \/ /\ Lives(net[a])
          /\ sockets' = sockets - 1
          /\ NextAddress
       \/ /\ Expires(net[a])
          /\ sockets' = sockets - 1
          /\ OutOfTime

-----------------------------------------------------------------------------
(***************************************************************************)
(* The session's calls.                                                    *)
(***************************************************************************)

\* Mutant: the reconnect flag of an earlier query is kept.
BeginQueryStale ==
    /\ session = "open"
    /\ pc = "idle"
    /\ lastReconnected' = (lastReconnected \/ conn = None)
    /\ opened' = FALSE
    /\ dialled' = None
    /\ IF conn = None
       THEN pc' = "candidate" /\ plan' = Preferring(Candidates, start)
       ELSE pc' = "exchange" /\ UNCHANGED plan
    /\ UNCHANGED <<hostname, net, events, session, literals, attempt, candidate, conn, alive,
                   sockets, prefVars, answered, lastAddr, tried>>

\* Query, up to the exchange or the reconnect.
BeginQuery ==
    /\ session = "open"
    /\ pc = "idle"
    /\ lastReconnected' = (conn = None)
    /\ opened' = FALSE
    /\ dialled' = None
    /\ IF conn = None
       THEN pc' = "candidate" /\ plan' = Preferring(Candidates, start)
       ELSE pc' = "exchange" /\ UNCHANGED plan
    /\ UNCHANGED <<hostname, net, events, session, literals, attempt, candidate, conn, alive, sockets,
                   prefVars, answered, lastAddr, tried>>

\* A query that cannot be packed, or one put to a closed session.
RejectQuery ==
    /\ session \in {"open", "closed"}
    /\ pc = "idle"
    /\ lastReconnected' = FALSE
    /\ opened' = FALSE
    /\ answered' = FALSE
    /\ UNCHANGED <<hostname, net, events, session, pc, callVars, conn, alive, sockets, prefVars,
                   lastAddr, tried>>

\* Mutant: the invalidated connection is forgotten, not closed.
InvalidateOpen ==
    /\ conn' = None
    /\ alive' = FALSE
    /\ answered' = FALSE
    /\ UNCHANGED sockets

\* fatal: every error of the exchange invalidates the connection.
Invalidate ==
    /\ conn' = None
    /\ alive' = FALSE
    /\ sockets' = sockets - 1
    /\ answered' = FALSE

\* The framed exchange on the session's connection.
Exchange ==
    /\ pc = "exchange"
    /\ \/ alive /\ answered' = TRUE /\ UNCHANGED <<conn, alive, sockets>>
       \/ ~(alive /\ net[conn] = "up") /\ Invalidate
    /\ pc' = "idle"
    /\ UNCHANGED <<hostname, net, events, session, callVars, prefVars, lastReconnected, histVars>>

\* The peer's reply breaks the framing, the transaction or the question.
BadReply ==
    /\ pc = "exchange"
    /\ events < MaxEvents
    /\ events' = events + 1
    /\ Invalidate
    /\ pc' = "idle"
    /\ UNCHANGED <<hostname, net, session, callVars, prefVars, lastReconnected, histVars>>

\* Close, which waits for a query in progress.
Close ==
    /\ session = "open"
    /\ pc = "idle"
    /\ session' = "closed"
    /\ conn' = None
    /\ alive' = FALSE
    /\ sockets' = IF conn = None THEN sockets ELSE sockets - 1
    /\ UNCHANGED <<hostname, net, events, pc, callVars, prefVars, lastReconnected, answered, histVars>>

\* A peer starts or stops answering, or drops the connection.
NetworkEvent ==
    /\ events < MaxEvents
    /\ session \in {"opening", "open"}
    /\ events' = events + 1
    /\ \/ /\ \E a \in Addresses \cup {Name}, answer \in Answers :
               /\ net[a] # answer
               /\ a = Name => hostname /\ answer # "halfUp"
               /\ net' = [net EXCEPT ![a] = answer]
          /\ UNCHANGED alive
       \/ /\ alive
          /\ alive' = FALSE
          /\ UNCHANGED net
    /\ UNCHANGED <<hostname, session, pc, callVars, conn, sockets, prefVars,
                   lastReconnected, answered, histVars>>

Call == TryCandidate \/ OutOfCandidates \/ Dial \/ Handshake \/ Exchange

\* Open returned an error: there is no session.
NoSession == session = "failed" /\ UNCHANGED vars

Next == Call \/ BeginQuery \/ RejectQuery \/ BadReply \/ Close \/ NetworkEvent \/ NoSession

Spec == Init /\ [][Next]_vars

\* A call in progress goes on: the dialer and the deadlines see to it.  The
\* benchmark keeps asking while the session is open.
FairSpec == Spec /\ WF_vars(Call) /\ WF_vars(BeginQuery)

-----------------------------------------------------------------------------
TypeOK ==
    /\ hostname \in BOOLEAN
    /\ net \in [Addresses \cup {Name} -> Answers]
    /\ events \in 0..MaxEvents
    /\ session \in {"opening", "open", "closed", "failed"}
    /\ pc \in {"candidate", "dial", "handshake", "exchange", "idle", "end"}
    /\ plan \in Seq(Addresses \cup {Name})
    /\ literals \in Seq(Addresses)
    /\ attempt \in Addresses \cup {None} /\ dialled \in Addresses \cup {None}
    /\ candidate \in Addresses \cup {Name} /\ conn \in Addresses \cup {None}
    /\ start \in Addresses \cup {None} /\ reached \in Addresses \cup {None}
    /\ lastAddr \in Addresses \cup {None}
    /\ alive \in BOOLEAN /\ lastReconnected \in BOOLEAN
    /\ answered \in BOOLEAN /\ opened \in BOOLEAN
    /\ sockets \in 0..1
    /\ tried \in Seq(Addresses)

\* The address the next reconnect dials first.
FirstChoice == Head(Preferring(Resolved(Head(Preferring(Candidates, start))), reached))

\* A reconnect begins at the address the session last reached, until one runs
\* out of time there (README, Custom resolvers; METHODOLOGY, What is measured).
Sticky == session = "open" /\ tried = <<>> /\ pc = "idle" => FirstChoice = lastAddr

\* Within as many timed-out reconnects as there are addresses, every one has
\* been dialled first (comments of stickyReopen and doqFactory.open), so no
\* silent address can consume every later query's budget.
EveryAddressHasItsTurn == Len(tried) = N => Addresses \subseteq ToSet(tried)

\* The reconnect flag is honest: a query is a reconnect sample exactly when
\* the connection its exchange runs on was opened by that query.
ReconnectSampleIsHonest == pc = "exchange" => (lastReconnected <=> opened)

\* The session holds one socket at most, and none that it could not close:
\* nothing is left of a failed handshake, an invalidated connection, a failed
\* Open or a closed session.
NoSocketLeak == TypeOK /\ sockets = IF conn # None \/ pc = "handshake" THEN 1 ELSE 0

\* Once the network has settled, a session with an address that answers gets
\* an answer again, whatever the other addresses do.
Recovers ==
    []<>(\/ answered
         \/ session # "open"
         \/ \A a \in Addresses : net[a] # "up"
         \/ net[Name] # "up")
=============================================================================
