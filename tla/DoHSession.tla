------------------------------ MODULE DoHSession ------------------------------
(***************************************************************************)
(* A DoH session of src/internal/transport over net/http.  The session     *)
(* sees connections only where net/http calls it back: DialTLSContext,     *)
(* which runs on goroutines of the HTTP transport that outlive the request *)
(* they were started for, and doHConn.Close.  Queries and Close come from  *)
(* one worker, one after the other; the dial goroutines, the servers and   *)
(* net/http's own housekeeping run beside them.                            *)
(*                                                                         *)
(* The actions marked "net/http" model that package as this code uses it.  *)
(* A connection is numbered after the dial that made it; Open's own dial   *)
(* is number 0.  A dial moves through its candidates one connection at a   *)
(* time, so one number does for all of them.  Requests, replies and        *)
(* redirects are one exchange, which may need its connection again.        *)
(***************************************************************************)
EXTENDS Naturals, FiniteSets

CONSTANTS
    MaxDials,    \* bound on the dials net/http starts
    MaxQueries   \* bound on the queries put to the session

ASSUME DoHAssumption == MaxDials \in Nat /\ MaxQueries \in Nat

Dials == 1..MaxDials
Conns == 0..MaxDials
None == MaxDials + 1

VARIABLES
    pc,        \* the worker: "open", "idle", "request", "waiting", "exchange", "close", "closing", "end"
    dpc,       \* each dial goroutine: "none", "take", "dial", "handshake", "record", "refused", "done"
    pool,      \* net/http's connections that can carry a request
    sockets,   \* TCP connections not closed
    conns,     \* session.conns
    pending,   \* session.pending, or None
    connections,      \* session.connections
    closed,           \* session.closed
    lastReconnected,  \* session.lastReconnected
    before,    \* connectionsBefore of the query in progress
    doomed,    \* connections Close has taken out of session.conns
    using,     \* the connection the (last) query runs on, or None
    queries,   \* queries begun
    needed,    \* (history) no connection was usable when the query asked for one
    recorded,  \* (history) connections recorded during the (last) query
    given      \* (history) connections handed to net/http

sessionVars == <<conns, pending, connections, closed, lastReconnected>>
queryVars   == <<before, using, queries, needed>>
vars == <<pc, dpc, pool, sockets, sessionVars, queryVars, doomed, recorded, given>>

Init ==
    /\ pc = "open"
    /\ dpc = [d \in Dials |-> "none"]
    /\ pool = {}
    /\ sockets = {}
    /\ conns = {}
    /\ pending = None
    /\ connections = 0
    /\ closed = FALSE
    /\ lastReconnected = FALSE
    /\ before = 0
    /\ doomed = {}
    /\ using = None
    /\ queries = 0
    /\ needed = FALSE
    /\ recorded = {}
    /\ given = {}

\* doHConn.Close, by whoever calls it.  An exchange on it fails later.
CloseConns(S) ==
    /\ conns' = conns \ S
    /\ sockets' = sockets \ S
    /\ pool' = pool \ S

\* The query in progress, if any, sees connection c recorded.
Note(c) == recorded' = IF pc \in {"request", "waiting", "exchange"} THEN recorded \cup {c}
                       ELSE recorded

-----------------------------------------------------------------------------
(***************************************************************************)
(* The session's methods.                                                  *)
(***************************************************************************)

\* doHFactory.Open: its dial fails and leaves nothing, or its connection waits.
Open ==
    /\ pc = "open"
    /\ \/ /\ pc' = "end"
          /\ UNCHANGED <<sockets, sessionVars>>
       \/ /\ pc' = "idle"
          /\ sockets' = {0}
          /\ conns' = {0}
          /\ pending' = 0
          /\ connections' = 1
          /\ UNCHANGED <<closed, lastReconnected>>
    /\ UNCHANGED <<dpc, pool, queryVars, doomed, recorded, given>>

\* Query up to client.Do: beginQuery, and the packing that may fail.
BeginQuery ==
    /\ pc = "idle"
    /\ queries < MaxQueries
    /\ queries' = queries + 1
    /\ before' = connections
    /\ recorded' = {}
    /\ needed' = FALSE
    /\ using' = None
    /\ lastReconnected' = FALSE
    /\ pc' \in {"request", "idle"}
    /\ UNCHANGED <<dpc, pool, sockets, conns, pending, connections, closed, doomed, given>>

\* Mutant: every query discounts a first connection of its own.
EndQueryDiscounts ==
    /\ pc \in {"waiting", "exchange"}
    /\ lastReconnected' = (connections > before + 1)
    /\ pc' = "idle"
    /\ UNCHANGED <<dpc, pool, sockets, conns, pending, connections, closed, queryVars, doomed,
                   recorded, given>>

\* client.Do returns, with an answer or an error, on time or not; endQuery.
\* A stream that timed out leaves its connection in the pool.
EndQuery ==
    /\ pc \in {"waiting", "exchange"}
    /\ lastReconnected' = (connections > before)
    /\ pc' = "idle"
    /\ UNCHANGED <<dpc, pool, sockets, conns, pending, connections, closed, queryVars, doomed,
                   recorded, given>>

\* Close, first half: CloseIdleConnections closes what it finds idle.
CloseIdle ==
    /\ pc = "idle"
    /\ pc' = "close"
    /\ \E S \in SUBSET pool : CloseConns(S)
    /\ UNCHANGED <<dpc, pending, connections, closed, lastReconnected, queryVars, doomed,
                   recorded, given>>

\* Close, under the mutex.
CloseMark ==
    /\ pc = "close"
    /\ pc' = "closing"
    /\ closed' = TRUE
    /\ pending' = None
    /\ doomed' = conns
    /\ conns' = {}
    /\ UNCHANGED <<dpc, pool, sockets, connections, lastReconnected, queryVars, recorded, given>>

\* Close, the loop over the connections it took.
CloseEach ==
    /\ pc = "closing"
    /\ IF doomed = {}
       THEN /\ pc' = "end"
            /\ UNCHANGED <<doomed, conns, sockets, pool>>
       ELSE \E c \in doomed :
            /\ CloseConns({c})
            /\ doomed' = doomed \ {c}
            /\ UNCHANGED pc
    /\ UNCHANGED <<dpc, pending, connections, closed, lastReconnected, queryVars, recorded, given>>

-----------------------------------------------------------------------------
(***************************************************************************)
(* DialTLSContext, on a dial goroutine.                                    *)
(***************************************************************************)

DialTo(d, to) == dpc' = [dpc EXCEPT ![d] = to]

DialFrame == UNCHANGED <<pc, closed, lastReconnected, queryVars, doomed>>

\* takePending: the connection Open dialled goes to the transport, once.
TakePending(d) ==
    /\ dpc[d] = "take"
    /\ IF pending # None
       THEN /\ given' = given \cup {<<d, pending>>}
            /\ pool' = pool \cup ({pending} \cap sockets)
            /\ DialTo(d, "done")
       ELSE DialTo(d, "dial") /\ UNCHANGED <<given, pool>>
    /\ pending' = None
    /\ UNCHANGED <<conns, connections, sockets, recorded>>
    /\ DialFrame

\* Mutant: a connection is not tracked before its handshake.
ConnectUntracked(d) ==
    /\ dpc[d] = "dial"
    /\ \/ DialTo(d, "done") /\ UNCHANGED sockets
       \/ DialTo(d, "handshake") /\ sockets' = sockets \cup {d}
    /\ UNCHANGED <<pool, conns, pending, connections, recorded, given>>
    /\ DialFrame

\* session.dial: no candidate is left, or one accepts and is tracked.
Connect(d) ==
    /\ dpc[d] = "dial"
    /\ \/ DialTo(d, "done") /\ UNCHANGED <<conns, sockets>>
       \/ /\ DialTo(d, "handshake")
          /\ sockets' = sockets \cup {d}
          /\ conns' = conns \cup {d}
    /\ UNCHANGED <<pool, pending, connections, recorded, given>>
    /\ DialFrame

\* The TLS handshake: a failure closes the connection and the next candidate
\* is tried; on a connection Close has closed it can only fail.
Handshake(d) ==
    /\ dpc[d] = "handshake"
    /\ \/ d \in sockets /\ DialTo(d, "record") /\ UNCHANGED <<conns, sockets, pool>>
       \/ DialTo(d, "dial") /\ CloseConns({d})
    /\ UNCHANGED <<pending, connections, recorded, given>>
    /\ DialFrame

\* Mutant: a connection of a closed session is recorded like any other.
RecordAlways(d) ==
    /\ dpc[d] = "record"
    /\ connections' = connections + 1
    /\ Note(d)
    /\ given' = given \cup {<<d, d>>}
    /\ pool' = pool \cup ({d} \cap sockets)
    /\ DialTo(d, "done")
    /\ UNCHANGED <<conns, pending, sockets>>
    /\ DialFrame

\* recordConnection; net/http gets the connection unless the session is closed.
Record(d) ==
    /\ dpc[d] = "record"
    /\ IF closed
       THEN DialTo(d, "refused") /\ UNCHANGED <<connections, recorded, given, pool>>
       ELSE /\ connections' = connections + 1
            /\ Note(d)
            /\ given' = given \cup {<<d, d>>}
            /\ pool' = pool \cup ({d} \cap sockets)
            /\ DialTo(d, "done")
    /\ UNCHANGED <<conns, pending, sockets>>
    /\ DialFrame

\* The refused connection is closed by the hook.
Refuse(d) ==
    /\ dpc[d] = "refused"
    /\ DialTo(d, "done")
    /\ CloseConns({d})
    /\ UNCHANGED <<pending, connections, recorded, given>>
    /\ DialFrame

-----------------------------------------------------------------------------
(***************************************************************************)
(* net/http.                                                               *)
(***************************************************************************)

HTTPFrame == UNCHANGED <<pending, connections, closed, lastReconnected, before, queries, doomed,
                         recorded, given>>

\* A request takes a usable connection, or starts a dial of its own and
\* waits, even while an earlier request's dial is still under way.  (Past
\* the bound MaxDials it only waits.)
Request ==
    /\ pc = "request"
    /\ IF pool # {}
       THEN /\ using' \in pool
            /\ pc' = "exchange"
            /\ UNCHANGED <<dpc, needed>>
       ELSE /\ \/ \E d \in Dials :
                     /\ dpc[d] = "none"
                     /\ \A e \in Dials : e < d => dpc[e] # "none"
                     /\ dpc' = [dpc EXCEPT ![d] = "take"]
               \/ (\A d \in Dials : dpc[d] # "none") /\ UNCHANGED dpc
            /\ needed' = TRUE
            /\ pc' = "waiting"
            /\ UNCHANGED using
    /\ HTTPFrame
    /\ UNCHANGED <<pool, sockets, conns>>

\* Any connection that becomes usable serves the waiting request.
Serve ==
    /\ pc = "waiting"
    /\ using' \in pool
    /\ pc' = "exchange"
    /\ HTTPFrame
    /\ UNCHANGED <<dpc, pool, sockets, conns, needed>>

\* A redirect, or a retry of a request whose connection was already gone.
Again ==
    /\ pc = "exchange"
    /\ using' = None
    /\ pc' = "request"
    /\ HTTPFrame
    /\ UNCHANGED <<dpc, pool, sockets, conns, needed>>

\* A pooled connection is dropped: by the server, by a ping unanswered, or
\* because net/http has one to spare.
Drop ==
    /\ pool # {}
    /\ \E c \in pool : CloseConns({c})
    /\ HTTPFrame
    /\ UNCHANGED <<pc, dpc, using, needed>>

-----------------------------------------------------------------------------
Dialler(d) == TakePending(d) \/ Connect(d) \/ Handshake(d) \/ Record(d) \/ Refuse(d)
Closing == CloseMark \/ CloseEach

Ended == pc = "end" /\ (\A d \in Dials : dpc[d] \in {"none", "done"}) /\ UNCHANGED vars

Next ==
    \/ Open \/ BeginQuery \/ EndQuery \/ CloseIdle \/ Closing
    \/ \E d \in Dials : Dialler(d)
    \/ Request \/ Serve \/ Again \/ Drop
    \/ Ended

Spec == Init /\ [][Next]_vars

\* Close runs on, and every dial ends: its connects and handshakes have the
\* candidates' timeouts, and it has only so many candidates.
FairSpec ==
    /\ Spec
    /\ WF_vars(Closing)
    /\ \A d \in Dials : WF_vars(Dialler(d)) /\ SF_vars(Connect(d) /\ dpc'[d] = "done")
-----------------------------------------------------------------------------
TypeOK ==
    /\ pc \in {"open", "idle", "request", "waiting", "exchange", "close", "closing", "end"}
    /\ dpc \in [Dials -> {"none", "take", "dial", "handshake", "record", "refused", "done"}]
    /\ pool \cup sockets \cup conns \cup doomed \cup recorded \subseteq Conns
    /\ pending \in Conns \cup {None} /\ using \in Conns \cup {None}
    /\ connections \in 0..(MaxDials + 1) /\ before \in 0..(MaxDials + 1)
    /\ closed \in BOOLEAN /\ lastReconnected \in BOOLEAN /\ needed \in BOOLEAN
    /\ queries \in 0..MaxQueries
    /\ given \subseteq Dials \X Conns

\* No connection escapes, and none has two owners: one that is open is in
\* session.conns or among those Close has taken from it, at every moment of
\* every dial, so Close finds it; and Open's connection and every other are
\* handed to net/http at most once, however its dials overlap, or two owners
\* would both close it.
EveryConnectionOwned ==
    /\ TypeOK
    /\ sockets \subseteq conns \cup doomed
    /\ \A g, h \in given : g[2] = h[2] => g = h

\* After a query the flag says whether a connection was recorded during it:
\* the first connection is Open's, not a query's, and no reconnect is missed.
FlagTellsOfDials == pc = "idle" => (lastReconnected <=> recorded # {})

\* "LastQueryReconnected reports whether the most recent Query had to open a
\* fresh HTTPS connection": the query found no usable connection, or ran on
\* one recorded during it.
HadToOpen == pc = "idle" /\ lastReconnected => needed \/ using \in recorded

\* Once Close is called every connection is closed in the end, those of the
\* dials that were under way then included.
CloseReleasesAll == pc = "close" ~> [](sockets = {})
=============================================================================
