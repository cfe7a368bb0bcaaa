---------------------------- MODULE SessionProofs ----------------------------
(***************************************************************************)
(* Proofs about the sessions a query goes through. DoHSession, for any     *)
(* number of dials and queries: no connection escapes the session or is    *)
(* handed out twice, and the flag tells of the connections recorded.       *)
(* UDPExchange, for any number of queries, ports and transaction IDs and   *)
(* any bound on the replies under way: a counted reply answers its query.  *)
(***************************************************************************)
EXTENDS DoHSession, UDPExchange, FiniteSetTheorems, TLAPS

-----------------------------------------------------------------------------
(***************************************************************************)
(* DoHSession. given ties the session's counters to the dials: who handed  *)
(* out what.                                                               *)
(***************************************************************************)
Asking == pc \in {"request", "waiting", "exchange"}

\* The dials whose own connection went to net/http.
Recorders == {d \in Dials : <<d, d>> \in given}

\* A connection that is open has an owner, and Close has taken some only while
\* it loops over them.
Owned ==
    /\ sockets \subseteq conns \cup doomed
    /\ doomed # {} => pc = "closing"

\* A dial hands over Open's connection, while it is pending, or its own, when
\* it is done.
Given ==
    /\ pending \in {0, None}
    /\ pc = "open" => given = {} /\ \A d \in Dials : dpc[d] = "none"
    /\ \A g \in given :
        \/ g[2] = 0 /\ pending = None
        \/ g[2] = g[1] /\ dpc[g[1]] = "done"
    /\ \A g, h \in given : g[2] = h[2] => g = h

\* Every connection counted is Open's or that of one dial.
Counted ==
    /\ pc = "open" => connections = 0
    /\ connections <= Cardinality(Recorders) + 1
    /\ before <= connections

\* The query in progress has recorded a connection exactly when the counter
\* has moved since it began.
Flagged ==
    /\ pc \in {"open", "idle"} => (lastReconnected <=> recorded # {})
    /\ Asking => (connections > before <=> recorded # {})

DInv == TypeOK /\ Owned /\ Given /\ Counted /\ Flagged

-----------------------------------------------------------------------------
\* There are as many recorders at most as dials, and one more with each.
LEMMA RecorderCount ==
    /\ IsFiniteSet(Recorders)
    /\ Cardinality(Recorders) \in Nat /\ Cardinality(Recorders) <= MaxDials
<1>1. IsFiniteSet(Dials) /\ Cardinality(Dials) = MaxDials
  BY FS_Interval, DoHAssumption DEF DoHAssumption, Dials
<1>2. Recorders \subseteq Dials
  BY DEF Recorders
<1>3. QED
  BY <1>1, <1>2, FS_Subset, FS_CardinalityType

LEMMA InitDInv == Init => DInv
<1> SUFFICES ASSUME Init PROVE DInv
  OBVIOUS
<1>1. TypeOK
  <2>1. /\ connections \in 0..(MaxDials + 1) /\ before \in 0..(MaxDials + 1)
        /\ queries \in 0..MaxQueries
    BY DoHAssumption DEF DoHAssumption, Init
  <2>2. /\ pool \cup sockets \cup conns \cup doomed \cup recorded \subseteq Conns
        /\ given \subseteq Dials \X Conns
    BY DEF Init
  <2>3. dpc \in [Dials -> {"none", "take", "dial", "handshake", "record", "refused", "done"}]
    BY DEF Init
  <2>4. closed \in BOOLEAN /\ lastReconnected \in BOOLEAN /\ needed \in BOOLEAN
    BY DEF Init
  <2>5. QED
    BY <2>1, <2>2, <2>3, <2>4 DEF Init, TypeOK
<1>2. Owned /\ Flagged
  BY DEF Init, Owned, Flagged, Asking
<1>3. Given
  BY DEF Init, Given
<1>4. Counted
  BY RecorderCount DEF Init, Counted
<1>5. QED
  BY <1>1, <1>2, <1>3, <1>4 DEF DInv

\* A recorded dial is one more recorder; anything else given leaves them.
LEMMA RecorderStep ==
    ASSUME NEW d \in Dials
    PROVE  /\ given' = given => Recorders' = Recorders
           /\ given' = given \cup {<<d, 0>>} => Recorders' = Recorders
           /\ given' = given \cup {<<d, d>>} /\ <<d, d>> \notin given =>
                /\ Cardinality(Recorders)' = Cardinality(Recorders) + 1
                /\ Cardinality(Recorders)' <= MaxDials
<1>1. \A e \in Dials : e # 0
  BY DoHAssumption DEF DoHAssumption, Dials
<1>2. given' = given => Recorders' = Recorders
  BY DEF Recorders
<1>3. given' = given \cup {<<d, 0>>} => Recorders' = Recorders
  BY <1>1 DEF Recorders
<1>4. ASSUME given' = given \cup {<<d, d>>}, <<d, d>> \notin given
      PROVE  /\ Cardinality(Recorders)' = Cardinality(Recorders) + 1
             /\ Cardinality(Recorders)' <= MaxDials
  <2>1. Recorders' = Recorders \cup {d} /\ d \notin Recorders
    BY <1>4 DEF Recorders
  <2>2. IsFiniteSet(Dials) /\ Cardinality(Dials) = MaxDials /\ Recorders' \subseteq Dials
    BY FS_Interval, DoHAssumption DEF DoHAssumption, Dials, Recorders
  <2>3. Cardinality(Recorders)' <= MaxDials
    BY <2>2, FS_Subset
  <2>4. QED
    BY <2>1, <2>3, RecorderCount, FS_AddElement
<1>5. QED
  BY <1>2, <1>3, <1>4

\* The worker's steps and net/http's give nothing away and count nothing.
LEMMA PlainSteps ==
    ASSUME DInv,
           \/ Open \/ BeginQuery \/ EndQuery \/ CloseIdle \/ Closing
           \/ Request \/ Serve \/ Again \/ Drop \/ UNCHANGED vars
    PROVE  DInv'
<1> TypeOK /\ Owned /\ Given /\ Counted /\ Flagged
  BY DEF DInv
<1> MaxDials \in Nat /\ MaxQueries \in Nat
  BY DoHAssumption DEF DoHAssumption
<1> USE DEF sessionVars, queryVars, CloseConns, HTTPFrame, Asking, vars
<1>1. given' = given /\ Recorders' = Recorders
  BY DEF Open, BeginQuery, EndQuery, CloseIdle, Closing, CloseMark, CloseEach, Request,
     Serve, Again, Drop, Recorders
<1>2. Cardinality(Recorders)' = Cardinality(Recorders) /\ Cardinality(Recorders) \in Nat
  BY <1>1, RecorderCount
<1>3. CASE Open
  <2>1. TypeOK'
    BY <1>1, <1>2, <1>3 DEF Open, TypeOK, Conns, None
  <2>2. Owned'
    BY <1>3 DEF Open, Owned, TypeOK
  <2>3. Given'
    BY <1>1, <1>2, <1>3 DEF Open, Given
  <2>4. Counted'
    BY <1>1, <1>2, <1>3 DEF Open, Counted, TypeOK
  <2>5. Flagged'
    BY <1>3 DEF Open, Flagged, TypeOK
  <2>6. QED
    BY <2>1, <2>2, <2>3, <2>4, <2>5 DEF DInv
<1>4. CASE BeginQuery
  <2>1. TypeOK'
    <3>1. queries' \in 0..MaxQueries
      BY <1>4 DEF BeginQuery, TypeOK
    <3>2. pool' \cup sockets' \cup conns' \cup doomed' \cup recorded' \subseteq Conns
      BY <1>4 DEF BeginQuery, TypeOK
    <3>3. closed' \in BOOLEAN /\ lastReconnected' \in BOOLEAN /\ needed' \in BOOLEAN
      BY <1>4 DEF BeginQuery, TypeOK
    <3>4. QED
      BY <1>1, <1>4, <3>1, <3>2, <3>3 DEF BeginQuery, TypeOK
  <2>2. Owned'
    BY <1>4 DEF BeginQuery, Owned, TypeOK
  <2>3. Given'
    BY <1>1, <1>2, <1>4 DEF BeginQuery, Given
  <2>4. Counted'
    BY <1>1, <1>2, <1>4 DEF BeginQuery, Counted, TypeOK
  <2>5. Flagged'
    BY <1>4 DEF BeginQuery, Flagged, TypeOK
  <2>6. QED
    BY <2>1, <2>2, <2>3, <2>4, <2>5 DEF DInv
<1>5. CASE EndQuery
  <2>1. TypeOK'
    BY <1>1, <1>2, <1>5 DEF EndQuery, TypeOK
  <2>2. Owned'
    BY <1>5 DEF EndQuery, Owned, TypeOK
  <2>3. Given'
    BY <1>1, <1>2, <1>5 DEF EndQuery, Given
  <2>4. Counted'
    BY <1>1, <1>2, <1>5 DEF EndQuery, Counted, TypeOK
  <2>5. Flagged'
    BY <1>5 DEF EndQuery, Flagged, TypeOK
  <2>6. QED
    BY <2>1, <2>2, <2>3, <2>4, <2>5 DEF DInv
<1>6. CASE CloseIdle
  <2>1. TypeOK'
    BY <1>1, <1>2, <1>6 DEF CloseIdle, TypeOK
  <2>2. Owned'
    BY <1>6 DEF CloseIdle, Owned, TypeOK
  <2>3. Given'
    BY <1>1, <1>2, <1>6 DEF CloseIdle, Given
  <2>4. Counted'
    BY <1>1, <1>2, <1>6 DEF CloseIdle, Counted, TypeOK
  <2>5. Flagged'
    BY <1>6 DEF CloseIdle, Flagged, TypeOK
  <2>6. QED
    BY <2>1, <2>2, <2>3, <2>4, <2>5 DEF DInv
<1>7. CASE Closing
  <2>1. TypeOK'
    BY <1>1, <1>2, <1>7 DEF Closing, CloseMark, CloseEach, TypeOK
  <2>2. Owned'
    BY <1>1, <1>2, <1>7 DEF Closing, CloseMark, CloseEach, TypeOK, Owned
  <2>3. Given'
    BY <1>1, <1>2, <1>7 DEF Closing, CloseMark, CloseEach, TypeOK, Given
  <2>4. Counted' /\ Flagged'
    BY <1>1, <1>2, <1>7 DEF Closing, CloseMark, CloseEach, TypeOK, Counted, Flagged
  <2>5. QED
    BY <2>1, <2>2, <2>3, <2>4 DEF DInv
<1>8. CASE Request
  BY <1>1, <1>2, <1>8 DEF Request, TypeOK, Owned, Given, Counted, Flagged, DInv
<1>9. CASE Serve \/ Again
  BY <1>1, <1>2, <1>9 DEF Serve, Again, TypeOK, Owned, Given, Counted, Flagged, DInv
<1>10. CASE Drop
  BY <1>1, <1>2, <1>10 DEF Drop, TypeOK, Owned, Given, Counted, Flagged, DInv
<1>11. CASE UNCHANGED vars
  BY <1>1, <1>2, <1>11 DEF TypeOK, Owned, Given, Counted, Flagged, DInv
<1>12. QED
  BY <1>3, <1>4, <1>5, <1>6, <1>7, <1>8, <1>9, <1>10, <1>11

\* A dial tracks its connection before anyone else can see it, and hands over
\* what it has only once.
LEMMA DialSteps ==
    ASSUME DInv, NEW d \in Dials, Dialler(d)
    PROVE  DInv'
<1> TypeOK /\ Owned /\ Given /\ Counted /\ Flagged
  BY DEF DInv
<1> MaxDials \in Nat /\ d \in 1..MaxDials /\ d \in Conns /\ d # 0 /\ d # None /\ 0 \in Conns
  BY DoHAssumption DEF DoHAssumption, Dials, Conns, None
<1> dpc \in [Dials -> {"none", "take", "dial", "handshake", "record", "refused", "done"}]
  BY DEF TypeOK
<1> /\ pool \subseteq Conns /\ sockets \subseteq Conns /\ conns \subseteq Conns
    /\ doomed \subseteq Conns /\ recorded \subseteq Conns /\ given \subseteq Dials \X Conns
  BY DEF TypeOK
<1> USE DEF sessionVars, queryVars, CloseConns, DialFrame, DialTo, Asking
<1>1. pc # "open" /\ dpc[d] \in {"take", "dial", "handshake", "record", "refused"}
  BY DEF Dialler, TakePending, Connect, Handshake, Record, Refuse, Given
<1>2. \A g \in given : g[1] = d => g[2] = 0 /\ pending = None
  BY <1>1 DEF Given
<1>3. CASE Connect(d) \/ Handshake(d) \/ Refuse(d)
  <2>1. /\ UNCHANGED <<pc, given, pending, connections, recorded, closed, lastReconnected,
                       before, using, queries, needed, doomed>>
        /\ \E to \in {"dial", "handshake", "record", "done"} : dpc' = [dpc EXCEPT ![d] = to]
        /\ \/ conns' = conns \ {d} /\ sockets' = sockets \ {d} /\ pool' = pool \ {d}
           \/ conns' = conns \cup {d} /\ sockets' = sockets \cup {d} /\ pool' = pool
           \/ conns' = conns /\ sockets' = sockets /\ pool' = pool
    BY <1>3 DEF Connect, Handshake, Refuse
  <2>2. TypeOK'
    <3>1. dpc' \in [Dials -> {"none", "take", "dial", "handshake", "record", "refused", "done"}]
      BY <2>1
    <3>2. pool' \cup sockets' \cup conns' \cup doomed' \cup recorded' \subseteq Conns
      BY <2>1
    <3>3. QED
      BY <2>1, <3>1, <3>2 DEF TypeOK
  <2>3. Owned'
    BY <2>1 DEF Owned
  <2>4. Given'
    BY <1>1, <1>2, <2>1 DEF Given
  <2>5. Counted' /\ Flagged'
    BY <2>1, RecorderStep DEF Counted, Flagged
  <2>6. QED
    BY <2>2, <2>3, <2>4, <2>5 DEF DInv
<1>4. CASE TakePending(d)
  <2>1. /\ UNCHANGED <<pc, conns, sockets, connections, recorded, closed, lastReconnected,
                       before, using, queries, needed, doomed>>
        /\ \E to \in {"dial", "done"} : dpc' = [dpc EXCEPT ![d] = to]
        /\ pending' = None /\ pool' \subseteq Conns
        /\ given' = given \/ (given' = given \cup {<<d, 0>>} /\ pending = 0)
    BY <1>4 DEF TakePending, Given
  <2>2. TypeOK'
    BY <2>1 DEF TypeOK
  <2>3. Owned'
    BY <2>1 DEF Owned
  <2>4. Given'
    <3>1. CASE given' = given
      BY <1>1, <1>2, <2>1, <3>1 DEF Given
    <3>2. CASE given' = given \cup {<<d, 0>>} /\ pending = 0
      <4>1. \A g \in given : g[2] # 0 /\ g[1] # d /\ g[2] = g[1]
        <5>1. pending # None /\ 0 \notin Dials
          BY <3>2, DoHAssumption DEF DoHAssumption, None, Dials
        <5>2. QED
          BY <1>2, <5>1 DEF Given
      <4>2. \A g \in given : dpc'[g[1]] = dpc[g[1]]
        BY <2>1, <4>1
      <4>3. \A g \in given' : g \in given \/ (g = <<d, 0>> /\ g[2] = 0)
        BY <3>2
      <4>4. \A g \in given' : (g[2] = 0 /\ pending' = None) \/ (g[2] = g[1] /\ dpc'[g[1]] = "done")
        BY <2>1, <4>1, <4>2, <4>3 DEF Given
      <4>5. \A g, h \in given' : g[2] = h[2] => g = h
        BY <4>1, <4>3 DEF Given
      <4>6. QED
        BY <1>1, <2>1, <4>4, <4>5 DEF Given
    <3>3. QED
      BY <2>1, <3>1, <3>2
  <2>5. Counted' /\ Flagged'
    BY <2>1, RecorderStep DEF Counted, Flagged
  <2>6. QED
    BY <2>2, <2>3, <2>4, <2>5 DEF DInv
<1>5. CASE Record(d)
  <2>1. CASE closed
    <3>1. /\ UNCHANGED <<pc, given, pending, connections, recorded, closed, lastReconnected,
                         before, using, queries, needed, doomed, conns, sockets, pool>>
          /\ dpc' = [dpc EXCEPT ![d] = "refused"] /\ dpc[d] = "record"
      BY <1>5, <2>1 DEF Record
    <3>2. TypeOK' /\ Owned'
      BY <3>1 DEF TypeOK, Owned
    <3>3. Given'
      BY <1>1, <1>2, <3>1 DEF Given
    <3>4. Counted' /\ Flagged'
      BY <3>1, RecorderStep DEF Counted, Flagged
    <3>5. QED
      BY <3>2, <3>3, <3>4 DEF DInv
  <2>2. CASE ~closed
    <3>1. /\ UNCHANGED <<pc, pending, closed, lastReconnected, before, using, queries, needed,
                         doomed, conns, sockets>>
          /\ pool' \subseteq Conns
          /\ connections' = connections + 1
          /\ given' = given \cup {<<d, d>>}
          /\ dpc' = [dpc EXCEPT ![d] = "done"] /\ dpc[d] = "record"
          /\ recorded' = IF Asking THEN recorded \cup {d} ELSE recorded
      BY <1>5, <2>2 DEF Record, Note
    <3>2. \A g \in given : g[2] # d
      BY <1>1, <3>1 DEF Given
    <3>3. <<d, d>> \notin given
      BY <3>2
    <3>4. Counted' /\ connections' <= MaxDials + 1
      BY <1>1, <3>1, <3>3, RecorderStep, RecorderCount DEF Counted, TypeOK
    <3>5. TypeOK'
      <4>1. given' \subseteq Dials \X Conns /\ recorded' \subseteq Conns
        BY <3>1
      <4>2. connections' \in 0..(MaxDials + 1)
        BY <3>1, <3>4 DEF TypeOK
      <4>3. QED
        BY <3>1, <4>1, <4>2 DEF TypeOK
    <3>6. Owned'
      BY <3>1 DEF Owned
    <3>7. Given'
      <4>1. \A g \in given : g[1] = d => dpc'[g[1]] = "done"
        BY <3>1
      <4>2. \A g \in given : g[1] # d => dpc'[g[1]] = dpc[g[1]]
        BY <3>1
      <4>3. <<d, d>>[1] = d /\ <<d, d>>[2] = d
        OBVIOUS
      <4>4. QED
        BY <1>1, <3>1, <3>2, <4>1, <4>2, <4>3 DEF Given
    <3>8. Flagged'
      <4>1. Asking => connections' > before /\ recorded' # {}
        BY <3>1 DEF Counted, TypeOK
      <4>2. QED
        BY <1>1, <3>1, <4>1 DEF Flagged
    <3>9. QED
      BY <3>4, <3>5, <3>6, <3>7, <3>8 DEF DInv
  <2>3. QED
    BY <2>1, <2>2
<1>6. QED
  BY <1>3, <1>4, <1>5 DEF Dialler

\* DInv is inductive.
LEMMA StepDInv == DInv /\ [Next]_vars => DInv'
<1> SUFFICES ASSUME DInv, [Next]_vars PROVE DInv'
  OBVIOUS
<1>1. CASE \E d \in Dials : Dialler(d)
  BY <1>1, DialSteps
<1>2. CASE Ended
  BY <1>2, PlainSteps DEF Ended
<1>3. CASE \/ Open \/ BeginQuery \/ EndQuery \/ CloseIdle \/ Closing
           \/ Request \/ Serve \/ Again \/ Drop \/ UNCHANGED vars
  BY <1>3, PlainSteps
<1>4. QED
  BY <1>1, <1>2, <1>3 DEF Next

\* No connection of a DoH session escapes Close, and none is handed to
\* net/http twice, for any number of dials that overlap.
THEOREM NoneEscapes == Spec => []EveryConnectionOwned
<1>1. DInv => EveryConnectionOwned
  BY DEF DInv, Owned, Given, EveryConnectionOwned
<1>2. QED
  BY <1>1, InitDInv, StepDInv, PTL DEF Spec

\* LastQueryReconnected is the truth about the connections recorded during
\* the query, for any number of queries.
THEOREM FlagHonest == Spec => []FlagTellsOfDials
<1>1. DInv => FlagTellsOfDials
  BY DEF DInv, Flagged, FlagTellsOfDials
<1>2. QED
  BY <1>1, InitDInv, StepDInv, PTL DEF Spec

-----------------------------------------------------------------------------
(***************************************************************************)
(* UDPExchange.                                                            *)
(***************************************************************************)
\* A reply under way was made for a query that has been asked.
Underway ==
    /\ IsFiniteSet(flight)
    /\ \A d \in flight : d.of \in 1 .. Len(asked)

UInv == AnswersItsQuery /\ Underway

-----------------------------------------------------------------------------
LEMMA InitUInv == UDPInit => UInv
<1> SUFFICES ASSUME UDPInit PROVE UInv
  OBVIOUS
<1>1. UDPTypeOK
  <2>1. asked \in Seq(Requests) /\ samples \in Seq(Samples) /\ Len(asked) = 0 /\ Len(samples) = 0
    BY DEF UDPInit
  <2>2. left \in 0 .. Timeout /\ flight \subseteq Replies /\ Cardinality(flight) <= MaxFlight
    BY FS_EmptySet, UDPAssumption DEF UDPAssumption, UDPInit
  <2>3. peer \in Addresses \cup {NoAddress} /\ opened \in BOOLEAN
    BY DEF UDPInit
  <2>4. QED
    BY <2>1, <2>2, <2>3, UDPAssumption DEF UDPAssumption, UDPTypeOK
<1>2. QED
  BY <1>1, FS_EmptySet DEF UDPInit, UInv, AnswersItsQuery, Underway

\* What the ends of a query have in common: one sample is added, for the
\* query that was being read.
LEMMA RecordStep ==
    ASSUME UInv, Reading, asked' = asked,
           NEW s \in Samples, samples' = Append(samples, s),
           s.outcome \in Whole =>
               s.of \in 1 .. Current /\ asked[s.of] = asked[Current]
    PROVE  /\ samples' \in Seq(Samples)
           /\ Len(asked') - Len(samples') \in {0, 1}
           /\ \A n \in DOMAIN samples' :
                samples'[n].outcome \in Whole =>
                    samples'[n].of \in 1 .. n /\ asked'[samples'[n].of] = asked'[n]
<1>1. /\ asked \in Seq(Requests) /\ samples \in Seq(Samples)
      /\ Len(asked) = Len(samples) + 1
  BY DEF UInv, AnswersItsQuery, UDPTypeOK, Reading
<1>2. /\ samples' \in Seq(Samples) /\ Len(samples') = Len(samples) + 1
      /\ \A n \in 1 .. Len(samples) : samples'[n] = samples[n]
      /\ samples'[Len(samples) + 1] = s
  BY <1>1
<1>3. ASSUME NEW n \in DOMAIN samples', samples'[n].outcome \in Whole
      PROVE  samples'[n].of \in 1 .. n /\ asked'[samples'[n].of] = asked'[n]
  <2>1. CASE n = Len(samples) + 1
    BY <1>1, <1>2, <1>3, <2>1 DEF Current
  <2>2. CASE n \in 1 .. Len(samples)
    BY <1>1, <1>2, <1>3, <2>2 DEF UInv, AnswersItsQuery
  <2>3. QED
    BY <1>1, <1>2, <1>3, <2>1, <2>2
<1>4. QED
  BY <1>1, <1>2, <1>3

\* A query asked now changes nothing about those before it.
LEMMA AskStep ==
    ASSUME UInv, MayAsk, NEW r \in Requests, asked' = Append(asked, r)
    PROVE  /\ asked' \in Seq(Requests)
           /\ Len(asked') = Len(asked) + 1 /\ Len(asked') <= Queries
           /\ Len(samples) = Len(asked)
           /\ \A n \in 1 .. Len(asked) : asked'[n] = asked[n]
<1>1. asked \in Seq(Requests) /\ samples \in Seq(Samples)
      /\ Len(asked) - Len(samples) \in {0, 1} /\ Queries \in Nat
  BY UDPAssumption DEF UDPAssumption, UInv, AnswersItsQuery, UDPTypeOK
<1>2. QED
  BY <1>1 DEF MayAsk, Reading, Current

\* UInv through the steps that ask a query.
LEMMA AskSteps ==
    ASSUME UInv, Send \/ SendFails
    PROVE  UInv'
<1> /\ UDPTypeOK /\ Underway /\ Queries \in Nat /\ Timeout \in Nat
    /\ asked \in Seq(Requests) /\ samples \in Seq(Samples)
  BY UDPAssumption DEF UDPAssumption, UInv, AnswersItsQuery, UDPTypeOK
<1>1. MayAsk /\ UNCHANGED <<peer, opened, flight>>
  BY DEF Send, SendFails
<1>2. PICK r \in Requests : asked' = Append(asked, r)
  BY DEF Send, SendFails
<1>3. /\ asked' \in Seq(Requests)
      /\ Len(asked') = Len(asked) + 1 /\ Len(asked') <= Queries
      /\ Len(samples) = Len(asked)
      /\ \A n \in 1 .. Len(asked) : asked'[n] = asked[n]
  BY <1>1, <1>2, AskStep
<1>4. Underway'
  BY <1>1, <1>3 DEF Underway
<1>5. \A n \in 1 .. Len(samples) :
        samples[n].outcome \in Whole =>
            samples[n].of \in 1 .. n /\ asked'[samples[n].of] = asked'[n]
  BY <1>3 DEF UInv, AnswersItsQuery
<1>6. CASE Send
  <2>1. left' \in 0 .. Timeout /\ samples' = samples
    BY <1>6 DEF Send, Deadline
  <2>2. QED
    BY <1>1, <1>3, <1>4, <1>5, <2>1 DEF UInv, AnswersItsQuery, UDPTypeOK
<1>7. CASE SendFails
  <2> DEFINE s == [outcome |-> "unsent", of |-> 0]
  <2>1. samples' = Append(samples, s) /\ left' = left
    BY <1>7 DEF SendFails, UDPRecord
  <2>2. s \in Samples /\ s.outcome \notin Whole
    BY DEF Samples, Whole
  <2>3. /\ samples' \in Seq(Samples) /\ Len(samples') = Len(samples) + 1
        /\ \A n \in 1 .. Len(samples) : samples'[n] = samples[n]
        /\ samples'[Len(samples) + 1] = s
    BY <2>1, <2>2
  <2>4. \A n \in DOMAIN samples' : n \in 1 .. Len(samples) \/ samples'[n] = s
    BY <2>3
  <2>5. \A n \in DOMAIN samples' :
          samples'[n].outcome \in Whole =>
              samples'[n].of \in 1 .. n /\ asked'[samples'[n].of] = asked'[n]
    BY <1>5, <2>2, <2>3, <2>4
  <2>6. UDPTypeOK'
    BY <1>1, <1>3, <2>1, <2>3 DEF UDPTypeOK
  <2>7. QED
    BY <1>4, <2>5, <2>6 DEF UInv, AnswersItsQuery
<1>8. QED
  BY <1>6, <1>7

\* The network takes a reply away: by delivering it or by losing it.
LEMMA FlightShrinks ==
    ASSUME UInv, asked' = asked, NEW d, flight' = flight \ {d}
    PROVE  Underway' /\ flight' \subseteq Replies /\ Cardinality(flight') <= MaxFlight
<1>1. IsFiniteSet(flight) /\ Cardinality(flight) <= MaxFlight /\ flight \subseteq Replies
  BY DEF UInv, AnswersItsQuery, UDPTypeOK, Underway
<1>2. IsFiniteSet(flight') /\ Cardinality(flight') <= Cardinality(flight)
  BY <1>1, FS_Subset
<1>3. Cardinality(flight') \in Nat /\ Cardinality(flight) \in Nat /\ MaxFlight \in Nat
  BY <1>1, <1>2, FS_CardinalityType, UDPAssumption DEF UDPAssumption
<1>4. QED
  BY <1>1, <1>2, <1>3 DEF UInv, Underway

\* UInv through the steps that end a query: only Accept counts a message, and
\* what Accept has checked makes the two queries equal.
LEMMA EndSteps ==
    ASSUME UInv, Reject \/ Accept \/ Expire
    PROVE  UInv'
<1> UDPTypeOK /\ Underway
  BY DEF UInv, AnswersItsQuery
<1> SUFFICES ASSUME NEW s \in Samples, samples' = Append(samples, s),
                    s.outcome \in Whole =>
                        s.of \in 1 .. Current /\ asked[s.of] = asked[Current],
                    UNCHANGED <<peer, opened, asked, left>>, Reading,
                    flight' = flight \/ \E d : flight' = flight \ {d}
             PROVE  UInv'
  <2>1. CASE Expire
    <3>1. [outcome |-> "timeout", of |-> 0] \in Samples
      BY UDPAssumption DEF UDPAssumption, Samples
    <3>2. "timeout" \notin Whole
      BY DEF Whole
    <3>3. QED
      BY <2>1, <3>1, <3>2 DEF Expire, UDPRecord
  <2>2. CASE Reject
    <3>1. PICK d \in flight : Arrives(d) /\ UDPRecord("rejected", d.of) /\ UNCHANGED left
      BY <2>2 DEF Reject
    <3>2. [outcome |-> "rejected", of |-> d.of] \in Samples /\ "rejected" \notin Whole
      BY DEF Samples, Whole, UDPTypeOK, Replies
    <3>3. QED
      BY <3>1, <3>2 DEF Arrives, UDPRecord
  <2>3. CASE Accept
    <3>1. PICK d \in flight : /\ Arrives(d) /\ ~Unreadable(d) /\ ~Foreign(d) /\ ~Invalid(d)
                              /\ ~Extended(d) /\ UDPRecord(d.shape, d.of) /\ UNCHANGED left
      BY <2>3 DEF Accept
    <3>2. d \in Replies /\ d.of \in 1 .. Current
      BY DEF UDPTypeOK, Underway, Current
    <3>3. d.shape \in Whole
      BY <3>1, <3>2 DEF Replies, Broken, Unreadable, Invalid, Extended
    <3>4. asked[d.of] \in Requests /\ asked[Current] \in Requests
      BY <3>2 DEF UDPTypeOK, Current
    <3>5. asked[d.of] = asked[Current]
      BY <3>1, <3>4 DEF Requests, Arrives, Foreign, Invalid
    <3>6. [outcome |-> d.shape, of |-> d.of] \in Samples
      BY <3>2, <3>3 DEF Samples, Replies, Whole
    <3>7. QED
      BY <3>1, <3>2, <3>5, <3>6 DEF Arrives, UDPRecord
  <2>4. QED
    BY <2>1, <2>2, <2>3
<1>1. /\ samples' \in Seq(Samples)
      /\ Len(asked') - Len(samples') \in {0, 1}
      /\ \A n \in DOMAIN samples' :
            samples'[n].outcome \in Whole =>
                samples'[n].of \in 1 .. n /\ asked'[samples'[n].of] = asked'[n]
  BY RecordStep
<1>2. Underway' /\ flight' \subseteq Replies /\ Cardinality(flight') <= MaxFlight
  BY FlightShrinks DEF UDPTypeOK, Underway
<1>3. UDPTypeOK'
  BY <1>1, <1>2 DEF UDPTypeOK
<1>4. QED
  BY <1>1, <1>2, <1>3 DEF UInv, AnswersItsQuery

\* UInv through the other steps, which leave queries and samples alone.
LEMMA QuietSteps ==
    ASSUME UInv, UDPOpen \/ Skip \/ Tick \/ Reply \/ Lose \/ UNCHANGED udpVars
    PROVE  UInv'
<1> UDPTypeOK /\ Underway
  BY DEF UInv, AnswersItsQuery
<1>1. UNCHANGED <<asked, samples>>
  BY DEF UDPOpen, Skip, Arrives, Tick, Reply, Lose, udpVars
<1>2. Underway' /\ flight' \subseteq Replies /\ Cardinality(flight') <= MaxFlight
  <2>1. CASE Skip \/ Lose
    BY <1>1, <2>1, FlightShrinks DEF Skip, Arrives, Lose
  <2>2. CASE UDPOpen \/ Tick \/ UNCHANGED udpVars
    BY <1>1, <2>2 DEF UDPOpen, Tick, udpVars, UDPTypeOK, Underway
  <2>3. CASE Reply
    <3>1. PICK d \in Replies : d.of <= Current /\ flight' = flight \cup {d}
      BY <2>3 DEF Reply
    <3>2. /\ IsFiniteSet(flight') /\ Cardinality(flight') <= Cardinality(flight) + 1
          /\ Cardinality(flight) \in Nat
      <4>1. IsFiniteSet(flight) /\ Cardinality(flight) \in Nat
        BY FS_CardinalityType DEF Underway
      <4>2. /\ IsFiniteSet(flight \cup {d})
            /\ Cardinality(flight \cup {d}) = IF d \in flight THEN Cardinality(flight)
                                              ELSE Cardinality(flight) + 1
        BY <4>1, FS_AddElement
      <4>3. QED
        BY <3>1, <4>1, <4>2
    <3>3. Cardinality(flight) < MaxFlight /\ MaxFlight \in Nat
      BY <2>3, UDPAssumption DEF Reply, UDPAssumption
    <3>4. Cardinality(flight') <= MaxFlight
      <4>1. Cardinality(flight') \in Nat
        BY <3>2, FS_CardinalityType
      <4>2. QED
        BY <3>2, <3>3, <4>1
    <3>5. d.of \in 1 .. Len(asked)
      BY <3>1 DEF Replies, Current, UDPTypeOK
    <3>6. QED
      BY <1>1, <3>1, <3>2, <3>4, <3>5 DEF Underway, UDPTypeOK
  <2>4. QED
    BY <2>1, <2>2, <2>3
<1>3. peer' \in Addresses \cup {NoAddress} /\ opened' \in BOOLEAN /\ left' \in 0 .. Timeout
  <2>1. CASE UDPOpen
    BY <2>1 DEF UDPOpen, UDPTypeOK
  <2>2. CASE Tick
    BY <2>2, UDPAssumption DEF UDPAssumption, Tick, UDPTypeOK
  <2>3. CASE Skip \/ Reply \/ Lose \/ UNCHANGED udpVars
    BY <2>3 DEF Skip, Arrives, Reply, Lose, udpVars, UDPTypeOK
  <2>4. QED
    BY <2>1, <2>2, <2>3
<1>4. UDPTypeOK'
  BY <1>1, <1>2, <1>3 DEF UDPTypeOK
<1>5. QED
  BY <1>1, <1>2, <1>4 DEF UInv, AnswersItsQuery

\* UInv is inductive.
LEMMA StepUInv == UInv /\ [UDPNext]_udpVars => UInv'
BY AskSteps, EndSteps, QuietSteps DEF UDPNext

\* However late, repeated or reordered the replies, a message counted for a
\* query answers it: the transaction ID, the question section and the socket of
\* its own that Query checks and opens are enough.
THEOREM CountedRepliesAnswer == UDPSpec => []AnswersItsQuery
<1>1. UInv => AnswersItsQuery
  BY DEF UInv
<1>2. QED
  BY <1>1, InitUInv, StepUInv, PTL DEF UDPSpec
=============================================================================
