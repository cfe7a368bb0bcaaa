---------------------------- MODULE ReconnectProofs ----------------------------
(***************************************************************************)
(* Proofs about Reconnect, for any number of addresses and any behaviour   *)
(* of the network: no socket leaks, the reconnect flag is honest, and the  *)
(* address a reconnect begins at moves on exactly when its time runs out.  *)
(*                                                                         *)
(* Both kinds of session keep one address to begin at: stickyReopen's      *)
(* start when the candidates are literals, reached for a hostname.         *)
(***************************************************************************)
EXTENDS Reconnect, SequenceTheorems, TLAPS

Connecting == {"candidate", "dial", "handshake"}
Established == session \in {"open", "closed"}
Dialling == {"dial", "handshake"}

\* The address a reconnect begins at, and the one after it.
Aim == IF hostname THEN reached ELSE start
Succ(a) == IF a = N THEN 1 ELSE a + 1

\* The k-th address before a, in configured order.
Back(a, k) == IF k < a THEN a - k ELSE a + N - k

\* Which call is in progress decides what the session holds.
PhaseInv ==
    /\ session = "opening" => pc \in Connecting /\ tried = <<>>
    /\ session = "closed" => pc = "idle" /\ conn = None
    /\ session = "failed" => pc = "end" /\ conn = None /\ tried = <<>>
    /\ session = "open" => pc # "end"
    /\ pc \in Connecting => conn = None
    /\ pc = "exchange" => conn # None
    /\ sockets = IF conn # None \/ pc = "handshake" THEN 1 ELSE 0

\* The addresses of the candidate being tried.
PlanInv ==
    /\ IF hostname THEN start = Name /\ candidate = Name /\ plan \in {<<>>, <<Name>>}
                   ELSE plan \in Seq(Addresses)
    /\ pc \in Dialling =>
        /\ literals # <<>>
        /\ IF hostname THEN plan = <<>> /\ attempt \in Addresses
                       ELSE candidate \in Addresses /\ literals = <<candidate>>

\* A reconnect in progress begins at Aim, whatever candidate that belongs to.
AimInv ==
    /\ Established => Aim \in Addresses
    /\ session = "open" /\ pc \in Connecting =>
        /\ lastReconnected
        /\ dialled \in {None, Aim}
        /\ pc = "handshake" => dialled = Aim
        /\ IF hostname
           THEN /\ pc = "candidate" /\ plan # <<>> => dialled = None
                /\ pc \in Dialling => attempt = Aim /\ (dialled = None => Head(literals) = Aim)
           ELSE dialled = None =>
                /\ pc = "candidate" => plan # <<>> /\ Head(plan) = Aim
                /\ pc \in Dialling => candidate = Aim

\* The timed-out reconnects since the last connection began at the addresses
\* that lead up to Aim, one after the other.
TriedInv ==
    /\ Len(tried) <= N
    /\ Established =>
        /\ tried = <<>> => Aim = lastAddr
        /\ \A i \in 1..Len(tried) : tried[i] = Back(Aim, Len(tried) + 1 - i)

RInv == TypeOK /\ PhaseInv /\ PlanInv /\ AimInv /\ TriedInv /\ ReconnectSampleIsHonest

-----------------------------------------------------------------------------
\* dialPlan.preferring reorders its candidates and puts the preferred one first.
LEMMA PreferringFacts ==
    ASSUME NEW S, NEW list \in Seq(S), NEW a, list # <<>>
    PROVE  /\ Preferring(list, a) \in Seq(S) /\ Preferring(list, a) # <<>>
           /\ Contains(list, a) => Head(Preferring(list, a)) = a
<1>1. CASE Contains(list, a)
  <2> DEFINE i == Position(list, a)
  <2>1. i \in 1..Len(list) /\ list[i] = a /\ a \in S
    BY <1>1 DEF Contains, Position
  <2>2. SubSeq(list, 1, i - 1) \in Seq(S) /\ SubSeq(list, i + 1, Len(list)) \in Seq(S)
    BY <2>1
  <2>3. QED
    BY <1>1, <2>1, <2>2 DEF Preferring
<1>2. CASE ~Contains(list, a)
  BY <1>2 DEF Preferring
<1>3. QED
  BY <1>1, <1>2

\* A plan of one candidate has nothing to prefer and nothing to move on to.
LEMMA SingleFacts ==
    ASSUME NEW x, NEW a
    PROVE  /\ Preferring(<<x>>, a) = <<x>>
           /\ After(<<x>>, a) = a
<1>1. Contains(<<x>>, a) <=> a = x
  BY DEF Contains
<1>2. a = x => Position(<<x>>, a) = 1
  BY DEF Position
<1>3. Preferring(<<x>>, a) = <<x>>
  <2>1. CASE a = x
    <3>1. SubSeq(<<x>>, 1, 1 - 1) = <<>> /\ SubSeq(<<x>>, 1 + 1, Len(<<x>>)) = <<>>
      OBVIOUS
    <3>2. <<x>> \o <<>> \o <<>> = <<x>>
      OBVIOUS
    <3>3. QED
      BY <1>1, <1>2, <2>1, <3>1, <3>2 DEF Preferring
  <2>2. CASE a # x
    BY <1>1, <2>2 DEF Preferring
  <2>3. QED
    BY <2>1, <2>2
<1>4. After(<<x>>, a) = a
  <2>1. (1 % Len(<<x>>)) + 1 = 1 /\ <<x>>[1] = x
    OBVIOUS
  <2>2. QED
    BY <1>1, <1>2, <2>1 DEF After
<1>5. QED
  BY <1>3, <1>4

\* In the configured order dialPlan.after is the next address, cyclically.
LEMMA ConfiguredFacts ==
    ASSUME NEW a \in Addresses, NEW list, list = [i \in Addresses |-> i]
    PROVE  /\ list \in Seq(Addresses) /\ list # <<>> /\ Contains(list, a)
           /\ After(list, a) = Succ(a)
<1>1. list \in Seq(Addresses) /\ Len(list) = N /\ N \in Nat \ {0}
  BY ReconnectAssumption DEF ReconnectAssumption, Addresses
<1>2. Contains(list, a) /\ Position(list, a) = a
  BY <1>1 DEF Contains, Position, Addresses
<1>3. a % N = IF a = N THEN 0 ELSE a
  BY <1>1 DEF Addresses
<1>4. QED
  BY <1>1, <1>2, <1>3 DEF After, Succ, Addresses

\* The addresses that lead up to the next one are those that led up to this
\* one, and this one.
LEMMA BackFacts ==
    ASSUME NEW a \in Addresses
    PROVE  /\ Succ(a) \in Addresses
           /\ Back(Succ(a), 1) = a
           /\ \A k \in 1..(N - 1) : Back(Succ(a), k + 1) = Back(a, k)
BY ReconnectAssumption DEF ReconnectAssumption, Addresses, Succ, Back

\* A timed-out reconnect that began at a leaves a history that leads up to the
\* address after a.
LEMMA MovesOn ==
    ASSUME NEW a \in Addresses, NEW old \in Seq(Addresses), Len(old) <= N,
           \A i \in 1..Len(old) : old[i] = Back(a, Len(old) + 1 - i),
           NEW new, new = Window(Append(old, a))
    PROVE  /\ new \in Seq(Addresses) /\ Len(new) <= N /\ new # <<>>
           /\ \A i \in 1..Len(new) : new[i] = Back(Succ(a), Len(new) + 1 - i)
<1> DEFINE long == Append(old, a)
<1>1. N \in Nat \ {0}
  BY ReconnectAssumption DEF ReconnectAssumption
<1>2. /\ long \in Seq(Addresses) /\ Len(long) = Len(old) + 1
      /\ \A i \in 1..Len(old) : long[i] = old[i]
      /\ long[Len(old) + 1] = a
  OBVIOUS
<1> HIDE DEF long
<1>3. CASE Len(old) < N
  <2>1. new = long
    BY <1>1, <1>2, <1>3 DEF Window, long
  <2>2. ASSUME NEW i \in 1..Len(long)
        PROVE  long[i] = Back(Succ(a), Len(long) + 1 - i)
    <3>1. CASE i = Len(old) + 1
      BY <1>2, <3>1, BackFacts
    <3>2. CASE i # Len(old) + 1
      <4> DEFINE k == Len(old) + 1 - i
      <4>1. i \in 1..Len(old) /\ k \in 1..(N - 1) /\ Len(long) + 1 - i = k + 1
        BY <1>1, <1>2, <1>3, <3>2
      <4>2. long[i] = Back(a, k)
        BY <1>2, <4>1
      <4>3. QED
        BY <4>1, <4>2, BackFacts
    <3>3. QED
      BY <3>1, <3>2
  <2>3. QED
    BY <1>1, <1>2, <1>3, <2>1, <2>2
<1>4. CASE Len(old) = N
  <2>1. new = Tail(long)
    BY <1>1, <1>2, <1>4 DEF Window, long
  <2>2. new \in Seq(Addresses) /\ Len(new) = N /\ \A i \in 1..N : new[i] = long[i + 1]
    BY <1>1, <1>2, <1>4, <2>1
  <2>3. ASSUME NEW i \in 1..N
        PROVE  new[i] = Back(Succ(a), N + 1 - i)
    <3>1. CASE i = N
      BY <1>1, <1>2, <1>4, <2>2, <3>1, BackFacts
    <3>2. CASE i # N
      <4> DEFINE k == N - i
      <4>1. i + 1 \in 1..Len(old) /\ k \in 1..(N - 1) /\ N + 1 - i = k + 1
        BY <1>1, <1>4, <3>2
      <4>2. new[i] = Back(a, k)
        BY <1>2, <1>4, <2>2, <4>1
      <4>3. QED
        BY <4>1, <4>2, BackFacts
    <3>3. QED
      BY <3>1, <3>2
  <2>4. QED
    BY <1>1, <2>2, <2>3
<1>5. QED
  BY <1>1, <1>3, <1>4

-----------------------------------------------------------------------------
LEMMA InitRInv == Init => RInv
<1> SUFFICES ASSUME Init PROVE RInv
  OBVIOUS
<1>1. N \in Nat \ {0} /\ MaxEvents \in Nat
  BY ReconnectAssumption DEF ReconnectAssumption
<1>2. IF hostname THEN Candidates = <<Name>> ELSE Candidates \in Seq(Addresses)
  BY <1>1 DEF Candidates, Addresses
<1>3. TypeOK
  <2>1. plan \in Seq(Addresses \cup {Name}) /\ literals \in Seq(Addresses)
        /\ tried \in Seq(Addresses)
    <3>1. <<Name>> \in Seq(Addresses \cup {Name})
      OBVIOUS
    <3>2. Candidates \in Seq(Addresses) => Candidates \in Seq(Addresses \cup {Name})
      OBVIOUS
    <3>3. plan \in Seq(Addresses \cup {Name})
      BY <1>2, <3>1, <3>2 DEF Init
    <3>4. QED
      BY <3>3 DEF Init
  <2>2. events \in 0..MaxEvents /\ sockets \in 0..1
    BY <1>1 DEF Init
  <2>3. QED
    BY <2>1, <2>2 DEF Init, TypeOK, Name, None
<1>4. PhaseInv
  BY DEF Init, PhaseInv, Connecting, None
<1>5. PlanInv
  BY <1>2 DEF Init, PlanInv, Dialling, Name, None
<1>6. AimInv /\ TriedInv /\ ReconnectSampleIsHonest
  BY <1>1 DEF Init, AimInv, TriedInv, ReconnectSampleIsHonest, Established
<1>7. QED
  BY <1>3, <1>4, <1>5, <1>6 DEF RInv

\* A call that fails leaves the next reconnect to begin where this one did, or
\* at the next address when this one's time ran out at a dialled address.
LEMMA FailKeeps ==
    ASSUME RInv, pc \in Connecting, NEW expired \in BOOLEAN, Fail(expired),
           expired => session = "open",
           UNCHANGED <<hostname, net, events, attempt, candidate>>,
           dialled' \in Addresses \cup {None}, reached' \in Addresses \cup {None},
           sockets' = 0,
           IF expired /\ dialled' # None
           THEN dialled' = Aim /\ (hostname => reached' = Succ(reached))
           ELSE (hostname => reached' = reached) /\ (expired => hostname)
    PROVE  RInv'
<1>1. session \in {"opening", "open"} /\ conn = None
  BY DEF RInv, TypeOK, PhaseInv, Connecting
<1>2. IF expired /\ ~hostname THEN start' = Succ(start) ELSE start' = start
  <2>1. CASE expired /\ ~hostname
    <3>1. start \in Addresses /\ session = "open"
      BY <2>1 DEF RInv, AimInv, Aim, Established
    <3>2. QED
      BY <2>1, <3>1, ConfiguredFacts DEF Fail, Candidates
  <2>2. CASE expired /\ hostname
    BY <2>2, <1>1, SingleFacts DEF Fail, Candidates
  <2>3. CASE ~expired
    BY <2>3, <1>1 DEF Fail
  <2>4. QED
    BY <2>1, <2>2, <2>3
<1>3. IF expired /\ dialled' # None
      THEN Aim' = Succ(Aim) /\ tried' = Window(Append(tried, Aim))
      ELSE Aim' = Aim /\ tried' = tried
  BY <1>2 DEF Fail, Aim
<1>4. expired => Aim \in Addresses
  BY DEF RInv, AimInv, Established
<1>5. start' \in Addresses \cup {None}
  BY <1>2, <1>4, BackFacts DEF RInv, TypeOK, Aim
<1>6. session' = (IF session = "opening" THEN "failed" ELSE "open")
  BY <1>1 DEF Fail
<1>7. TriedInv' /\ tried' \in Seq(Addresses)
  <2>1. CASE expired /\ dialled' # None
    BY <1>3, <1>4, <1>6, <2>1, MovesOn DEF RInv, TypeOK, TriedInv, Established
  <2>2. CASE ~(expired /\ dialled' # None)
    BY <1>1, <1>3, <1>6, <2>2 DEF RInv, TypeOK, TriedInv, Established, Fail
  <2>3. QED
    BY <2>1, <2>2
<1>8. TypeOK'
  <2>1. plan' = <<>> /\ literals' = <<>> /\ pc' \in {"idle", "end"} /\ answered' \in BOOLEAN
        /\ UNCHANGED <<conn, alive, lastReconnected, opened, lastAddr>>
    BY DEF Fail, RInv, TypeOK
  <2>2. QED
    BY <1>5, <1>6, <1>7, <2>1 DEF RInv, TypeOK
<1>9. PhaseInv'
  BY <1>1, <1>3, <1>6 DEF RInv, PhaseInv, Fail, Connecting
<1>10. PlanInv'
  BY <1>2, <1>1 DEF RInv, PlanInv, Fail, Dialling
<1>11. AimInv' /\ ReconnectSampleIsHonest'
  <2>1. session' = "open" => Aim' \in Addresses
    BY <1>1, <1>3, <1>6, BackFacts DEF RInv, AimInv, Established
  <2>2. pc' \in {"idle", "end"}
    BY DEF Fail
  <2>3. QED
    BY <1>6, <2>1, <2>2 DEF AimInv, Established, Connecting, ReconnectSampleIsHonest
<1>12. QED
  BY <1>7, <1>8, <1>9, <1>10, <1>11 DEF RInv

\* A candidate that answers, or resolves, starts its dials at Aim if no address
\* was dialled before it; a hostname that does not resolve in time costs the
\* reconnect, and moves it nowhere.
LEMMA TryCandidateKeeps == RInv /\ TryCandidate => RInv'
<1> SUFFICES ASSUME RInv, TryCandidate PROVE RInv'
  OBVIOUS
<1> DEFINE c == Head(plan)
           answer == IF c = Name THEN net[Name] ELSE "up"
<1>1. /\ pc = "candidate" /\ plan # <<>> /\ conn = None /\ sockets = 0
      /\ session \in {"opening", "open"}
      /\ UNCHANGED <<hostname, net, events, sockets, reached>>
  BY DEF TryCandidate, RInv, TypeOK, PhaseInv, Connecting
<1>2. IF hostname THEN plan = <<Name>> /\ c = Name /\ Tail(plan) = <<>>
                  ELSE c \in Addresses /\ Tail(plan) \in Seq(Addresses) /\ answer = "up"
  <2>1. CASE hostname
    <3>1. plan = <<Name>>
      BY <1>1, <2>1 DEF RInv, PlanInv
    <3>2. Head(<<Name>>) = Name /\ Tail(<<Name>>) = <<>>
      OBVIOUS
    <3>3. QED
      BY <2>1, <3>1, <3>2
  <2>2. CASE ~hostname
    <3>1. plan \in Seq(Addresses)
      BY <2>2 DEF RInv, PlanInv
    <3>2. c \in Addresses /\ Tail(plan) \in Seq(Addresses)
      BY <1>1, <3>1
    <3>3. QED
      BY <2>2, <3>2 DEF Addresses, Name
  <2>3. QED
    BY <2>1, <2>2
<1>3. ASSUME answer = "up", candidate' = c, plan' = Tail(plan),
             literals' = Preferring(Resolved(c), reached), attempt' = Head(literals'),
             pc' = "dial",
             UNCHANGED <<session, dialled, conn, alive, start, lastReconnected, answered,
                         histVars>>
      PROVE  RInv'
  <2>1. /\ literals' \in Seq(Addresses) /\ literals' # <<>>
        /\ IF hostname THEN reached \in Addresses => Head(literals') = reached
                       ELSE literals' = <<c>>
    <3>1. CASE hostname
      <4>1. Resolved(c) = [i \in Addresses |-> i]
        BY <1>2, <3>1 DEF Resolved
      <4>2. Resolved(c) \in Seq(Addresses) /\ Resolved(c) # <<>>
        BY <4>1, ReconnectAssumption DEF ReconnectAssumption, Addresses
      <4>3. reached \in Addresses => Contains(Resolved(c), reached)
        BY <4>1, ConfiguredFacts
      <4>4. QED
        BY <1>3, <3>1, <4>2, <4>3, PreferringFacts
    <3>2. CASE ~hostname
      <4>1. c \in Addresses /\ Resolved(c) = <<c>>
        BY <1>2, <3>2 DEF Resolved, Addresses, Name
      <4>2. <<c>> \in Seq(Addresses) /\ <<c>> # <<>>
        BY <4>1
      <4>3. literals' = <<c>>
        BY <1>3, <4>1, SingleFacts
      <4>4. QED
        BY <3>2, <4>2, <4>3
    <3>3. QED
      BY <3>1, <3>2
  <2>2. attempt' \in Addresses
    BY <1>3, <2>1
  <2>3. plan' \in Seq(Addresses \cup {Name}) /\ candidate' \in Addresses \cup {Name}
    BY <1>2, <1>3
  <2>4. TypeOK'
    BY <1>1, <1>3, <2>1, <2>2, <2>3 DEF RInv, TypeOK, histVars
  <2>5. PhaseInv'
    BY <1>1, <1>3 DEF RInv, PhaseInv, Connecting, histVars
  <2>6. PlanInv'
    BY <1>1, <1>2, <1>3, <2>1, <2>2 DEF RInv, PlanInv
  <2>7. Aim' = Aim /\ TriedInv'
    BY <1>1, <1>3 DEF RInv, TriedInv, Aim, Established, histVars
  <2>8. AimInv'
    <3>1. CASE hostname
      BY <1>1, <1>2, <1>3, <2>1, <2>7, <3>1
      DEF RInv, AimInv, Established, Connecting, Dialling, Aim
    <3>2. CASE ~hostname
      BY <1>1, <1>2, <1>3, <2>1, <2>7, <3>2
      DEF RInv, AimInv, Established, Connecting, Dialling, Aim
    <3>3. QED
      BY <3>1, <3>2
  <2>9. ReconnectSampleIsHonest'
    BY <1>3 DEF ReconnectSampleIsHonest
  <2>10. QED
    BY <2>4, <2>5, <2>6, <2>7, <2>8, <2>9 DEF RInv
<1>4. ASSUME Lives(answer), plan' = Tail(plan),
             UNCHANGED <<session, pc, literals, attempt, dialled, conn, alive, candidate,
                         start, lastReconnected, answered, histVars>>
      PROVE  RInv'
  <2>1. hostname /\ plan' = <<>>
    BY <1>2, <1>4 DEF Lives
  <2>2. TypeOK'
    <3>1. plan' \in Seq(Addresses \cup {Name})
      BY <2>1
    <3>2. QED
      BY <1>1, <1>4, <3>1 DEF RInv, TypeOK, histVars
  <2>3. PhaseInv' /\ TriedInv' /\ ReconnectSampleIsHonest'
    BY <1>1, <1>4
    DEF RInv, PhaseInv, TriedInv, ReconnectSampleIsHonest, Aim, Established, histVars
  <2>4. PlanInv' /\ AimInv'
    BY <1>1, <1>4, <2>1
    DEF RInv, PlanInv, AimInv, Aim, Established, Connecting, Dialling
  <2>5. QED
    BY <2>2, <2>3, <2>4 DEF RInv
<1>5. ASSUME answer # "up", Expires(answer), UNCHANGED <<attempt, dialled, candidate>>,
             Fail(TRUE)
      PROVE  RInv'
  <2>1. hostname /\ session = "open" /\ dialled = None
    BY <1>1, <1>2, <1>5 DEF Expires, RInv, AimInv, Connecting
  <2>2. dialled' \in Addresses \cup {None} /\ reached' \in Addresses \cup {None}
    BY <1>1, <1>5 DEF RInv, TypeOK
  <2>3. QED
    BY <1>1, <1>5, <2>1, <2>2, FailKeeps DEF Connecting
<1>6. QED
  BY <1>3, <1>4, <1>5 DEF TryCandidate

LEMMA OutOfCandidatesKeeps == RInv /\ OutOfCandidates => RInv'
<1> SUFFICES ASSUME RInv, OutOfCandidates PROVE RInv'
  OBVIOUS
<1>1. pc \in Connecting /\ sockets' = 0
  BY DEF OutOfCandidates, RInv, PhaseInv, Connecting
<1>2. dialled' \in Addresses \cup {None} /\ reached' \in Addresses \cup {None}
  BY DEF OutOfCandidates, RInv, TypeOK
<1>3. QED
  BY <1>1, <1>2, FailKeeps DEF OutOfCandidates

\* An address that fails gives way to the candidate's next one, or to the next
\* candidate; the reconnect still counts as begun at Aim.
LEMMA NextAddressKeeps ==
    ASSUME RInv, pc \in Dialling, NextAddress, UNCHANGED <<hostname, net, events>>,
           dialled' \in Addresses \cup {None}, session = "open" => dialled' = Aim,
           sockets' = 0
    PROVE  RInv'
<1>1. /\ session \in {"opening", "open"} /\ conn = None
      /\ literals \in Seq(Addresses) /\ literals # <<>>
  BY DEF RInv, TypeOK, PhaseInv, PlanInv, Connecting, Dialling
<1>2. /\ literals' \in Seq(Addresses)
      /\ pc' = (IF literals' # <<>> THEN "dial" ELSE "candidate")
  <2> DEFINE rest == Tail(literals)
  <2>1. rest \in Seq(Addresses) /\ Len(rest) = Len(literals) - 1 /\ Len(literals) \in Nat
    BY <1>1
  <2>2. literals' = rest /\ pc' = (IF Len(literals) > 1 THEN "dial" ELSE "candidate")
    BY DEF NextAddress
  <2> HIDE DEF rest
  <2>3. rest # <<>> <=> Len(rest) # 0
    <3>1. rest \in Seq(Addresses)
      BY <2>1
    <3>2. QED
      BY ONLY <3>1
  <2>4. QED
    BY <2>1, <2>2, <2>3
<1>3. Aim' = Aim
  BY DEF NextAddress, Aim
<1>4. TypeOK'
  BY <1>1, <1>2 DEF RInv, TypeOK, NextAddress, histVars
<1>5. PhaseInv' /\ TriedInv' /\ ReconnectSampleIsHonest'
  BY <1>1, <1>2, <1>3
  DEF RInv, PhaseInv, TriedInv, ReconnectSampleIsHonest, NextAddress, histVars, Established,
      Connecting, Dialling
<1>6. PlanInv'
  <2>1. CASE hostname
    BY <1>2, <2>1 DEF RInv, PlanInv, NextAddress, Dialling
  <2>2. CASE ~hostname
    <3>1. literals = <<candidate>>
      BY <2>2 DEF RInv, PlanInv
    <3>2. Tail(<<candidate>>) = <<>>
      OBVIOUS
    <3>3. pc' = "candidate"
      BY <1>2, <3>1, <3>2 DEF NextAddress
    <3>4. QED
      BY <2>2, <3>3 DEF RInv, PlanInv, NextAddress, Dialling
  <2>3. QED
    BY <2>1, <2>2
<1>7. AimInv'
  <2>1. session = "open" => Aim \in Addresses /\ lastReconnected /\ dialled' = Aim
    BY DEF RInv, AimInv, Established, Connecting, Dialling
  <2>2. Aim \in Addresses => Aim # None
    BY DEF Addresses, None
  <2>3. hostname => plan' = <<>> /\ (session = "open" => attempt' = Aim)
    BY DEF RInv, PlanInv, AimInv, NextAddress, Connecting, Dialling
  <2>4. pc' \in {"dial", "candidate"} /\ session' = session /\ hostname' = hostname
        /\ lastReconnected' = lastReconnected
    BY <1>2 DEF NextAddress
  <2>5. Established' => session = "open"
    BY <1>1, <2>4 DEF Established
  <2>6. QED
    BY <1>3, <2>1, <2>2, <2>3, <2>4, <2>5 DEF AimInv, Established, Dialling
<1>8. QED
  BY <1>4, <1>5, <1>6, <1>7 DEF RInv

\* A reconnect whose time runs out while it dials moves the next one on by one
\* address, wherever it had got to.
LEMMA OutOfTimeKeeps ==
    ASSUME RInv, pc \in Dialling, session = "open", OutOfTime,
           UNCHANGED <<hostname, net, events>>, dialled' = Aim, sockets' = 0
    PROVE  RInv'
<1>1. Aim \in Addresses /\ pc \in Connecting
  BY DEF RInv, AimInv, Established, Connecting, Dialling
<1>2. IF hostname THEN reached' = Succ(reached) ELSE reached' = attempt
  <2>1. CASE hostname
    <3>1. reached \in Addresses /\ attempt = reached /\ candidate = Name
      BY <1>1, <2>1 DEF RInv, PlanInv, AimInv, Aim, Connecting, Dialling
    <3>2. QED
      BY <2>1, <3>1, ConfiguredFacts DEF OutOfTime, Resolved
  <2>2. CASE ~hostname
    <3>1. candidate # Name
      BY <2>2 DEF RInv, PlanInv, Addresses, Name
    <3>2. QED
      BY <2>2, <3>1, SingleFacts DEF OutOfTime, Resolved
  <2>3. QED
    BY <2>1, <2>2
<1>3. reached' \in Addresses \cup {None}
  BY <1>1, <1>2, BackFacts DEF RInv, TypeOK, Aim
<1>4. dialled' # None
  BY <1>1 DEF Addresses, None
<1>5. QED
  BY <1>1, <1>2, <1>3, <1>4, FailKeeps DEF OutOfTime

\* A reconnect dials Aim before any other address.
LEMMA AimFirst ==
    ASSUME RInv, session = "open", pc = "dial", FirstDial
    PROVE  dialled' = Aim
<1>1. ~hostname => Head(literals) = candidate
  BY DEF RInv, PlanInv, Dialling
<1>2. QED
  BY <1>1 DEF RInv, AimInv, FirstDial, Connecting, Dialling

LEMMA DialKeeps == RInv /\ Dial => RInv'
<1> SUFFICES ASSUME RInv, Dial PROVE RInv'
  OBVIOUS
<1>1. /\ pc = "dial" /\ conn = None /\ sockets = 0 /\ session \in {"opening", "open"}
      /\ literals \in Seq(Addresses) /\ literals # <<>>
      /\ UNCHANGED <<hostname, net, events>>
  BY DEF Dial, RInv, TypeOK, PhaseInv, PlanInv, Connecting, Dialling
<1>2. dialled' \in Addresses \cup {None} /\ (session = "open" => dialled' = Aim)
  <2>1. Head(literals) \in Addresses
    BY <1>1
  <2>2. QED
    BY <1>1, <2>1, AimFirst DEF Dial, FirstDial, RInv, TypeOK
<1>3. ASSUME pc' = "handshake", sockets' = sockets + 1,
             UNCHANGED <<session, plan, literals, attempt, candidate, conn, alive, prefVars,
                         lastReconnected, answered, histVars>>
      PROVE  RInv'
  <2>1. TypeOK'
    BY <1>1, <1>2, <1>3 DEF RInv, TypeOK, prefVars, histVars
  <2>2. PhaseInv' /\ PlanInv' /\ TriedInv' /\ ReconnectSampleIsHonest'
    BY <1>1, <1>3
    DEF RInv, PhaseInv, PlanInv, TriedInv, ReconnectSampleIsHonest, Aim, Established,
        Connecting, Dialling, prefVars, histVars
  <2>3. AimInv'
    <3>1. Aim' = Aim
      BY <1>1, <1>3 DEF Aim, prefVars
    <3>2. Aim \in Addresses => Aim # None
      BY DEF Addresses, None
    <3>3. QED
      BY <1>1, <1>2, <1>3, <3>1, <3>2
      DEF RInv, AimInv, Established, Connecting, Dialling
  <2>4. QED
    BY <2>1, <2>2, <2>3 DEF RInv
<1>4. ASSUME NextAddress, UNCHANGED sockets
      PROVE  RInv'
  BY <1>1, <1>2, <1>4, NextAddressKeeps DEF Dialling
<1>5. ASSUME Expires(net[Head(literals)]), OutOfTime, UNCHANGED sockets
      PROVE  RInv'
  BY <1>1, <1>2, <1>5, OutOfTimeKeeps DEF Dialling, Expires
<1>6. QED
  BY <1>3, <1>4, <1>5 DEF Dial

LEMMA HandshakeKeeps == RInv /\ Handshake => RInv'
<1> SUFFICES ASSUME RInv, Handshake PROVE RInv'
  OBVIOUS
<1> DEFINE a == Head(literals)
<1>1. /\ pc = "handshake" /\ conn = None /\ sockets = 1 /\ session \in {"opening", "open"}
      /\ literals \in Seq(Addresses) /\ literals # <<>>
      /\ UNCHANGED <<hostname, net, events, dialled>>
  BY DEF Handshake, RInv, TypeOK, PhaseInv, PlanInv, Connecting, Dialling
<1>2. dialled' \in Addresses \cup {None} /\ (session = "open" => dialled' = Aim)
  BY <1>1 DEF RInv, TypeOK, AimInv, Connecting
<1>3. ASSUME conn' = a, alive' = TRUE, reached' = a, start' = candidate, lastAddr' = a,
             tried' = <<>>, plan' = <<>>, literals' = <<>>,
             IF session = "opening"
             THEN session' = "open" /\ pc' = "idle" /\ UNCHANGED opened
             ELSE opened' = TRUE /\ pc' = "exchange" /\ UNCHANGED session,
             UNCHANGED <<sockets, attempt, candidate, lastReconnected, answered>>
      PROVE  RInv'
  <2>1. a \in Addresses /\ a # None /\ (~hostname => candidate = a)
    <3>1. a \in Addresses
      BY <1>1
    <3>2. ~hostname => literals = <<candidate>>
      BY <1>1 DEF RInv, PlanInv, Dialling
    <3>3. QED
      BY <3>1, <3>2 DEF Addresses, None
  <2>2. Aim' = a
    BY <1>1, <1>3, <2>1 DEF Aim
  <2>3. session' = "open" /\ pc' \in {"idle", "exchange"}
    BY <1>1, <1>3
  <2>4. opened' \in BOOLEAN /\ (pc' = "exchange" => lastReconnected' /\ opened')
    BY <1>1, <1>3 DEF RInv, TypeOK, AimInv, Connecting
  <2>5. TypeOK'
    <3>1. start' \in Addresses \cup {None}
      BY <1>3 DEF RInv, TypeOK, Name, None
    <3>2. plan' \in Seq(Addresses \cup {Name}) /\ literals' \in Seq(Addresses)
          /\ tried' \in Seq(Addresses)
      BY <1>3
    <3>3. QED
      BY <1>1, <1>2, <1>3, <2>1, <2>3, <2>4, <3>1, <3>2 DEF RInv, TypeOK
  <2>6. PhaseInv' /\ ReconnectSampleIsHonest'
    BY <1>1, <1>3, <2>1, <2>3, <2>4
    DEF PhaseInv, ReconnectSampleIsHonest, Connecting
  <2>7. PlanInv' /\ AimInv'
    BY <1>1, <1>3, <2>1, <2>2, <2>3
    DEF RInv, PlanInv, AimInv, Established, Connecting, Dialling
  <2>8. TriedInv'
    BY <1>3, <2>2, ReconnectAssumption DEF TriedInv, ReconnectAssumption
  <2>9. QED
    BY <2>5, <2>6, <2>7, <2>8 DEF RInv
<1>4. ASSUME sockets' = sockets - 1, NextAddress
      PROVE  RInv'
  BY <1>1, <1>2, <1>4, NextAddressKeeps DEF Dialling
<1>5. ASSUME Expires(net[a]), sockets' = sockets - 1, OutOfTime
      PROVE  RInv'
  BY <1>1, <1>2, <1>5, OutOfTimeKeeps DEF Dialling, Expires
<1>6. QED
  BY <1>3, <1>4, <1>5 DEF Handshake

-----------------------------------------------------------------------------
LEMMA BeginQueryKeeps == RInv /\ BeginQuery => RInv'
<1> SUFFICES ASSUME RInv, BeginQuery PROVE RInv'
  OBVIOUS
<1>1. /\ session = "open" /\ pc = "idle" /\ sockets = (IF conn # None THEN 1 ELSE 0)
      /\ lastReconnected' = (conn = None) /\ opened' = FALSE /\ dialled' = None
      /\ IF conn = None
         THEN pc' = "candidate" /\ plan' = Preferring(Candidates, start)
         ELSE pc' = "exchange" /\ UNCHANGED plan
      /\ UNCHANGED <<hostname, net, events, session, literals, attempt, candidate, conn, alive,
                     sockets, prefVars, answered, lastAddr, tried>>
  BY DEF BeginQuery, RInv, PhaseInv
<1>2. Aim' = Aim /\ Aim \in Addresses
  BY <1>1 DEF RInv, AimInv, Aim, Established, prefVars
<1>3. IF hostname
      THEN plan' \in {<<>>, <<Name>>}
      ELSE plan' \in Seq(Addresses) /\ (conn = None => plan' # <<>> /\ Head(plan') = Aim)
  <2>1. CASE conn # None
    BY <1>1, <2>1 DEF RInv, PlanInv
  <2>2. CASE conn = None /\ hostname
    BY <1>1, <2>2, SingleFacts DEF Candidates
  <2>3. CASE conn = None /\ ~hostname
    <3>1. start = Aim /\ Candidates = [i \in Addresses |-> i]
      BY <2>3 DEF Aim, Candidates
    <3>2. QED
      BY <1>1, <1>2, <2>3, <3>1, ConfiguredFacts, PreferringFacts
  <2>4. QED
    BY <2>1, <2>2, <2>3
<1>4. TypeOK'
  <2>1. plan' \in Seq(Addresses \cup {Name})
    <3>1. <<>> \in Seq(Addresses \cup {Name}) /\ <<Name>> \in Seq(Addresses \cup {Name})
      OBVIOUS
    <3>2. \A s \in Seq(Addresses) : s \in Seq(Addresses \cup {Name})
      OBVIOUS
    <3>3. QED
      BY <1>3, <3>1, <3>2
  <2>2. QED
    BY <1>1, <2>1 DEF RInv, TypeOK, prefVars
<1>5. PhaseInv'
  BY <1>1 DEF RInv, PhaseInv, Connecting
<1>6. PlanInv'
  BY <1>1, <1>3 DEF RInv, PlanInv, Dialling, prefVars
<1>7. AimInv'
  BY <1>1, <1>2, <1>3 DEF AimInv, Established, Connecting, Dialling
<1>8. TriedInv'
  BY <1>1, <1>2 DEF RInv, TriedInv, Established
<1>9. ReconnectSampleIsHonest'
  BY <1>1 DEF ReconnectSampleIsHonest
<1>10. QED
  BY <1>4, <1>5, <1>6, <1>7, <1>8, <1>9 DEF RInv

\* Outside a reconnect nothing but the connection, the calls' results and the
\* network changes.
LEMMA SettledKeeps ==
    ASSUME RInv, UNCHANGED <<hostname, callVars, prefVars, lastAddr, tried>>,
           net' \in [Addresses \cup {Name} -> Answers], events' \in 0..MaxEvents,
           Established, Established', pc \notin Connecting, pc' = "idle",
           session' = "closed" => conn' = None,
           conn' \in {conn, None}, alive' \in BOOLEAN, answered' \in BOOLEAN,
           lastReconnected' \in BOOLEAN, opened' \in BOOLEAN,
           sockets' = IF conn' # None THEN 1 ELSE 0
    PROVE  RInv'
<1>1. Aim' = Aim
  BY DEF Aim, prefVars
<1>2. TypeOK'
  BY DEF RInv, TypeOK, callVars, prefVars, Established
<1>3. PhaseInv'
  BY DEF PhaseInv, Established, Connecting
<1>4. PlanInv'
  BY DEF RInv, PlanInv, Dialling, callVars, prefVars
<1>5. AimInv'
  BY <1>1 DEF RInv, AimInv, Established, Connecting
<1>6. TriedInv'
  BY <1>1 DEF RInv, TriedInv, Established
<1>7. ReconnectSampleIsHonest'
  BY DEF ReconnectSampleIsHonest
<1>8. QED
  BY <1>2, <1>3, <1>4, <1>5, <1>6, <1>7 DEF RInv

LEMMA RejectQueryKeeps == RInv /\ RejectQuery => RInv'
<1> SUFFICES ASSUME RInv, RejectQuery PROVE RInv'
  OBVIOUS
<1>1. Established /\ Established' /\ pc \notin Connecting /\ pc' = "idle"
  BY DEF RejectQuery, Established, Connecting
<1>2. /\ sockets' = (IF conn' # None THEN 1 ELSE 0) /\ conn' = conn
      /\ session' = "closed" => conn' = None
  BY DEF RejectQuery, RInv, PhaseInv
<1>3. net' \in [Addresses \cup {Name} -> Answers] /\ events' \in 0..MaxEvents
      /\ alive' \in BOOLEAN /\ answered' \in BOOLEAN /\ lastReconnected' \in BOOLEAN
      /\ opened' \in BOOLEAN
  BY DEF RejectQuery, RInv, TypeOK
<1>4. QED
  BY <1>1, <1>2, <1>3, SettledKeeps DEF RejectQuery

LEMMA ExchangeKeeps == RInv /\ (Exchange \/ BadReply) => RInv'
<1> SUFFICES ASSUME RInv, Exchange \/ BadReply PROVE RInv'
  OBVIOUS
<1>1. session = "open" /\ session' = "open" /\ pc = "exchange" /\ pc' = "idle"
      /\ conn # None /\ sockets = 1
  BY DEF Exchange, BadReply, RInv, PhaseInv, TypeOK, Connecting
<1>2. /\ conn' \in {conn, None} /\ alive' \in BOOLEAN /\ answered' \in BOOLEAN
      /\ sockets' = (IF conn' # None THEN 1 ELSE 0)
  <2>1. CASE answered' = TRUE /\ UNCHANGED <<conn, alive, sockets>>
    BY <1>1, <2>1 DEF RInv, TypeOK
  <2>2. CASE Invalidate
    <3>1. conn' = None /\ alive' = FALSE /\ answered' = FALSE
      BY <2>2 DEF Invalidate
    <3>2. sockets' = 0
      BY <1>1, <2>2 DEF Invalidate
    <3>3. QED
      BY <3>1, <3>2
  <2>3. QED
    BY <2>1, <2>2 DEF Exchange, BadReply
<1>3. events' \in 0..MaxEvents
  BY ReconnectAssumption DEF ReconnectAssumption, Exchange, BadReply, RInv, TypeOK
<1>4. net' \in [Addresses \cup {Name} -> Answers] /\ lastReconnected' \in BOOLEAN
      /\ opened' \in BOOLEAN
  BY DEF Exchange, BadReply, RInv, TypeOK, histVars
<1>5. UNCHANGED <<hostname, callVars, prefVars, lastAddr, tried>>
  BY DEF Exchange, BadReply, histVars
<1>6. QED
  BY <1>1, <1>2, <1>3, <1>4, <1>5, SettledKeeps DEF Established, Connecting

LEMMA CloseKeeps == RInv /\ Close => RInv'
<1> SUFFICES ASSUME RInv, Close PROVE RInv'
  OBVIOUS
<1>1. Established /\ Established' /\ pc \notin Connecting /\ pc' = "idle"
  BY DEF Close, Established, Connecting
<1>2. conn' = None /\ sockets' = 0
  BY DEF Close, RInv, PhaseInv
<1>3. net' \in [Addresses \cup {Name} -> Answers] /\ events' \in 0..MaxEvents
      /\ alive' \in BOOLEAN /\ answered' \in BOOLEAN /\ lastReconnected' \in BOOLEAN
      /\ opened' \in BOOLEAN
  BY DEF Close, RInv, TypeOK, histVars
<1>4. UNCHANGED <<hostname, callVars, prefVars, lastAddr, tried>>
  BY DEF Close, histVars
<1>5. QED
  BY <1>1, <1>2, <1>3, <1>4, SettledKeeps

LEMMA NetworkEventKeeps == RInv /\ NetworkEvent => RInv'
<1> SUFFICES ASSUME RInv, NetworkEvent PROVE RInv'
  OBVIOUS
<1>1. net' \in [Addresses \cup {Name} -> Answers] /\ alive' \in BOOLEAN
  BY DEF NetworkEvent, RInv, TypeOK
<1>2. events' \in 0..MaxEvents
  BY ReconnectAssumption DEF ReconnectAssumption, NetworkEvent, RInv, TypeOK
<1>3. UNCHANGED <<hostname, session, pc, callVars, conn, sockets, prefVars,
                  lastReconnected, answered, histVars>>
  BY DEF NetworkEvent
<1>4. Aim' = Aim
  BY <1>3 DEF Aim, prefVars
<1>5. TypeOK'
  BY <1>1, <1>2, <1>3 DEF RInv, TypeOK, callVars, prefVars, histVars
<1>6. PhaseInv' /\ PlanInv'
  BY <1>3 DEF RInv, PhaseInv, PlanInv, callVars, prefVars, histVars
<1>7. AimInv' /\ TriedInv' /\ ReconnectSampleIsHonest'
  BY <1>3, <1>4
  DEF RInv, AimInv, TriedInv, ReconnectSampleIsHonest, Established, callVars, histVars
<1>8. QED
  BY <1>5, <1>6, <1>7 DEF RInv

LEMMA StutterKeeps == RInv /\ UNCHANGED vars => RInv'
<1> SUFFICES ASSUME RInv, UNCHANGED vars PROVE RInv'
  OBVIOUS
<1>1. Aim' = Aim
  BY DEF vars, prefVars, Aim
<1>2. TypeOK'
  BY DEF RInv, TypeOK, vars, callVars, prefVars, histVars
<1>3. PhaseInv' /\ PlanInv'
  BY DEF RInv, PhaseInv, PlanInv, vars, callVars, prefVars, histVars
<1>4. AimInv' /\ TriedInv' /\ ReconnectSampleIsHonest'
  BY <1>1 DEF RInv, AimInv, TriedInv, ReconnectSampleIsHonest, Established, vars,
     callVars, histVars
<1>5. QED
  BY <1>2, <1>3, <1>4 DEF RInv

LEMMA StepRInv == RInv /\ [Next]_vars => RInv'
BY TryCandidateKeeps, OutOfCandidatesKeeps, DialKeeps, HandshakeKeeps, ExchangeKeeps,
   BeginQueryKeeps, RejectQueryKeeps, CloseKeeps, NetworkEventKeeps, StutterKeeps
DEF Next, Call, NoSession

-----------------------------------------------------------------------------
\* The next reconnect dials Aim before any other address, for either kind of
\* session.
LEMMA AimIsFirstChoice ==
    ASSUME RInv, Established
    PROVE  FirstChoice = Aim
<1>1. Aim \in Addresses
  BY DEF RInv, AimInv
<1> DEFINE list == [i \in Addresses |-> i]
<1>2. /\ list \in Seq(Addresses) /\ list # <<>> /\ Contains(list, Aim)
      /\ Head(Preferring(list, Aim)) = Aim
  <2>1. list \in Seq(Addresses) /\ list # <<>> /\ Contains(list, Aim)
    BY <1>1, ConfiguredFacts
  <2>2. QED
    BY <2>1, PreferringFacts
<1> HIDE DEF list
<1>3. CASE hostname
  <2>1. Candidates = <<Name>> /\ Resolved(Name) = list /\ Aim = reached
    BY <1>3 DEF Candidates, Resolved, Aim, list
  <2>2. Head(Preferring(Candidates, start)) = Name
    BY <2>1, SingleFacts
  <2>3. QED
    BY <1>2, <2>1, <2>2 DEF FirstChoice
<1>4. CASE ~hostname
  <2>1. Candidates = list /\ Aim = start
    BY <1>4 DEF Candidates, Aim, list
  <2>2. Head(Preferring(Candidates, start)) = start
    BY <1>2, <2>1
  <2>3. Resolved(start) = <<start>>
    BY <1>1, <2>1 DEF Resolved, Addresses, Name
  <2>4. QED
    BY <2>1, <2>2, <2>3, SingleFacts DEF FirstChoice
<1>5. QED
  BY <1>3, <1>4

\* What RInv says about the session's properties.
LEMMA RInvImplies ==
    ASSUME RInv
    PROVE  NoSocketLeak /\ ReconnectSampleIsHonest /\ Sticky /\ EveryAddressHasItsTurn
<1>1. NoSocketLeak /\ ReconnectSampleIsHonest
  BY DEF RInv, PhaseInv, NoSocketLeak
<1>2. Sticky
  BY AimIsFirstChoice DEF RInv, TriedInv, Sticky, Established
<1>3. EveryAddressHasItsTurn
  <2> SUFFICES ASSUME Len(tried) = N, NEW x \in Addresses PROVE x \in ToSet(tried)
    BY DEF EveryAddressHasItsTurn
  <2>1. N \in Nat \ {0} /\ tried \in Seq(Addresses)
    BY ReconnectAssumption DEF ReconnectAssumption, RInv, TypeOK
  <2>2. Established
    <3>1. tried # <<>>
      BY <2>1
    <3>2. QED
      BY <3>1 DEF RInv, TypeOK, PhaseInv, Established
  <2>3. Aim \in 1..N /\ x \in 1..N
    BY <2>2 DEF RInv, AimInv, Addresses
  <2> DEFINE i == IF x < Aim THEN N + 1 - (Aim - x) ELSE 1 + x - Aim
  <2>4. i \in 1..N /\ Back(Aim, N + 1 - i) = x
    BY <2>1, <2>3 DEF Back
  <2>5. tried[i] = x
    BY <2>2, <2>4 DEF RInv, TriedInv
  <2>6. QED
    BY <2>1, <2>4, <2>5 DEF ToSet
<1>4. QED
  BY <1>1, <1>2, <1>3

\* RInv holds of every reachable state.
THEOREM ReconnectInvariant == Spec => []RInv
BY InitRInv, StepRInv, PTL DEF Spec

\* The session never holds more than one socket, nor one it cannot close:
\* nothing is left of a failed handshake, an invalidated connection, a failed
\* Open or a closed session (streamSession.invalidate, Close).
THEOREM NoSocketIsLost == Spec => []NoSocketLeak
BY ReconnectInvariant, RInvImplies, PTL

\* A query counts as a reconnect sample exactly when it opened the connection
\* its exchange runs on (streamSession.LastQueryReconnected).
THEOREM ReconnectFlagHonest == Spec => []ReconnectSampleIsHonest
BY ReconnectInvariant, RInvImplies, PTL

\* A reconnect begins at the address the session last reached, until one runs
\* out of time there (stickyReopen, doqFactory.open).
THEOREM ReconnectsStick == Spec => []Sticky
BY ReconnectInvariant, RInvImplies, PTL

\* Among N timed-out reconnects in a row every address has been dialled first,
\* so that no silent address consumes every query's time.
THEOREM RotationIsComplete == Spec => []EveryAddressHasItsTurn
BY ReconnectInvariant, RInvImplies, PTL
================================================================================
