--------------------------- MODULE SelectionProofs ---------------------------
(***************************************************************************)
(* Proofs about CacheGroups, for any number of profiles, keys and          *)
(* endpoints: the groups are the caches, and one endpoint of each is kept; *)
(* and about Selection, for any catalog, command line and host: what is    *)
(* dialled is of the family asked for and no endpoint goes untold.         *)
(*                                                                         *)
(* The history variable rep says where find ends, so that no argument has  *)
(* to follow a chain of parents.                                           *)
(***************************************************************************)
EXTENDS Selection, FiniteSetTheorems, TLAPS

\* The forest: every profile's tree has the root rep says, and no profile is
\* earlier than the root of its tree.
Forest ==
    \A i \in Profiles :
        /\ rep[i] <= i
        /\ rep[rep[i]] = rep[i]
        /\ rep[root[i]] = rep[i]
        /\ root[i] = i <=> rep[i] = i

\* A key's owner has that key.
Owners == \A k \in Keys : owner[k] # None => k \in keysOf[owner[k]]

\* Key k of profile i has been looked at, and the merge it asked for is made.
Handled(i, k) ==
    \/ pc \in {"flatten", "choose", "done"}
    \/ i < index
    \/ i = index /\ k \notin pending /\ (pc # "key" => k # key)

\* A profile is in the tree of the owner of each key that is done with.
Complete ==
    \A i \in Profiles : \A k \in keysOf[i] :
        Handled(i, k) => owner[k] # None /\ rep[owner[k]] = rep[i]

\* No more is merged than a chain of shared keys links.
Sound ==
    \A label \in [Profiles -> Profiles] :
        Respects(label) => \A i \in Profiles : label[rep[i]] = label[i]

\* find stays in the tree it was called for.
Walking ==
    /\ pc \in {"findFirst", "findIndex"} =>
        /\ key \in keysOf[index]
        /\ owner[key] # None
    /\ pc = "findFirst" => rep[walk] = rep[owner[key]]
    /\ pc = "findIndex" => first = rep[owner[key]] /\ rep[walk] = rep[index]
    /\ pc = "flatten" =>
        /\ pending = {}
        /\ rep[walk] = rep[index]
        /\ \A i \in Profiles : i < index => root[i] = rep[i]

\* Once the loops are over each profile points at its root, and the endpoints
\* kept are the preferred ones of those seen.
Picked ==
    IF pc \in {"choose", "done"}
    THEN /\ root = rep
         /\ \A t \in selected \ remaining :
                t \in kept <=> \A u \in selected \ remaining :
                                   root[t[1]] = root[u[1]] => u = t \/ Prefers(t, u)
         /\ \A t \in selected \ remaining : \E u \in kept : root[t[1]] = root[u[1]]
         /\ kept \subseteq selected \ remaining
         /\ pc = "done" => remaining = {}
    ELSE selected = {} /\ remaining = {} /\ kept = {}

IInv == TypeOK /\ Forest /\ Owners /\ Complete /\ Sound /\ Walking /\ Picked

-----------------------------------------------------------------------------
\* The preference between endpoints is a strict total order.
LEMMA PrefersIsTotal ==
    ASSUME NEW t \in Endpoints, NEW u \in Endpoints
    PROVE  t = u \/ Prefers(t, u) \/ Prefers(u, t)
BY CacheAssumption DEF Endpoints, Profiles, Prefers

LEMMA PrefersIsStrict ==
    ASSUME NEW t \in Endpoints, NEW u \in Endpoints
    PROVE  ~Prefers(t, t) /\ ~(Prefers(t, u) /\ Prefers(u, t))
BY CacheAssumption DEF Endpoints, Profiles, Prefers

LEMMA PrefersIsTransitive ==
    ASSUME NEW t \in Endpoints, NEW u \in Endpoints, NEW v \in Endpoints,
           Prefers(t, u), Prefers(u, v)
    PROVE  Prefers(t, v)
BY CacheAssumption DEF Endpoints, Profiles, Prefers

-----------------------------------------------------------------------------
LEMMA InitInv == Init => IInv
<1> SUFFICES ASSUME Init PROVE IInv
  OBVIOUS
<1> USE DEF Init
<1>0. 1 \in Profiles /\ keysOf[1] \subseteq Keys /\ Profiles \subseteq Nat
  BY CacheAssumption DEF Profiles
<1>1. TypeOK
  BY <1>0, CacheAssumption DEF TypeOK, Profiles
<1>2. Forest
  BY <1>0 DEF Forest
<1>3. Owners /\ Sound /\ Walking /\ Picked
  BY <1>0 DEF Owners, Sound, Walking, Picked
<1>4. Complete
  BY <1>0 DEF Complete, Handled, Profiles
<1>5. QED
  BY <1>1, <1>2, <1>3, <1>4 DEF IInv

\* Steps that leave the forest and its history alone leave these two alone.
LEMMA ForestKept == Forest /\ Sound /\ UNCHANGED <<keysOf, root, rep>> => Forest' /\ Sound'
<1> SUFFICES ASSUME Forest, Sound, UNCHANGED <<keysOf, root, rep>> PROVE Forest' /\ Sound'
  OBVIOUS
<1>1. Forest'
  BY DEF Forest
<1>2. \A label : Respects(label)' <=> Respects(label)
  BY DEF Respects, Share
<1>3. Sound'
  BY <1>2 DEF Sound
<1>4. QED
  BY <1>1, <1>3

LEMMA LookAtKeyInv == IInv /\ LookAtKey => IInv'
<1> SUFFICES ASSUME IInv, LookAtKey PROVE IInv'
  OBVIOUS
<1> USE DEF LookAtKey, loopVars, groupVars, pickVars
<1> PICK k \in pending :
        /\ pending' = pending \ {k}
        /\ key' = k
        /\ IF owner[k] = None
           THEN owner' = [owner EXCEPT ![k] = index] /\ UNCHANGED <<pc, walk>>
           ELSE walk' = owner[k] /\ pc' = "findFirst" /\ UNCHANGED owner
  OBVIOUS
<1> /\ TypeOK /\ Forest /\ Owners /\ Complete /\ Sound /\ Walking /\ Picked
  BY DEF IInv
<1> /\ k \in Keys /\ k \in keysOf[index] /\ index \in Profiles /\ None \notin Profiles
  BY CacheAssumption DEF TypeOK, Profiles, None
<1>1. TypeOK'
  BY DEF TypeOK
<1>2. Forest' /\ Sound'
  BY ForestKept
<1>3. Owners'
  BY DEF Owners, TypeOK
<1>4. Complete'
  <2> SUFFICES ASSUME NEW i \in Profiles, NEW h \in keysOf[i], Handled(i, h)'
               PROVE  owner'[h] # None /\ rep[owner'[h]] = rep[i]
    BY DEF Complete
  <2>1. CASE h = k /\ i = index
    <3>1. CASE owner[k] = None
      BY <2>1, <3>1 DEF TypeOK
    <3>2. CASE owner[k] # None
      BY <2>1, <3>2 DEF Handled, Profiles
    <3>3. QED
      BY <3>1, <3>2
  <2>2. CASE h # k \/ i # index
    <3>1. Handled(i, h)
      BY <2>2 DEF Handled
    <3> h \in Keys
      BY DEF TypeOK
    <3>2. owner[h] # None /\ rep[owner[h]] = rep[i]
      BY <3>1 DEF Complete
    <3>3. owner'[h] = owner[h]
      BY <3>1, <3>2 DEF TypeOK
    <3>4. QED
      BY <3>2, <3>3
  <2>3. QED
    BY <2>1, <2>2
<1>5. Walking'
  BY DEF Walking, TypeOK
<1>6. Picked'
  BY DEF Picked
<1>7. QED
  BY <1>1, <1>2, <1>3, <1>4, <1>5, <1>6 DEF IInv

LEMMA FindInv == IInv /\ Find => IInv'
<1> SUFFICES ASSUME IInv, Find PROVE IInv'
  OBVIOUS
<1> USE DEF Find, loopVars, groupVars, pickVars
<1> /\ TypeOK /\ Forest /\ Owners /\ Complete /\ Sound /\ Walking /\ Picked
  BY DEF IInv
<1>1. TypeOK' /\ walk \in Profiles
  BY DEF TypeOK
<1>2. Forest' /\ Sound'
  BY ForestKept
<1>3. Owners' /\ Complete' /\ Picked'
  BY DEF Owners, Complete, Handled, Picked
<1>4. Walking'
  BY <1>1 DEF Walking, Forest
<1>5. QED
  BY <1>1, <1>2, <1>3, <1>4 DEF IInv

LEMMA FirstFoundInv == IInv /\ FirstFound => IInv'
<1> SUFFICES ASSUME IInv, FirstFound PROVE IInv'
  OBVIOUS
<1> USE DEF FirstFound, loopVars, groupVars, pickVars
<1> /\ TypeOK /\ Forest /\ Owners /\ Complete /\ Sound /\ Walking /\ Picked
  BY DEF IInv
<1>1. TypeOK' /\ walk \in Profiles
  BY DEF TypeOK
<1>2. Forest' /\ Sound'
  BY ForestKept
<1>3. Owners' /\ Complete' /\ Picked'
  BY DEF Owners, Complete, Handled, Picked
<1>4. Walking'
  BY <1>1 DEF Walking, Forest
<1>5. QED
  BY <1>1, <1>2, <1>3, <1>4 DEF IInv

\* Two roots become one: the earlier root takes over the later one's tree.
LEMMA UnionForest ==
    ASSUME TypeOK, Forest, NEW e \in Profiles, NEW l \in Profiles,
           e <= l, root[e] = e, root[l] = l, Union(e, l)
    PROVE  /\ Forest'
           /\ root' \in [Profiles -> Profiles] /\ rep' \in [Profiles -> Profiles]
           /\ \A i \in Profiles : root'[i] <= i
           /\ \A i, j \in Profiles : rep[i] = rep[j] => rep'[i] = rep'[j]
           /\ rep'[e] = rep'[l]
<1> /\ rep[e] = e /\ rep[l] = l /\ Profiles \subseteq Nat
  BY DEF Forest, Profiles
<1>1. /\ root' \in [Profiles -> Profiles] /\ rep' \in [Profiles -> Profiles]
      /\ \A i \in Profiles : root'[i] <= i
  BY DEF Union, TypeOK
<1>2. /\ \A i, j \in Profiles : rep[i] = rep[j] => rep'[i] = rep'[j]
      /\ rep'[e] = rep'[l]
      /\ rep'[e] = e
  BY DEF Union, TypeOK
<1>3. ASSUME NEW i \in Profiles
      PROVE  /\ rep'[i] <= i
             /\ rep'[rep'[i]] = rep'[i]
             /\ rep'[root'[i]] = rep'[i]
             /\ root'[i] = i <=> rep'[i] = i
  <2>1. /\ rep[i] \in Profiles /\ root[i] \in Profiles /\ rep[i] <= i /\ rep[rep[i]] = rep[i]
        /\ rep[root[i]] = rep[i] /\ (root[i] = i <=> rep[i] = i)
    BY DEF TypeOK, Forest
  <2>2. rep'[i] = IF rep[i] = l THEN e ELSE rep[i]
    BY DEF Union
  <2>3. root'[i] = IF i = l THEN e ELSE root[i]
    BY DEF Union, TypeOK
  <2>4. rep'[i] <= i
    BY <2>1, <2>2
  <2>5. rep'[rep'[i]] = rep'[i]
    BY <1>2, <2>1, <2>2 DEF Union
  <2>6. rep'[root'[i]] = rep'[i]
    <3>1. rep'[root[i]] = rep'[i]
      BY <2>1, <2>2 DEF Union
    <3>2. QED
      BY <1>2, <2>1, <2>3, <3>1
  <2>7. root'[i] = i <=> rep'[i] = i
    BY <2>1, <2>2, <2>3
  <2>8. QED
    BY <2>4, <2>5, <2>6, <2>7
<1>4. Forest'
  BY <1>3 DEF Forest
<1>5. QED
  BY <1>1, <1>2, <1>4

LEMMA MergeInv == IInv /\ Merge => IInv'
<1> SUFFICES ASSUME IInv, Merge PROVE IInv'
  OBVIOUS
<1> /\ TypeOK /\ Forest /\ Owners /\ Complete /\ Sound /\ Walking /\ Picked
  BY DEF IInv
<1> /\ pc = "findIndex" /\ root[walk] = walk /\ pc' = "key"
    /\ UNCHANGED <<keysOf, loopVars, owner, pickVars>>
  BY DEF Merge
<1> /\ walk \in Profiles /\ first \in Profiles /\ index \in Profiles /\ key \in Keys
    /\ Profiles \subseteq Nat
  BY DEF TypeOK, Profiles
<1> /\ key \in keysOf[index] /\ owner[key] # None /\ owner[key] \in Profiles
    /\ first = rep[owner[key]] /\ rep[walk] = rep[index]
  BY DEF Walking, TypeOK
<1> root[first] = first /\ rep[first] = first /\ rep[walk] = walk
  BY DEF Forest, TypeOK
<1> PICK e \in Profiles, l \in Profiles :
        {e, l} = {first, walk} /\ e <= l /\ root[e] = e /\ root[l] = l /\ Union(e, l)
  BY DEF Merge
<1>1. /\ Forest'
      /\ root' \in [Profiles -> Profiles] /\ rep' \in [Profiles -> Profiles]
      /\ \A i \in Profiles : root'[i] <= i
      /\ \A i, j \in Profiles : rep[i] = rep[j] => rep'[i] = rep'[j]
      /\ rep'[e] = rep'[l]
  BY UnionForest
<1>2. TypeOK'
  BY <1>1 DEF TypeOK, loopVars, pickVars
<1>3. Owners' /\ Walking' /\ Picked'
  BY DEF Owners, Walking, Picked, pickVars, loopVars
<1>4. rep'[owner[key]] = rep'[index]
  <2>1. rep'[owner[key]] = rep'[first] /\ rep'[index] = rep'[walk]
    BY <1>1
  <2>2. rep'[first] = rep'[walk]
    BY <1>1
  <2>3. QED
    BY <2>1, <2>2
<1>5. Complete'
  <2> SUFFICES ASSUME NEW i \in Profiles, NEW h \in keysOf[i], Handled(i, h)'
               PROVE  owner[h] # None /\ rep'[owner[h]] = rep'[i]
    BY DEF Complete
  <2>1. CASE Handled(i, h)
    <3>1. owner[h] # None /\ rep[owner[h]] = rep[i] /\ h \in Keys
      BY <2>1 DEF Complete, TypeOK
    <3>2. owner[h] \in Profiles
      BY <3>1 DEF TypeOK
    <3>3. QED
      BY <1>1, <3>1, <3>2
  <2>2. CASE ~Handled(i, h)
    <3>1. index' = index /\ key' = key /\ pending' = pending /\ pc = "findIndex" /\ pc' = "key"
      BY DEF loopVars
    <3>2. ~(i < index) /\ (i = index /\ h \notin pending => h = key)
      BY <2>2, <3>1 DEF Handled
    <3>3. \/ pc' \in {"flatten", "choose", "done"}
          \/ i < index'
          \/ i = index' /\ h \notin pending' /\ (pc' # "key" => h # key')
      BY DEF Handled
    <3>4. QED
      <4>1. i = index /\ h = key
        BY ONLY <3>1, <3>2, <3>3
      <4>2. QED
        BY <4>1, <1>4
  <2>3. QED
    BY <2>1, <2>2
<1>6. Sound'
  <2> SUFFICES ASSUME NEW label \in [Profiles -> Profiles], Respects(label)', NEW i \in Profiles
               PROVE  label[rep'[i]] = label[i]
    BY DEF Sound
  <2>1. Respects(label)
    BY DEF Respects, Share
  <2>2. \A j \in Profiles : label[rep[j]] = label[j]
    BY <2>1 DEF Sound
  <2>3. Share(owner[key], index)
    BY DEF Share, Owners
  <2>4. label[owner[key]] = label[index]
    BY <2>1, <2>3 DEF Respects
  <2>5. label[first] = label[walk]
    <3>1. label[rep[owner[key]]] = label[owner[key]] /\ label[rep[index]] = label[index]
      BY <2>2
    <3>2. label[rep[walk]] = label[walk]
      BY <2>2
    <3>3. first = rep[owner[key]] /\ rep[walk] = rep[index]
      OBVIOUS
    <3>4. QED
      BY ONLY <2>4, <3>1, <3>2, <3>3
  <2>6. label[e] = label[l]
    BY <2>5
  <2>7. rep'[i] = IF rep[i] = l THEN e ELSE rep[i]
    BY DEF Union
  <2>8. QED
    BY <2>2, <2>6, <2>7
<1>7. QED
  BY <1>1, <1>2, <1>3, <1>5, <1>6 DEF IInv

LEMMA NextProfileInv == IInv /\ NextProfile => IInv'
<1> SUFFICES ASSUME IInv, NextProfile PROVE IInv'
  OBVIOUS
<1> USE DEF NextProfile, loopVars, groupVars, pickVars
<1> /\ TypeOK /\ Forest /\ Owners /\ Complete /\ Sound /\ Walking /\ Picked
  BY DEF IInv
<1>0. 1 \in Profiles /\ index \in Profiles /\ Profiles \subseteq Nat
  BY CacheAssumption DEF TypeOK, Profiles
<1>1. TypeOK'
  <2>1. index' \in Profiles /\ walk' \in Profiles
    <3>1. CASE index < NProfiles
      BY <3>1, <1>0, CacheAssumption DEF TypeOK, Profiles
    <3>2. CASE ~(index < NProfiles)
      BY <3>2, <1>0
    <3>3. QED
      BY <3>1, <3>2
  <2>2. pending' \subseteq keysOf[index']
    OBVIOUS
  <2>3. pc' \in {"key", "flatten"}
    OBVIOUS
  <2>4. QED
    BY <2>1, <2>2, <2>3 DEF TypeOK
<1>2. Forest' /\ Sound'
  BY ForestKept
<1>3. Owners' /\ Picked'
  BY DEF Owners, Picked
<1>4. Complete'
  <2> SUFFICES ASSUME NEW i \in Profiles, NEW h \in keysOf[i], Handled(i, h)'
               PROVE  owner[h] # None /\ rep[owner[h]] = rep[i]
    BY DEF Complete
  <2>1. Handled(i, h)
    BY <1>0, CacheAssumption DEF Handled, Profiles
  <2>2. QED
    BY <2>1 DEF Complete
<1>5. Walking'
  BY <1>0 DEF Walking, Profiles
<1>6. QED
  BY <1>1, <1>2, <1>3, <1>4, <1>5 DEF IInv

LEMMA FlattenInv == IInv /\ Flatten => IInv'
<1> SUFFICES ASSUME IInv, Flatten PROVE IInv'
  OBVIOUS
<1> USE DEF Flatten, loopVars, groupVars, pickVars
<1> /\ TypeOK /\ Forest /\ Owners /\ Complete /\ Sound /\ Walking /\ Picked
  BY DEF IInv
<1>0. index \in Profiles /\ walk \in Profiles /\ Profiles \subseteq Nat
  BY DEF TypeOK, Profiles
<1>1. walk = rep[index] /\ root' = [root EXCEPT ![index] = rep[index]]
  BY <1>0 DEF Walking, Forest
<1>2. \A i \in Profiles : root'[i] = IF i = index THEN rep[i] ELSE root[i]
  BY <1>0, <1>1 DEF TypeOK
<1>3. /\ root' \in [Profiles -> Profiles]
      /\ \A i \in Profiles : root'[i] <= i
  BY <1>0, <1>1, <1>2 DEF TypeOK, Forest
<1>4. index' \in Profiles /\ walk' \in Profiles
  <2>1. CASE index < NProfiles
    BY <2>1, <1>0, CacheAssumption DEF Profiles
  <2>2. CASE ~(index < NProfiles)
    BY <2>2, <1>0
  <2>3. QED
    BY <2>1, <2>2
<1>5. TypeOK'
  <2>1. selected' \subseteq Endpoints /\ remaining' \subseteq selected' /\ kept' \subseteq selected'
    BY DEF Picked
  <2>2. pending' \subseteq keysOf'[index']
    BY DEF Walking
  <2>3. pc' \in {"flatten", "choose"} /\ first' \in Profiles
    BY DEF TypeOK
  <2>4. QED
    BY <1>3, <1>4, <2>1, <2>2, <2>3 DEF TypeOK
<1>6. Forest'
  <2> SUFFICES ASSUME NEW i \in Profiles
               PROVE  rep[root'[i]] = rep[i] /\ (root'[i] = i <=> rep[i] = i)
    BY DEF Forest
  <2>1. QED
    BY <1>2 DEF Forest
<1>7. Sound'
  <2>1. \A label : Respects(label)' <=> Respects(label)
    BY DEF Respects, Share
  <2>2. QED
    BY <2>1 DEF Sound
<1>8. Owners' /\ Complete'
  BY DEF Owners, Complete, Handled
<1>9. Walking'
  <2>1. CASE index < NProfiles
    <3>1. \A i \in Profiles : i < index' => i < index \/ i = index
      BY <2>1, <1>0
    <3>2. QED
      BY <2>1, <3>1, <1>2, <1>4 DEF Walking
  <2>2. CASE ~(index < NProfiles)
    BY <2>2 DEF Walking
  <2>3. QED
    BY <2>1, <2>2
<1>10. Picked'
  <2>1. CASE index < NProfiles
    BY <2>1 DEF Picked
  <2>2. CASE ~(index < NProfiles)
    <3>1. \A i \in Profiles : i < index \/ i = index
      BY <2>2, <1>0, CacheAssumption DEF Profiles
    <3>2. \A i \in Profiles : root'[i] = rep[i]
      BY <3>1, <1>2 DEF Walking
    <3>3. root' = rep'
      BY <3>2, <1>3 DEF TypeOK
    <3>4. kept' = {} /\ selected' \ remaining' = {} /\ pc' = "choose"
      BY <2>2 DEF Picked
    <3>5. QED
      BY <3>3, <3>4 DEF Picked
  <2>3. QED
    BY <2>1, <2>2
<1>11. QED
  BY <1>5, <1>6, <1>7, <1>8, <1>9, <1>10 DEF IInv

\* The loop over the targets: t replaces the endpoint kept for its cache
\* exactly when it is preferred to it.
LEMMA ChooseInv == IInv /\ Choose => IInv'
<1> SUFFICES ASSUME IInv, Choose PROVE IInv'
  OBVIOUS
<1> /\ TypeOK /\ Forest /\ Owners /\ Complete /\ Sound /\ Walking /\ Picked
  BY DEF IInv
<1> pc = "choose" /\ UNCHANGED <<keysOf, pc, loopVars, groupVars, selected>>
  BY DEF Choose
<1> UNCHANGED <<index, pending, key, walk, first, owner, root, rep>>
  BY DEF loopVars, groupVars
<1> PICK t \in remaining :
        /\ remaining' = remaining \ {t}
        /\ kept' = IF \A u \in Chosen(t) : Prefers(t, u)
                   THEN (kept \ Chosen(t)) \cup {t} ELSE kept
  BY DEF Choose
<1> DEFINE S == selected \ remaining
           T == selected' \ remaining'
           Same(v, u) == root[v[1]] = root[u[1]]
           Best(v, A) == \A u \in A : Same(v, u) => u = v \/ Prefers(v, u)
<1>0. /\ T = S \cup {t} /\ t \notin S /\ t \in selected
      /\ selected \subseteq Endpoints /\ S \subseteq Endpoints /\ T \subseteq Endpoints
      /\ t \in Endpoints /\ kept \subseteq S
  BY DEF TypeOK, Picked
<1>1. /\ root = rep
      /\ \A v \in S : v \in kept <=> Best(v, S)
      /\ \A v \in S : \E u \in kept : Same(v, u)
  BY DEF Picked
<1>2. Chosen(t) = {u \in kept : Same(u, t)}
  BY DEF Chosen
<1> HIDE DEF S, T
<1>3. /\ \A v \in T : v \in kept' <=> Best(v, T)
      /\ \A v \in T : \E u \in kept' : Same(v, u)
      /\ kept' \subseteq T
  <2>1. CASE \A u \in Chosen(t) : Prefers(t, u)
    <3>1. kept' = (kept \ Chosen(t)) \cup {t}
      BY <2>1
    <3>2. Best(t, T)
      <4> SUFFICES ASSUME NEW u \in S, Same(t, u) PROVE Prefers(t, u)
        BY <1>0
      <4>1. PICK w \in kept : Same(u, w)
        BY <1>1
      <4>2. w \in Chosen(t) /\ w \in S /\ w \in Endpoints /\ u \in Endpoints
        BY <1>0, <1>2, <4>1
      <4>3. Prefers(t, w)
        BY <2>1, <4>2
      <4>4. u = w \/ Prefers(w, u)
        BY <1>1, <4>1, <4>2
      <4>5. QED
        BY <1>0, <4>2, <4>3, <4>4, PrefersIsTransitive
    <3>3. ASSUME NEW v \in S, v \in kept, v \notin Chosen(t) PROVE Best(v, T)
      <4>1. Best(v, S) /\ ~Same(v, t)
        BY <3>3, <1>1, <1>2
      <4>2. QED
        BY <1>0, <4>1
    <3>4. ASSUME NEW v \in S, Best(v, T) PROVE v \in kept /\ v \notin Chosen(t)
      <4>1. Best(v, S)
        BY <3>4, <1>0
      <4>2. v \in kept
        BY <4>1, <1>1
      <4>3. ASSUME v \in Chosen(t) PROVE FALSE
        <5>1. Prefers(t, v) /\ Same(v, t) /\ t # v
          BY <2>1, <4>3, <1>2, <1>0
        <5>2. Prefers(v, t)
          BY <3>4, <5>1, <1>0
        <5>3. QED
          BY <5>1, <5>2, <1>0, PrefersIsStrict
      <4>4. QED
        BY <4>2, <4>3
    <3>5. \A v \in T : v \in kept' <=> Best(v, T)
      <4> SUFFICES ASSUME NEW v \in T PROVE v \in kept' <=> Best(v, T)
        OBVIOUS
      <4> HIDE DEF Best
      <4>1. CASE v = t
        BY <4>1, <3>1, <3>2
      <4>2. CASE v \in S
        BY <4>2, <1>0, <3>1, <3>3, <3>4
      <4>3. QED
        BY <4>1, <4>2, <1>0
    <3>6. \A v \in T : \E u \in kept' : Same(v, u)
      <4> SUFFICES ASSUME NEW v \in T PROVE \E u \in kept' : Same(v, u)
        OBVIOUS
      <4>1. CASE Same(v, t)
        BY <4>1, <3>1
      <4>2. CASE ~Same(v, t)
        <5>1. v \in S
          BY <4>2, <1>0
        <5>2. PICK w \in kept : Same(v, w)
          BY <5>1, <1>1
        <5>3. w \notin Chosen(t)
          BY <4>2, <5>2, <1>2
        <5>4. QED
          BY <5>2, <5>3, <3>1
      <4>3. QED
        BY <4>1, <4>2
    <3>7. QED
      BY <3>1, <3>5, <3>6, <1>0
  <2>2. CASE ~(\A u \in Chosen(t) : Prefers(t, u))
    <3>1. kept' = kept
      BY <2>2
    <3>2. PICK w \in Chosen(t) : ~Prefers(t, w)
      BY <2>2
    <3>3. /\ w \in kept /\ w \in S /\ w \in Endpoints
          /\ Same(w, t) /\ Prefers(w, t) /\ w # t
      BY <3>2, <1>0, <1>2, PrefersIsTotal
    <3>4. ~Best(t, T)
      BY <1>0, <3>2, <3>3
    <3>5. ASSUME NEW v \in S PROVE Best(v, S) <=> Best(v, T)
      <4>1. ASSUME Best(v, S), Same(v, t) PROVE Prefers(v, t)
        <5>1. w = v \/ Prefers(v, w)
          BY <4>1, <3>3
        <5>2. QED
          BY <5>1, <3>3, <1>0, PrefersIsTransitive
      <4>2. QED
        BY <4>1, <1>0
    <3>6. \A v \in T : v \in kept' <=> Best(v, T)
      <4> HIDE DEF Best
      <4> QED
        BY <1>0, <1>1, <3>1, <3>4, <3>5
    <3>7. \A v \in T : \E u \in kept' : Same(v, u)
      BY <1>0, <1>1, <3>1, <3>3
    <3>8. QED
      BY <3>1, <3>6, <3>7, <1>0
  <2>3. QED
    BY <2>1, <2>2
<1>4. Picked'
  <2>1. /\ \A v \in T : v \in kept' <=>
                \A u \in T : root'[v[1]] = root'[u[1]] => u = v \/ Prefers(v, u)
        /\ \A v \in T : \E u \in kept' : root'[v[1]] = root'[u[1]]
    BY <1>3
  <2>2. root' = rep' /\ pc' = "choose"
    BY <1>1
  <2>3. QED
    BY <1>3, <2>1, <2>2 DEF Picked, T
<1>5. TypeOK'
  BY <1>0, <1>3 DEF TypeOK, T
<1>6. Forest' /\ Sound'
  BY ForestKept
<1>7. Owners' /\ Complete' /\ Walking'
  BY DEF Owners, Complete, Handled, Walking
<1>8. QED
  BY <1>4, <1>5, <1>6, <1>7 DEF IInv

LEMMA ReturnInv == IInv /\ Return => IInv'
<1> SUFFICES ASSUME IInv, Return PROVE IInv'
  OBVIOUS
<1> USE DEF Return, loopVars, groupVars, pickVars
<1> /\ TypeOK /\ Forest /\ Owners /\ Complete /\ Sound /\ Walking /\ Picked
  BY DEF IInv
<1>1. TypeOK'
  BY DEF TypeOK
<1>2. Forest' /\ Sound'
  BY ForestKept
<1>3. Owners' /\ Complete' /\ Walking' /\ Picked'
  BY DEF Owners, Complete, Handled, Walking, Picked
<1>4. QED
  BY <1>1, <1>2, <1>3 DEF IInv

LEMMA StutterInv == IInv /\ UNCHANGED vars => IInv'
<1> SUFFICES ASSUME IInv, UNCHANGED vars PROVE IInv'
  OBVIOUS
<1> USE DEF vars, loopVars, groupVars, pickVars
<1> /\ TypeOK /\ Forest /\ Owners /\ Complete /\ Sound /\ Walking /\ Picked
  BY DEF IInv
<1>1. TypeOK'
  BY DEF TypeOK
<1>2. Forest' /\ Sound'
  BY ForestKept
<1>3. Owners' /\ Complete' /\ Walking' /\ Picked'
  BY DEF Owners, Complete, Handled, Walking, Picked
<1>4. QED
  BY <1>1, <1>2, <1>3 DEF IInv

LEMMA NextInv == IInv /\ Next => IInv'
BY LookAtKeyInv, FindInv, FirstFoundInv, MergeInv, NextProfileInv, FlattenInv,
   ChooseInv, ReturnInv, StutterInv DEF Next, Returned

\* IInv is inductive: cacheGroups and cacheMissTargets keep it whatever the
\* profiles, their keys and the selected endpoints.
THEOREM Invariant == Spec => []IInv
<1>1. Init => IInv
  BY InitInv
<1>2. IInv /\ [Next]_vars => IInv'
  BY NextInv, StutterInv
<1>3. QED
  BY <1>1, <1>2, PTL DEF Spec

-----------------------------------------------------------------------------
\* Two profiles have one root exactly when a chain of shared keys links them.
LEMMA SameRootIffLinked ==
    ASSUME IInv, pc \in {"choose", "done"}, NEW i \in Profiles, NEW j \in Profiles
    PROVE  root[i] = root[j] <=> Linked(i, j)
<1>0. /\ root = rep /\ rep \in [Profiles -> Profiles]
      /\ Complete /\ Sound /\ TypeOK
  BY DEF IInv, Picked, TypeOK
<1>1. ASSUME rep[i] = rep[j] PROVE Linked(i, j)
  BY <1>0, <1>1 DEF Sound, Linked
<1>2. ASSUME Linked(i, j) PROVE rep[i] = rep[j]
  <2>1. Respects(rep)
    <3> SUFFICES ASSUME NEW p \in Profiles, NEW q \in Profiles, Share(p, q)
                 PROVE  rep[p] = rep[q]
      BY DEF Respects
    <3>1. PICK k : k \in keysOf[p] /\ k \in keysOf[q]
      BY DEF Share
    <3>2. rep[owner[k]] = rep[p] /\ rep[owner[k]] = rep[q]
      BY <3>1, <1>0 DEF Complete, Handled
    <3>3. QED
      BY <3>2
  <2>2. QED
    BY <1>0, <1>2, <2>1 DEF Linked
<1>3. QED
  BY <1>0, <1>1, <1>2

\* find never runs in a circle, and every variable keeps its type.
THEOREM TypeCorrect == Spec => []TypeOK
<1>1. IInv => TypeOK
  BY DEF IInv
<1>2. QED
  BY <1>1, Invariant, PTL

\* The groups are the caches: the union-find merges all that chains of shared
\* keys link and nothing more, and names a group after its earliest profile.
THEOREM GroupsFound == Spec => []GroupsAreCaches
<1>1. IInv => GroupsAreCaches
  BY SameRootIffLinked DEF GroupsAreCaches, IInv, TypeOK
<1>2. QED
  BY <1>1, Invariant, PTL

LEMMA PickedPerCache == IInv => OneEndpointPerCache
<1> SUFFICES ASSUME IInv, pc = "done", NEW t \in selected
             PROVE  t \in kept <=>
                      \A u \in selected : Linked(t[1], u[1]) => u = t \/ Prefers(t, u)
  BY DEF OneEndpointPerCache
<1>1. selected \ remaining = selected
  BY DEF IInv, Picked
<1>2. t \in kept <=>
          \A u \in selected : root[t[1]] = root[u[1]] => u = t \/ Prefers(t, u)
  BY <1>1 DEF IInv, Picked
<1>3. \A u \in selected : root[t[1]] = root[u[1]] <=> Linked(t[1], u[1])
  <2>1. \A u \in selected : u[1] \in Profiles
    BY DEF IInv, TypeOK, Endpoints
  <2>2. QED
    BY <2>1, SameRootIffLinked
<1>4. QED
  BY <1>2, <1>3

\* A cache-miss run measures the preferred endpoint of each selected cache and
\* no other, so no two of its endpoints reach one cache.
THEOREM OnePerCache == Spec => []OneEndpointPerCache
BY PickedPerCache, Invariant, PTL

-----------------------------------------------------------------------------
(***************************************************************************)
(* runBenchmark up to the first query.  What it has decided so far is a    *)
(* function of the input and the interface inventory.                      *)
(***************************************************************************)
Read     == stage \notin {"load", "refused"}
Checked  == Read /\ stage # "validate"
Filtered == Checked /\ stage \notin {"detect", "filter"}
Decided  == stage \in {"assert", "warn", "ready"}

\* The profiles are those of the input, valid and normalized.
SourcesRead ==
    /\ input \in Inputs
    /\ Read => explicitFrom = Len(FromCatalog(input))
    /\ stage = "validate" => declared = Declared(input)
    /\ Checked => Valid(Declared(input)) /\ declared = Normalized(Declared(input))

\* What the family filter leaves of a profile; auto spares the named ones.
Spared(i) == input.family = "auto" /\ explicitFrom < i
LeftOf(i) == IF Spared(i) THEN declared[i] ELSE FilterProfile(declared[i], input.family, available)
Remains(i) == Spared(i) \/ (DOMAIN LeftOf(i).addresses # {} /\ DOMAIN LeftOf(i).transports # {})

\* A declared profile as the filter leaves it; ClassifyLocal may call it local.
Narrowed(i) ==
    [id |-> declared[i].id, wellFormed |-> declared[i].wellFormed, local |-> profiles[i].local,
     addresses |-> LeftOf(i).addresses, transports |-> LeftOf(i).transports]

FamilyFiltered ==
    Filtered =>
        /\ ~NeedsLiterals(declared, input.family)
        /\ DOMAIN profiles = {i \in DOMAIN declared : Remains(i)}
        /\ \A i \in DOMAIN profiles : profiles[i] = Narrowed(i)

\* The targets, before and after the choice of one of each cache.
Everything == Expand(profiles, input.protocols)

DroppedTold(t) == <<"dropped", t.resolver, t.address, t.protocol>> \in told

TargetsExpanded ==
    /\ stage \in {"grouping", "grouped"} => targets = Everything
    /\ Decided /\ ~input.cacheMiss => targets = Everything
    /\ Decided /\ input.cacheMiss =>
          /\ targets = {t \in Everything : Place(t) \in kept}
          /\ \A t \in Everything \ targets : DroppedTold(t)

\* cacheGroups has not been called, or has been on the declared profiles.
GroupsFresh ==
    /\ pc = "key" /\ index = 1 /\ walk = 1 /\ first = 1
    /\ owner = [k \in Keys |-> None]
    /\ root = [i \in Profiles |-> i] /\ rep = root
    /\ selected = {} /\ remaining = {} /\ kept = {}

GroupsCalled ==
    /\ stage \in {"grouping", "grouped"} => input.cacheMiss
    /\ stage \notin {"grouped", "refused"} /\ ~Decided => GroupsFresh
    /\ stage = "grouped" \/ (Decided /\ input.cacheMiss) =>
          /\ keysOf = Grouped
          /\ pc \in {"choose", "done"} => selected = {Place(t) : t \in Everything}
    /\ Decided /\ input.cacheMiss => pc = "done"

\* Auto removed a bundled address.
Pruned ==
    \E i \in DOMAIN declared : \E j \in DOMAIN declared[i].addresses :
        i <= explicitFrom /\ ~(i \in DOMAIN profiles /\ j \in DOMAIN profiles[i].addresses)

ReasonsTold ==
    /\ Read /\ input.includeSystem /\ Found(input) = <<>> => <<"discovery failed">> \in told
    /\ Filtered /\ input.family = "auto" /\ Pruned => \E w \in told : w[1] = "family"

SInv ==
    /\ IInv
    /\ SourcesRead /\ FamilyFiltered /\ TargetsExpanded /\ GroupsCalled /\ ReasonsTold

-----------------------------------------------------------------------------
(***************************************************************************)
(* Lists of profiles.                                                      *)
(***************************************************************************)
LEMMA ListShape ==
    ASSUME NEW list, IsProfileList(list)
    PROVE  Len(list) \in Nat /\ DOMAIN list = 1 .. Len(list)
BY DEF IsProfileList

LEMMA Concatenated ==
    ASSUME NEW a, NEW b, IsProfileList(a), IsProfileList(b)
    PROVE  /\ IsProfileList(a \o b)
           /\ Len(a \o b) = Len(a) + Len(b)
           /\ \A i \in DOMAIN a : (a \o b)[i] = a[i]
           /\ \A i \in DOMAIN b : Len(a) + i \in DOMAIN (a \o b) /\ (a \o b)[Len(a) + i] = b[i]
<1> DEFINE S == ToSet(a) \cup ToSet(b)
           c == a \o b
<1>1. a \in Seq(S) /\ b \in Seq(S)
  BY DEF IsProfileList
<1>2. /\ c \in Seq(S) /\ Len(c) = Len(a) + Len(b)
      /\ \A i \in 1 .. Len(c) : c[i] = IF i <= Len(a) THEN a[i] ELSE b[i - Len(a)]
  <2> HIDE DEF S
  <2> QED
    BY <1>1
<1>3. Len(a) \in Nat /\ Len(b) \in Nat /\ DOMAIN a = 1 .. Len(a) /\ DOMAIN b = 1 .. Len(b)
  BY ListShape
<1>4. DOMAIN c = 1 .. Len(c)
  BY <1>2
<1> HIDE DEF c
<1>5. \A i \in DOMAIN c : IsProfile(c[i])
  <2> SUFFICES ASSUME NEW i \in DOMAIN c PROVE IsProfile(c[i])
    OBVIOUS
  <2>1. CASE i <= Len(a)
    <3>1. i \in DOMAIN a /\ c[i] = a[i]
      BY <2>1, <1>2, <1>3, <1>4
    <3>2. QED
      BY <3>1 DEF IsProfileList
  <2>2. CASE ~(i <= Len(a))
    <3>1. i - Len(a) \in DOMAIN b /\ c[i] = b[i - Len(a)]
      BY <2>2, <1>2, <1>3, <1>4
    <3>2. QED
      BY <3>1 DEF IsProfileList
  <2>3. QED
    BY <2>1, <2>2
<1>6. c \in Seq(ToSet(c))
  <2>1. \A i \in 1 .. Len(c) : c[i] \in ToSet(c)
    BY <1>4 DEF ToSet
  <2>2. QED
    BY <1>2, <2>1
<1>7. IsProfileList(c)
  BY <1>5, <1>6 DEF IsProfileList
<1>8. \A i \in DOMAIN a : c[i] = a[i]
  BY <1>2, <1>3
<1>9. \A i \in DOMAIN b : Len(a) + i \in DOMAIN c /\ c[Len(a) + i] = b[i]
  BY <1>2, <1>3, <1>4
<1>10. QED
  BY <1>2, <1>7, <1>8, <1>9 DEF c

LEMMA DeclaredList ==
    ASSUME NEW in \in Inputs
    PROVE  /\ IsProfileList(Declared(in))
           /\ Len(FromCatalog(in)) \in 0 .. Len(Declared(in))
           /\ \A i \in DOMAIN Declared(in) : i <= Len(FromCatalog(in)) =>
                i \in DOMAIN Bundled /\ Declared(in)[i] = Bundled[i]
           /\ \A k \in DOMAIN Found(in) : \E i \in DOMAIN Declared(in) : Declared(in)[i] = Found(in)[k]
<1> DEFINE a == FromCatalog(in)
           b == FromFile(in)
           c == FromFlags(in)
           d == Found(in)
<1>1. IsProfileList(b) /\ IsProfileList(c) /\ IsProfileList(d)
  BY InputAssumption
<1>2. IsProfileList(a)
  <2>1. IsProfileList(<<>>)
    BY DEF IsProfileList
  <2>2. QED
    BY <2>1, BundledAssumption DEF FromCatalog
<1>3. Declared(in) = ((a \o b) \o c) \o d
  BY DEF Declared
<1> HIDE DEF a, b, c, d
<1>4. IsProfileList(a \o b) /\ \A i \in DOMAIN a : (a \o b)[i] = a[i]
  BY <1>1, <1>2, Concatenated
<1>5. IsProfileList((a \o b) \o c) /\ \A i \in DOMAIN (a \o b) : ((a \o b) \o c)[i] = (a \o b)[i]
  BY <1>1, <1>4, Concatenated
<1>6. /\ IsProfileList(Declared(in))
      /\ \A i \in DOMAIN ((a \o b) \o c) : Declared(in)[i] = ((a \o b) \o c)[i]
      /\ \A i \in DOMAIN d : \E j \in DOMAIN Declared(in) : Declared(in)[j] = d[i]
  <2>1. /\ IsProfileList(Declared(in))
        /\ \A i \in DOMAIN ((a \o b) \o c) : Declared(in)[i] = ((a \o b) \o c)[i]
        /\ \A i \in DOMAIN d :
              /\ Len((a \o b) \o c) + i \in DOMAIN Declared(in)
              /\ Declared(in)[Len((a \o b) \o c) + i] = d[i]
    BY <1>1, <1>3, <1>5, Concatenated
  <2>2. QED
    BY <2>1
<1>7. /\ Len(a \o b) = Len(a) + Len(b) /\ Len((a \o b) \o c) = Len(a \o b) + Len(c)
      /\ Len(Declared(in)) = Len((a \o b) \o c) + Len(d)
  BY <1>1, <1>2, <1>3, <1>4, <1>5, Concatenated
<1>8. /\ DOMAIN a = 1 .. Len(a) /\ Len(a) \in Nat /\ Len(b) \in Nat /\ Len(c) \in Nat /\ Len(d) \in Nat
      /\ DOMAIN (a \o b) = 1 .. Len(a \o b) /\ DOMAIN ((a \o b) \o c) = 1 .. Len((a \o b) \o c)
      /\ DOMAIN Declared(in) = 1 .. Len(Declared(in)) /\ Len(Declared(in)) \in Nat
  BY <1>1, <1>2, <1>4, <1>5, <1>6, ListShape
<1>11. Len(a) \in 0 .. Len(Declared(in))
  BY <1>7, <1>8
<1>9. ASSUME NEW i \in DOMAIN Declared(in), i <= Len(a)
      PROVE  i \in DOMAIN Bundled /\ Declared(in)[i] = Bundled[i]
  <2>1. i \in DOMAIN a /\ i \in DOMAIN (a \o b) /\ i \in DOMAIN ((a \o b) \o c)
    BY <1>7, <1>8, <1>9
  <2>2. Declared(in)[i] = a[i]
    BY <2>1, <1>4, <1>5, <1>6
  <2>3. a = Bundled
    BY <2>1 DEF a, FromCatalog
  <2>4. QED
    BY <2>1, <2>2, <2>3
<1>10. QED
  BY <1>6, <1>9, <1>11 DEF a, d

\* Validate changes the candidates of a profile, and only to drop some.
LEMMA NormalizedProfile ==
    ASSUME NEW list, IsProfileList(list), NEW i \in DOMAIN list
    PROVE  LET p == list[i]
               n == Normalized(list)[i]
           IN  /\ n = [id |-> p.id, wellFormed |-> p.wellFormed, local |-> p.local,
                       addresses |-> p.addresses, transports |-> NormalTransports(p.transports)]
               /\ \A q \in DOMAIN p.transports :
                    /\ NormalTransports(p.transports)[q] =
                         [names |-> p.transports[q].names,
                          bootstrap |-> NormalizeBootstrapAddresses(p.transports[q].bootstrap)]
                    /\ ToSet(n.transports[q].bootstrap) \subseteq ToSet(p.transports[q].bootstrap)
<1> DEFINE p == list[i]
           n == Normalized(list)[i]
<1>1. IsProfile(p)
  BY DEF IsProfileList
<1>2. n = [p EXCEPT !.transports = NormalTransports(p.transports)]
  BY DEF Normalized
<1>3. p = [id |-> p.id, wellFormed |-> p.wellFormed, local |-> p.local,
           addresses |-> p.addresses, transports |-> p.transports]
  BY <1>1 DEF IsProfile
<1> HIDE DEF p, n
<1>4. n = [id |-> p.id, wellFormed |-> p.wellFormed, local |-> p.local,
           addresses |-> p.addresses, transports |-> NormalTransports(p.transports)]
  BY <1>2, <1>3
<1>5. ASSUME NEW q \in DOMAIN p.transports
      PROVE  /\ NormalTransports(p.transports)[q] =
                  [names |-> p.transports[q].names,
                   bootstrap |-> NormalizeBootstrapAddresses(p.transports[q].bootstrap)]
             /\ ToSet(n.transports[q].bootstrap) \subseteq ToSet(p.transports[q].bootstrap)
  <2>1. p.transports[q] = [names |-> p.transports[q].names, bootstrap |-> p.transports[q].bootstrap]
    <3>1. p.transports = [r \in DOMAIN p.transports \cap Range(AllProtocols) |->
            [names |-> p.transports[r].names, bootstrap |-> p.transports[r].bootstrap]]
      BY <1>1 DEF IsProfile
    <3>2. q \in DOMAIN p.transports \cap Range(AllProtocols)
      BY <3>1
    <3>3. QED
      BY <3>1, <3>2
  <2>2. NormalTransports(p.transports)[q] =
          [p.transports[q] EXCEPT !.bootstrap = NormalizeBootstrapAddresses(p.transports[q].bootstrap)]
    BY DEF NormalTransports
  <2>3. NormalTransports(p.transports)[q] =
          [names |-> p.transports[q].names,
           bootstrap |-> NormalizeBootstrapAddresses(p.transports[q].bootstrap)]
    BY <2>1, <2>2
  <2>4. n.transports[q].bootstrap = NormalizeBootstrapAddresses(p.transports[q].bootstrap)
    BY <1>4, <2>3
  <2>5. ToSet(NormalizeBootstrapAddresses(p.transports[q].bootstrap)) \subseteq ToSet(p.transports[q].bootstrap)
    BY DEF ToSet, NormalizeBootstrapAddresses, Restrict
  <2>6. QED
    BY <2>3, <2>4, <2>5
<1>6. QED
  BY <1>4, <1>5 DEF p, n

LEMMA NormalizedList ==
    ASSUME NEW list, IsProfileList(list)
    PROVE  IsProfileList(Normalized(list)) /\ DOMAIN Normalized(list) = DOMAIN list
<1> DEFINE N == Normalized(list)
<1>1. DOMAIN N = DOMAIN list /\ Len(list) \in Nat /\ DOMAIN list = 1 .. Len(list)
  BY ListShape DEF Normalized
<1>2. N \in Seq(ToSet(N))
  <2>1. \A i \in 1 .. Len(list) : N[i] \in ToSet(N)
    BY <1>1 DEF ToSet
  <2>2. N = [i \in 1 .. Len(list) |-> N[i]]
    BY <1>1 DEF Normalized
  <2> HIDE DEF N
  <2>3. QED
    BY <1>1, <2>1, <2>2
<1>3. ASSUME NEW i \in DOMAIN N PROVE IsProfile(N[i])
  <2> DEFINE p == list[i]
             n == N[i]
             T == NormalTransports(p.transports)
  <2>1. i \in DOMAIN list
    BY <1>1
  <2>2. /\ n = [id |-> p.id, wellFormed |-> p.wellFormed, local |-> p.local,
                addresses |-> p.addresses, transports |-> T]
        /\ \A q \in DOMAIN p.transports :
                /\ T[q] = [names |-> p.transports[q].names,
                           bootstrap |-> NormalizeBootstrapAddresses(p.transports[q].bootstrap)]
                /\ ToSet(n.transports[q].bootstrap) \subseteq ToSet(p.transports[q].bootstrap)
    BY <2>1, NormalizedProfile
  <2>3. IsProfile(p)
    BY <2>1 DEF IsProfileList
  <2>4. DOMAIN T = DOMAIN p.transports /\ DOMAIN p.transports \subseteq Range(AllProtocols)
    <3>1. DOMAIN p.transports = DOMAIN p.transports \cap Range(AllProtocols)
      BY <2>3 DEF IsProfile
    <3>2. QED
      BY <3>1 DEF NormalTransports
  <2>5. T = [q \in DOMAIN p.transports |-> T[q]]
    BY DEF NormalTransports
  <2> HIDE DEF p, n, T
  <2>6. n.transports = T /\ n.addresses = p.addresses
        /\ n = [id |-> n.id, wellFormed |-> n.wellFormed, local |-> n.local,
                addresses |-> n.addresses, transports |-> n.transports]
    BY <2>2
  <2>7. T = [q \in DOMAIN T \cap Range(AllProtocols) |->
                [names |-> T[q].names, bootstrap |-> T[q].bootstrap]]
    <3>1. DOMAIN T \cap Range(AllProtocols) = DOMAIN T
      BY <2>4
    <3>2. ASSUME NEW q \in DOMAIN T PROVE T[q] = [names |-> T[q].names, bootstrap |-> T[q].bootstrap]
      <4>1. T[q] = [names |-> p.transports[q].names,
                    bootstrap |-> NormalizeBootstrapAddresses(p.transports[q].bootstrap)]
        BY <2>2, <2>4
      <4>2. QED
        BY <4>1
    <3>3. [q \in DOMAIN T |-> T[q]] = [q \in DOMAIN T |-> [names |-> T[q].names, bootstrap |-> T[q].bootstrap]]
      BY <3>2
    <3>4. QED
      BY <2>4, <2>5, <3>1, <3>3
  <2>8. \A q \in DOMAIN T : T[q].names \cup ToSet(T[q].bootstrap) \subseteq DOMAIN FamilyOf
    <3> SUFFICES ASSUME NEW q \in DOMAIN T
                 PROVE  T[q].names \cup ToSet(T[q].bootstrap) \subseteq DOMAIN FamilyOf
      OBVIOUS
    <3>1. p.transports[q].names \cup ToSet(p.transports[q].bootstrap) \subseteq DOMAIN FamilyOf
      BY <2>3, <2>4 DEF IsProfile
    <3>2. T[q].names = p.transports[q].names
      <4>1. T[q] = [names |-> p.transports[q].names,
                    bootstrap |-> NormalizeBootstrapAddresses(p.transports[q].bootstrap)]
        BY <2>2, <2>4
      <4>2. QED
        BY <4>1
    <3>3. ToSet(T[q].bootstrap) \subseteq ToSet(p.transports[q].bootstrap)
      BY <2>2, <2>4, <2>6
    <3>4. QED
      BY <3>1, <3>2, <3>3
  <2>9. n.addresses \in Seq(DOMAIN FamilyOf)
    BY <2>3, <2>6 DEF IsProfile
  <2>10. IsProfile(n)
    BY <2>6, <2>7, <2>8, <2>9 DEF IsProfile
  <2>11. QED
    BY <2>10 DEF n
<1>4. QED
  BY <1>1, <1>2, <1>3 DEF IsProfileList

-----------------------------------------------------------------------------
(***************************************************************************)
(* What the checked list holds.                                            *)
(***************************************************************************)
\* One index has a value, and the first to have it is that index.
LEMMA FirstOf ==
    ASSUME NEW I, NEW i \in I, I = {i}, i \in Nat
    PROVE  Min(I) = i
BY DEF Min

LEMMA SameLength ==
    ASSUME NEW m \in Nat, NEW n \in Nat, 1 .. m = 1 .. n
    PROVE  m = n
<1>1. \A k \in Nat : k > 0 => k \in 1 .. k
  OBVIOUS
<1>2. (m > 0 => m <= n) /\ (n > 0 => n <= m)
  BY <1>1
<1>3. QED
  BY <1>2

LEMMA CheckedList ==
    ASSUME SourcesRead, Checked
    PROVE  /\ input \in Inputs
           /\ IsProfileList(declared)
           /\ DOMAIN declared = 1 .. Len(declared) /\ Len(declared) \in Nat
           /\ explicitFrom \in 0 .. Len(declared)
           /\ DOMAIN Declared(input) = DOMAIN declared
           /\ Len(Declared(input)) = Len(declared)
           /\ \A i \in DOMAIN declared :
                /\ declared[i].id = Declared(input)[i].id
                /\ declared[i].addresses = Declared(input)[i].addresses
                /\ DOMAIN declared[i].transports = DOMAIN Declared(input)[i].transports
                /\ \A q \in DOMAIN declared[i].transports :
                     declared[i].transports[q].bootstrap =
                        NormalizeBootstrapAddresses(Declared(input)[i].transports[q].bootstrap)
<1> DEFINE L == Declared(input)
<1>1. input \in Inputs /\ declared = Normalized(L) /\ explicitFrom = Len(FromCatalog(input))
  BY DEF SourcesRead, Checked
<1>2. IsProfileList(L) /\ explicitFrom \in 0 .. Len(L)
  BY <1>1, DeclaredList
<1> HIDE DEF L
<1>3. IsProfileList(declared) /\ DOMAIN declared = DOMAIN L
  BY <1>1, <1>2, NormalizedList
<1>4. /\ DOMAIN declared = 1 .. Len(declared) /\ Len(declared) \in Nat
      /\ DOMAIN L = 1 .. Len(L) /\ Len(L) \in Nat
  BY <1>2, <1>3, ListShape
<1>5. Len(L) = Len(declared)
  BY <1>3, <1>4, SameLength
<1>6. ASSUME NEW i \in DOMAIN declared
      PROVE  /\ declared[i].id = L[i].id
             /\ declared[i].addresses = L[i].addresses
             /\ DOMAIN declared[i].transports = DOMAIN L[i].transports
             /\ \A q \in DOMAIN declared[i].transports :
                  declared[i].transports[q].bootstrap =
                     NormalizeBootstrapAddresses(L[i].transports[q].bootstrap)
  <2>1. /\ declared[i] = [id |-> L[i].id, wellFormed |-> L[i].wellFormed, local |-> L[i].local,
                          addresses |-> L[i].addresses, transports |-> NormalTransports(L[i].transports)]
        /\ \A q \in DOMAIN L[i].transports : NormalTransports(L[i].transports)[q] =
                [names |-> L[i].transports[q].names,
                 bootstrap |-> NormalizeBootstrapAddresses(L[i].transports[q].bootstrap)]
    <3>1. i \in DOMAIN L /\ declared[i] = Normalized(L)[i]
      BY <1>1, <1>3
    <3>2. QED
      BY <1>2, <3>1, NormalizedProfile
  <2>2. declared[i].transports = NormalTransports(L[i].transports)
    BY <2>1
  <2>3. DOMAIN NormalTransports(L[i].transports) = DOMAIN L[i].transports
    BY DEF NormalTransports
  <2>4. declared[i].id = L[i].id /\ declared[i].addresses = L[i].addresses
    BY <2>1
  <2>5. ASSUME NEW q \in DOMAIN declared[i].transports
        PROVE  declared[i].transports[q].bootstrap =
                  NormalizeBootstrapAddresses(L[i].transports[q].bootstrap)
    <3>1. declared[i].transports[q] =
                [names |-> L[i].transports[q].names,
                 bootstrap |-> NormalizeBootstrapAddresses(L[i].transports[q].bootstrap)]
      BY <2>1, <2>2, <2>3
    <3>2. QED
      BY <3>1
  <2>6. QED
    BY <2>2, <2>3, <2>4, <2>5
<1>7. QED
  BY <1>1, <1>2, <1>3, <1>4, <1>5, <1>6 DEF L

\* What validation established of it.
LEMMA CheckedProfile ==
    ASSUME SourcesRead, Checked, NEW i \in DOMAIN declared
    PROVE  /\ IsProfile(declared[i])
           /\ declared[i].addresses # <<>> /\ IsInjective(declared[i].addresses)
           /\ \A j \in DOMAIN declared : declared[i].id = declared[j].id => i = j
           /\ \A q \in DOMAIN declared[i].transports :
                \A k \in DOMAIN declared[i].transports[q].bootstrap :
                    IsLiteral(declared[i].transports[q].bootstrap[k])
           /\ i <= explicitFrom => \A q \in DOMAIN declared[i].transports :
                DOMAIN declared[i].transports[q].bootstrap = {}
<1> DEFINE L == Declared(input)
           p == L[i]
<1>1. Valid(L) /\ explicitFrom = Len(FromCatalog(input)) /\ Read
  BY DEF SourcesRead, Checked
<1>2. /\ input \in Inputs /\ IsProfileList(declared)
      /\ DOMAIN L = DOMAIN declared
      /\ \A j \in DOMAIN declared : declared[j].id = L[j].id
      /\ declared[i].addresses = p.addresses
      /\ DOMAIN declared[i].transports = DOMAIN p.transports
      /\ \A q \in DOMAIN declared[i].transports :
            declared[i].transports[q].bootstrap =
                NormalizeBootstrapAddresses(p.transports[q].bootstrap)
  BY CheckedList
<1>3. i <= explicitFrom => i \in DOMAIN Bundled /\ p = Bundled[i]
  BY <1>1, <1>2, DeclaredList
<1> HIDE DEF L
<1>4. ValidProfile(p) /\ \A j \in DOMAIN declared : L[i].id = L[j].id => i = j
  BY <1>1, <1>2 DEF Valid
<1>5. \A j \in DOMAIN declared : declared[i].id = declared[j].id => i = j
  BY <1>2, <1>4
<1> HIDE DEF p
<1>6. declared[i].addresses # <<>> /\ IsInjective(declared[i].addresses)
  BY <1>2, <1>4 DEF ValidProfile
<1>7. ASSUME NEW q \in DOMAIN declared[i].transports, NEW k \in DOMAIN declared[i].transports[q].bootstrap
      PROVE  /\ k \in DOMAIN p.transports[q].bootstrap
             /\ declared[i].transports[q].bootstrap[k] = p.transports[q].bootstrap[k]
             /\ IsLiteral(declared[i].transports[q].bootstrap[k])
  <2>1. declared[i].transports[q].bootstrap = NormalizeBootstrapAddresses(p.transports[q].bootstrap)
    BY <1>2
  <2>2. /\ k \in DOMAIN p.transports[q].bootstrap
        /\ declared[i].transports[q].bootstrap[k] = p.transports[q].bootstrap[k]
    BY <2>1 DEF NormalizeBootstrapAddresses, Restrict
  <2>3. ValidSpec(q, p.transports[q])
    BY <1>2, <1>4 DEF ValidProfile
  <2>4. QED
    BY <2>2, <2>3 DEF ValidSpec
<1>8. ASSUME i <= explicitFrom, NEW q \in DOMAIN declared[i].transports
      PROVE  DOMAIN declared[i].transports[q].bootstrap = {}
  <2>1. DOMAIN p.transports[q].bootstrap = {}
    BY <1>2, <1>3, <1>8, BundledAssumption
  <2>2. QED
    BY <1>7, <2>1
<1>9. IsProfile(declared[i])
  BY <1>2 DEF IsProfileList
<1>10. QED
  BY <1>5, <1>6, <1>7, <1>8, <1>9

\* A place names a declared profile, and the address of one of its rows.
LEMMA PlaceOf ==
    ASSUME SourcesRead, Checked,
           NEW i \in DOMAIN declared, NEW j \in DOMAIN declared[i].addresses,
           NEW t, t.resolver = declared[i].id, t.address = declared[i].addresses[j]
    PROVE  Place(t) = <<i, (Rank(t.protocol) - 1) * Width + j>>
<1>1. /\ IsProfileList(declared) /\ DOMAIN declared = 1 .. Len(declared) /\ Len(declared) \in Nat
  BY CheckedList
<1>2. /\ IsProfile(declared[i]) /\ IsInjective(declared[i].addresses)
      /\ \A k \in DOMAIN declared : declared[i].id = declared[k].id => i = k
  BY CheckedProfile
<1>3. DOMAIN declared[i].addresses = 1 .. Len(declared[i].addresses) /\ j \in Nat
  BY <1>2 DEF IsProfile
<1>4. {k \in 1 .. Len(declared) : declared[k].id = t.resolver} = {i}
  BY <1>1, <1>2
<1>5. SelectInSeq(declared, LAMBDA p : p.id = t.resolver) = i
  <2>1. Min({k \in 1 .. Len(declared) : declared[k].id = t.resolver}) = i
    <3>1. i \in Nat
      BY <1>1
    <3>2. QED
      BY <1>4, <3>1, FirstOf
  <2>2. QED
    BY <1>4, <2>1 DEF SelectInSeq
<1>6. {k \in 1 .. Len(declared[i].addresses) : declared[i].addresses[k] = t.address} = {j}
  BY <1>2, <1>3 DEF IsInjective
<1>7. SelectInSeq(declared[i].addresses, LAMBDA a : a = t.address) = j
  <2>1. Min({k \in 1 .. Len(declared[i].addresses) : declared[i].addresses[k] = t.address}) = j
    BY <1>3, <1>6, FirstOf
  <2>2. QED
    BY <1>6, <2>1 DEF SelectInSeq
<1>8. QED
  BY <1>5, <1>7 DEF Place

-----------------------------------------------------------------------------
(***************************************************************************)
(* The steps.                                                              *)
(***************************************************************************)
LEMMA SelectionInitInv == SelectionInit => SInv
<1> SUFFICES ASSUME SelectionInit PROVE SInv
  OBVIOUS
<1> USE DEF SelectionInit, Read, Checked, Filtered, Decided
<1>1. IInv
  BY InitInv
<1>2. GroupsFresh
  BY DEF GroupsFresh, Init
<1>3. SourcesRead /\ FamilyFiltered /\ TargetsExpanded /\ GroupsCalled /\ ReasonsTold
  BY <1>2 DEF SourcesRead, FamilyFiltered, TargetsExpanded, GroupsCalled, ReasonsTold
<1>4. QED
  BY <1>1, <1>3 DEF SInv

\* A refused run has decided nothing.
LEMMA RefuseInv == SInv /\ Refuse /\ UNCHANGED <<input, vars>> => SInv'
<1> SUFFICES ASSUME SInv, Refuse, UNCHANGED <<input, vars>> PROVE SInv'
  OBVIOUS
<1>1. IInv'
  BY StutterInv DEF SInv
<1>2. stage' = "refused" /\ input' = input
  BY DEF Refuse
<1>3. SourcesRead' /\ FamilyFiltered' /\ TargetsExpanded' /\ GroupsCalled' /\ ReasonsTold'
  BY <1>2 DEF SInv, SourcesRead, FamilyFiltered, TargetsExpanded, GroupsCalled, ReasonsTold,
              Read, Checked, Filtered, Decided
<1>4. QED
  BY <1>1, <1>3 DEF SInv

LEMMA LoadInv == SInv /\ LoadProfiles /\ UNCHANGED <<input, vars>> => SInv'
<1> SUFFICES ASSUME SInv, LoadProfiles, UNCHANGED <<input, vars>>, ~Refuse PROVE SInv'
  BY RefuseInv
<1>0. /\ stage = "load" /\ stage' = "validate" /\ input' = input
      /\ declared' = Declared(input) /\ explicitFrom' = Len(FromCatalog(input))
      /\ told' = IF input.includeSystem /\ Found(input) = <<>>
                 THEN {<<"discovery failed">>} ELSE {}
  BY DEF LoadProfiles
<1> USE DEF Read, Checked, Filtered, Decided
<1>1. IInv'
  BY StutterInv DEF SInv
<1>2. SourcesRead'
  BY <1>0 DEF SInv, SourcesRead
<1>3. FamilyFiltered' /\ TargetsExpanded' /\ ReasonsTold'
  BY <1>0 DEF FamilyFiltered, TargetsExpanded, ReasonsTold
<1>4. GroupsCalled'
  BY <1>0 DEF SInv, GroupsCalled, GroupsFresh, vars, loopVars, groupVars, pickVars
<1>5. QED
  BY <1>1, <1>2, <1>3, <1>4 DEF SInv

LEMMA CheckInv == SInv /\ CheckProfiles /\ UNCHANGED <<input, vars>> => SInv'
<1> SUFFICES ASSUME SInv, CheckProfiles, UNCHANGED <<input, vars>>, ~Refuse PROVE SInv'
  BY RefuseInv
<1>0. /\ stage = "validate" /\ stage' = "detect" /\ input' = input
      /\ Valid(declared) /\ declared' = Normalized(declared)
      /\ UNCHANGED <<explicitFrom, available, profiles, onNetwork, targets, told>>
  BY DEF CheckProfiles
<1> USE DEF Read, Checked, Filtered, Decided
<1>1. IInv'
  BY StutterInv DEF SInv
<1>2. SourcesRead'
  BY <1>0 DEF SInv, SourcesRead
<1>3. FamilyFiltered' /\ TargetsExpanded' /\ ReasonsTold'
  BY <1>0 DEF SInv, FamilyFiltered, TargetsExpanded, ReasonsTold
<1>4. GroupsCalled'
  BY <1>0 DEF SInv, GroupsCalled, GroupsFresh, vars, loopVars, groupVars, pickVars
<1>5. QED
  BY <1>1, <1>2, <1>3, <1>4 DEF SInv

LEMMA DetectInv == SInv /\ DetectFamilies /\ UNCHANGED <<input, vars>> => SInv'
<1> SUFFICES ASSUME SInv, DetectFamilies, UNCHANGED <<input, vars>>, ~Refuse PROVE SInv'
  BY RefuseInv
<1>0. /\ stage = "detect" /\ stage' = "filter" /\ input' = input
      /\ UNCHANGED <<declared, explicitFrom, profiles, onNetwork, targets, told>>
  BY DEF DetectFamilies
<1> USE DEF Read, Checked, Filtered, Decided
<1>1. IInv'
  BY StutterInv DEF SInv
<1>2. SourcesRead'
  BY <1>0 DEF SInv, SourcesRead
<1>3. FamilyFiltered' /\ TargetsExpanded' /\ ReasonsTold'
  BY <1>0 DEF SInv, FamilyFiltered, TargetsExpanded, ReasonsTold
<1>4. GroupsCalled'
  BY <1>0 DEF SInv, GroupsCalled, GroupsFresh, vars, loopVars, groupVars, pickVars
<1>5. QED
  BY <1>1, <1>2, <1>3, <1>4 DEF SInv

LEMMA ClassifyInv == SInv /\ ClassifyLocal /\ UNCHANGED <<input, vars>> => SInv'
<1> SUFFICES ASSUME SInv, ClassifyLocal, UNCHANGED <<input, vars>>, ~Refuse PROVE SInv'
  BY RefuseInv
<1> DEFINE Local(i) == profiles[i].local \/ OnHost(OwnAddresses(input.interfaces[2]), i) # {}
<1>0. /\ stage = "classify" /\ stage' = "expand" /\ input' = input
      /\ profiles' = [i \in DOMAIN profiles |-> [profiles[i] EXCEPT !.local = Local(i)]]
      /\ UNCHANGED <<declared, explicitFrom, available, targets, told>>
  BY DEF ClassifyLocal
<1> HIDE DEF Local
<1> USE DEF Read, Checked, Filtered, Decided
<1>1. IInv'
  BY StutterInv DEF SInv
<1>2. SourcesRead'
  BY <1>0 DEF SInv, SourcesRead
<1>3. /\ ~NeedsLiterals(declared, input.family)
      /\ DOMAIN profiles = {i \in DOMAIN declared : Remains(i)}
      /\ \A i \in DOMAIN profiles : profiles[i] = Narrowed(i)
  BY <1>0 DEF SInv, FamilyFiltered
<1>4. \A i : Remains(i)' <=> Remains(i)
  BY <1>0 DEF Remains, LeftOf, Spared
<1>5. \A i : LeftOf(i)' = LeftOf(i)
  BY <1>0 DEF LeftOf, Spared
<1>6. ASSUME NEW i \in DOMAIN profiles
      PROVE  profiles'[i] = Narrowed(i)' /\ profiles'[i].addresses = profiles[i].addresses
  <2>1. profiles'[i] = [profiles[i] EXCEPT !.local = Local(i)]
    BY <1>0
  <2>2. profiles[i] = [id |-> declared[i].id, wellFormed |-> declared[i].wellFormed,
                       local |-> profiles[i].local,
                       addresses |-> LeftOf(i).addresses, transports |-> LeftOf(i).transports]
    BY <1>3 DEF Narrowed
  <2> DEFINE A == LeftOf(i).addresses
             T == LeftOf(i).transports
  <2> HIDE DEF A, T
  <2>3. profiles[i] = [id |-> declared[i].id, wellFormed |-> declared[i].wellFormed,
                       local |-> profiles[i].local, addresses |-> A, transports |-> T]
    BY <2>2 DEF A, T
  <2>4. profiles'[i] = [id |-> declared[i].id, wellFormed |-> declared[i].wellFormed,
                        local |-> Local(i), addresses |-> A, transports |-> T]
    BY <2>1, <2>3
  <2>5. profiles'[i].local = Local(i) /\ profiles'[i].addresses = A /\ profiles[i].addresses = A
    BY <2>3, <2>4
  <2>6. Narrowed(i)' = [id |-> declared[i].id, wellFormed |-> declared[i].wellFormed,
                        local |-> profiles'[i].local, addresses |-> A, transports |-> T]
    BY <1>0, <1>5 DEF Narrowed, A, T
  <2>7. QED
    BY <2>4, <2>5, <2>6
<1>7. DOMAIN profiles' = DOMAIN profiles
  BY <1>0
<1>8. FamilyFiltered'
  <2>1. NeedsLiterals(declared, input.family)' = NeedsLiterals(declared, input.family)
    BY <1>0 DEF NeedsLiterals
  <2>2. QED
    BY <1>0, <1>3, <1>4, <1>6, <1>7, <2>1 DEF FamilyFiltered
<1>9. Pruned' => Pruned
  BY <1>0, <1>6, <1>7 DEF Pruned
<1>10. ReasonsTold'
  BY <1>0, <1>9 DEF SInv, ReasonsTold
<1>11. TargetsExpanded'
  BY <1>0 DEF TargetsExpanded
<1>12. GroupsCalled'
  BY <1>0 DEF SInv, GroupsCalled, GroupsFresh, vars, loopVars, groupVars, pickVars
<1>13. QED
  BY <1>1, <1>2, <1>8, <1>10, <1>11, <1>12 DEF SInv

\* What the filter leaves of a profile.
LEMMA FilteredProfile ==
    ASSUME NEW p, IsProfile(p), NEW family, NEW av
    PROVE  FilterProfile(p, family, av) =
              [id |-> p.id, wellFormed |-> p.wellFormed, local |-> p.local,
               addresses |-> FilterAddresses(p.addresses, family, av),
               transports |-> FilterBootstrapByFamily(p.transports, family, av)]
<1>1. p = [id |-> p.id, wellFormed |-> p.wellFormed, local |-> p.local,
           addresses |-> p.addresses, transports |-> p.transports]
  BY DEF IsProfile
<1>2. FilterProfile(p, family, av) =
        [p EXCEPT !.addresses = FilterAddresses(p.addresses, family, av),
                  !.transports = FilterBootstrapByFamily(p.transports, family, av)]
  BY DEF FilterProfile
<1> DEFINE A == FilterAddresses(p.addresses, family, av)
           T == FilterBootstrapByFamily(p.transports, family, av)
<1> HIDE DEF A, T
<1>3. [p EXCEPT !.addresses = A, !.transports = T] =
        [id |-> p.id, wellFormed |-> p.wellFormed, local |-> p.local, addresses |-> A, transports |-> T]
  <2> DEFINE q == [p EXCEPT !.addresses = A]
  <2>1. q = [id |-> p.id, wellFormed |-> p.wellFormed, local |-> p.local,
             addresses |-> A, transports |-> p.transports]
    BY <1>1
  <2>2. [p EXCEPT !.addresses = A, !.transports = T] = [q EXCEPT !.transports = T]
    OBVIOUS
  <2> HIDE DEF q
  <2>3. [q EXCEPT !.transports = T] =
        [id |-> p.id, wellFormed |-> p.wellFormed, local |-> p.local, addresses |-> A, transports |-> T]
    BY <2>1
  <2>4. QED
    BY <2>2, <2>3 DEF q
<1>4. QED
  BY <1>2, <1>3 DEF A, T

LEMMA FilteredAddresses ==
    ASSUME NEW addresses, NEW family, NEW av
    PROVE  /\ DOMAIN FilterAddresses(addresses, family, av) =
                {i \in DOMAIN addresses :
                    ~IsLiteral(addresses[i]) \/ FamilyAllowed(addresses[i], family, av)}
           /\ \A i \in DOMAIN FilterAddresses(addresses, family, av) :
                FilterAddresses(addresses, family, av)[i] = addresses[i]
BY DEF FilterAddresses, Restrict

\* An address gone is an address less.
LEMMA FewerAddresses ==
    ASSUME NEW before, NEW after, IsFiniteSet(DOMAIN before),
           \A i \in DOMAIN before : IsFiniteSet(DOMAIN before[i].addresses),
           DOMAIN after \subseteq DOMAIN before,
           \A i \in DOMAIN after : DOMAIN after[i].addresses \subseteq DOMAIN before[i].addresses,
           NEW i \in DOMAIN before, NEW j \in DOMAIN before[i].addresses,
           ~(i \in DOMAIN after /\ j \in DOMAIN after[i].addresses)
    PROVE  AddressCount(before) - AddressCount(after) > 0
<1> DEFINE Of(k) == {<<k, l>> : l \in DOMAIN before[k].addresses}
           B == UNION {Of(k) : k \in DOMAIN before}
           A == UNION {{<<k, l>> : l \in DOMAIN after[k].addresses} : k \in DOMAIN after}
           f == [k \in DOMAIN before |-> Of(k)]
           S == {Of(k) : k \in DOMAIN before}
<1>1. IsFiniteSet(S)
  <2>1. f \in Surjection(DOMAIN before, S)
    BY DEF Surjection
  <2>2. QED
    BY <2>1, FS_Surjection
<1>2. ASSUME NEW T \in S PROVE IsFiniteSet(T)
  <2>1. PICK k \in DOMAIN before : T = Of(k)
    OBVIOUS
  <2>2. IsFiniteSet({k} \X DOMAIN before[k].addresses)
    BY FS_Singleton, FS_Product
  <2>3. Of(k) \subseteq {k} \X DOMAIN before[k].addresses
    OBVIOUS
  <2>4. QED
    BY <2>1, <2>2, <2>3, FS_Subset
<1>3. IsFiniteSet(B)
  BY <1>1, <1>2, FS_UNION
<1>4. A \subseteq B
  OBVIOUS
<1>5. <<i, j>> \in B /\ <<i, j>> \notin A
  OBVIOUS
<1>6. AddressCount(before) = Cardinality(B) /\ AddressCount(after) = Cardinality(A)
  BY DEF AddressCount
<1> HIDE DEF A, B
<1>7. /\ IsFiniteSet(A) /\ Cardinality(A) <= Cardinality(B)
      /\ Cardinality(A) = Cardinality(B) => B = A
  BY <1>3, <1>4, FS_Subset
<1>8. Cardinality(A) \in Nat /\ Cardinality(B) \in Nat
  BY <1>3, <1>7, FS_CardinalityType
<1>9. QED
  BY <1>5, <1>6, <1>7, <1>8

LEMMA FilterInv == SInv /\ FilterFamily /\ UNCHANGED <<input, vars>> => SInv'
<1> SUFFICES ASSUME SInv, FilterFamily, UNCHANGED <<input, vars>>, ~Refuse PROVE SInv'
  BY RefuseInv
<1> DEFINE fam == input.family
           bundled == Restrict(declared, 1 .. explicitFrom)
           others == Restrict(declared, explicitFrom + 1 .. Len(declared))
           left == FilterProfilesByFamily(bundled, fam, available)
           named == ExplicitLeft(others)
<1>0. /\ stage = "filter" /\ stage' = "classify" /\ input' = input
      /\ ~NeedsLiterals(declared, fam)
      /\ profiles' = [i \in DOMAIN left \cup DOMAIN named |->
                        IF i \in DOMAIN left THEN left[i] ELSE named[i]]
      /\ told' = told \cup AutoFamilyWarnings(bundled, left)
      /\ UNCHANGED <<declared, explicitFrom, available, onNetwork, targets>>
  BY DEF FilterFamily
<1> SourcesRead /\ Checked
  BY <1>0 DEF SInv, Checked, Read
<1>1. IInv'
  BY StutterInv DEF SInv
<1>2. SourcesRead'
  BY <1>0 DEF SourcesRead, Checked, Read
<1>3. /\ DOMAIN declared = 1 .. Len(declared) /\ Len(declared) \in Nat
      /\ explicitFrom \in 0 .. Len(declared)
  BY CheckedList
<1>4. /\ DOMAIN bundled = 1 .. explicitFrom
      /\ DOMAIN others = explicitFrom + 1 .. Len(declared)
      /\ DOMAIN bundled \cup DOMAIN others = DOMAIN declared
      /\ \A i \in DOMAIN declared : i \in DOMAIN bundled <=> i <= explicitFrom
      /\ \A i \in DOMAIN declared : i \in DOMAIN others <=> explicitFrom < i
      /\ \A i \in DOMAIN bundled : bundled[i] = declared[i]
      /\ \A i \in DOMAIN others : others[i] = declared[i]
  BY <1>3 DEF Restrict
<1> DEFINE One(i) == FilterProfile(declared[i], fam, available)
           Kept(i) == DOMAIN One(i).addresses # {} /\ DOMAIN One(i).transports # {}
<1>5. /\ DOMAIN left = {i \in DOMAIN bundled : Kept(i)}
      /\ \A i \in DOMAIN left : left[i] = One(i)
  <2> HIDE DEF bundled
  <2>1. /\ DOMAIN left = {i \in DOMAIN bundled :
                /\ DOMAIN FilterProfile(bundled[i], input.family, available).addresses # {}
                /\ DOMAIN FilterProfile(bundled[i], input.family, available).transports # {}}
        /\ \A i \in DOMAIN left : left[i] = FilterProfile(bundled[i], input.family, available)
    BY DEF FilterProfilesByFamily, Restrict
  <2>2. QED
    BY <1>4, <2>1
<1>6. /\ DOMAIN named = {i \in DOMAIN others : fam = "auto" \/ Kept(i)}
      /\ \A i \in DOMAIN named : named[i] = IF fam = "auto" THEN declared[i] ELSE One(i)
  <2> HIDE DEF others
  <2>1. CASE fam = "auto"
    BY <1>4, <2>1 DEF ExplicitLeft
  <2>2. CASE fam # "auto"
    <3>1. named = FilterProfilesByFamily(others, fam, available)
      BY <2>2 DEF ExplicitLeft
    <3>2. /\ DOMAIN named = {i \in DOMAIN others :
                DOMAIN FilterProfile(others[i], fam, available).addresses # {} /\ DOMAIN FilterProfile(others[i], fam, available).transports # {}}
          /\ \A i \in DOMAIN named : named[i] = FilterProfile(others[i], fam, available)
      BY <3>1 DEF FilterProfilesByFamily, Restrict
    <3>3. QED
      BY <1>4, <2>2, <3>2
  <2>3. QED
    BY <2>1, <2>2
<1>7. /\ \A i \in DOMAIN declared : Remains(i)' <=> (Spared(i) \/ Kept(i))
      /\ \A i \in DOMAIN declared : LeftOf(i)' = IF Spared(i) THEN declared[i] ELSE One(i)
      /\ \A i \in DOMAIN declared : Spared(i) <=> fam = "auto" /\ i \in DOMAIN others
  BY <1>0, <1>4 DEF Remains, LeftOf, Spared
<1> HIDE DEF bundled, others, left, named
<1>8. DOMAIN profiles' = {i \in DOMAIN declared : Remains(i)'}
  <2> HIDE DEF Kept, One
  <2>1. DOMAIN profiles' = DOMAIN left \cup DOMAIN named
    BY <1>0
  <2>2. ASSUME NEW i \in DOMAIN left PROVE i \notin DOMAIN others
    BY <1>3, <1>4, <1>5
  <2>3. QED
    BY <1>4, <1>5, <1>6, <1>7, <2>1
<1>9. ASSUME NEW i \in DOMAIN profiles'
      PROVE  profiles'[i] = LeftOf(i)' /\ i \in DOMAIN declared
  <2> HIDE DEF Kept, One
  <2>1. i \in DOMAIN declared
    BY <1>8
  <2>2. CASE i \in DOMAIN left
    BY <2>1, <2>2, <1>0, <1>3, <1>4, <1>5, <1>7
  <2>3. CASE i \notin DOMAIN left
    BY <2>1, <2>3, <1>0, <1>4, <1>6, <1>7
  <2>4. QED
    BY <2>1, <2>2, <2>3
<1>10. ASSUME NEW i \in DOMAIN profiles' PROVE profiles'[i] = Narrowed(i)'
  <2>1. IsProfile(declared[i])
    BY <1>9, CheckedProfile
  <2>2. /\ profiles'[i] = IF Spared(i) THEN declared[i] ELSE One(i)
        /\ LeftOf(i)' = profiles'[i]
    BY <1>7, <1>9
  <2> DEFINE A == FilterAddresses(declared[i].addresses, fam, available)
             T == FilterBootstrapByFamily(declared[i].transports, fam, available)
  <2>3. One(i) = [id |-> declared[i].id, wellFormed |-> declared[i].wellFormed,
                  local |-> declared[i].local, addresses |-> A, transports |-> T]
    BY <2>1, FilteredProfile
  <2>4. declared[i] = [id |-> declared[i].id, wellFormed |-> declared[i].wellFormed,
                       local |-> declared[i].local, addresses |-> declared[i].addresses,
                       transports |-> declared[i].transports]
    BY <2>1 DEF IsProfile
  <2> HIDE DEF A, T, One
  <2>5. profiles'[i] = [id |-> declared[i].id, wellFormed |-> declared[i].wellFormed,
                        local |-> profiles'[i].local, addresses |-> profiles'[i].addresses,
                        transports |-> profiles'[i].transports]
    <3>1. CASE Spared(i)
      BY <3>1, <2>2, <2>4
    <3>2. CASE ~Spared(i)
      BY <3>2, <2>2, <2>3
    <3>3. QED
      BY <3>1, <3>2
  <2>6. QED
    BY <1>0, <2>2, <2>5 DEF Narrowed
<1>11. FamilyFiltered'
  <2>1. NeedsLiterals(declared, input.family)' = NeedsLiterals(declared, input.family)
    BY <1>0 DEF NeedsLiterals
  <2>2. QED
    BY <1>0, <1>8, <1>10, <2>1 DEF FamilyFiltered
<1>12. ASSUME fam = "auto", Pruned' PROVE \E w \in told' : w[1] = "family"
  <2>0. PICK i \in DOMAIN declared : \E j \in DOMAIN declared[i].addresses :
            i <= explicitFrom /\ ~(i \in DOMAIN profiles' /\ j \in DOMAIN profiles'[i].addresses)
    BY <1>0, <1>12 DEF Pruned
  <2>1. PICK j \in DOMAIN declared[i].addresses :
            i <= explicitFrom /\ ~(i \in DOMAIN profiles' /\ j \in DOMAIN profiles'[i].addresses)
    BY <2>0
  <2>2. i \in DOMAIN bundled /\ j \in DOMAIN bundled[i].addresses
    BY <1>4, <2>1
  <2>3. ~(i \in DOMAIN left /\ j \in DOMAIN left[i].addresses)
    BY <1>0, <2>1
  <2>4. DOMAIN left \subseteq DOMAIN bundled
    BY <1>5
  <2>5. ASSUME NEW k \in DOMAIN left
        PROVE  DOMAIN left[k].addresses \subseteq DOMAIN bundled[k].addresses
    <3>1. k \in DOMAIN declared /\ left[k] = One(k) /\ bundled[k] = declared[k]
      BY <1>4, <1>5
    <3>2. left[k].addresses = FilterAddresses(declared[k].addresses, fam, available)
      BY <3>1, CheckedProfile, FilteredProfile
    <3>3. DOMAIN FilterAddresses(declared[k].addresses, fam, available) \subseteq DOMAIN declared[k].addresses
      BY DEF FilterAddresses, Restrict
    <3>4. QED
      BY <3>1, <3>2, <3>3
  <2>6. IsFiniteSet(DOMAIN bundled)
    <3>1. explicitFrom \in Int
      BY <1>3
    <3>2. IsFiniteSet(1 .. explicitFrom)
      BY ONLY <3>1, FS_Interval
    <3>3. DOMAIN bundled = 1 .. explicitFrom
      BY <1>4
    <3>4. QED
      BY ONLY <3>2, <3>3
  <2>7. ASSUME NEW k \in DOMAIN bundled PROVE IsFiniteSet(DOMAIN bundled[k].addresses)
    <3>1. k \in DOMAIN declared /\ bundled[k] = declared[k]
      BY <1>4
    <3>2. declared[k].addresses \in Seq(DOMAIN FamilyOf)
      <4>1. IsProfile(declared[k])
        BY <3>1, CheckedProfile
      <4>2. QED
        BY <4>1 DEF IsProfile
    <3>3. DOMAIN declared[k].addresses = 1 .. Len(declared[k].addresses) /\ Len(declared[k].addresses) \in Nat
      BY <3>2
    <3>4. IsFiniteSet(1 .. Len(declared[k].addresses))
      <4>1. 1 \in Int /\ Len(declared[k].addresses) \in Int
        BY <3>3
      <4>2. QED
        BY ONLY <4>1, FS_Interval
    <3>5. DOMAIN bundled[k].addresses = 1 .. Len(declared[k].addresses)
      BY <3>1, <3>3
    <3>6. QED
      BY ONLY <3>4, <3>5
  <2>8. AddressCount(bundled) - AddressCount(left) > 0
    BY <2>2, <2>3, <2>4, <2>5, <2>6, <2>7, FewerAddresses
  <2>9. <<"family", AddressCount(bundled) - AddressCount(left)>> \in told'
    BY <1>0, <1>12, <2>8 DEF AutoFamilyWarnings
  <2>10. QED
    BY <2>9
<1>13. ReasonsTold'
  <2>1. told \subseteq told'
    BY <1>0
  <2>2. QED
    BY <1>0, <1>12, <2>1 DEF SInv, ReasonsTold, Read
<1>14. TargetsExpanded'
  BY <1>0 DEF TargetsExpanded, Decided
<1>15. GroupsCalled'
  BY <1>0 DEF SInv, GroupsCalled, GroupsFresh, vars, loopVars, groupVars, pickVars, Decided
<1>16. QED
  BY <1>1, <1>2, <1>11, <1>13, <1>14, <1>15 DEF SInv

\* Once the filter has run, nothing it depends on changes.
LEMMA FilterKept ==
    ASSUME UNCHANGED <<input, declared, explicitFrom, available, profiles>>,
           FamilyFiltered, Filtered
    PROVE  FamilyFiltered' /\ (Pruned' => Pruned)
<1>1. NeedsLiterals(declared, input.family)' = NeedsLiterals(declared, input.family)
  BY DEF NeedsLiterals
<1>2. \A i : (Remains(i)' <=> Remains(i)) /\ Narrowed(i)' = Narrowed(i)
  BY DEF Remains, Narrowed, LeftOf, Spared
<1>3. Pruned' => Pruned
  BY DEF Pruned
<1>4. FamilyFiltered'
  BY <1>1, <1>2 DEF FamilyFiltered
<1>5. QED
  BY <1>3, <1>4

LEMMA ExpandInv == SInv /\ ExpandTargets /\ UNCHANGED <<input, vars>> => SInv'
<1> SUFFICES ASSUME SInv, ExpandTargets, UNCHANGED <<input, vars>>, ~Refuse PROVE SInv'
  BY RefuseInv
<1>0. /\ stage = "expand" /\ input' = input
      /\ stage' = IF input.cacheMiss THEN "grouping" ELSE "assert"
      /\ targets' = Everything
      /\ UNCHANGED <<declared, explicitFrom, available, profiles, onNetwork, told>>
  BY DEF ExpandTargets, Everything
<1> USE DEF Read, Checked, Filtered, Decided
<1>1. IInv'
  BY StutterInv DEF SInv
<1>2. SourcesRead'
  BY <1>0 DEF SInv, SourcesRead
<1>3. FamilyFiltered' /\ ReasonsTold'
  BY <1>0, FilterKept DEF SInv, ReasonsTold
<1>4. TargetsExpanded'
  BY <1>0 DEF TargetsExpanded, Everything
<1>5. GroupsCalled'
  BY <1>0 DEF SInv, GroupsCalled, GroupsFresh, vars, loopVars, groupVars, pickVars
<1>6. QED
  BY <1>1, <1>2, <1>3, <1>4, <1>5 DEF SInv

\* In a cache-miss run the declared profiles are those that CacheGroups groups.
LEMMA CheckedWidth ==
    ASSUME SourcesRead, Checked, input.cacheMiss
    PROVE  /\ DOMAIN declared = Profiles
           /\ \A i \in Profiles : Len(declared[i].addresses) <= Width
<1>1. /\ input \in Inputs
      /\ DOMAIN declared = 1 .. Len(declared)
      /\ Len(Declared(input)) = Len(declared)
      /\ \A i \in DOMAIN declared : declared[i].addresses = Declared(input)[i].addresses
  BY CheckedList
<1>2. /\ Len(Declared(input)) = NProfiles
      /\ \A i \in Profiles : Len(Declared(input)[i].addresses) <= Width
  BY <1>1, InputAssumption
<1>3. QED
  BY <1>1, <1>2 DEF Profiles

LEMMA DeclaredKeys ==
    ASSUME SourcesRead, Checked, NEW i \in DOMAIN declared
    PROVE  CacheKeys(declared[i]) \subseteq Keys /\ CacheKeys(declared[i]) # {}
<1> DEFINE p == declared[i]
<1>1. IsProfile(p) /\ p.addresses # <<>>
  BY CheckedProfile
<1>2. Keys = DOMAIN FamilyOf
  BY InputAssumption
<1> HIDE DEF p
<1>3. /\ p.addresses \in Seq(DOMAIN FamilyOf)
      /\ \A q \in DOMAIN p.transports : p.transports[q].names \subseteq DOMAIN FamilyOf
  BY <1>1 DEF IsProfile
<1>4. ToSet(p.addresses) \subseteq DOMAIN FamilyOf
  BY <1>3 DEF ToSet
<1>5. ToSet(p.addresses) # {}
  <2>1. 1 \in DOMAIN p.addresses
    BY <1>1, <1>3
  <2>2. QED
    BY <2>1 DEF ToSet
<1>6. CacheKeys(p) \subseteq Keys /\ CacheKeys(p) # {}
  BY <1>2, <1>3, <1>4, <1>5 DEF CacheKeys
<1>7. QED
  BY <1>6 DEF p

LEMMA StartInv == SInv /\ StartGrouping => SInv'
<1> SUFFICES ASSUME SInv, StartGrouping PROVE SInv'
  OBVIOUS
<1>0. /\ stage = "grouping" /\ stage' = "grouped"
      /\ keysOf' = Grouped /\ pending' = keysOf'[1] /\ key' = CHOOSE k \in keysOf'[1] : TRUE
      /\ UNCHANGED <<pc, index, walk, first, owner, root, rep, pickVars, input, choice>>
  BY DEF StartGrouping
<1> USE DEF Read, Checked, Filtered, Decided
<1> SourcesRead /\ Checked /\ input.cacheMiss /\ GroupsFresh
  BY <1>0 DEF SInv, GroupsCalled
<1> UNCHANGED <<declared, explicitFrom, available, profiles, onNetwork, targets, told>>
  BY <1>0 DEF choice
<1>1. keysOf' \in [Profiles -> (SUBSET Keys) \ {{}}]
  BY <1>0, CheckedWidth, DeclaredKeys DEF Grouped
<1>2. 1 \in Profiles
  BY CacheAssumption DEF Profiles
<1>3. key' \in keysOf'[1]
  BY <1>0, <1>1, <1>2
<1>4. Init'
  <2>1. /\ pc' = "key" /\ index' = 1 /\ walk' = 1 /\ first' = 1
        /\ owner' = [k \in Keys |-> None]
        /\ root' = [i \in Profiles |-> i] /\ rep' = root'
        /\ selected' = {} /\ remaining' = {} /\ kept' = {}
    BY <1>0 DEF GroupsFresh, pickVars
  <2>2. QED
    BY <1>0, <1>1, <1>3, <2>1 DEF Init
<1>5. IInv'
  BY <1>4, InitInv, PTL
<1>6. SourcesRead'
  BY <1>0 DEF SourcesRead
<1>7. FamilyFiltered' /\ ReasonsTold'
  BY <1>0, FilterKept DEF SInv, ReasonsTold
<1>8. TargetsExpanded'
  BY <1>0 DEF SInv, TargetsExpanded, Everything
<1>9. GroupsCalled'
  BY <1>0 DEF GroupsCalled, Grouped, GroupsFresh
<1>10. QED
  BY <1>5, <1>6, <1>7, <1>8, <1>9 DEF SInv

\* What a step of cacheGroups and cacheMissTargets leaves alone, and when their
\* targets are read.
LEMMA NextKeeps ==
    ASSUME IInv, Next
    PROVE  /\ keysOf' = keysOf
           /\ pc' \in {"choose", "done"} =>
                \/ pc \in {"choose", "done"}
                \/ pc = "flatten" /\ index = NProfiles /\ root[walk] = walk
<1>1. index \in Profiles /\ (~(index < NProfiles) => index = NProfiles)
  BY CacheAssumption DEF IInv, TypeOK, Profiles
<1>2. QED
  BY <1>1 DEF Next, LookAtKey, Find, FirstFound, Merge, NextProfile, Flatten, Choose, Return, Returned, vars

LEMMA PlaceKept ==
    ASSUME declared' = declared, NEW t
    PROVE  Place(t)' = Place(t)
BY DEF Place, SelectInSeq, Min

LEMMA GroupInv == SInv /\ Group => SInv'
<1> SUFFICES ASSUME SInv, Group PROVE SInv'
  OBVIOUS
<1>0. /\ stage = "grouped" /\ Next /\ UNCHANGED <<input, stage, choice>>
      /\ selected' = IF pc = "flatten" /\ index = NProfiles /\ root[walk] = walk
                     THEN {Place(t) : t \in targets} ELSE selected
  BY DEF Group
<1> USE DEF Read, Checked, Filtered, Decided
<1> UNCHANGED <<declared, explicitFrom, available, profiles, onNetwork, targets, told>>
  BY <1>0 DEF choice
<1>1. IInv'
  BY <1>0, NextInv DEF SInv
<1>2. SourcesRead'
  BY <1>0 DEF SInv, SourcesRead
<1>3. FamilyFiltered' /\ ReasonsTold'
  BY <1>0, FilterKept DEF SInv, ReasonsTold
<1>4. TargetsExpanded'
  BY <1>0 DEF SInv, TargetsExpanded, Everything
<1>5. GroupsCalled'
  <2>1. /\ keysOf = Grouped /\ input.cacheMiss /\ targets = Everything
        /\ pc \in {"choose", "done"} => selected = {Place(t) : t \in Everything}
    BY <1>0 DEF SInv, GroupsCalled, TargetsExpanded
  <2>2. /\ keysOf' = keysOf
        /\ pc' \in {"choose", "done"} =>
                \/ pc \in {"choose", "done"}
                \/ pc = "flatten" /\ index = NProfiles /\ root[walk] = walk
    BY <1>0, NextKeeps DEF SInv
  <2>3. Grouped' = Grouped /\ Everything' = Everything
    BY <1>0 DEF Grouped, Everything
  <2>4. pc' \in {"choose", "done"} => selected' = {Place(t) : t \in Everything}
    BY <1>0, <2>1, <2>2
  <2>5. {Place(t) : t \in Everything}' = {Place(t) : t \in Everything}
    BY <2>3, PlaceKept
  <2>6. stage' = "grouped" /\ input'.cacheMiss
    BY <1>0, <2>1
  <2>7. QED
    BY <2>1, <2>2, <2>3, <2>4, <2>5, <2>6 DEF GroupsCalled
<1>6. QED
  BY <1>1, <1>2, <1>3, <1>4, <1>5 DEF SInv

LEMMA CacheMissInv == SInv /\ CacheMissTargets => SInv'
<1> SUFFICES ASSUME SInv, CacheMissTargets PROVE SInv'
  OBVIOUS
<1>0. /\ stage = "grouped" /\ stage' = "assert" /\ pc = "done"
      /\ targets' = {t \in targets : Place(t) \in kept}
      /\ told' = told \cup {<<"dropped", t.resolver, t.address, t.protocol>> : t \in targets \ targets'}
      /\ UNCHANGED <<input, declared, explicitFrom, available, profiles, onNetwork, vars>>
  BY DEF CacheMissTargets
<1> USE DEF Read, Checked, Filtered, Decided
<1>1. IInv'
  BY <1>0, StutterInv DEF SInv
<1>2. SourcesRead'
  BY <1>0 DEF SInv, SourcesRead
<1>3. FamilyFiltered'
  BY <1>0, FilterKept DEF SInv
<1>4. told \subseteq told'
  BY <1>0
<1>5. ReasonsTold'
  <2>1. Pruned' => Pruned
    BY <1>0 DEF Pruned
  <2>2. QED
    BY <1>0, <1>4, <2>1 DEF SInv, ReasonsTold
<1>6. targets = Everything /\ input.cacheMiss /\ Everything' = Everything
  BY <1>0 DEF SInv, TargetsExpanded, GroupsCalled, Everything
<1>7. TargetsExpanded'
  <2>1. kept' = kept
    BY <1>0 DEF vars, pickVars
  <2>2. {t \in Everything : Place(t) \in kept}' = {t \in Everything : Place(t) \in kept}
    BY <1>0, <1>6, <2>1, PlaceKept
  <2>3. \A t \in Everything \ targets' : DroppedTold(t)'
    BY <1>0, <1>6 DEF DroppedTold
  <2>4. targets' = {t \in Everything : Place(t) \in kept}
    BY <1>0, <1>6
  <2>5. QED
    BY <1>0, <1>6, <2>2, <2>3, <2>4 DEF TargetsExpanded
<1>8. GroupsCalled'
  <2>1. keysOf = Grouped /\ selected = {Place(t) : t \in Everything}
    BY <1>0 DEF SInv, GroupsCalled
  <2>2. keysOf' = keysOf /\ selected' = selected /\ pc' = pc
    BY <1>0 DEF vars, pickVars
  <2>3. Grouped' = Grouped
    BY <1>0 DEF Grouped
  <2>4. {Place(t) : t \in Everything}' = {Place(t) : t \in Everything}
    BY <1>0, <1>6, PlaceKept
  <2>5. QED
    BY <1>0, <1>6, <2>1, <2>2, <2>3, <2>4 DEF GroupsCalled
<1>9. QED
  BY <1>1, <1>2, <1>3, <1>5, <1>7, <1>8 DEF SInv

\* What was decided stays decided.
LEMMA ChoiceKept ==
    ASSUME Decided, Decided', TargetsExpanded, GroupsCalled, told \subseteq told',
           UNCHANGED <<input, declared, profiles, targets, vars>>
    PROVE  TargetsExpanded' /\ GroupsCalled'
<1>1. UNCHANGED <<keysOf, pc, selected, kept>>
  BY DEF vars, pickVars
<1>2. Everything' = Everything /\ Grouped' = Grouped
  BY DEF Everything, Grouped
<1>3. \A t : Place(t)' = Place(t)
  BY PlaceKept
<1>4. {Place(t) : t \in Everything}' = {Place(t) : t \in Everything}
  BY <1>2, <1>3
<1>5. {t \in Everything : Place(t) \in kept}' = {t \in Everything : Place(t) \in kept}
  BY <1>1, <1>2, <1>3
<1>6. TargetsExpanded'
  BY <1>1, <1>2, <1>5 DEF TargetsExpanded, DroppedTold, Decided
<1>7. GroupsCalled'
  BY <1>1, <1>2, <1>4 DEF GroupsCalled, Decided
<1>8. QED
  BY <1>6, <1>7

LEMMA ValidateInv == SInv /\ ValidateAssertionTargets /\ UNCHANGED <<input, vars>> => SInv'
<1> SUFFICES ASSUME SInv, ValidateAssertionTargets, UNCHANGED <<input, vars>>, ~Refuse PROVE SInv'
  BY RefuseInv
<1>0. stage = "assert" /\ stage' = "warn" /\ input' = input /\ UNCHANGED choice
  BY DEF ValidateAssertionTargets
<1> USE DEF Read, Checked, Filtered, Decided
<1> UNCHANGED <<declared, explicitFrom, available, profiles, onNetwork, targets, told>>
  BY <1>0 DEF choice
<1>1. IInv'
  BY StutterInv DEF SInv
<1>2. SourcesRead'
  BY <1>0 DEF SInv, SourcesRead
<1>3. FamilyFiltered' /\ ReasonsTold'
  BY <1>0, FilterKept DEF SInv, ReasonsTold
<1>4. TargetsExpanded' /\ GroupsCalled'
  BY <1>0, ChoiceKept DEF SInv
<1>5. QED
  BY <1>1, <1>2, <1>3, <1>4 DEF SInv

LEMMA WarnInv == SInv /\ WarnAboutTargets /\ UNCHANGED <<input, vars>> => SInv'
<1> SUFFICES ASSUME SInv, WarnAboutTargets, UNCHANGED <<input, vars>> PROVE SInv'
  OBVIOUS
<1>0. /\ stage = "warn" /\ stage' = "ready" /\ input' = input /\ told \subseteq told'
      /\ UNCHANGED <<declared, explicitFrom, available, profiles, onNetwork, targets>>
  BY DEF WarnAboutTargets
<1> USE DEF Read, Checked, Filtered, Decided
<1>1. IInv'
  BY StutterInv DEF SInv
<1>2. SourcesRead'
  BY <1>0 DEF SInv, SourcesRead
<1>3. FamilyFiltered' /\ ReasonsTold'
  BY <1>0, FilterKept DEF SInv, ReasonsTold
<1>4. TargetsExpanded' /\ GroupsCalled'
  BY <1>0, ChoiceKept DEF SInv
<1>5. QED
  BY <1>1, <1>2, <1>3, <1>4 DEF SInv

LEMMA SettledInv == SInv /\ UNCHANGED <<input, stage, choice, vars>> => SInv'
<1> SUFFICES ASSUME SInv, UNCHANGED <<input, stage, choice, vars>> PROVE SInv'
  OBVIOUS
<1> USE DEF Read, Checked, Filtered, Decided
<1> UNCHANGED <<declared, explicitFrom, available, profiles, onNetwork, targets, told>>
  BY DEF choice
<1>1. IInv'
  BY StutterInv DEF SInv
<1>2. SourcesRead'
  BY DEF SInv, SourcesRead
<1>3. FamilyFiltered' /\ ReasonsTold'
  <2>1. CASE Filtered
    BY <2>1, FilterKept DEF SInv, ReasonsTold
  <2>2. CASE ~Filtered
    BY <2>2 DEF SInv, FamilyFiltered, ReasonsTold
  <2>3. QED
    BY <2>1, <2>2
<1>4. UNCHANGED Grouped /\ UNCHANGED Everything
  BY DEF Grouped, Everything
<1>5. TargetsExpanded' /\ GroupsCalled'
  <2>1. CASE Decided
    BY <2>1, ChoiceKept DEF SInv
  <2>2. CASE ~Decided
    <3>1. TargetsExpanded'
      BY <1>4, <2>2 DEF SInv, TargetsExpanded
    <3>2. {Place(t) : t \in Everything}' = {Place(t) : t \in Everything}
      BY <1>4, PlaceKept
    <3>3. UNCHANGED <<keysOf, pc, index, walk, first, owner, root, rep, selected, remaining, kept>>
      BY DEF vars, loopVars, groupVars, pickVars
    <3>4. GroupsFresh' <=> GroupsFresh
      BY <3>3 DEF GroupsFresh
    <3>5. GroupsCalled'
      BY <1>4, <2>2, <3>2, <3>3, <3>4 DEF SInv, GroupsCalled
    <3>6. QED
      BY <3>1, <3>5
  <2>3. QED
    BY <2>1, <2>2
<1>6. QED
  BY <1>1, <1>2, <1>3, <1>5 DEF SInv

\* SInv is inductive.
THEOREM SelectionInvariant == SelectionSpec => []SInv
<1>1. SInv /\ [SelectionNext]_<<input, stage, choice, vars>> => SInv'
  <2> SUFFICES ASSUME SInv, [SelectionNext]_<<input, stage, choice, vars>> PROVE SInv'
    OBVIOUS
  <2>1. CASE Step /\ UNCHANGED <<input, vars>>
    BY <2>1, LoadInv, CheckInv, DetectInv, FilterInv, ClassifyInv, ExpandInv, ValidateInv, WarnInv DEF Step
  <2>2. CASE StartGrouping \/ Group \/ CacheMissTargets
    BY <2>2, StartInv, GroupInv, CacheMissInv
  <2>3. CASE Settled \/ UNCHANGED <<input, stage, choice, vars>>
    BY <2>3, SettledInv DEF Settled
  <2>4. QED
    BY <2>1, <2>2, <2>3 DEF SelectionNext
<1>2. QED
  BY <1>1, SelectionInitInv, PTL DEF SelectionSpec

-----------------------------------------------------------------------------
(***************************************************************************)
(* What a run that is ready measures.                                      *)
(***************************************************************************)
\* A row is one address of what the filter left of a declared profile, on one
\* protocol of it.
RowOf(t, i, j) ==
    /\ i \in DOMAIN declared /\ j \in DOMAIN declared[i].addresses
    /\ i \in DOMAIN profiles /\ j \in DOMAIN profiles[i].addresses
    /\ profiles[i].addresses[j] = declared[i].addresses[j]
    /\ t.protocol \in input.protocols \cap DOMAIN profiles[i].transports
    /\ t = [resolver |-> declared[i].id, local |-> profiles[i].local,
            protocol |-> t.protocol, address |-> declared[i].addresses[j],
            bootstrap |-> ToSet(profiles[i].transports[t.protocol].bootstrap)]

\* What the filter leaves of a profile, field by field.
LEMMA Left ==
    ASSUME SourcesRead, FamilyFiltered, Filtered, NEW i \in DOMAIN profiles
    PROVE  /\ i \in DOMAIN declared /\ profiles[i].id = declared[i].id
           /\ profiles[i].addresses =
                IF Spared(i) THEN declared[i].addresses
                ELSE FilterAddresses(declared[i].addresses, input.family, available)
           /\ profiles[i].transports =
                IF Spared(i) THEN declared[i].transports
                ELSE FilterBootstrapByFamily(declared[i].transports, input.family, available)
<1>1. i \in DOMAIN declared /\ profiles[i] = Narrowed(i)
  BY DEF FamilyFiltered
<1>2. IsProfile(declared[i])
  BY <1>1, CheckedProfile DEF Filtered
<1>3. /\ profiles[i].id = declared[i].id
      /\ profiles[i].addresses = LeftOf(i).addresses /\ profiles[i].transports = LeftOf(i).transports
  BY <1>1 DEF Narrowed
<1>4. CASE Spared(i)
  BY <1>1, <1>3, <1>4 DEF LeftOf
<1>5. CASE ~Spared(i)
  <2>1. LeftOf(i) = [id |-> declared[i].id, wellFormed |-> declared[i].wellFormed,
               local |-> declared[i].local,
               addresses |-> FilterAddresses(declared[i].addresses, input.family, available),
               transports |-> FilterBootstrapByFamily(declared[i].transports, input.family, available)]
    BY <1>2, <1>5, FilteredProfile DEF LeftOf
  <2>2. /\ LeftOf(i).addresses = FilterAddresses(declared[i].addresses, input.family, available)
        /\ LeftOf(i).transports = FilterBootstrapByFamily(declared[i].transports, input.family, available)
    BY <2>1
  <2>3. QED
    BY <1>1, <1>3, <1>5, <2>2
<1>6. QED
  BY <1>4, <1>5

\* The transports of a checked profile.
LEMMA SpecShape ==
    ASSUME SourcesRead, Checked, NEW i \in DOMAIN declared, NEW q \in DOMAIN declared[i].transports
    PROVE  /\ q \in Range(AllProtocols)
           /\ declared[i].transports[q] =
                [names |-> declared[i].transports[q].names,
                 bootstrap |-> declared[i].transports[q].bootstrap]
<1> DEFINE T == declared[i].transports
<1>1. IsProfile(declared[i])
  BY CheckedProfile
<1>2. T = [p \in DOMAIN T \cap Range(AllProtocols) |-> [names |-> T[p].names, bootstrap |-> T[p].bootstrap]]
  BY <1>1 DEF IsProfile
<1>3. q \in DOMAIN T \cap Range(AllProtocols)
  <2> HIDE DEF T
  <2>1. DOMAIN T = DOMAIN T \cap Range(AllProtocols)
    BY <1>2
  <2>2. q \in DOMAIN T
    BY DEF T
  <2>3. QED
    BY <2>1, <2>2
<1>4. T[q] = [names |-> T[q].names, bootstrap |-> T[q].bootstrap]
  <2> HIDE DEF T
  <2> QED
    BY <1>2, <1>3
<1>5. QED
  BY <1>3, <1>4

LEMMA KeptAddress ==
    ASSUME SourcesRead, FamilyFiltered, Filtered,
           NEW i \in DOMAIN profiles, NEW j \in DOMAIN profiles[i].addresses
    PROVE  /\ j \in DOMAIN declared[i].addresses
           /\ profiles[i].addresses[j] = declared[i].addresses[j]
           /\ \/ Spared(i)
              \/ ~IsLiteral(declared[i].addresses[j])
              \/ FamilyAllowed(declared[i].addresses[j], input.family, available)
<1>1. CASE Spared(i)
  BY <1>1, Left
<1>2. CASE ~Spared(i)
  <2>1. profiles[i].addresses = FilterAddresses(declared[i].addresses, input.family, available)
    BY <1>2, Left
  <2>2. QED
    BY <2>1 DEF FilterAddresses, Restrict
<1>3. QED
  BY <1>1, <1>2

\* A candidate of a filtered transport is allowed.
LEMMA KeptCandidate ==
    ASSUME SourcesRead, FamilyFiltered, Filtered,
           NEW i \in DOMAIN profiles, ~Spared(i), NEW q \in DOMAIN profiles[i].transports,
           NEW a \in ToSet(profiles[i].transports[q].bootstrap)
    PROVE  FamilyAllowed(a, input.family, available) /\ IsLiteral(a)
<1> DEFINE T == declared[i].transports
           Ok(r) == {k \in DOMAIN T[r].bootstrap : FamilyAllowed(T[r].bootstrap[k], input.family, available)}
           D == {r \in DOMAIN T : DOMAIN T[r].bootstrap = {} \/ Ok(r) # {}}
<1>1. /\ i \in DOMAIN declared
      /\ profiles[i].transports = FilterBootstrapByFamily(T, input.family, available)
  BY Left
<1>2. profiles[i].transports =
        [r \in D |-> [T[r] EXCEPT !.bootstrap = Restrict(T[r].bootstrap, Ok(r))]]
  BY <1>1 DEF FilterBootstrapByFamily
<1>3. q \in DOMAIN T /\ profiles[i].transports[q] = [T[q] EXCEPT !.bootstrap = Restrict(T[q].bootstrap, Ok(q))]
  BY <1>2
<1>4. T[q] = [names |-> T[q].names, bootstrap |-> T[q].bootstrap]
  BY <1>1, <1>3, SpecShape DEF Filtered
<1> DEFINE R == Restrict(T[q].bootstrap, Ok(q))
<1>5. profiles[i].transports[q].bootstrap = R
  <2> DEFINE P == T[q]
  <2> HIDE DEF R, P
  <2>1. [P EXCEPT !.bootstrap = R] = [names |-> P.names, bootstrap |-> R]
    BY <1>4 DEF P
  <2>2. profiles[i].transports[q] = [P EXCEPT !.bootstrap = R]
    BY <1>3 DEF P, R
  <2>3. QED
    BY <2>1, <2>2
<1>6. PICK k \in DOMAIN R : a = R[k]
  BY <1>5 DEF ToSet
<1>7. k \in Ok(q) /\ a = T[q].bootstrap[k] /\ k \in DOMAIN T[q].bootstrap
  BY <1>6 DEF Restrict
<1>8. IsLiteral(a)
  BY <1>1, <1>3, <1>7, CheckedProfile DEF Filtered
<1>9. QED
  BY <1>7, <1>8

LEMMA RowsAre ==
    ASSUME SourcesRead, FamilyFiltered, Filtered, NEW t \in Everything
    PROVE  \E i \in DOMAIN declared : \E j \in DOMAIN declared[i].addresses : RowOf(t, i, j)
<1>1. PICK i \in DOMAIN profiles :
        t \in {[resolver |-> profiles[i].id, local |-> profiles[i].local,
                protocol |-> p, address |-> a,
                bootstrap |-> ToSet(profiles[i].transports[p].bootstrap)] :
                  a \in ToSet(profiles[i].addresses),
                  p \in input.protocols \cap DOMAIN profiles[i].transports}
  BY DEF Everything, Expand
<1>2. PICK a \in ToSet(profiles[i].addresses), p \in input.protocols \cap DOMAIN profiles[i].transports :
        t = [resolver |-> profiles[i].id, local |-> profiles[i].local,
             protocol |-> p, address |-> a,
             bootstrap |-> ToSet(profiles[i].transports[p].bootstrap)]
  BY <1>1
<1>3. PICK j \in DOMAIN profiles[i].addresses : a = profiles[i].addresses[j]
  BY DEF ToSet
<1>4. /\ i \in DOMAIN declared /\ j \in DOMAIN declared[i].addresses
      /\ profiles[i].id = declared[i].id /\ profiles[i].addresses[j] = declared[i].addresses[j]
  BY Left, KeptAddress
<1>5. t.protocol = p
  BY <1>2
<1>6. RowOf(t, i, j)
  BY <1>2, <1>3, <1>4, <1>5 DEF RowOf
<1>7. QED
  BY <1>4, <1>6

LEMMA RowPlace ==
    ASSUME SourcesRead, Checked, NEW i \in DOMAIN declared, NEW j \in DOMAIN declared[i].addresses,
           NEW t, RowOf(t, i, j)
    PROVE  Place(t) = <<i, (Rank(t.protocol) - 1) * Width + j>> /\ Place(t)[1] = i
<1>1. t.resolver = declared[i].id /\ t.address = declared[i].addresses[j]
  BY DEF RowOf
<1>2. QED
  BY <1>1, PlaceOf

\* A run dials only what its family allows.
THEOREM Family == SelectionSpec => []FamilyHonoured
<1>1. SInv => FamilyHonoured
  <2> SUFFICES ASSUME SInv, stage = "ready", NEW t \in targets, NEW a \in Dialled(t)
               PROVE  \/ input.family = "both"
                      \/ input.family \in {"4", "6"} /\ FamilyOf[a] = input.family
                      \/ /\ input.family = "auto"
                         /\ \/ Place(t)[1] > explicitFrom
                            \/ available = {}
                            \/ FamilyOf[a] \in available \cup {"name"}
                            \/ IsLocalStub(a)
    BY DEF FamilyHonoured
  <2>1. SourcesRead /\ FamilyFiltered /\ Filtered /\ Checked /\ ~NeedsLiterals(declared, input.family)
    BY DEF SInv, Filtered, Checked, Read, FamilyFiltered
  <2>2. t \in Everything
    BY DEF SInv, TargetsExpanded, Decided
  <2>3. PICK i \in DOMAIN declared : \E j \in DOMAIN declared[i].addresses : RowOf(t, i, j)
    BY <2>1, <2>2, RowsAre
  <2>4. PICK j \in DOMAIN declared[i].addresses : RowOf(t, i, j)
    BY <2>3
  <2>5. Place(t)[1] = i
    BY <2>1, <2>4, RowPlace
  <2>6. i \in DOMAIN profiles /\ j \in DOMAIN profiles[i].addresses
        /\ t.protocol \in DOMAIN profiles[i].transports
        /\ t.address = declared[i].addresses[j]
        /\ t.bootstrap = ToSet(profiles[i].transports[t.protocol].bootstrap)
    BY <2>4 DEF RowOf
  <2>7. input.family \in {"auto", "4", "6", "both"}
    BY <2>1, InputAssumption DEF SourcesRead
  <2>8. CASE Spared(i)
    BY <2>5, <2>7, <2>8 DEF Spared
  <2>9. CASE ~Spared(i)
    <3>1. ~IsLiteral(a) \/ FamilyAllowed(a, input.family, available)
      <4>1. CASE a = t.address
        BY <2>1, <2>6, <2>9, <4>1, KeptAddress
      <4>2. CASE a \in t.bootstrap
        BY <2>1, <2>6, <2>9, <4>2, KeptCandidate
      <4>3. QED
        BY <4>1, <4>2 DEF Dialled
    <3>2. input.family \in {"4", "6"} => IsLiteral(a)
      <4>1. CASE a = t.address
        <5>1. declared[i].addresses[j] \in ToSet(declared[i].addresses)
          BY DEF ToSet
        <5>2. QED
          BY <2>1, <2>6, <4>1, <5>1 DEF NeedsLiterals
      <4>2. CASE a \in t.bootstrap
        BY <2>1, <2>6, <2>9, <4>2, KeptCandidate
      <4>3. QED
        BY <4>1, <4>2 DEF Dialled
    <3>3. QED
      BY <2>7, <3>1, <3>2 DEF FamilyAllowed, AllowedFamilies, IsLiteral
  <2>10. QED
    BY <2>8, <2>9
<1>2. QED
  BY <1>1, SelectionInvariant, PTL

\* Two rows of a cache-miss run have two places.
LEMMA RankOf ==
    ASSUME NEW p \in Range(AllProtocols)
    PROVE  Rank(p) \in 1 .. 5 /\ AllProtocols[Rank(p)] = p
<1>1. DOMAIN AllProtocols = 1 .. 5
  BY DEF AllProtocols
<1>2. \E r \in DOMAIN AllProtocols : AllProtocols[r] = p
  BY DEF Range
<1>3. QED
  BY <1>1, <1>2 DEF Rank

LEMMA PlacesDiffer ==
    ASSUME SourcesRead, FamilyFiltered, Filtered, input.cacheMiss,
           NEW t \in Everything, NEW u \in Everything, Place(t) = Place(u)
    PROVE  t = u
<1> Checked
  BY DEF Filtered
<1>1. PICK i \in DOMAIN declared : \E j \in DOMAIN declared[i].addresses : RowOf(t, i, j)
  BY RowsAre
<1>2. PICK j \in DOMAIN declared[i].addresses : RowOf(t, i, j)
  BY <1>1
<1>3. PICK m \in DOMAIN declared : \E n \in DOMAIN declared[m].addresses : RowOf(u, m, n)
  BY RowsAre
<1>4. PICK n \in DOMAIN declared[m].addresses : RowOf(u, m, n)
  BY <1>3
<1>5. /\ Place(t) = <<i, (Rank(t.protocol) - 1) * Width + j>>
      /\ Place(u) = <<m, (Rank(u.protocol) - 1) * Width + n>>
  BY <1>2, <1>4, RowPlace
<1>6. i = m /\ (Rank(t.protocol) - 1) * Width + j = (Rank(u.protocol) - 1) * Width + n
  <2> DEFINE x == (Rank(t.protocol) - 1) * Width + j
             y == (Rank(u.protocol) - 1) * Width + n
  <2>1. <<i, x>> = <<m, y>>
    BY <1>5
  <2> HIDE DEF x, y
  <2>2. i = m /\ x = y
    BY <2>1
  <2>3. QED
    BY <2>2 DEF x, y
<1>7. j \in 1 .. Width /\ n \in 1 .. Width /\ Width \in Nat
  <2>1. Len(declared[i].addresses) <= Width /\ IsProfile(declared[i])
    BY CheckedWidth, CheckedProfile
  <2>2. declared[i].addresses \in Seq(DOMAIN FamilyOf)
    BY <2>1 DEF IsProfile
  <2>3. /\ DOMAIN declared[i].addresses = 1 .. Len(declared[i].addresses)
        /\ Len(declared[i].addresses) \in Nat
    BY <2>2
  <2>4. Width \in Nat
    <3>1. Len(AllProtocols) = 5
      BY DEF AllProtocols
    <3>2. QED
      BY <3>1, CacheAssumption DEF Width
  <2>5. QED
    BY <1>6, <2>1, <2>3, <2>4
<1>8. /\ t.protocol \in DOMAIN profiles[i].transports /\ u.protocol \in DOMAIN profiles[i].transports
      /\ i \in DOMAIN profiles
  BY <1>2, <1>4, <1>6 DEF RowOf
<1>9. t.protocol \in Range(AllProtocols) /\ u.protocol \in Range(AllProtocols)
  <2>1. DOMAIN profiles[i].transports \subseteq DOMAIN declared[i].transports
    <3>1. CASE Spared(i)
      BY <1>8, <3>1, Left
    <3>2. CASE ~Spared(i)
      <4>1. profiles[i].transports = FilterBootstrapByFamily(declared[i].transports, input.family, available)
        BY <1>8, <3>2, Left
      <4>2. QED
        BY <4>1 DEF FilterBootstrapByFamily
    <3>3. QED
      BY <3>1, <3>2
  <2>2. QED
    BY <1>8, <2>1, SpecShape
<1>10. t.protocol = u.protocol /\ j = n
  <2> DEFINE r == Rank(t.protocol)
             s == Rank(u.protocol)
  <2>1. /\ r \in 1 .. 5 /\ s \in 1 .. 5
        /\ AllProtocols[r] = t.protocol /\ AllProtocols[s] = u.protocol
    BY <1>9, RankOf
  <2> HIDE DEF r, s
  <2>2. (r - 1) * Width + j = (s - 1) * Width + n
    BY <1>6 DEF r, s
  <2>3. r = s /\ j = n
    BY <1>7, <2>1, <2>2, SMTT(30)
  <2>4. QED
    BY <2>1, <2>3
<1>11. QED
  BY <1>2, <1>4, <1>6, <1>10 DEF RowOf

\* In a run that is ready a target is an endpoint kept, and stands for its cache.
LEMMA KeptTargets ==
    ASSUME SInv, stage = "ready", input.cacheMiss
    PROVE  /\ pc = "done" /\ keysOf = Grouped /\ remaining = {}
           /\ selected = {Place(t) : t \in Everything}
           /\ targets = {t \in Everything : Place(t) \in kept}
           /\ IInv /\ kept \subseteq selected
BY DEF SInv, GroupsCalled, TargetsExpanded, Decided, IInv, Picked, TypeOK

\* A cache-miss run measures each resolver once.
THEOREM MeasuredOnce == SelectionSpec => []ResolverMeasuredOnce
<1> DEFINE Reached(i, j) == CacheKeys(declared[i]) \cap CacheKeys(declared[j]) # {}
           Apart(i, j) == \E group \in SUBSET Profiles :
                /\ i \in group /\ j \notin group
                /\ \A x \in group : \A y \in Profiles : Reached(x, y) => y \in group
<1>1. SInv /\ OneEndpointPerCache => ResolverMeasuredOnce
  <2> SUFFICES ASSUME SInv, OneEndpointPerCache, stage = "ready", input.cacheMiss,
                      NEW t \in targets, NEW u \in targets, t # u
               PROVE  Apart(Place(t)[1], Place(u)[1])
    BY DEF ResolverMeasuredOnce
  <2>1. SourcesRead /\ FamilyFiltered /\ Filtered
    BY DEF SInv, Filtered, Checked, Read
  <2>2. /\ pc = "done" /\ keysOf = Grouped
        /\ t \in Everything /\ u \in Everything
        /\ Place(t) \in kept /\ Place(u) \in kept
        /\ Place(t) \in selected /\ Place(u) \in selected
        /\ selected \subseteq Endpoints
    BY KeptTargets DEF IInv, TypeOK
  <2> DEFINE v == Place(t)
             w == Place(u)
  <2>3. v # w
    BY <2>1, <2>2, PlacesDiffer
  <2> HIDE DEF v, w
  <2>4. v \in kept /\ w \in kept /\ v \in selected /\ w \in selected /\ v \in Endpoints /\ w \in Endpoints
    BY <2>2 DEF v, w
  <2>5. v[1] \in Profiles /\ w[1] \in Profiles
    BY <2>4 DEF Endpoints
  <2>6. ~Linked(v[1], w[1])
    <3>1. Linked(v[1], w[1]) => Linked(w[1], v[1])
      BY DEF Linked
    <3>2. /\ Linked(v[1], w[1]) => Prefers(v, w)
          /\ Linked(w[1], v[1]) => Prefers(w, v)
      BY <2>2, <2>3, <2>4 DEF OneEndpointPerCache
    <3>3. QED
      BY <2>4, <3>1, <3>2, PrefersIsStrict
  <2>7. PICK label \in [Profiles -> Profiles] : Respects(label) /\ label[v[1]] # label[w[1]]
    BY <2>6 DEF Linked
  <2> DEFINE group == {x \in Profiles : label[x] = label[v[1]]}
  <2>8. ASSUME NEW x \in group, NEW y \in Profiles, Reached(x, y) PROVE y \in group
    <3>1. Share(x, y)
      BY <2>2, <2>8 DEF Share, Grouped
    <3>2. label[x] = label[y]
      BY <2>7, <3>1 DEF Respects
    <3>3. QED
      BY <3>2
  <2>9. v[1] \in group /\ w[1] \notin group /\ group \in SUBSET Profiles
    BY <2>5, <2>7
  <2>10. Apart(v[1], w[1])
    <3> HIDE DEF group, Reached
    <3> QED
      BY <2>8, <2>9
  <2>11. QED
    BY <2>10 DEF v, w
<1>2. SInv => OneEndpointPerCache
  BY PickedPerCache DEF SInv
<1>3. QED
  BY <1>1, <1>2, SelectionInvariant, PTL

\* What the filter has no reason to drop stays.
LEMMA Stays ==
    ASSUME SourcesRead, FamilyFiltered, Filtered,
           NEW i \in DOMAIN declared, NEW j \in DOMAIN declared[i].addresses,
           NEW q \in DOMAIN declared[i].transports,
           \/ Spared(i)
           \/ /\ \/ ~IsLiteral(declared[i].addresses[j])
                 \/ FamilyAllowed(declared[i].addresses[j], input.family, available)
              /\ \/ DOMAIN declared[i].transports[q].bootstrap = {}
                 \/ \E a \in ToSet(declared[i].transports[q].bootstrap) :
                        FamilyAllowed(a, input.family, available)
    PROVE  /\ i \in DOMAIN profiles /\ j \in DOMAIN profiles[i].addresses
           /\ q \in DOMAIN profiles[i].transports
<1> DEFINE A == FilterAddresses(declared[i].addresses, input.family, available)
           T == FilterBootstrapByFamily(declared[i].transports, input.family, available)
<1>1. CASE Spared(i)
  <2>1. i \in DOMAIN profiles
    BY <1>1 DEF FamilyFiltered, Remains
  <2>2. QED
    BY <1>1, <2>1, Left
<1>2. CASE ~Spared(i)
  <2>1. j \in DOMAIN A
    BY <1>2 DEF FilterAddresses, Restrict
  <2>2. q \in DOMAIN T
    BY <1>2 DEF FilterBootstrapByFamily, ToSet
  <2> HIDE DEF A, T
  <2>3. LeftOf(i) = [id |-> declared[i].id, wellFormed |-> declared[i].wellFormed,
                     local |-> declared[i].local, addresses |-> A, transports |-> T]
    BY <1>2, CheckedProfile, FilteredProfile DEF LeftOf, A, T, Filtered
  <2>4. LeftOf(i).addresses = A /\ LeftOf(i).transports = T
    BY <2>3
  <2>5. i \in DOMAIN profiles
    BY <2>1, <2>2, <2>4 DEF FamilyFiltered, Remains
  <2>6. profiles[i].addresses = A /\ profiles[i].transports = T
    BY <1>2, <2>5, Left DEF A, T
  <2>7. QED
    BY <2>1, <2>2, <2>5, <2>6
<1>3. QED
  BY <1>1, <1>2

\* An endpoint left by the filter is a target.
LEMMA StaysOffered ==
    ASSUME SourcesRead, FamilyFiltered, Filtered,
           NEW i \in DOMAIN profiles, NEW j \in DOMAIN profiles[i].addresses,
           NEW q \in input.protocols \cap DOMAIN profiles[i].transports
    PROVE  \E u \in Everything :
              /\ u.resolver = declared[i].id /\ u.address = declared[i].addresses[j] /\ u.protocol = q
              /\ Place(u)[1] = i
<1> DEFINE u == [resolver |-> profiles[i].id, local |-> profiles[i].local,
                 protocol |-> q, address |-> profiles[i].addresses[j],
                 bootstrap |-> ToSet(profiles[i].transports[q].bootstrap)]
<1>1. profiles[i].addresses[j] \in ToSet(profiles[i].addresses)
  BY DEF ToSet
<1>2. u \in Everything
  BY <1>1 DEF Everything, Expand
<1>3. /\ i \in DOMAIN declared /\ j \in DOMAIN declared[i].addresses
      /\ profiles[i].id = declared[i].id /\ profiles[i].addresses[j] = declared[i].addresses[j]
  BY Left, KeptAddress
<1>4. u.resolver = declared[i].id /\ u.address = declared[i].addresses[j] /\ u.protocol = q
  BY <1>3
<1> HIDE DEF u
<1>5. Place(u)[1] = i
  BY <1>3, <1>4, PlaceOf DEF Filtered
<1>6. QED
  BY <1>2, <1>4, <1>5

LEMMA OfferedRow ==
    ASSUME NEW i \in DOMAIN declared, NEW t \in Offered(i)
    PROVE  \E j \in DOMAIN declared[i].addresses :
              /\ t.resolver = declared[i].id /\ t.address = declared[i].addresses[j]
              /\ t.protocol \in input.protocols \cap DOMAIN declared[i].transports
              /\ t.bootstrap = ToSet(declared[i].transports[t.protocol].bootstrap)
<1> DEFINE d == declared[i]
<1>1. DOMAIN <<d>> = {1} /\ <<d>>[1] = d
  OBVIOUS
<1> HIDE DEF d
<1>2. PICK a \in ToSet(d.addresses), p \in input.protocols \cap DOMAIN d.transports :
        t = [resolver |-> d.id, local |-> d.local, protocol |-> p, address |-> a,
             bootstrap |-> ToSet(d.transports[p].bootstrap)]
  BY <1>1 DEF Offered, Expand, d
<1>3. PICK j \in DOMAIN d.addresses : a = d.addresses[j]
  BY DEF ToSet
<1>4. QED
  BY <1>2, <1>3 DEF d

\* An endpoint that is not a target is one the filter had a reason to drop.
LEMMA DroppedForAReason ==
    ASSUME SInv, stage = "ready", NEW i \in DOMAIN declared, NEW t \in Offered(i)
    PROVE  \/ \E u \in Everything :
                /\ u.resolver = t.resolver /\ u.address = t.address /\ u.protocol = t.protocol
                /\ Place(u)[1] = i
           \/ input.family \in {"4", "6"} /\ (~OfFamily(t.address) \/ ~\E a \in Dialled(t) : OfFamily(a))
           \/ input.family = "auto" /\ i <= explicitFrom /\ \E w \in told : w[1] = "family"
<1>1. /\ SourcesRead /\ FamilyFiltered /\ Filtered /\ Checked /\ Read /\ ReasonsTold
      /\ ~NeedsLiterals(declared, input.family)
  BY DEF SInv, Filtered, Checked, Read, FamilyFiltered
<1>2. PICK j \in DOMAIN declared[i].addresses :
              /\ t.resolver = declared[i].id /\ t.address = declared[i].addresses[j]
              /\ t.protocol \in input.protocols \cap DOMAIN declared[i].transports
              /\ t.bootstrap = ToSet(declared[i].transports[t.protocol].bootstrap)
  BY OfferedRow
<1> DEFINE q == t.protocol
           a == declared[i].addresses[j]
           candidates == declared[i].transports[q].bootstrap
           Target == \E u \in Everything :
                        /\ u.resolver = t.resolver /\ u.address = t.address /\ u.protocol = t.protocol
                        /\ Place(u)[1] = i
<1>3. /\ i \in DOMAIN profiles /\ j \in DOMAIN profiles[i].addresses
      /\ q \in DOMAIN profiles[i].transports
      => Target
  BY <1>1, <1>2, StaysOffered
<1>4. input.family \in {"auto", "4", "6", "both"}
  BY <1>1, InputAssumption DEF SourcesRead
<1>5. \A k \in DOMAIN candidates : IsLiteral(candidates[k])
  BY <1>1, <1>2, CheckedProfile
<1>6. i \in 1 .. Len(declared) /\ explicitFrom \in Nat
  BY <1>1, CheckedList
<1>7. declared[i].addresses \in Seq(DOMAIN FamilyOf) /\ a \in DOMAIN FamilyOf
  <2>1. IsProfile(declared[i])
    BY <1>1, CheckedProfile
  <2>2. declared[i].addresses \in Seq(DOMAIN FamilyOf)
    BY <2>1 DEF IsProfile
  <2>3. QED
    BY <2>2
<1>8. ToSet(candidates) \subseteq DOMAIN FamilyOf
  <2>1. IsProfile(declared[i])
    BY <1>1, CheckedProfile
  <2>2. QED
    BY <1>2, <2>1 DEF IsProfile
<1> HIDE DEF Target, candidates
<1>9. CASE Spared(i)
  <2>1. /\ i \in DOMAIN profiles /\ j \in DOMAIN profiles[i].addresses
        /\ q \in DOMAIN profiles[i].transports
    BY <1>1, <1>2, <1>9, Stays
  <2>2. QED
    BY <1>3, <2>1 DEF Target
<1>10. CASE input.family = "both"
  <2>1. \A k \in DOMAIN FamilyOf : IsLiteral(k) => FamilyAllowed(k, input.family, available)
    BY <1>10, KeyAssumption DEF IsLiteral, FamilyAllowed, AllowedFamilies
  <2>2. DOMAIN candidates = {} \/ \E b \in ToSet(candidates) : FamilyAllowed(b, input.family, available)
    <3>1. \A k \in DOMAIN candidates : candidates[k] \in ToSet(candidates)
      BY DEF ToSet
    <3>2. QED
      BY <1>5, <1>8, <2>1, <3>1
  <2>3. ~IsLiteral(a) \/ FamilyAllowed(a, input.family, available)
    BY <1>7, <2>1
  <2>4. /\ i \in DOMAIN profiles /\ j \in DOMAIN profiles[i].addresses
        /\ q \in DOMAIN profiles[i].transports
    BY <1>1, <1>2, <2>2, <2>3, Stays DEF candidates
  <2>5. QED
    BY <1>3, <2>4 DEF Target
<1>11. CASE input.family \in {"4", "6"}
  <2> SUFFICES ASSUME OfFamily(a), NEW b \in Dialled(t), OfFamily(b) PROVE Target
    BY <1>2, <1>11 DEF Target
  <2>1. FamilyAllowed(a, input.family, available) /\ FamilyAllowed(b, input.family, available)
    BY <1>11 DEF OfFamily, FamilyAllowed, AllowedFamilies
  <2>2. DOMAIN candidates = {} \/ \E c \in ToSet(candidates) : FamilyAllowed(c, input.family, available)
    <3>1. ToSet(candidates) = {} => DOMAIN candidates = {}
      BY DEF ToSet
    <3>2. ToSet(candidates) # {} => b \in ToSet(candidates)
      BY <1>2 DEF Dialled, candidates
    <3>3. QED
      BY <2>1, <3>1, <3>2
  <2>3. QED
    BY <1>1, <1>2, <1>3, <2>1, <2>2, Stays DEF candidates
<1>12. CASE input.family = "auto" /\ ~Spared(i)
  <2>1. i <= explicitFrom
    BY <1>6, <1>12 DEF Spared
  <2>2. CASE Pruned
    BY <1>1, <1>12, <2>1, <2>2 DEF ReasonsTold
  <2>3. CASE ~Pruned
    <3>1. i \in DOMAIN profiles /\ j \in DOMAIN profiles[i].addresses
      BY <2>1, <2>3 DEF Pruned
    <3>2. profiles[i].transports = FilterBootstrapByFamily(declared[i].transports, input.family, available)
      BY <1>1, <1>12, <3>1, Left
    <3>3. DOMAIN candidates = {}
      BY <1>1, <1>2, <2>1, CheckedProfile DEF candidates
    <3>4. q \in DOMAIN profiles[i].transports
      BY <1>2, <3>2, <3>3 DEF FilterBootstrapByFamily, candidates
    <3>5. QED
      BY <1>3, <3>1, <3>4 DEF Target
  <2>4. QED
    BY <2>2, <2>3
<1>13. QED
  BY <1>4, <1>9, <1>10, <1>11, <1>12 DEF Target

\* A discovered profile is declared as it was discovered.
LEMMA DiscoveredDeclared ==
    ASSUME SourcesRead, Checked, input.includeSystem, NEW p \in ToSet(Discover(input.host))
    PROVE  p \in ToSet(declared)
<1> DEFINE F == Found(input)
           L == Declared(input)
<1>1. F = Discover(input.host)
  BY DEF Found
<1>2. PICK k \in DOMAIN F : p = F[k]
  BY <1>1 DEF ToSet
<1>3. \E s : p = SystemProfile(s)
  <2> DEFINE found == CASE input.host.os = "darwin"  -> MacOSSources(input.host)
                        [] input.host.os = "windows" -> {AdapterSources(a) : a \in input.host.adapters}
                        [] input.host.os \in ResolvConfPlatforms -> ResolvConfSources(input.host)
                        [] OTHER                     -> {}
             lists == {ProfilesFromSources(s) : s \in found}
  <2>1. F = The(lists)
    BY <1>1 DEF Discover
  <2> HIDE DEF found
  <2>2. lists # {}
    <3>1. SUFFICES ASSUME lists = {} PROVE FALSE
      OBVIOUS
    <3>2. F = <<>>
      BY <2>1, <3>1 DEF The
    <3>3. QED
      BY <1>2, <3>2
  <2>3. F \in lists
    BY <2>1, <2>2 DEF The
  <2>4. PICK s \in found : F = ProfilesFromSources(s)
    BY <2>3
  <2>5. PICK once : F = [i \in 1 .. Len(once) |-> SystemProfile(once[i])]
    BY <2>4 DEF ProfilesFromSources
  <2>6. QED
    BY <1>2, <2>5
<1>4. PICK s : p = SystemProfile(s)
  BY <1>3
<1> HIDE DEF F, L
<1>5. PICK i \in DOMAIN L : L[i] = p
  BY <1>2, DeclaredList DEF SourcesRead, F, L
<1>6. IsProfileList(L) /\ declared = Normalized(L) /\ DOMAIN declared = DOMAIN L
  BY CheckedList, DeclaredList DEF SourcesRead, L
<1>7. declared[i] = [id |-> p.id, wellFormed |-> p.wellFormed, local |-> p.local,
                     addresses |-> p.addresses, transports |-> NormalTransports(p.transports)]
  BY <1>5, <1>6, NormalizedProfile
<1>8. NormalTransports(p.transports) = p.transports
  <2>1. p.transports = [q \in {"udp", "tcp"} |-> PlainTransport]
    BY <1>4 DEF SystemProfile
  <2>2. NormalizeBootstrapAddresses(<<>>) = <<>>
    BY DEF NormalizeBootstrapAddresses, Restrict
  <2>3. [PlainTransport EXCEPT !.bootstrap = NormalizeBootstrapAddresses(<<>>)] = PlainTransport
    BY <2>2 DEF PlainTransport
  <2>4. PlainTransport.bootstrap = <<>>
    BY DEF PlainTransport
  <2> DEFINE P == PlainTransport
  <2> HIDE DEF P
  <2>5. NormalTransports(p.transports) =
            [q \in {"udp", "tcp"} |-> [P EXCEPT !.bootstrap = NormalizeBootstrapAddresses(<<>>)]]
    BY <2>1, <2>4 DEF NormalTransports, P
  <2>6. QED
    BY <2>1, <2>3, <2>5 DEF P
<1>9. p = [id |-> p.id, wellFormed |-> p.wellFormed, local |-> p.local,
           addresses |-> p.addresses, transports |-> p.transports]
  BY <1>4 DEF SystemProfile
<1>10. declared[i] = p
  BY <1>7, <1>8, <1>9
<1>11. QED
  BY <1>5, <1>6, <1>10 DEF ToSet

\* No endpoint disappears without a reason the operator can see.
THEOREM Accounted == SelectionSpec => []EndpointsAccounted
<1>1. SInv => EndpointsAccounted
  <2> SUFFICES ASSUME SInv, stage = "ready" PROVE EndpointsAccounted
    BY DEF EndpointsAccounted
  <2>1. SourcesRead /\ FamilyFiltered /\ Filtered /\ Checked /\ Read /\ ReasonsTold /\ Decided
    BY DEF SInv, Filtered, Checked, Read, Decided
  <2>2. ASSUME NEW i \in DOMAIN declared, NEW t \in Offered(i)
        PROVE  \/ Measured(t)
               \/ input.family \in {"4", "6"} /\ (~OfFamily(t.address) \/ ~\E a \in Dialled(t) : OfFamily(a))
               \/ input.family = "auto" /\ i <= explicitFrom /\ \E w \in told : w[1] = "family"
               \/ /\ <<"dropped", t.resolver, t.address, t.protocol>> \in told
                  /\ \E u \in targets : Linked(i, Place(u)[1])
    <3>1. SUFFICES ASSUME NEW u \in Everything,
                          u.resolver = t.resolver, u.address = t.address, u.protocol = t.protocol,
                          Place(u)[1] = i
                   PROVE  \/ Measured(t)
                          \/ /\ <<"dropped", t.resolver, t.address, t.protocol>> \in told
                             /\ \E v \in targets : Linked(i, Place(v)[1])
      BY DroppedForAReason
    <3>2. CASE u \in targets
      BY <3>1, <3>2 DEF Measured
    <3>3. CASE u \notin targets
      <4>1. input.cacheMiss /\ DroppedTold(u)
        BY <2>1, <3>3 DEF SInv, TargetsExpanded
      <4>2. /\ pc = "done" /\ remaining = {} /\ IInv
            /\ selected = {Place(v) : v \in Everything}
            /\ targets = {v \in Everything : Place(v) \in kept}
            /\ kept \subseteq selected /\ selected \subseteq Endpoints
        BY <4>1, KeptTargets DEF IInv, TypeOK
      <4>3. Place(u) \in selected \ remaining
        BY <4>2
      <4>4. PICK w \in kept : root[Place(u)[1]] = root[w[1]]
        BY <4>2, <4>3 DEF IInv, Picked
      <4>5. PICK v \in Everything : w = Place(v)
        BY <4>2
      <4>6. v \in targets
        BY <4>2, <4>4, <4>5
      <4>7. Place(u)[1] \in Profiles /\ w[1] \in Profiles
        BY <4>2, <4>3 DEF Endpoints
      <4>8. Linked(i, Place(v)[1])
        BY <3>1, <4>2, <4>4, <4>5, <4>7, SameRootIffLinked
      <4>9. <<"dropped", t.resolver, t.address, t.protocol>> \in told
        BY <3>1, <4>1 DEF DroppedTold
      <4>10. QED
        BY <4>6, <4>8, <4>9
    <3>4. QED
      BY <3>2, <3>3
  <2>3. ASSUME input.includeSystem
        PROVE  \/ <<"discovery failed">> \in told
               \/ \A p \in ToSet(Discover(input.host)) : p \in ToSet(declared)
    BY <2>1, <2>3, DiscoveredDeclared
  <2>4. \A i, j \in DOMAIN declared : declared[i].id = declared[j].id => i = j
    BY <2>1, CheckedProfile
  <2>5. QED
    BY <2>2, <2>3, <2>4 DEF EndpointsAccounted
<1>2. QED
  BY <1>1, SelectionInvariant, PTL

\* The loops of CacheGroups stay within bounds on what a run hands them, its
\* groups are the caches of the declared profiles, and of each cache one
\* endpoint is kept.
THEOREM SelectionGroups == SelectionSpec => [](TypeOK /\ GroupsAreCaches /\ OneEndpointPerCache)
<1>1. SInv => TypeOK /\ GroupsAreCaches /\ OneEndpointPerCache
  BY PickedPerCache, SameRootIffLinked DEF SInv, GroupsAreCaches, IInv, TypeOK
<1>2. QED
  BY <1>1, SelectionInvariant, PTL
=============================================================================
