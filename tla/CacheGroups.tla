------------------------------ MODULE CacheGroups ------------------------------
(***************************************************************************)
(* Which endpoints a cache-miss run measures (cacheMissTargets and         *)
(* cacheGroups in src/cmd/speedns/main.go).  Profiles that share a cache   *)
(* key reach one cache; cacheGroups merges them with a union-find, here    *)
(* one assignment of its loops at a time, and cacheMissTargets keeps one   *)
(* endpoint of each cache.                                                 *)
(*                                                                         *)
(* Profiles are numbered in declared order.  An endpoint is a profile and  *)
(* its place among the profile's transports and addresses, in the          *)
(* documented order.  Keys are model values: an address, or a TLS name.    *)
(***************************************************************************)
EXTENDS Naturals

CONSTANTS
    NProfiles,   \* len(profiles)
    Keys,        \* cache keys
    NEndpoints   \* endpoints a profile can have

ASSUME CacheAssumption ==
    NProfiles \in Nat \ {0} /\ NEndpoints \in Nat

Profiles == 1..NProfiles
Endpoints == Profiles \X (1..NEndpoints)
None == 0

VARIABLES
    keysOf,    \* profile.CacheKeys(); every profile has an address, so a key
    pc,        \* "key", "findFirst", "findIndex", "flatten", "choose" or "done"
    index,     \* the profile of the loop in progress
    pending,   \* its keys still to look at
    key,       \* the key looked at
    owner,     \* the first profile seen with each key, or None
    root,      \* the slice root
    walk,      \* the index find has reached
    first,     \* find(first)
    rep,       \* (history) the profile find ends at, for every index
    selected,  \* the targets the run selected
    remaining, \* those the selection loop has not reached
    kept       \* the values of chosen

loopVars  == <<index, pending, key, walk, first>>
groupVars == <<owner, root, rep>>
pickVars  == <<selected, remaining, kept>>
vars      == <<keysOf, pc, loopVars, groupVars, pickVars>>

Init ==
    /\ keysOf \in [Profiles -> (SUBSET Keys) \ {{}}]
    /\ pc = "key"
    /\ index = 1
    /\ pending = keysOf[1]
    /\ key \in keysOf[1]
    /\ owner = [k \in Keys |-> None]
    /\ root = [i \in Profiles |-> i]
    /\ walk = 1
    /\ first = 1
    /\ rep = root
    /\ selected = {}
    /\ remaining = {}
    /\ kept = {}

-----------------------------------------------------------------------------
\* The loop over a profile's keys.  They come sorted; the order does not matter.
LookAtKey ==
    /\ pc = "key"
    /\ \E k \in pending :
        /\ pending' = pending \ {k}
        /\ key' = k
        /\ IF owner[k] = None
           THEN owner' = [owner EXCEPT ![k] = index] /\ UNCHANGED <<pc, walk>>
           ELSE walk' = owner[k] /\ pc' = "findFirst" /\ UNCHANGED owner
    /\ UNCHANGED <<keysOf, index, first, root, rep, pickVars>>

\* for root[index] != index { index = root[index] }
Find ==
    /\ pc \in {"findFirst", "findIndex", "flatten"}
    /\ root[walk] # walk
    /\ walk' = root[walk]
    /\ UNCHANGED <<keysOf, pc, index, pending, key, first, groupVars, pickVars>>

FirstFound ==
    /\ pc = "findFirst"
    /\ root[walk] = walk
    /\ first' = walk
    /\ walk' = index
    /\ pc' = "findIndex"
    /\ UNCHANGED <<keysOf, index, pending, key, groupVars, pickVars>>

\* The roots of two profiles that share a key become one.
Union(earlier, later) ==
    /\ root' = [root EXCEPT ![later] = earlier]
    /\ rep' = [i \in Profiles |-> IF rep[i] = later THEN earlier ELSE rep[i]]

\* Mutant: the key's owner is taken for the earlier of the two.
MergeUnordered ==
    /\ pc = "findIndex"
    /\ root[walk] = walk
    /\ Union(first, walk)
    /\ pc' = "key"
    /\ UNCHANGED <<keysOf, loopVars, owner, pickVars>>

\* Mutant: the profile itself is attached, not the root of its tree.
MergeIndex ==
    /\ pc = "findIndex"
    /\ root[walk] = walk
    /\ root' = [root EXCEPT ![index] = IF first < index THEN first ELSE index]
    /\ pc' = "key"
    /\ UNCHANGED <<keysOf, loopVars, owner, rep, pickVars>>

\* The earlier root becomes the root of the later one.
Merge ==
    /\ pc = "findIndex"
    /\ root[walk] = walk
    /\ IF walk < first THEN Union(walk, first) ELSE Union(first, walk)
    /\ pc' = "key"
    /\ UNCHANGED <<keysOf, loopVars, owner, pickVars>>

NextProfile ==
    /\ pc = "key"
    /\ pending = {}
    /\ IF index < NProfiles
       THEN /\ index' = index + 1
            /\ pending' = keysOf[index + 1]
            /\ UNCHANGED <<pc, walk>>
       ELSE /\ index' = 1
            /\ walk' = 1
            /\ pc' = "flatten"
            /\ UNCHANGED pending
    /\ UNCHANGED <<keysOf, key, first, groupVars, pickVars>>

\* root[index] = find(index), for every index; then the targets, which
\* --family and --protocol may have narrowed in any way.
Flatten ==
    /\ pc = "flatten"
    /\ root[walk] = walk
    /\ root' = [root EXCEPT ![index] = walk]
    /\ IF index < NProfiles
       THEN /\ index' = index + 1
            /\ walk' = index + 1
            /\ UNCHANGED <<pc, selected, remaining>>
       ELSE /\ pc' = "choose"
            /\ selected' \in (SUBSET Endpoints) \ {{}}
            /\ remaining' = selected'
            /\ UNCHANGED <<index, walk>>
    /\ UNCHANGED <<keysOf, pending, key, first, owner, rep, kept>>

-----------------------------------------------------------------------------
\* cacheMissPrefers.
Prefers(t, u) == t[1] < u[1] \/ (t[1] = u[1] /\ t[2] < u[2])

\* Mutant: endpoints are kept by profile, not by cache.
ChosenByProfile(t) == {u \in kept : u[1] = t[1]}

\* chosen[t's cache]: the endpoint kept for it so far, if any.
Chosen(t) == {u \in kept : root[u[1]] = root[t[1]]}

\* The loop over the targets, whose order is Expand's.
Choose ==
    /\ pc = "choose"
    /\ \E t \in remaining :
        /\ remaining' = remaining \ {t}
        /\ kept' = IF \A u \in Chosen(t) : Prefers(t, u)
                   THEN (kept \ Chosen(t)) \cup {t} ELSE kept
    /\ UNCHANGED <<keysOf, pc, loopVars, groupVars, selected>>

\* kept and dropped are returned.
Return ==
    /\ pc = "choose"
    /\ remaining = {}
    /\ pc' = "done"
    /\ UNCHANGED <<keysOf, loopVars, groupVars, pickVars>>

Returned == pc = "done" /\ UNCHANGED vars

Next ==
    \/ LookAtKey \/ Find \/ FirstFound \/ Merge \/ NextProfile \/ Flatten
    \/ Choose \/ Return
    \/ Returned

Spec == Init /\ [][Next]_vars

-----------------------------------------------------------------------------
\* Types, and the order that keeps find from running in a circle: a profile's
\* parent is never a later one.
TypeOK ==
    /\ keysOf \in [Profiles -> (SUBSET Keys) \ {{}}]
    /\ pc \in {"key", "findFirst", "findIndex", "flatten", "choose", "done"}
    /\ {index, walk, first} \subseteq Profiles
    /\ pending \subseteq keysOf[index]
    /\ key \in Keys
    /\ owner \in [Keys -> Profiles \cup {None}]
    /\ root \in [Profiles -> Profiles]
    /\ rep \in [Profiles -> Profiles]
    /\ \A i \in Profiles : root[i] <= i
    /\ selected \subseteq Endpoints
    /\ remaining \subseteq selected
    /\ kept \subseteq selected

Share(i, j) == keysOf[i] \cap keysOf[j] # {}

\* A chain of shared keys links i and j: no labelling of the profiles that
\* agrees on every two that share a key tells them apart.
Respects(label) == \A i, j \in Profiles : Share(i, j) => label[i] = label[j]

Linked(i, j) ==
    \A label \in [Profiles -> Profiles] : Respects(label) => label[i] = label[j]

\* Profiles are in one group exactly when a chain of shared keys links them,
\* whatever their order and that of the keys; a group is named after its
\* earliest declared profile (comment of cacheGroups).
GroupsAreCaches ==
    pc \in {"choose", "done"} =>
        \A i \in Profiles :
            /\ root[i] <= i
            /\ \A j \in Profiles : root[i] = root[j] <=> Linked(i, j)

\* No two measured endpoints reach one cache, so no generated name is asked
\* twice at one resolver; no selected cache goes without an endpoint, and the
\* one it has is the first of its endpoints in declared order, whatever the
\* order of the targets and whichever of them the family filter removed.
OneEndpointPerCache ==
    pc = "done" =>
        \A t \in selected :
            t \in kept <=>
                \A u \in selected : Linked(t[1], u[1]) => u = t \/ Prefers(t, u)
=============================================================================
