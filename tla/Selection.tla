------------------------------- MODULE Selection -------------------------------
(***************************************************************************)
(* What a run measures: runBenchmark of src/cmd/speedns/main.go from the   *)
(* selection of the profiles to the final list of targets, with            *)
(* cacheMissTargets as CacheGroups describes it.  Nothing is sent before   *)
(* all of this has succeeded.                                              *)
(*                                                                         *)
(* An input is a command line with the host it runs on:                    *)
(*   noDefaults, includeSystem, family, protocols, cacheMiss   the flags   *)
(*   file        {}, or the one given by --resolver-file:                  *)
(*               {[readable, profiles, bracketed]}, the last the literals  *)
(*               it writes in brackets                                     *)
(*   flags       the --resolver flags                                      *)
(*   subjects    what the assertions name: profiles and endpoints          *)
(*   host        what Discover reads                                       *)
(*   interfaces  two readings of the interface inventory, each {} when it  *)
(*               fails, or {[up, down]}: they are a moment apart           *)
(***************************************************************************)
EXTENDS CacheGroups, Catalog

CONSTANTS
    Bundled,  \* the profiles of the embedded catalog
    Inputs

VARIABLES
    input,
    stage,         \* the step of runBenchmark that comes next
    declared,      \* selection.all()
    explicitFrom,  \* how many of them are bundled
    available,     \* the families auto detected
    profiles,      \* those the family filter left, by their place in declared
    onNetwork,     \* reached over the local network: profile and address
    targets,
    told           \* the warnings of the report

choice == <<declared, explicitFrom, available, profiles, onNetwork, targets, told>>

Refuse == stage' = "refused" /\ UNCHANGED choice

FromCatalog(in) == IF in.noDefaults THEN <<>> ELSE Bundled
FromFile(in)    == The({LoadYAML(f) : f \in in.file})
FromFlags(in)   == [i \in 1 .. Len(in.flags) |-> ParseResolverFlag(in.flags[i])]
Found(in)       == IF in.includeSystem THEN Discover(in.host) ELSE <<>>

Declared(in) == FromCatalog(in) \o FromFile(in) \o FromFlags(in) \o Found(in)

\* An endpoint's place among those of its profile, for CacheGroups: Width for
\* each protocol.
Width == NEndpoints \div Len(AllProtocols)

\* The embedded catalog is valid and replaces no address by candidates
\* (data/resolvers.yaml).
ASSUME BundledAssumption ==
    /\ IsProfileList(Bundled) /\ Valid(Bundled)
    /\ \A i \in DOMAIN Bundled : \A p \in DOMAIN Bundled[i].transports :
            DOMAIN Bundled[i].transports[p].bootstrap = {}

ASSUME InputAssumption ==
    /\ Keys = DOMAIN FamilyOf
    /\ \A in \in Inputs :
        /\ IsProfileList(FromFile(in)) /\ IsProfileList(FromFlags(in)) /\ IsProfileList(Found(in))
        /\ in.family \in {"auto", "4", "6", "both"}
        /\ in.cacheMiss =>
              /\ Len(Declared(in)) = NProfiles
              /\ \A i \in Profiles : Len(Declared(in)[i].addresses) <= Width

-----------------------------------------------------------------------------
\* loadProfiles: a discovery that fails refuses the run only when nothing else
\* was selected.
LoadProfiles ==
    /\ stage = "load"
    /\ IF \/ \E f \in input.file : BadFile(f)
          \/ \E i \in DOMAIN input.flags : ~input.flags[i].wellFormed
          \/ Declared(input) = <<>>
       THEN Refuse
       ELSE /\ declared' = Declared(input)
            /\ explicitFrom' = Len(FromCatalog(input))
            /\ told' = IF input.includeSystem /\ Found(input) = <<>>
                       THEN {<<"discovery failed">>} ELSE {}
            /\ stage' = "validate"
            /\ UNCHANGED <<available, profiles, onNetwork, targets>>

\* Every source at once, so that identifiers are unique across them.
CheckProfiles ==
    /\ stage = "validate"
    /\ IF Valid(declared)
       THEN /\ declared' = Normalized(declared)
            /\ stage' = "detect"
            /\ UNCHANGED <<explicitFrom, available, profiles, onNetwork, targets, told>>
       ELSE Refuse

\* A unique-local IPv6 address is no evidence of a route; a private IPv4 one is.
Routed(a) ==
    \/ ScopeOf[a] \in {"public", "placeholder"}
    \/ ScopeOf[a] = "private" /\ FamilyOf[a] = "4"

AvailableFamilies(up) == {FamilyOf[a] : a \in {a \in up : Routed(a)}}

DetectFamilies ==
    /\ stage = "detect"
    /\ IF input.family = "auto" /\ input.interfaces[1] = {}
       THEN Refuse
       ELSE /\ available' = IF input.family = "auto"
                            THEN AvailableFamilies(UNION {r.up : r \in input.interfaces[1]})
                            ELSE {}
            /\ stage' = "filter"
            /\ UNCHANGED <<declared, explicitFrom, profiles, onNetwork, targets, told>>

AddressCount(list) ==
    Cardinality(UNION {{<<i, j>> : j \in DOMAIN list[i].addresses} : i \in DOMAIN list})

\* autoFamilyWarnings: what auto pruned is told by the number of addresses.
AutoFamilyWarnings(before, after) ==
    LET dropped == AddressCount(before) - AddressCount(after)
    IN  IF input.family = "auto" /\ dropped > 0 THEN {<<"family", dropped>>} ELSE {}

\* Mutant: auto prunes the resolvers the operator named, too.
ExplicitLeftAlways(explicit) == FilterProfilesByFamily(explicit, input.family, available)

\* Auto is a guess and spares the resolvers the operator named.
ExplicitLeft(explicit) ==
    IF input.family = "auto" THEN explicit
    ELSE FilterProfilesByFamily(explicit, input.family, available)

FilterFamily ==
    /\ stage = "filter"
    /\ LET bundled == Restrict(declared, 1 .. explicitFrom)
           left == FilterProfilesByFamily(bundled, input.family, available)
           named == ExplicitLeft(Restrict(declared, explicitFrom + 1 .. Len(declared)))
       IN  IF NeedsLiterals(declared, input.family) \/ DOMAIN left \cup DOMAIN named = {}
           THEN Refuse
           ELSE /\ profiles' = [i \in DOMAIN left \cup DOMAIN named |->
                                  IF i \in DOMAIN left THEN left[i] ELSE named[i]]
                /\ told' = told \cup AutoFamilyWarnings(bundled, left)
                /\ stage' = "classify"
                /\ UNCHANGED <<declared, explicitFrom, available, onNetwork, targets>>

\* hostOwnAddresses: of interfaces that are up, loopback included.
OwnAddresses(reading) == UNION {r.up : r \in reading}

IsPrivateAddress(a) == ScopeOf[a] \in {"private", "linklocal"}

\* The literals profile i writes in brackets. --resolver and Discover take them off.
Bracketed(i) ==
    IF i \in explicitFrom + 1 .. explicitFrom + Len(FromFile(input))
    THEN UNION {f.bracketed : f \in input.file} ELSE {}

\* netip.ParseAddr, which takes no literal in brackets: its places in profile i.
Parsed(i) == {j \in DOMAIN profiles[i].addresses : profiles[i].addresses[j] \notin Bracketed(i)}

\* classifyLocalResolvers stops at a profile's first address on this host.
OnHost(own, i) ==
    {j \in Parsed(i) : IsLocalStub(profiles[i].addresses[j]) \/ profiles[i].addresses[j] \in own}

ClassifyLocal ==
    /\ stage = "classify"
    /\ LET own == OwnAddresses(input.interfaces[2])
       IN  IF input.interfaces[2] = {}
           THEN Refuse
           ELSE /\ profiles' = [i \in DOMAIN profiles |->
                        [profiles[i] EXCEPT !.local = @ \/ OnHost(own, i) # {}]]
                /\ onNetwork' = UNION {{<<profiles[i].id, profiles[i].addresses[j]>> :
                        j \in {j \in Parsed(i) :
                                 /\ IsPrivateAddress(profiles[i].addresses[j])
                                 /\ \A h \in OnHost(own, i) : j < h}} : i \in DOMAIN profiles}
                /\ stage' = "expand"
                /\ UNCHANGED <<declared, explicitFrom, available, targets, told>>

ExpandTargets ==
    /\ stage = "expand"
    /\ IF Expand(profiles, input.protocols) = {}
       THEN Refuse
       ELSE /\ targets' = Expand(profiles, input.protocols)
            /\ stage' = IF input.cacheMiss THEN "grouping" ELSE "assert"
            /\ UNCHANGED <<declared, explicitFrom, available, profiles, onNetwork, told>>

-----------------------------------------------------------------------------
Place(t) ==
    LET i == SelectInSeq(declared, LAMBDA p : p.id = t.resolver)
    IN  <<i, (Rank(t.protocol) - 1) * Width + SelectInSeq(declared[i].addresses, LAMBDA a : a = t.address)>>

\* Mutant: the keys of what the family filter left of a profile.
GroupedFiltered ==
    [i \in Profiles |-> CacheKeys(IF i \in DOMAIN profiles THEN profiles[i] ELSE declared[i])]

\* The keys cacheGroups compares: those of every declared profile.
Grouped == [i \in Profiles |-> CacheKeys(declared[i])]

\* cacheMissTargets is called.
StartGrouping ==
    /\ stage = "grouping"
    /\ stage' = "grouped"
    /\ keysOf' = Grouped
    /\ pending' = keysOf'[1]
    /\ key' = CHOOSE k \in keysOf'[1] : TRUE
    /\ UNCHANGED <<pc, index, walk, first, owner, root, rep, pickVars, input, choice>>

\* The loops of CacheGroups, on the targets of this run.
Group ==
    /\ stage = "grouped"
    /\ selected' = IF pc = "flatten" /\ index = NProfiles /\ root[walk] = walk
                   THEN {Place(t) : t \in targets} ELSE selected
    /\ Next
    /\ UNCHANGED <<input, stage, choice>>

\* The endpoints kept, and a warning that names the others.
CacheMissTargets ==
    /\ stage = "grouped"
    /\ pc = "done"
    /\ targets' = {t \in targets : Place(t) \in kept}
    /\ told' = told \cup {<<"dropped", t.resolver, t.address, t.protocol>> : t \in targets \ targets'}
    /\ stage' = "assert"
    /\ UNCHANGED <<input, declared, explicitFrom, available, profiles, onNetwork, vars>>

\* An assertion names a profile or one endpoint; one that names nothing the run
\* will measure, a dropped endpoint included, is refused.
ValidateAssertionTargets ==
    /\ stage = "assert"
    /\ IF \E subject \in input.subjects : \A t \in targets :
              subject \notin {t.resolver, <<t.resolver, t.address, t.protocol>>}
       THEN Refuse
       ELSE stage' = "warn" /\ UNCHANGED choice

\* Rows of one resolver and protocol dial the same candidates.
SharedBootstrapWarnings ==
    LET Twins(t) == {u \in targets : u.resolver = t.resolver /\ u.protocol = t.protocol}
    IN  {<<"same candidates", t.resolver, t.protocol>> :
            t \in {t \in targets : t.bootstrap # {} /\ Cardinality(Twins(t)) > 1}}

WarnAboutTargets ==
    /\ stage = "warn"
    /\ told' = told
         \cup {<<"network", n[1], n[2]>> : n \in onNetwork}
         \cup SharedBootstrapWarnings
    /\ stage' = "ready"
    /\ UNCHANGED <<declared, explicitFrom, available, profiles, onNetwork, targets>>

Settled == stage \in {"ready", "refused"} /\ UNCHANGED <<input, stage, choice, vars>>

Step ==
    \/ LoadProfiles \/ CheckProfiles \/ DetectFamilies \/ FilterFamily
    \/ ClassifyLocal \/ ExpandTargets \/ ValidateAssertionTargets
    \/ WarnAboutTargets

SelectionNext ==
    \/ Step /\ UNCHANGED <<input, vars>>
    \/ StartGrouping \/ Group \/ CacheMissTargets
    \/ Settled

SelectionInit ==
    /\ input \in Inputs
    /\ stage = "load"
    /\ declared = <<>> /\ explicitFrom = 0 /\ available = {} /\ profiles = <<>>
    /\ onNetwork = {} /\ targets = {} /\ told = {}
    /\ keysOf = [i \in Profiles |-> {CHOOSE k \in Keys : TRUE}]
    /\ Init

SelectionSpec == SelectionInit /\ [][SelectionNext]_<<input, stage, choice, vars>>

-----------------------------------------------------------------------------
\* What a run that is ready to measure may dial is of the family it was asked
\* for: under --family 4 and 6 every candidate is a literal of that family,
\* whatever address the row shows; under auto a bundled resolver is dialled in
\* a family the inventory showed, unless it showed none (comment of
\* FilterProfilesByFamily; METHODOLOGY.md, "The filters apply to
\* bootstrap_addresses too").
FamilyHonoured ==
    stage = "ready" =>
        \A t \in targets : \A a \in Dialled(t) :
            \/ input.family = "both"
            \/ input.family \in {"4", "6"} /\ FamilyOf[a] = input.family
            \/ /\ input.family = "auto"
               /\ \/ Place(t)[1] > explicitFrom
                  \/ available = {}
                  \/ FamilyOf[a] \in available \cup {"name"}
                  \/ IsLocalStub(a)

\* The endpoints the profiles declare on the selected protocols.
Offered(i) == Expand(<<declared[i]>>, input.protocols)

Measured(t) ==
    \E u \in targets : u.resolver = t.resolver /\ u.address = t.address /\ u.protocol = t.protocol

OfFamily(a) == FamilyOf[a] = input.family

\* No endpoint disappears without a reason the operator can see.  Each one
\* declared is measured, unless an explicit --family excludes its address or
\* all of its candidates, or it is bundled and the report says that auto
\* dropped addresses, or cache-miss mode names it among the dropped and
\* measures another of the same cache.  A resolver the operator named survives
\* auto; a failed discovery is told; and no two rows have one identifier.
EndpointsAccounted ==
    stage = "ready" =>
        /\ \A i \in DOMAIN declared : \A t \in Offered(i) :
              \/ Measured(t)
              \/ input.family \in {"4", "6"} /\ (~OfFamily(t.address) \/ ~\E a \in Dialled(t) : OfFamily(a))
              \/ input.family = "auto" /\ i <= explicitFrom /\ \E w \in told : w[1] = "family"
              \/ /\ <<"dropped", t.resolver, t.address, t.protocol>> \in told
                 /\ \E u \in targets : Linked(i, Place(u)[1])
        /\ input.includeSystem =>
              \/ <<"discovery failed">> \in told
              \/ \A p \in ToSet(Discover(input.host)) : p \in ToSet(declared)
        /\ \A i, j \in DOMAIN declared : declared[i].id = declared[j].id => i = j

\* A cache-miss run measures no two endpoints of one resolver: those of
\* profiles that a chain of shared addresses and TLS names links, counting the
\* addresses --family removed (comment of cacheMissTargets; CACHE_MISS.md, "Each
\* resolver is measured once").
ResolverMeasuredOnce ==
    stage = "ready" /\ input.cacheMiss =>
        LET Reached(i, j) == CacheKeys(declared[i]) \cap CacheKeys(declared[j]) # {}
            Apart(i, j) == \E group \in SUBSET Profiles :
                /\ i \in group /\ j \notin group
                /\ \A x \in group : \A y \in Profiles : Reached(x, y) => y \in group
        IN  \A t, u \in targets : t = u \/ Apart(Place(t)[1], Place(u)[1])
=============================================================================
