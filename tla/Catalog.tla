-------------------------------- MODULE Catalog --------------------------------
(***************************************************************************)
(* Resolver profiles and the targets they stand for                        *)
(* (src/internal/catalog/catalog.go and family.go).  A profile is          *)
(*   [id, wellFormed, local, addresses, transports]                        *)
(* with a sequence of addresses and, for each protocol it offers,          *)
(*   [names, bootstrap]                                                    *)
(* the TLS names it authenticates and its bootstrap_addresses.  The checks *)
(* on one text, port or URL are the flag wellFormed.                       *)
(***************************************************************************)
EXTENDS SystemResolvers, FiniteSets

\* In the documented order.
AllProtocols == <<"udp", "tcp", "doh", "dot", "doq">>

Encrypted == {"doh", "dot", "doq"}

\* What a profile is, checked or not: a list of addresses, and for some of the
\* protocols names and candidates.
IsProfile(profile) ==
    /\ profile = [id |-> profile.id, wellFormed |-> profile.wellFormed, local |-> profile.local,
                  addresses |-> profile.addresses, transports |-> profile.transports]
    /\ profile.addresses \in Seq(DOMAIN FamilyOf)
    /\ profile.transports = [p \in DOMAIN profile.transports \cap Range(AllProtocols) |->
            [names |-> profile.transports[p].names, bootstrap |-> profile.transports[p].bootstrap]]
    /\ \A p \in DOMAIN profile.transports :
            profile.transports[p].names \cup ToSet(profile.transports[p].bootstrap) \subseteq DOMAIN FamilyOf

IsProfileList(profiles) ==
    /\ profiles \in Seq(ToSet(profiles))
    /\ \A i \in DOMAIN profiles : IsProfile(profiles[i])

Rank(protocol) == CHOOSE i \in DOMAIN AllProtocols : AllProtocols[i] = protocol

ValidSpec(protocol, spec) ==
    /\ DOMAIN spec.bootstrap # {} => protocol \in Encrypted
    /\ \A i \in DOMAIN spec.bootstrap : IsLiteral(spec.bootstrap[i])
    /\ protocol \in {"dot", "doq"} => spec.names # {}

ValidProfile(profile) ==
    /\ profile.wellFormed
    /\ profile.addresses # <<>>
    /\ IsInjective(profile.addresses)
    /\ DOMAIN profile.transports # {}
    /\ \A p \in DOMAIN profile.transports : ValidSpec(p, profile.transports[p])

Valid(profiles) ==
    /\ profiles # <<>>
    /\ \A i \in DOMAIN profiles : ValidProfile(profiles[i])
    /\ \A i, j \in DOMAIN profiles : profiles[i].id = profiles[j].id => i = j

\* What a pass leaves of a list keeps its places, for nothing depends on their
\* being closed up.  A repeated candidate would be tried twice: the first stays.
NormalizeBootstrapAddresses(candidates) ==
    Restrict(candidates, {i \in DOMAIN candidates :
        \A j \in DOMAIN candidates : candidates[j] = candidates[i] => i <= j})

\* What Validate leaves.
NormalTransports(transports) ==
    [p \in DOMAIN transports |-> [transports[p] EXCEPT !.bootstrap = NormalizeBootstrapAddresses(@)]]

Normalized(profiles) ==
    [i \in DOMAIN profiles |-> [profiles[i] EXCEPT !.transports = NormalTransports(@)]]

\* A resolver file that cannot be read, or that LoadYAML refuses.
BadFile(file) == ~file.readable \/ ~Valid(file.profiles)

LoadYAML(file) == Normalized(file.profiles)

\* A --resolver flag NAME=URI, [name, protocol, host, wellFormed], makes a profile
\* of one endpoint, authenticated by the name in the URI.
ParseResolverFlag(flag) ==
    [id |-> <<"custom", flag.name>>, wellFormed |-> flag.wellFormed, local |-> FALSE,
     addresses |-> <<flag.host>>,
     transports |-> [p \in {flag.protocol} |->
        [names |-> IF p \in Encrypted THEN {flag.host} ELSE {}, bootstrap |-> <<>>]]]

-----------------------------------------------------------------------------
\* The families a literal may have; none detected means no reason to filter.
AllowedFamilies(family, available) ==
    CASE family \in {"4", "6"}                    -> {family}
      [] family = "both"                          -> {"4", "6"}
      [] family = "auto" /\ available # {}        -> available
      [] family = "auto" /\ available = {}        -> {"4", "6"}

\* A loopback literal is reachable whatever auto detected.
FamilyAllowed(key, family, available) ==
    \/ FamilyOf[key] \in AllowedFamilies(family, available)
    \/ family = "auto" /\ IsLocalStub(key)

\* Mutant: the candidates of the other family stay.
FilterBootstrapNone(transports, family, available) == transports

\* A transport whose candidates are all of another family goes.
FilterBootstrapByFamily(transports, family, available) ==
    LET Left(spec) == {i \in DOMAIN spec.bootstrap : FamilyAllowed(spec.bootstrap[i], family, available)}
    IN  [p \in {q \in DOMAIN transports :
                    DOMAIN transports[q].bootstrap = {} \/ Left(transports[q]) # {}} |->
            [transports[p] EXCEPT !.bootstrap = Restrict(@, Left(transports[p]))]]

\* Under 4 and 6 a hostname refuses the run.
NeedsLiterals(profiles, family) ==
    /\ family \in {"4", "6"}
    /\ \E i \in DOMAIN profiles : \E k \in ToSet(profiles[i].addresses) : ~IsLiteral(k)

\* A hostname has no family and stays.
FilterAddresses(addresses, family, available) ==
    Restrict(addresses, {i \in DOMAIN addresses :
        ~IsLiteral(addresses[i]) \/ FamilyAllowed(addresses[i], family, available)})

FilterProfile(profile, family, available) ==
    [profile EXCEPT !.addresses = FilterAddresses(@, family, available),
                    !.transports = FilterBootstrapByFamily(@, family, available)]

\* A profile left without an address or a transport goes.
FilterProfilesByFamily(profiles, family, available) ==
    LET left == [i \in DOMAIN profiles |-> FilterProfile(profiles[i], family, available)]
    IN  Restrict(left, {i \in DOMAIN left : DOMAIN left[i].addresses # {} /\ DOMAIN left[i].transports # {}})

\* One target for each address and each selected protocol the profile offers.
\* What it dials: its bootstrap candidates, or its address (newDialPlan).
Expand(profiles, selected) ==
    UNION {{[resolver |-> profiles[i].id, local |-> profiles[i].local,
             protocol |-> p, address |-> a,
             bootstrap |-> ToSet(profiles[i].transports[p].bootstrap)] :
                a \in ToSet(profiles[i].addresses),
                p \in selected \cap DOMAIN profiles[i].transports} : i \in DOMAIN profiles}

Dialled(target) == IF target.bootstrap = {} THEN {target.address} ELSE target.bootstrap

\* The names a profile's server is known by.
CacheKeys(profile) ==
    ToSet(profile.addresses)
      \cup UNION {profile.transports[p].names : p \in Encrypted \cap DOMAIN profile.transports}
=============================================================================
