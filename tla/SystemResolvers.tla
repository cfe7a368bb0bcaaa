---------------------------- MODULE SystemResolvers ----------------------------
(***************************************************************************)
(* What --include-system finds (Discover in                                *)
(* src/internal/systemdns/systemdns.go, with the adapters of windows.go).  *)
(* An address is its canonical form, a key; an entry that is no address is *)
(* a key without a family.  Labels, scopes and interface names are left    *)
(* out: they name a row and decide nothing.                                *)
(***************************************************************************)
EXTENDS Naturals, Sequences, SequencesExt

CONSTANTS
    FamilyOf,  \* "4", "6" or "name", for every key
    ScopeOf,   \* "public", "private", "linklocal", "loopback", "placeholder" or "name"
    Sanitized  \* sanitizeAddress: dots, colons and percent signs become dashes

ASSUME KeyAssumption ==
    /\ FamilyOf \in [DOMAIN FamilyOf -> {"4", "6", "name"}]
    /\ ScopeOf \in [DOMAIN FamilyOf -> {"public", "private", "linklocal", "loopback", "placeholder", "name"}]
    /\ DOMAIN Sanitized = DOMAIN FamilyOf

IsLiteral(key) == FamilyOf[key] # "name"

IsLocalStub(key) == ScopeOf[key] = "loopback"

\* The first occurrence of every element.
Distinct(s) == FoldLeft(LAMBDA seen, x : IF Contains(seen, x) THEN seen ELSE Append(seen, x), <<>>, s)

\* The sequence a place holds, or none.
The(sequences) == IF sequences = {} THEN <<>> ELSE CHOOSE s \in sequences : TRUE

-----------------------------------------------------------------------------
\* A host: its system; whether an interrupt has come by the time scutil ends; and
\* what four places hold, each a set of one sequence, or empty when the place
\* cannot be read: the blocks of scutil ([number, nameservers]), the nameservers
\* of each Windows adapter, and those of resolv.conf and of systemd-resolved's
\* uplink file.

\* The systems, besides macOS, that publish their nameservers in resolv.conf.
ResolvConfPlatforms ==
    {"aix", "android", "dragonfly", "freebsd", "illumos", "ios", "linux", "netbsd", "openbsd", "solaris"}

Source(address, block, uplink) == [address |-> address, block |-> block, uplink |-> uplink]

SourcesOf(nameservers, block) ==
    [i \in 1 .. Len(nameservers) |-> Source(nameservers[i], block, FALSE)]

PlainSources(nameservers) == SourcesOf(SelectSeq(nameservers, IsLiteral), 0)

\* parseMacOSSources: a block's nameservers, once each; the blocks stay apart.
BlockSources(blocks) ==
    FlattenSeq([b \in 1 .. Len(blocks) |->
        SourcesOf(Distinct(SelectSeq(blocks[b].nameservers, IsLiteral)), blocks[b].number)])

\* A scutil that fails, times out or names no nameserver is replaced, unless the
\* run was interrupted.
MacOSSources(host) ==
    LET found == {BlockSources(b) : b \in host.blocks} \ {<<>>}
    IN  IF found # {} THEN found
        ELSE {PlainSources(n) : n \in {n \in host.resolvConf : ~host.interrupted}}

\* windowsSources: the adapters with a usable nameserver are numbered.
AdapterSources(adapters) ==
    LET Usable(list) == Distinct(SelectSeq(list, LAMBDA a : IsLiteral(a) /\ ScopeOf[a] # "placeholder"))
        used == SelectSeq([i \in 1 .. Len(adapters) |-> Usable(adapters[i])], LAMBDA u : u # <<>>)
    IN  FlattenSeq([b \in 1 .. Len(used) |-> SourcesOf(used[b], b)])

\* The servers systemd-resolved forwards to, when resolv.conf names stubs only.
UplinkSources(sources, uplink) ==
    LET stubsOnly == sources # <<>> /\ \A i \in DOMAIN sources : IsLocalStub(sources[i].address)
        listed == IF stubsOnly THEN The({PlainSources(u) : u \in uplink}) ELSE <<>>
        beyond == SelectSeq(listed, LAMBDA s : ~IsLocalStub(s.address))
    IN  [i \in 1 .. Len(beyond) |-> [beyond[i] EXCEPT !.uplink = TRUE]]

\* Only Linux has uplinks to add.
ResolvConfSources(host) ==
    LET plain == {PlainSources(n) : n \in host.resolvConf}
    IN  IF host.os = "linux" THEN {s \o UplinkSources(s, host.uplink) : s \in plain} ELSE plain

-----------------------------------------------------------------------------
ProfileID(s) ==
    CASE s.block > 0                      -> <<"system-resolver", s.block, Sanitized[s.address]>>
      [] s.block = 0 /\ s.uplink          -> <<"system-resolved", Sanitized[s.address]>>
      [] s.block = 0 /\ ~s.uplink /\ IsLocalStub(s.address)  -> <<"system-stub", Sanitized[s.address]>>
      [] s.block = 0 /\ ~s.uplink /\ ~IsLocalStub(s.address) -> <<"system", Sanitized[s.address]>>

PlainTransport == [names |-> {}, bootstrap |-> <<>>]

SystemProfile(s) ==
    [id |-> ProfileID(s), wellFormed |-> TRUE, local |-> IsLocalStub(s.address),
     addresses |-> <<s.address>>,
     transports |-> [p \in {"udp", "tcp"} |-> PlainTransport]]

ProfilesFromSources(sources) ==
    LET once == Distinct(sources)
    IN  [i \in 1 .. Len(once) |-> SystemProfile(once[i])]

\* No profiles stand for an error, which Discover returns for none as well.
Discover(host) ==
    LET found == CASE host.os = "darwin"  -> MacOSSources(host)
                   [] host.os = "windows" -> {AdapterSources(a) : a \in host.adapters}
                   [] host.os \in ResolvConfPlatforms -> ResolvConfSources(host)
                   [] OTHER               -> {}
    IN  The({ProfilesFromSources(s) : s \in found})
=============================================================================
