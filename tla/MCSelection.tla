------------------------------ MODULE MCSelection ------------------------------
(* Small catalogs, command lines and hosts for Selection: resolvers of one and *)
(* of both families, dialled at their address or at candidates, that share     *)
(* addresses or names or neither; and lists that must be refused.              *)
EXTENDS Selection

Texts == {"b4", "b6", "c4", "c6", "d6", "lo4", "lo6", "lan4", "ula6", "ll6", "ll6x", "site6", "host", "tls", "odd"}

MCFamilyOf == [k \in Texts |-> CASE k \in {"b4", "c4", "lo4", "lan4"} -> "4"
                                 [] k \in {"b6", "c6", "d6", "lo6", "ula6", "ll6", "ll6x", "site6"} -> "6"
                                 [] OTHER -> "name"]
MCScopeOf == [k \in Texts |-> CASE k \in {"b4", "b6", "c4", "c6", "d6"} -> "public"
                                [] k \in {"lan4", "ula6"} -> "private"
                                [] k \in {"ll6", "ll6x"} -> "linklocal"
                                [] k \in {"lo4", "lo6"} -> "loopback"
                                [] k = "site6" -> "placeholder"
                                [] OTHER -> "name"]
\* A zoned literal and another address that look the same once sanitized.
MCSanitized == [k \in Texts |-> IF k = "ll6x" THEN "ll6" ELSE k]

Transport(names, bootstrap) == [names |-> names, bootstrap |-> bootstrap]
Plain == PlainTransport
Profile(id, addresses, transports) ==
    [id |-> <<id>>, wellFormed |-> TRUE, local |-> FALSE, addresses |-> addresses, transports |-> transports]

MCBundled == <<Profile("bundled", <<"b4", "b6">>, [udp |-> Plain, doh |-> Transport({"tls"}, <<>>)])>>

Listed ==
    {Profile("file", <<"c4", "c6">>, [udp |-> Plain, dot |-> Transport({"tls"}, <<"c6", "c4", "c6">>)]),
     Profile("file", <<"c4", "b6">>, [udp |-> Plain]),
     Profile("file", <<"c4", "d6">>, [udp |-> Plain, doh |-> Transport({"host"}, <<"d6">>)])}
Refused ==
    {Profile("file", <<"c4", "c4">>, [udp |-> Plain]), Profile("file", <<"c4">>, <<>>),
     Profile("file", <<"c4">>, [udp |-> Transport({}, <<"c6">>)]), Profile("file", <<>>, [udp |-> Plain])}
Pairs == {<<p, [q EXCEPT !.id = <<"second">>]>> : p, q \in Listed}
File(list, bracketed) == {[readable |-> TRUE, profiles |-> list, bracketed |-> bracketed]}
Files(list) == {File(<<p>>, {}) : p \in list}

\* A resolver file may write a literal in brackets.
OwnHost == Profile("file", <<"lo6">>, [udp |-> Plain])

Flag(protocol, host) == [name |-> "x", protocol |-> protocol, host |-> host, wellFormed |-> TRUE]
Flags == {Flag("udp", "c4"), Flag("udp", "d6"), Flag("tcp", "lan4"), Flag("doh", "host"), Flag("dot", "b4")}
\* The same name twice; an address that is none; a URI that is none.
OddFlags == {<<Flag("udp", "c4"), Flag("tcp", "c6")>>, <<[Flag("udp", "c4") EXCEPT !.wellFormed = FALSE]>>}

Host(os, resolvConf, uplink) ==
    [os |-> os, interrupted |-> FALSE, resolvConf |-> resolvConf, uplink |-> uplink, blocks |-> {}, adapters |-> {}]
Blocks == <<[number |-> 1, nameservers |-> <<"c4", "odd", "c4">>], [number |-> 2, nameservers |-> <<"c4">>],
            [number |-> 1, nameservers |-> <<"c4", "d6">>]>>
Adapters == <<<<"site6">>, <<"c4", "odd", "site6", "c4">>, <<"c4", "d6">>>>
Stub == Host("linux", {<<"lo4">>}, {<<"lan4", "lo4">>})
Single == Host("linux", {<<"d6">>}, {})
Hosts ==
    {Stub, Single, Host("linux", {<<"lo4", "c4">>}, {<<"lan4">>}), Host("linux", {<<"lo4">>}, {}), Host("linux", {}, {}),
     Host("linux", {<<"odd">>}, {}), Host("linux", {<<"ll6", "ll6x">>}, {}),
     [Host("darwin", {<<"c6">>}, {}) EXCEPT !.blocks = {Blocks}], [Host("darwin", {<<"c6", "c6">>}, {}) EXCEPT !.blocks = {<<>>}],
     [Host("darwin", {<<"c6">>}, {}) EXCEPT !.interrupted = TRUE],
     [Host("windows", {<<"c6">>}, {}) EXCEPT !.adapters = {Adapters}], Host("windows", {<<"c6">>}, {}),
     Host("freebsd", {<<"lo4">>}, {<<"c4">>}), Host("plan9", {<<"c4">>}, {})}

Up(addresses) == {[up |-> addresses, down |-> {"d6"}]}
Readings ==
    {<<Up({"lo4", "lan4"}), Up({"lo4", "lan4"})>>, <<Up({"lo4", "ula6", "c6"}), Up({"lo4"})>>,
     <<Up({"lan4", "d6"}), Up({"lo4", "d6"})>>, <<Up({"lo4", "ula6"}), Up({"c4"})>>, <<{}, Up({"lo4"})>>, <<Up({"lan4"}), {}>>}

Families == {"auto", "4", "6", "both"}
Subjects(cacheMiss) == IF TRUE \in cacheMiss THEN {{}, {<<"custom", "x">>, <<<<"bundled">>, "b6", "udp">>}} ELSE {{}}
Input(noDefaults, file, flags, system, host, families, protocols, cacheMiss, interfaces) ==
    [noDefaults : noDefaults, file : file, flags : flags, subjects : Subjects(cacheMiss), includeSystem : system, host : host,
     family : families, protocols : protocols, cacheMiss : cacheMiss, interfaces : interfaces]
Lists(set) == {<<p>> : p \in set}

MCInputs ==
    \* Every source and every host.
    Input(BOOLEAN, {{}} \cup Files(Listed), {<<>>} \cup Lists(Flags), {FALSE}, {Stub}, Families,
          {{"udp", "tcp"}, {"doh", "dot"}}, {FALSE}, Readings)
    \cup Input(BOOLEAN, {{}}, {<<>>} \cup Lists({Flag("udp", "c4")}), {TRUE}, Hosts, Families,
               {{"udp"}}, {FALSE}, Readings)
    \cup Input({TRUE}, {File(<<OwnHost>>, {}), File(<<OwnHost>>, {"lo6"})}, {<<>>}, {FALSE}, {Stub}, {"both"},
               {{"udp"}}, {FALSE}, Readings)
    \* Lists that are refused.
    \cup Input(BOOLEAN, {{}} \cup Files(Refused) \cup {{[readable |-> FALSE, profiles |-> <<>>, bracketed |-> {}]}},
               {<<>>} \cup OddFlags, {FALSE}, {Stub}, {"both"}, {{"udp"}}, {FALSE}, {<<Up({}), Up({})>>})
    \* Cache-miss runs of three profiles.
    \cup Input({FALSE}, Files(Listed), Lists(Flags), {FALSE}, {Stub}, Families, {{"udp"}, {"udp", "doh"}, {"dot"}},
               {TRUE}, {<<Up({"lan4"}), Up({"lan4"})>>})
    \cup Input({FALSE}, Files(Listed), {<<>>}, {TRUE}, {Single}, Families, {{"udp", "tcp"}, {"udp", "doh"}},
               {TRUE}, {<<Up({"lan4"}), Up({"lan4"})>>})
    \cup Input({FALSE}, {File(f, {}) : f \in Pairs}, {<<>>}, {FALSE}, {Stub}, Families,
               {{"udp"}, {"doh", "dot"}}, {TRUE}, {<<Up({"lan4"}), Up({"lan4"})>>})
============================================================================
