----------------------------- MODULE MCReaders -----------------------------
(* Readers on small inputs, and on the tables of the OID registry.         *)
EXTENDS Readers, OidRegistryData, SequencesExt

\* showfirmware: tables of one to three structures, with handles that tell
\* them apart, that lead back, or that end the walk
NoHandle == 65535
HandleLists == {<<4, 5, 6>>, <<4, 5, 4>>, <<4, 4, 5>>, <<4, 5, 5>>,
                <<NoHandle, 4, 5>>, <<4, NoHandle, 5>>, <<4, 5, NoHandle>>}
Strings == <<<<"a", "b", "c", "d">>, <<"e", "f", "g", "h">>, <<"i", "j", "k", "l">>>>
Kinds == {[Type |-> 0, count |-> n, numbers |-> <<1, 2, 3>>] : n \in {0, 1, 3, 4}}
         \cup {[Type |-> 0, count |-> 3, numbers |-> <<2, 1, 3>>]}
         \cup {[Type |-> 1, count |-> n, numbers |-> <<>>] : n \in {0, 2}}
SmbiosTable(handles, kinds) ==
    [p \in DOMAIN kinds |->
       [Type |-> kinds[p].Type, Handle |-> handles[p], numbers |-> kinds[p].numbers,
        strings |-> SubSeq(Strings[p], 1, kinds[p].count)]]
SomeTables == {SmbiosTable(handles, kinds) :
                 handles \in HandleLists, kinds \in UNION {[1 .. n -> Kinds] : n \in 1 .. 3}}
CountsOf(structures) == {Len(structures) - 1, Len(structures), Len(structures) + 1}

\* showedid: a block for each gamma, one of each kind of sizes and letters,
\* and one block with each of its octets changed
Said(vendor, year, gamma, size) == [vendor |-> vendor, year |-> year, gamma |-> gamma, size |-> size]
Dell == Said(<<4, 5, 12>>, 2012, 120, <<597, 336>>)
Saids == {[Dell EXCEPT !.gamma = g] : g \in 0 .. 255}
         \cup {Said(<<1, 26, 31>>, 1990, 3, <<4095, 255>>), Said(<<31, 1, 0>>, 2245, 255, <<256, 4095>>)}
WithoutSum(said, version, revision) ==
    [n \in 1 .. 127 |->
       CASE n <= 8  -> <<0, 255, 255, 255, 255, 255, 255, 0>>[n]
         [] n = 9   -> said.vendor[1] * 4 + said.vendor[2] \div 8
         [] n = 10  -> (said.vendor[2] % 8) * 32 + said.vendor[3]
         [] n = 18  -> said.year - 1990
         [] n = 19  -> version
         [] n = 20  -> revision
         [] n = 24  -> said.gamma
         [] n = 67  -> said.size[1] % 256
         [] n = 68  -> said.size[2] % 256
         [] n = 69  -> (said.size[1] \div 256) * 16 + said.size[2] \div 256
         [] OTHER   -> n]
WithSum(octets) ==
    LET sum[n \in 0 .. 127] == IF n = 0 THEN 0 ELSE sum[n - 1] + octets[n]
    IN octets \o <<(256 - (sum[127] % 256)) % 256>>
Edid(said) == WithSum(WithoutSum(said, 1, 3))
Display(block, says) == [gop |-> TRUE, null |-> FALSE, block |-> block, says |-> says]
AtNull == [n \in 1 .. 128 |-> 0]
Good == {Display(Edid(said), {said}) : said \in Saids}
        \cup {Display(WithSum([WithoutSum(Dell, 1, 4) EXCEPT ![1] = 1]), {Dell})}
Bad == {Display([Edid(Dell) EXCEPT ![n] = (@ + change) % 256], {}) :
          n \in 1 .. 128, change \in {1, 128, 255}}
       \cup {Display(WithSum(WithoutSum(Dell, r[1], r[2])), {}) : r \in {<<2, 0>>, <<1, 5>>}}
       \cup {Display(WithSum([WithoutSum(Dell, 1, 3) EXCEPT ![2] = 0]), {})}
Few == {Display(Edid(Dell), {Dell}), Display([Edid(Dell) EXCEPT ![30] = 0], {}), Display(<<>>, {Dell})}
       \cup {[Display(Edid(Dell), {Dell}) EXCEPT !.gop = FALSE]}
       \cup {[Display(AtNull, {}) EXCEPT !.null = TRUE]}
SomeScreens == {<<>>} \cup {<<d>> : d \in Good \cup Bad} \cup UNION {[1 .. n -> Few] : n \in 1 .. 3}

\* showsb and showlenovo: variables missing, of a usual and of another size
SomeStores ==
    {[n \in {"BuildDate", "BuildTime", "SimpleBootFlag", "SecureBoot", "SetupMode"} |->
        CASE n = "BuildDate" -> date [] n = "BuildTime" -> time [] n = "SimpleBootFlag" -> flag
          [] n = "SecureBoot" -> secure [] n = "SetupMode" -> setup] :
     date, time \in {<<>>, <<1>>, <<1, 2>>, <<1, 2, 3>>}, flag \in {<<>>, <<5>>, <<5, 6>>},
     secure \in {<<>>, <<0>>, <<1>>, <<0, 0>>}, setup \in {<<>>, <<0>>, <<1>>}}

\* Lookup_OID: each registered identifier, and what comes near it: octets in
\* another order, which have its hash and its size, an octet changed, one
\* less, one more
Near(octets) ==
    {octets, SubSeq(octets, 1, Len(octets) - 1), octets \o <<1>>, octets \o <<129>>}
    \cup {[octets EXCEPT ![n] = octets[n + 1], ![n + 1] = octets[n]] : n \in 1 .. Len(octets) - 1}
    \cup {[octets EXCEPT ![n] = (@ + change) % 256] : n \in DOMAIN octets, change \in {1, 255}}

\* the arcs of octets: groups that end with an octet below 128, seven bits
\* of each; the first is 40 * a + b with an a of at most 2
Group(octets, n) ==
    LET from == Max({0} \cup {m \in 1 .. n - 1 : octets[m] < 128}) + 1
        arc[m \in from - 1 .. n] == IF m < from THEN 0 ELSE arc[m - 1] * 128 + (octets[m] % 128)
    IN arc[n]
Arcs(octets) ==
    IF octets = <<>> \/ Last(octets) >= 128 THEN <<>>
    ELSE LET ends == SelectSeq([n \in DOMAIN octets |-> n], LAMBDA n : octets[n] < 128)
             first == Group(octets, ends[1])
             a == IF first < 80 THEN first \div 40 ELSE 2
         IN <<a, first - 40 * a>> \o [n \in 1 .. Len(ends) - 1 |-> Group(octets, ends[n + 1])]

\* and arcs on both sides of what num may hold with and without a sign: 21
\* bits in this run, which is three octets
SomeIdentifiers ==
    {[data |-> d, arcs |-> Arcs(d)] : d \in {<<>>, <<127>>, <<130, 1>>,
        <<42, 191, 255, 127, 3>>, <<42, 192, 128, 0, 3>>, <<42, 255, 255, 127>>,
        <<42, 129, 128, 128, 0>>, <<42, 129, 128, 128, 5, 3>>} \cup
        UNION {Near(RegisteredOctets[o]) : o \in DOMAIN RegisteredOctets}}
=============================================================================
