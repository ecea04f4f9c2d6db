---------------------------- MODULE MCListCerts ----------------------------
(* ListCerts on certificates of the grammar, whole or refused halfway, and *)
(* on signature lists of hashes and certificates, whole or cut short.      *)
EXTENDS ListCerts, TLC

\* the calls of a certificate with one of everything
Sample == [version |-> TRUE, params |-> "null", unique |-> FALSE, names |-> 1,
           times |-> <<UTCTime, GeneralizedTime>>, extensions |-> {TRUE},
           form |-> "short", outer |-> "long1"]
SampleCalls == Certificate(Sample).calls
Algorithms == {k \in DOMAIN SampleCalls : SampleCalls[k][1] = do_algorithm}
Signature == CHOOSE k \in Algorithms : \A j \in Algorithms : k <= j

\* without the calls in omitted, and with algorithms without a name in unknown
Variant(omitted, unknown) ==
    FlattenSeq([k \in DOMAIN SampleCalls |->
        IF k \in omitted THEN <<>>
        ELSE <<[action |-> SampleCalls[k][1], known |-> k \notin unknown]>>])
Full == Variant({}, {})

(* Members at the end of a sequence may be missing: the serial number and  *)
(* all behind it, the algorithm of an AlgorithmIdentifier, attributes or   *)
(* their values, extensions.                                               *)
Of(action) == {k \in DOMAIN SampleCalls : SampleCalls[k][1] = action}
Omitted == {Of(do_version), Of(do_serialnumber), {Signature}, Algorithms,
            Of(do_version) \cup Of(do_serialnumber) \cup {Signature},
            Of(do_attribute_value), Of(do_attribute_type) \cup Of(do_attribute_value),
            Of(do_extension_id)}
Variants == {Variant({}, u) : u \in SUBSET Algorithms} \cup {Variant(o, {}) : o \in Omitted}

\* lists
Certs(sig, header, certs) ==
    [size |-> HeaderOfList + header + sig * Len(certs), header |-> header, sig |-> sig, certs |-> certs]
Hashes(sig, n) == Certs(sig, 0, [k \in 1 .. n |-> <<>>])
Whole(lists) == [lists |-> lists, len |-> Lengths(lists), broken |-> "none"]
Cut(lists, n) == [lists |-> lists, len |-> Lengths(lists) - n, broken |-> "none"]
WithBroken(lists, how) == [lists |-> lists, len |-> Lengths(lists) + HeaderOfList, broken |-> how]

Simple == {Certs(200, 0, <<<<>>>>), Certs(200, 16, <<<<>>>>), Certs(101, 0, <<<<>>, <<>>>>),
           Certs(200, 0, <<>>), Hashes(48, 1), Hashes(48, 2), Hashes(29, 3)}
Variable == {NotFound} \cup {Whole(<<a>>) : a \in Simple} \cup {Whole(<<a, b>>) : a, b \in Simple}
            \cup {Cut(<<a, b>>, n) : a, b \in Simple, n \in {1, 28}}
            \cup {Cut(<<a, b>>, b.size - n) : a, b \in Simple, n \in {19, 20}}
            \cup {WithBroken(<<a>>, how) : a \in Simple, how \in {"size", "entries"}}

Holding(pk, db) == ("PK" :> pk @@ "KEK" :> NotFound @@ "db" :> db @@ "dbx" :> Whole(<<Hashes(48, 1)>>))
TextStores == {Holding(Whole(<<Certs(500, 0, <<a>>)>>), Whole(<<Certs(400, 0, <<b, Full>>)>>)) :
                 a \in Prefixes(Full) \cup Variants, b \in Variants}
ListStores == {Holding(Whole(<<Certs(200, 0, <<<<>>>>)>>), v) : v \in Variable}
AllStores == TextStores \cup ListStores

AnyCommandLine == {<<>>, <<"-db">>, <<"-x">>, <<"-pk", "-db">>}

\* behind a whole certificate, one whose algorithms have no names, or are missing
UnnamedStores == {Holding(NotFound, Whole(<<Certs(500, 0, <<Full, b>>)>>)) :
                    b \in {Variant({}, Algorithms), Variant(Algorithms, {})}}
=============================================================================
