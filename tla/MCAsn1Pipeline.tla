--------------------------- MODULE MCAsn1Pipeline ---------------------------
(* Grammars and documents on which TLC checks Asn1Pipeline.                *)
EXTENDS Asn1Pipeline

G == INSTANCE Asn1Grammar
X == INSTANCE X509

INTEGER == G!Simple("INTEGER")
BOOLEAN_ == G!Simple("BOOLEAN")
OCTETS == G!Simple("OCTET")
BITS == G!Simple("BIT")
OID == G!Simple("OBJECT")

(* Members, with tags that no other member of a sequence has: n is 1, or   *)
(* the largest number that a tag of one octet has.                         *)
Members(n, act) ==
    LET own == IF n = 1 THEN INTEGER ELSE BOOLEAN_
    IN << own,
         G!Acting(act, own),
         G!Optional(own),
         G!Labelled(n, G!Acting(act, own)),
         G!Implicitly(n, G!Optional(G!Acting(act, OCTETS))),
         G!Labelled(n, G!Optional(G!Ref("Twice"))),
         G!Implicitly(n, G!Acting(act, G!Ref("Twice"))),
         G!Acting(act, G!Ref("Once")),
         G!Implicitly(n, G!Optional(G!Acting(act, G!SequenceType(<<INTEGER, G!Optional(OID)>>)))),
         G!Implicitly(n, G!Acting(act, G!SequenceOf(G!Acting("beta", OID)))),
         G!Labelled(n, G!SetOf(G!Ref("Twice"))),
         G!ChoiceType(<<G!Acting(act, own), G!Labelled(n, G!SequenceType(<<OID, INTEGER>>)), BITS>>),
         G!Acting(act, G!ChoiceType(<<own, G!Implicitly(n, G!SequenceOf(OID))>>)),
         G!Labelled(n, G!Optional(G!Ref("Tree"))) >>

Around(members) ==
    << G!Type("Root", G!SequenceType(members)),
       G!Type("Once", G!Implicitly(4, G!SequenceType(<<G!Acting("beta", INTEGER)>>))),
       G!Type("Twice", G!Acting("gamma", G!SequenceType(<<G!Optional(INTEGER), OID>>))),
       G!Type("Tree", G!Labelled(5, G!SequenceType(<<G!Acting("gamma", OID),
                                                     G!Labelled(6, G!Optional(G!Ref("Tree")))>>))) >>

Pairs == (1 .. 14) \X (1 .. 14)

(* Types that need the tags to themselves.                                 *)
Singles == <<
    << G!Type("Root", G!SequenceType(<<G!Optional(INTEGER), G!Acting("alpha", G!AnyType)>>)) >>,
    << G!Type("Root", G!SequenceType(<<INTEGER, G!Labelled(0, G!AnyType)>>)) >>,
    << G!Type("Root", G!SequenceOf(G!Acting("alpha", G!AnyType))) >>,
    << G!Type("Root", G!ChoiceType(<<G!Acting("beta", OCTETS), OID, G!Acting("alpha", G!AnyType)>>)) >>,
    << G!Type("Root", G!SequenceOf(G!ChoiceType(<<G!Acting("beta", OCTETS), G!SequenceOf(OID), BITS>>))) >>,
    << G!Type("Root", G!Acting("alpha", G!SetOf(G!Acting("beta", G!SetOf(G!Acting("gamma", OID)))))) >> >>
SingleNames == {100} \X DOMAIN Singles

(* A simple type, by its name, that may be left out.                       *)
LostOptional == {<<400, 1>>}
Lost == << G!Type("Root", G!SequenceType(<<G!Optional(G!Ref("Number")), BOOLEAN_>>)),
           G!Type("Number", INTEGER) >>

TreeOf(p) ==
    IF p \in LostOptional THEN Lost
    ELSE IF p \in SingleNames THEN Singles[p[2]]
    ELSE Around(<<Members(1, "alpha")[p[1]], Members(30, "beta")[p[2]]>>)

----------------------------------------------------------------------------
(* Texts, most of them with a word too few or a wrong one; the lines they  *)
(* are on do not matter.                                                   *)

Sound == << "A", "::=", "SEQUENCE", "{", "m", "[", "1", "]", "IMPLICIT", "B", "OPTIONAL", ",",
            "CHOICE", "{", "NULL", ",", "[", "PRIVATE", "1", "]", "C", "}", "({", "act", "})", "}",
            "B", "::=", "BIT", "STRING", "C", "::=", "SEQUENCE", "OF", "ANY" >>
Wrong == <<",", "OPTIONAL", "}", "m", "[", "1", "EXTERNAL", "SET", "::=">>
Changed(p) ==
    SubSeq(Sound, 1, p[2] - 1)
      \o (IF p[1] = 200 THEN <<>> ELSE <<Wrong[p[1] - 200]>>)
      \o SubSeq(Sound, p[2] + 1, Len(Sound))
ChangedNames == {200 + k : k \in 0 .. Len(Wrong)} \X DOMAIN Sound
(* And lines with comments and unknown characters.                         *)
Remarks == <<
    << <<"-", "-">>, <<"-", "-", " ", "m">>, <<"A", "::=", "NULL", " ", "-", "-", ",", "-">> >>,
    << <<"-", "-", "-", "-", " ">>, <<"A", "::=", "NULL">> >>,
    << <<"A", "::=", "NULL", "-", "m">> >>,
    << <<"A", "::=", "(", "NULL">> >>,
    << <<"m", "NULL">> >>,
    << >> >>
SoundRemarks == {1, 2}

(* And tags of each class, with numbers up to more than an octet holds,    *)
(* and types with a marker and no tag.                                     *)
ClassWords == << <<>>, <<"UNIVERSAL">>, <<"APPLICATION">>, <<"PRIVATE">> >>
Bodies == << <<"NULL">>, <<"IMPLICIT", "SEQUENCE", "OF", "NULL">>, <<"IMPLICIT", "B", "B", "::=", "NULL">> >>
Tagged(p) ==
    <<"A", "::=">>
      \o (IF p[2] = 0 THEN <<>> ELSE <<"[">> \o ClassWords[p[2]] \o <<ToString(p[3]), "]">>)
      \o Bodies[p[4]]
TaggedNames == {500} \X (0 .. Len(ClassWords)) \X G!Values \X DOMAIN Bodies

TextNames == ChangedNames \cup ({300} \X DOMAIN Remarks) \cup TaggedNames
LinesOf(p) ==
    CASE p[1] = 300 -> Remarks[p[2]] [] p[1] = 500 -> <<Tagged(p)>> [] OTHER -> <<Changed(p)>>
IsSound(p) == IF p[1] = 300 THEN p[2] \in SoundRemarks ELSE G!Derivable(LinesOf(p)[1])

----------------------------------------------------------------------------
(* Certificates.                                                           *)

Expected(c) == [data |-> c.bytes, calls |-> {c.calls}, near |-> TRUE]
(* Certificates the decoder takes as the grammar says: in the indefinite   *)
(* form, those whose optional parameters are there (README).               *)
Certificates ==
    { Expected(X!Certificate(d)) : d \in {d \in X!Documents :
        /\ d.form = "indefinite" => d.params # "absent"
        /\ d.params \in {"absent", "null", d.form}
        /\ d.unique = d.version /\ (d.names = 2 => d.version)
        /\ d.outer = IF d.form = "short" THEN "long1" ELSE d.form } }

(* Certificates cut short, and with one octet changed: of every form and   *)
(* alternative, with a length of the long form around it all.              *)
Samples == { d \in X!Documents :
    /\ d.params = d.form /\ d.names = 1 /\ d.extensions = {TRUE}
    /\ d.version /\ ~d.unique
    /\ d.times = <<X!UTCTime, X!GeneralizedTime>>
    /\ d.form \in {"short", "indefinite"} /\ d.outer = "long1" }
Damaged ==
    { [data |-> b, calls |-> {}, near |-> TRUE] : b \in UNION {
        { SubSeq(c.bytes, 1, n) : n \in 0 .. Len(c.bytes) }
          \cup { ReplaceAt(c.bytes, n, v) : n \in 4 .. Len(c.bytes), v \in {0, 48, 130} } :
        c \in {X!Certificate(d) : d \in Samples} } }

(* Certificates of which one element, or two, have no room for their last  *)
(* members.                                                                *)
Prim(t, bytes) == [tag |-> t, bytes |-> bytes, parts |-> <<>>]
Constr(t, parts) == [tag |-> t, bytes |-> <<>>, parts |-> parts]
RECURSIVE Octets(_)
Octets(e) ==
    X!Framed(e.tag, e.bytes \o FlattenSeq([i \in DOMAIN e.parts |-> Octets(e.parts[i])]), "short")
RECURSIVE Shortened(_)
Shortened(e) ==
    {e} \cup {[e EXCEPT !.parts = SubSeq(e.parts, 1, n)] : n \in 0 .. Len(e.parts) - 1}
        \cup UNION {{[e EXCEPT !.parts[i] = part] : part \in Shortened(e.parts[i])} : i \in DOMAIN e.parts}

Algorithm == Constr(48, <<Prim(6, <<42>>), Prim(5, <<>>)>>)
Name == Constr(48, <<Constr(49, <<Constr(48, <<Prim(6, <<85>>), Prim(12, <<65>>)>>)>>)>>)
Whole == Constr(48, <<
    Constr(48, << Constr(160, <<Prim(2, <<2>>)>>), Prim(2, <<7>>), Algorithm, Name,
                  Constr(48, <<Prim(X!UTCTime, <<49>>), Prim(X!GeneralizedTime, <<50>>)>>), Name,
                  Constr(48, <<Algorithm, Prim(3, <<0>>)>>),
                  Constr(163, <<Constr(48, <<Constr(48, <<Prim(6, <<29>>), Prim(4, <<0>>)>>)>>)>>) >>),
    Algorithm, Prim(3, <<0>>) >>)
Lacking == { [data |-> Octets(e), calls |-> {}, near |-> TRUE] : e \in UNION {Shortened(s) : s \in Shortened(Whole)} }

----------------------------------------------------------------------------
X509Name == <<0, 0>>
AllGrammars == {X509Name} \cup Pairs \cup SingleNames \cup TextNames
AllTexts == [p \in AllGrammars \cup LostOptional |->
    IF p = X509Name THEN X!x509_asn1 ELSE IF p \in TextNames THEN LinesOf(p) ELSE G!TextOf(TreeOf(p))]
Numerals == G!NumeralValues
SoundName(p) == p \in TextNames => IsSound(p)

(* The words with a small letter, in strcmp order.                         *)
Names == << "act", "algorithm", "alpha", "attributeType", "attributeValue", "beta", "critical",
    "do_algorithm", "do_attribute_type", "do_attribute_value", "do_extension_id", "do_extensions",
    "do_issuer", "do_serialnumber", "do_signature", "do_subject", "do_subject_public_key_info",
    "do_validity_not_after", "do_validity_not_before", "do_version", "extId", "extValue",
    "extensions", "gamma", "generalTime", "issuer", "issuerUniqueID", "m", "member", "notAfter",
    "notBefore", "parameters", "serialNumber", "signature", "signatureAlgorithm", "subject",
    "subjectPublicKey", "subjectPublicKeyInfo", "subjectUniqueID", "tbsCertificate", "utcTime",
    "validity", "version" >>

DocsOf(p) == UNION {G!EncodingsOf(TreeOf(p), f) : f \in {"short", "indefinite"}}
(* Documents of some of the grammars, offered to all.                      *)
Strangers == UNION {DocsOf(p) : p \in {<<1, 2>>, <<4, 7>>, <<9, 13>>, <<100, 6>>}}

DocumentsOf(p) ==
    IF p = X509Name THEN Certificates \cup Damaged \cup Lacking
    ELSE IF p \in TextNames THEN {}
    ELSE {G!Document(TreeOf(p), b) : b \in DocsOf(p)} \cup {G!Foreign(TreeOf(p), b) : b \in Strangers \ DocsOf(p)}

----------------------------------------------------------------------------
(* Whatever is missing in a certificate or wrong with it, the callbacks    *)
(* that the decoder makes for it are in the order that x509.asn1 gives     *)
(* their members: in this order the callbacks of listcerts gather their    *)
(* text in one buffer.                                                     *)
CertificateOrder ==
    stage = "built" /\ grammar = X509Name =>
        X!InOrder([k \in DOMAIN calls |-> job.actions[calls[k].action + 1]])
=============================================================================
