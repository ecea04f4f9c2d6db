-------------------------------- MODULE X509 --------------------------------
(***************************************************************************)
(* What listcerts/x509.asn1 says a certificate is: the documents of that   *)
(* grammar, small but with every alternative and optional member, their    *)
(* BER encodings, and the callbacks that each must cause with the contents *)
(* that each must be given.                                                *)
(***************************************************************************)
EXTENDS Integers, Sequences, SequencesExt

(* The actions of the grammar.                                             *)
do_algorithm               == "do_algorithm"
do_attribute_type          == "do_attribute_type"
do_attribute_value         == "do_attribute_value"
do_extension_id            == "do_extension_id"
do_extensions              == "do_extensions"
do_issuer                  == "do_issuer"
do_serialnumber            == "do_serialnumber"
do_signature               == "do_signature"
do_subject                 == "do_subject"
do_subject_public_key_info == "do_subject_public_key_info"
do_validity_not_after      == "do_validity_not_after"
do_validity_not_before     == "do_validity_not_before"
do_version                 == "do_version"

(* The file without its blank lines, as symbols.                           *)
x509_asn1 == <<
    <<"-", "-">>,
    <<"-", "-", "X509", "certificate">>,
    <<"-", "-">>,
    <<"Certificate", "::=", "SEQUENCE", "{">>,
    <<"tbsCertificate", "TBSCertificate", ",">>,
    <<"signatureAlgorithm", "AlgorithmIdentifier", ",">>,
    <<"signature", "BIT", "STRING">>,
    <<"}">>,
    <<"TBSCertificate", "::=", "SEQUENCE", "{">>,
    <<"version", "[", "0", "]", "Version", "DEFAULT", ",">>,
    <<"serialNumber", "CertificateSerialNumber", ",">>,
    <<"signature", "AlgorithmIdentifier", "({", do_signature, "})", ",">>,
    <<"issuer", "Name", "({", do_issuer, "})", ",">>,
    <<"validity", "Validity", ",">>,
    <<"subject", "Name", "({", do_subject, "})", ",">>,
    <<"subjectPublicKeyInfo", "SubjectPublicKeyInfo", "({", do_subject_public_key_info, "})", ",">>,
    <<"issuerUniqueID", "[", "1", "]", "IMPLICIT", "UniqueIdentifier", "OPTIONAL", ",">>,
    <<"subjectUniqueID", "[", "2", "]", "IMPLICIT", "UniqueIdentifier", "OPTIONAL", ",">>,
    <<"extensions", "[", "3", "]", "Extensions", "OPTIONAL", "({", do_extensions, "})">>,
    <<"}">>,
    <<"Version", "::=", "INTEGER", "({", do_version, "})">>,
    <<"CertificateSerialNumber", "::=", "INTEGER", "({", do_serialnumber, "})">>,
    <<"AlgorithmIdentifier", "::=", "SEQUENCE", "{">>,
    <<"algorithm", "OBJECT", "IDENTIFIER", "({", do_algorithm, "})", ",">>,
    <<"parameters", "ANY", "OPTIONAL">>,
    <<"}">>,
    <<"Name", "::=", "SEQUENCE", "OF", "RelativeDistinguishedName">>,
    <<"RelativeDistinguishedName", "::=", "SET", "OF", "AttributeValueAssertion">>,
    <<"AttributeValueAssertion", "::=", "SEQUENCE", "{">>,
    <<"attributeType", "OBJECT", "IDENTIFIER", "({", do_attribute_type, "})", ",">>,
    <<"attributeValue", "ANY", "({", do_attribute_value, "})">>,
    <<"}">>,
    <<"Validity", "::=", "SEQUENCE", "{">>,
    <<"notBefore", "Time", "({", do_validity_not_before, "})", ",">>,
    <<"notAfter", "Time", "({", do_validity_not_after, "})">>,
    <<"}">>,
    <<"Time", "::=", "CHOICE", "{">>,
    <<"utcTime", "UTCTime", ",">>,
    <<"generalTime", "GeneralizedTime">>,
    <<"}">>,
    <<"SubjectPublicKeyInfo", "::=", "SEQUENCE", "{">>,
    <<"algorithm", "AlgorithmIdentifier", ",">>,
    <<"subjectPublicKey", "BIT", "STRING">>,
    <<"}">>,
    <<"UniqueIdentifier", "::=", "BIT", "STRING">>,
    <<"Extensions", "::=", "SEQUENCE", "OF", "Extension">>,
    <<"Extension", "::=", "SEQUENCE", "{">>,
    <<"extId", "OBJECT", "IDENTIFIER", "({", do_extension_id, "})", ",">>,
    <<"critical", "BOOLEAN", "DEFAULT", ",">>,
    <<"extValue", "OCTET", "STRING">>,
    <<"}">> >>

----------------------------------------------------------------------------
(* An encoding is [bytes, calls]: the callbacks are pairs of an action and *)
(* the contents it must be given.                                          *)

Node(bytes, calls) == [bytes |-> bytes, calls |-> calls]
Absent == Node(<<>>, <<>>)

Join(parts) ==
    Node(FlattenSeq([i \in DOMAIN parts |-> parts[i].bytes]),
         FlattenSeq([i \in DOMAIN parts |-> parts[i].calls]))

(* The four ways BER may give a length; the short form holds up to 127.    *)
Forms == {"short", "long1", "long2", "indefinite"}
Framed(t, bytes, form) ==
    LET n == Len(bytes)
    IN CASE form = "short" /\ n < 128 -> <<t, n>> \o bytes
         [] form = "long1" \/ (form = "short" /\ n >= 128) -> <<t, 129, n>> \o bytes
         [] form = "long2" -> <<t, 130, n \div 256, n % 256>> \o bytes
         [] form = "indefinite" -> <<t, 128>> \o bytes \o <<0, 0>>

Constr(t, form, parts) ==
    LET body == Join(parts) IN Node(Framed(t, body.bytes, form), body.calls)

Prim(t, bytes) == Node(Framed(t, bytes, "short"), <<>>)
Noted(t, bytes, action) == Node(Framed(t, bytes, "short"), <<<<action, bytes>>>>)

(* A constructed member whose contents go to an action after it.           *)
NotedConstr(t, form, parts, action) ==
    LET body == Join(parts)
    IN Node(Framed(t, body.bytes, form), Append(body.calls, <<action, body.bytes>>))

(* parameters is ANY OPTIONAL: absent, NULL, or a value with members.      *)
Parameters(kind) ==
    CASE kind = "absent" -> Absent
      [] kind = "null"   -> Prim(5, <<>>)
      [] OTHER -> Constr(48, kind, << Constr(163, kind, << Prim(2, <<0>>) >>),
                                      Node(<<31, 133, 2, 0>>, <<>>),  \* a long tag
                                      Node(<<4, 130, 0, 1, 0>>, <<>>) >>)

AlgorithmParts(params) ==
    << Noted(6, <<42>>, do_algorithm), Parameters(params) >>

NameParts(n, form) ==
    [i \in 1 .. n |-> Constr(49, form,
        << Constr(48, form, << Noted(6, <<85, i>>, do_attribute_type),
                               Noted(12, <<64 + i>>, do_attribute_value) >>) >>)]

Extensions(d) ==
    IF d.extensions = {} THEN Absent
    ELSE Constr(163, d.form,
           << NotedConstr(48, d.form,
                SetToSeq({ Constr(48, d.form,
                    << Noted(6, <<29, IF critical THEN 1 ELSE 2>>, do_extension_id),
                       IF critical THEN Prim(1, <<255>>) ELSE Absent,
                       Prim(4, <<0>>) >>) : critical \in d.extensions }),
                do_extensions) >>)

TbsParts(d) ==
    << IF d.version THEN Constr(160, d.form, << Noted(2, <<2>>, do_version) >>) ELSE Absent,
       Noted(2, <<7>>, do_serialnumber),
       NotedConstr(48, d.form, AlgorithmParts(d.params), do_signature),
       NotedConstr(48, d.form, NameParts(d.names, d.form), do_issuer),
       Constr(48, d.form, << Noted(d.times[1], <<49>>, do_validity_not_before),
                             Noted(d.times[2], <<50>>, do_validity_not_after) >>),
       NotedConstr(48, d.form, NameParts(1, d.form), do_subject),
       NotedConstr(48, d.form,
           << Constr(48, d.form, AlgorithmParts(d.params)), Prim(3, <<0>>) >>,
           do_subject_public_key_info),
       IF d.unique THEN Prim(130, <<1>>) ELSE Absent,
       Extensions(d) >>

Certificate(d) ==
    Constr(48, d.outer,
           << Constr(48, d.form, TbsParts(d)),
              Constr(48, d.form, AlgorithmParts(d.params)),
              Prim(3, <<0, 9>>) >>)

UTCTime == 23
GeneralizedTime == 24

(* The order in which the callbacks of a certificate may come: the action  *)
(* that may be first and, to each, those that may be next.  A member that  *)
(* a sequence of definite length has no room for any more is passed over   *)
(* with its callback, whether it is optional or not; the action of the     *)
(* sequence, or of the CHOICE, is called all the same.                     *)
Foremost == {do_version, do_serialnumber, do_algorithm, do_signature}
Follow ==
    {do_version} \X {do_serialnumber, do_algorithm, do_signature}
    \cup {do_serialnumber} \X {do_algorithm, do_signature}
    \cup {do_algorithm} \X {do_signature, do_subject_public_key_info}
    \cup {do_signature, do_attribute_type, do_attribute_value} \X {do_attribute_type, do_issuer}
    \cup {<<do_attribute_type, do_attribute_value>>, <<do_issuer, do_validity_not_before>>,
          <<do_validity_not_before, do_validity_not_after>>}
    \cup {do_validity_not_after, do_attribute_type, do_attribute_value} \X {do_attribute_type, do_subject}
    \cup {do_subject} \X {do_algorithm, do_subject_public_key_info}
    \cup {do_subject_public_key_info, do_extension_id} \X {do_extension_id, do_extensions}
    \cup {do_subject_public_key_info, do_extensions} \X {do_algorithm}

InOrder(actions) ==
    /\ actions # <<>> => actions[1] \in Foremost
    /\ \A k \in 1 .. Len(actions) - 1 : <<actions[k], actions[k + 1]>> \in Follow
    /\ \A k \in 1 .. Len(actions) : actions[k] = do_subject_public_key_info =>
          \E j \in 1 .. k - 1 : actions[j] = do_subject

Documents ==
    [ version : BOOLEAN, params : {"absent", "null"} \cup Forms, unique : BOOLEAN,
      names : 1 .. 2, times : {UTCTime, GeneralizedTime} \X {UTCTime, GeneralizedTime},
      extensions : SUBSET BOOLEAN, form : Forms, outer : {"long1", "long2", "indefinite"} ]
=============================================================================
