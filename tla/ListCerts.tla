----------------------------- MODULE ListCerts -----------------------------
(***************************************************************************)
(* The program listcerts/listcerts.c: read the Secure Boot variables, walk *)
(* the signature lists in them and print the certificates.                 *)
(*                                                                         *)
(* A certificate is the callbacks that asn1_ber_decoder makes for it: all  *)
(* of them, or if it refuses the certificate those of a beginning of it.   *)
(* The callbacks gather text in tmpbuf, a static buffer, and print it.     *)
(* Text is the sequence of its pieces, each with the certificate and the   *)
(* callback it is of.                                                      *)
(***************************************************************************)
EXTENDS X509, FiniteSets

CONSTANTS
    Stores,         \* what the variables may hold, see below
    CommandLines,   \* sequences of words
    FirmwareFails   \* subset of BOOLEAN: may GetVariable fail?

variables == <<"PK", "KEK", "db", "dbx">>
Names == {"PK", "KEK", "db", "dbx"}
HeaderOfList == 28      \* sizeof(EFI_SIGNATURE_LIST)

(* What a callback does: it adds to tmpbuf, prints it, or prints a line of *)
(* its own.  An algorithm with a name replaces what tmpbuf holds.          *)
Gathering == {do_attribute_type, do_attribute_value, do_extension_id}
Flushing == {do_signature, do_issuer, do_subject, do_extensions, do_subject_public_key_info}
Printing == {do_version, do_serialnumber, do_validity_not_before, do_validity_not_after}

(* A call says whether its OID is one that Lookup_OID knows.  A signature  *)
(* list has its SignatureListSize, SignatureHeaderSize and SignatureSize,  *)
(* and the certificates in it.  A variable is NotFound, or signature lists *)
(* and a length in bytes that covers them, or less; or behind them is one  *)
(* more list, broken, that says its size is 0 or that of its entries.      *)
Call == [action : Gathering \cup Flushing \cup Printing \cup {do_algorithm}, known : BOOLEAN]
List == [size : Nat, header : Nat, sig : Nat \ {0}, certs : Seq(Seq(Call))]
Contents == [lists : Seq(List), len : Nat, broken : {"none", "size", "entries"}]
NotFound == [lists |-> <<>>, len |-> 0, broken |-> "none"]

(* Where the k-th list ends.                                               *)
Ends(lists) ==
    LET end[k \in 0 .. Len(lists)] == IF k = 0 THEN 0 ELSE end[k - 1] + lists[k].size
    IN end
Lengths(lists) == Ends(lists)[Len(lists)]

ASSUME StoresAssumption ==
    /\ Stores \subseteq [Names -> Contents]
    /\ \A store \in Stores, name \in Names :
         LET v == store[name]
         IN /\ IF v.broken = "none" THEN v.len <= Lengths(v.lists)
                                    ELSE v.len >= Lengths(v.lists) + HeaderOfList
            /\ \A m \in DOMAIN v.lists :
                 LET list == v.lists[m]
                 IN list.size = HeaderOfList + list.header + Len(list.certs) * list.sig

Actions(calls) == [k \in 1 .. Len(calls) |-> calls[k].action]
AllCerts(P(_)) ==
    \A store \in Stores, name \in Names : \A m \in DOMAIN store[name].lists :
       \A j \in DOMAIN store[name].lists[m].certs : P(store[name].lists[m].certs[j])
CallsInOrder(calls) == InOrder(Actions(calls))

ASSUME OrderAssumption == AllCerts(CallsInOrder)

VARIABLES
    nvram, argv, at,
    todo,               \* the variables still to be output, the first in work
    DataSize,           \* bytes from CertList on
    l, Index,           \* CertList and Cert, counted from 1 and 0
    c,                  \* callbacks made for this certificate
    tmpbuf, status,
    outcomes, decoded, printed  \* history: the status of each variable, the
                                \* certificates decoded, the lines printed

walk == <<DataSize, l, Index, c>>
vars == <<nvram, argv, at, todo, walk, tmpbuf, status, outcomes, decoded, printed>>

CertList == nvram[todo[1]].lists[l]
Cert == <<todo[1], l, Index + 1>>
Calls == IF Index < Len(CertList.certs) THEN CertList.certs[Index + 1] ELSE <<>>

Init ==
    /\ nvram \in Stores /\ argv \in CommandLines
    /\ at = "args" /\ todo = <<>> /\ status = "success"
    /\ DataSize = 0 /\ l = 1 /\ Index = 0 /\ c = 0 /\ tmpbuf = <<>>
    /\ outcomes = <<>> /\ decoded = <<>> /\ printed = <<>>

(* --help, a wrong option and too many words ask for no variable.          *)
Asked(line) ==
    CASE line = <<>> -> variables
      [] line = <<"-pk">>  -> <<"PK">>
      [] line = <<"-kek">> -> <<"KEK">>
      [] line = <<"-db">>  -> <<"db">>
      [] line = <<"-dbx">> -> <<"dbx">>
      [] OTHER -> <<>>

ParseArgs ==
    /\ at = "args"
    /\ at' = "variable" /\ todo' = Asked(argv)
    /\ UNCHANGED <<nvram, argv, walk, tmpbuf, status, outcomes, decoded, printed>>

(* The shell gives no arguments: get_args fails.                           *)
GetArgsFails ==
    /\ at = "args" /\ TRUE \in FirmwareFails
    /\ at' = "returned" /\ status' = "error"
    /\ UNCHANGED <<nvram, argv, todo, walk, tmpbuf, outcomes, decoded, printed>>

(* get_variable asks for the size first and for the data then; either may  *)
(* fail, and the variable is then passed over with a message.              *)
OutputVariable ==
    /\ at = "variable" /\ todo # <<>>
    /\ LET v == nvram[todo[1]]
       IN \E s \in (IF v = NotFound THEN {"not_found"} ELSE {"success"})
                   \cup (IF TRUE \in FirmwareFails THEN {"error"} ELSE {}) :
            /\ status' = s /\ outcomes' = Append(outcomes, s)
            /\ IF s = "success"
               THEN at' = "lists" /\ DataSize' = v.len /\ l' = 1 /\ UNCHANGED todo
               ELSE todo' = Tail(todo) /\ UNCHANGED <<at, DataSize, l>>
    /\ UNCHANGED <<nvram, argv, Index, c, tmpbuf, decoded, printed>>

(* The list in work is there, to its end.                                  *)
Complete == l <= Len(nvram[todo[1]].lists) /\ DataSize > 0 /\ DataSize >= CertList.size

(* Seeded bug: the quotient is rounded up.                                 *)
CertCount_up == (CertList.size - CertList.header + CertList.sig - 1) \div CertList.sig
CertCount == (CertList.size - CertList.header) \div CertList.sig

NextList ==
    /\ at = "lists" /\ Complete
    /\ at' = "certs" /\ Index' = 0
    /\ UNCHANGED <<nvram, argv, todo, DataSize, l, c, tmpbuf, status, outcomes, decoded, printed>>

(* Behind the lists is one that is broken.                                 *)
Broken == l > Len(nvram[todo[1]].lists) /\ nvram[todo[1]].broken # "none"

LastList ==
    /\ at = "lists" /\ ~Complete /\ ~Broken
    /\ at' = "variable" /\ todo' = Tail(todo)
    /\ UNCHANGED <<nvram, argv, walk, tmpbuf, status, outcomes, decoded, printed>>

(* A list of size 0 is behind itself, for ever; where entries have size 0, *)
(* CertCount is a division by zero; and less than SizeRead bytes are too   *)
(* few for a SignatureListSize, so that memory behind the data is read,    *)
(* which may say anything: the walk ends (LastList), or it goes astray and *)
(* takes for lists and certificates what is none.  It is not followed.     *)
SizeRead == 20
Stop(where) ==
    /\ at' = where
    /\ UNCHANGED <<nvram, argv, todo, walk, tmpbuf, status, outcomes, decoded, printed>>
Endless == at = "lists" /\ Broken /\ nvram[todo[1]].broken = "size" /\ Stop("endless")
DivisionByZero == at = "lists" /\ Broken /\ nvram[todo[1]].broken = "entries" /\ Stop("faulted")
Astray == at = "lists" /\ ~Complete /\ ~Broken /\ DataSize \in 1 .. SizeRead - 1 /\ Stop("astray")

(* Entries of up to 100 bytes are hashes and keys, not certificates.       *)
(* Seeded bug: Cert moves on over certificates alone.                      *)
PastSmall_not == Index
PastSmall == Index + 1

NextCert ==
    /\ at = "certs" /\ Index < CertCount
    /\ IF CertList.sig > 100
       THEN at' = "decode" /\ c' = 0 /\ decoded' = Append(decoded, Cert) /\ UNCHANGED Index
       ELSE Index' = PastSmall /\ UNCHANGED <<at, c, decoded>>
    /\ UNCHANGED <<nvram, argv, todo, DataSize, l, tmpbuf, status, outcomes, printed>>

LastCert ==
    /\ at = "certs" /\ Index >= CertCount
    /\ at' = "lists" /\ DataSize' = DataSize - CertList.size /\ l' = l + 1
    /\ UNCHANGED <<nvram, argv, todo, Index, c, tmpbuf, status, outcomes, decoded, printed>>

----------------------------------------------------------------------------
Piece(action) == [cert |-> Cert, of |-> action]
StrCpy(action) == tmpbuf' = <<Piece(action)>> /\ UNCHANGED printed
StrCat(action) == tmpbuf' = Append(tmpbuf, Piece(action)) /\ UNCHANGED printed

(* A line of its own, or one with the text in tmpbuf, which is emptied.    *)
Line(action, text) == printed' = Append(printed, [cert |-> Cert, of |-> action, text |-> text])

(* Seeded bug: it is not emptied.                                          *)
Flush_kept(action) == Line(action, tmpbuf) /\ UNCHANGED tmpbuf
Flush(action) == Line(action, tmpbuf) /\ tmpbuf' = <<>>

(* An algorithm with a name replaces the text, another is added to it.     *)
do_algorithm_text(known) ==
    IF known THEN StrCpy(do_algorithm) ELSE StrCat(do_algorithm)

Callback ==
    /\ at = "decode" /\ c < Len(Calls)
    /\ LET call == Calls[c + 1]
       IN \/ call.action = do_algorithm /\ do_algorithm_text(call.known)
          \/ call.action \in Gathering /\ StrCat(call.action)
          \/ call.action \in Flushing /\ Flush(call.action)
          \/ call.action \in Printing /\ Line(call.action, <<>>) /\ UNCHANGED tmpbuf
    /\ c' = c + 1
    /\ UNCHANGED <<nvram, argv, at, todo, DataSize, l, Index, status, outcomes, decoded>>

Decoded ==
    /\ at = "decode" /\ c = Len(Calls)
    /\ at' = "certs" /\ Index' = Index + 1
    /\ UNCHANGED <<nvram, argv, todo, DataSize, l, c, tmpbuf, status, outcomes, decoded, printed>>

Return ==
    /\ at = "variable" /\ todo = <<>>
    /\ at' = "returned"
    /\ UNCHANGED <<nvram, argv, todo, walk, tmpbuf, status, outcomes, decoded, printed>>

Next == GetArgsFails \/ ParseArgs \/ OutputVariable \/ NextList \/ LastList \/ Endless
        \/ DivisionByZero \/ Astray \/ NextCert \/ LastCert \/ Callback \/ Decoded \/ Return

(* A program of one thread: it goes on until it returns.                   *)
Spec == Init /\ [][Next]_vars /\ WF_vars(Next)
----------------------------------------------------------------------------
(* The certificates of the lists that are there as a whole.                *)
WholeLists(v) == {k \in DOMAIN v.lists : Ends(v.lists)[k] <= v.len}
CertsOf(name) ==
    LET v == nvram[name]
        of(k) == IF v.lists[k].sig > 100
                 THEN [j \in DOMAIN v.lists[k].certs |-> <<name, k, j>>] ELSE <<>>
    IN FlattenSeq([k \in 1 .. Cardinality(WholeLists(v)) |-> of(k)])

NoArguments == status = "error" /\ outcomes = <<>>

(* A run that returns has tried every variable asked for, whatever became  *)
(* of those before it, and in those that could be read each certificate of *)
(* each whole list is decoded once and nothing else is taken for one,      *)
(* although the header of a list is divided by SignatureSize together with *)
(* its entries.  (A run that went astray is not followed until it returns.)*)
EachCertificate ==
    at = "returned" /\ ~NoArguments =>
       /\ Len(outcomes) = Len(Asked(argv))
       /\ outcomes # <<>> => status = Last(outcomes)
       /\ decoded = FlattenSeq([k \in DOMAIN outcomes |->
                       IF outcomes[k] = "success" THEN CertsOf(Asked(argv)[k]) ELSE <<>>])

(* The pieces that may be in a line: of its certificate, and of the part   *)
(* of it that the line is about.                                           *)
Belongs(piece, line) ==
    /\ piece.cert = line.cert
    /\ CASE line.of \in {do_signature, do_subject_public_key_info} -> piece.of = do_algorithm
         [] line.of \in {do_issuer, do_subject} -> piece.of \in {do_attribute_type, do_attribute_value}
         [] line.of = do_extensions -> piece.of = do_extension_id
ShowsOwn(line) == \A p \in DOMAIN line.text : Belongs(line.text[p], line)

(* What a line shows was gathered from the certificate it is printed for,  *)
(* and for that line: tmpbuf carries nothing over.                         *)
OwnText == \A k \in DOMAIN printed : ShowsOwn(printed[k])

(* The callbacks of a certificate begin with an algorithm with a name, but *)
(* for those that print lines of their own.                                *)
StartsNamed(calls) ==
    \E k \in 1 .. Len(calls) :
       /\ calls[k].action = do_algorithm /\ calls[k].known
       /\ \A j \in 1 .. k - 1 : calls[j].action \in {do_version, do_serialnumber}
CallsOf(cert) == nvram[cert[1]].lists[cert[2]].certs[cert[3]]

(* That is so of every line but one: neither a certificate that was        *)
(* refused halfway, nor one with members missing, nor the last algorithm   *)
(* of a certificate, which no callback prints, gets into the text of       *)
(* another, unless into the line of the signature algorithm of the one     *)
(* behind it, where that does not begin with an algorithm with a name.     *)
OnlyUnnamedCarry ==
    \A k \in DOMAIN printed :
       \/ printed[k].of = do_signature /\ ~StartsNamed(CallsOf(printed[k].cert))
       \/ ShowsOwn(printed[k])

(* The program ends, if the variables it is asked for hold no list of size *)
(* 0, none with entries of size 0, and no rest too short for the size of   *)
(* one.                                                                    *)
Readable(v) ==
    /\ v.broken = "none"
    /\ \A k \in 0 .. Len(v.lists) : v.len - Ends(v.lists)[k] \notin 1 .. SizeRead - 1
Terminates == (\A name \in ToSet(Asked(argv)) : Readable(nvram[name])) => <>(at = "returned")
=============================================================================
