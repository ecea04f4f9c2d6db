-------------------------- MODULE ListCertsProofs --------------------------
(***************************************************************************)
(* The walk of listcerts for any variables, and the text that it gathers.  *)
(*                                                                         *)
(* Walk says where the program is in the lists; Decoded what it has        *)
(* decoded so far; Gathered what tmpbuf may hold behind each callback.     *)
(***************************************************************************)
EXTENDS ListCerts, WellFoundedInduction, FiniteSetTheorems, SequenceTheorems, TLAPS

----------------------------------------------------------------------------
(* Induction over the natural numbers, from the least number that fails.   *)
LEMMA LeastElement ==
    ASSUME NEW S \in SUBSET Nat, S # {}
    PROVE  \E n \in S : \A m \in S : n <= m
<1>1. PICK less : IsWellFoundedOn(less, Nat) /\ \A m, n \in Nat : <<m, n>> \in less <=> m < n
  <2> DEFINE less == OpToRel(<, Nat)
  <2>1. IsWellFoundedOn(less, Nat)
    BY NatLessThanWellFounded
  <2>2. \A m, n \in Nat : <<m, n>> \in less <=> m < n
    BY DEF OpToRel
  <2> HIDE DEF less
  <2> QED
    BY <2>1, <2>2
<1>2. IsWellFoundedOn(less, Nat) /\ S \subseteq Nat
  BY <1>1
<1>3. PICK n \in S : \A m \in S : ~ (<<m, n>> \in less)
  <2>1. \E x \in S : \A y \in S : ~ (<<y, x>> \in less)
    BY <1>2, WFMin, Zenon
  <2> QED
    BY <2>1
<1>4. \A m \in S : ~ (m < n)
  BY <1>1, <1>2, <1>3
<1>5. \A m, k \in Nat : ~ (m < k) => k <= m
  OBVIOUS
<1> QED
  BY <1>2, <1>3, <1>4, <1>5

LEMMA Induct ==
    ASSUME NEW S, 0 \in S, \A n \in Nat : n \in S => n + 1 \in S
    PROVE  \A n \in Nat : n \in S
<1> DEFINE T == Nat \ S
<1>1. SUFFICES ASSUME T # {} PROVE FALSE
  OBVIOUS
<1>2. PICK n \in T : \A m \in T : n <= m
  BY <1>1, LeastElement
<1>3. n # 0 /\ n - 1 \in Nat /\ n - 1 \notin T
  BY <1>2
<1> QED
  BY <1>2, <1>3

(* What the parts of a variable are.                                       *)
LEMMA ListHas ==
    ASSUME NEW lists \in Seq(List)
    PROVE  /\ Len(lists) \in Nat /\ DOMAIN lists = 1 .. Len(lists)
           /\ \A k \in 1 .. Len(lists) :
                /\ lists[k].size \in Nat /\ lists[k].header \in Nat
                /\ lists[k].sig \in Nat \ {0} /\ lists[k].certs \in Seq(Seq(Call))
<1>1. \A list \in List : /\ list.size \in Nat /\ list.header \in Nat
                         /\ list.sig \in Nat \ {0} /\ list.certs \in Seq(Seq(Call))
  BY Zenon DEF List
<1>2. \A k \in 1 .. Len(lists) : lists[k] \in List
  OBVIOUS
<1> QED
  BY <1>1, <1>2

(* Ends, as the sums that it stands for.                                   *)
IsEnds(end, lists) ==
    end = [k \in 0 .. Len(lists) |-> IF k = 0 THEN 0 ELSE end[k - 1] + lists[k].size]

LEMMA EndsAre ==
    ASSUME NEW lists \in Seq(List)
    PROVE  /\ Ends(lists)[0] = 0
           /\ \A k \in 0 .. Len(lists) : Ends(lists)[k] \in Nat
           /\ \A k \in 1 .. Len(lists) : Ends(lists)[k] = Ends(lists)[k - 1] + lists[k].size
<1> DEFINE n == Len(lists)
           Good(g, m) == /\ g[0] = 0
                         /\ \A k \in 0 .. m : g[k] \in Nat
                         /\ \A k \in 1 .. m : g[k] = g[k - 1] + lists[k].size
           Sums(m) == \E g \in [0 .. m -> Nat] : Good(g, m)
           Reach == {m \in Nat : m <= n => Sums(m)}
<1>1. n \in Nat /\ \A k \in 1 .. n : lists[k].size \in Nat
  BY ListHas
<1> HIDE DEF n
<1>2. 0 \in Reach
  <2> DEFINE g == [k \in 0 .. 0 |-> 0]
  <2>1. g \in [0 .. 0 -> Nat] /\ Good(g, 0)
    OBVIOUS
  <2>2. Sums(0)
    BY <2>1
  <2> HIDE DEF Sums
  <2> QED
    BY <2>2
<1>3. ASSUME NEW m \in Nat, m \in Reach PROVE m + 1 \in Reach
  <2> HIDE DEF Sums
  <2> SUFFICES ASSUME m + 1 <= n PROVE Sums(m + 1)
    OBVIOUS
  <2>0. Sums(m)
    BY <1>1, <1>3
  <2>1. PICK g \in [0 .. m -> Nat] : Good(g, m)
    BY <2>0 DEF Sums
  <2> DEFINE h == [k \in 0 .. m + 1 |-> IF k <= m THEN g[k] ELSE g[m] + lists[m + 1].size]
  <2>2. g[m] \in Nat /\ lists[m + 1].size \in Nat
    BY <1>1, <2>1
  <2>3. h \in [0 .. m + 1 -> Nat]
    BY <2>1, <2>2
  <2>4. \A k \in 0 .. m : h[k] = g[k]
    OBVIOUS
  <2>5. h[m + 1] = g[m] + lists[m + 1].size
    OBVIOUS
  <2> HIDE DEF h
  <2>6. h[0] = 0 /\ \A k \in 0 .. m + 1 : h[k] \in Nat
    BY <2>1, <2>3, <2>4
  <2>7. \A k \in 1 .. m + 1 : h[k] = h[k - 1] + lists[k].size
    <3>1. \A k \in 1 .. m : h[k] = h[k - 1] + lists[k].size
      BY <2>1, <2>4, SMTT(30)
    <3>2. h[m + 1] = h[m + 1 - 1] + lists[m + 1].size
      BY <2>4, <2>5
    <3> HIDE DEF Good
    <3> QED
      BY <3>1, <3>2, SMTT(30)
  <2> QED
    BY <2>3, <2>6, <2>7 DEF Sums
<1> HIDE DEF Reach
<1>4. n \in Reach
  BY <1>1, <1>2, <1>3, Induct, Zenon
<1>5. PICK g \in [0 .. n -> Nat] : Good(g, n)
  <2>1. n \in Nat /\ n <= n
    BY <1>1
  <2> HIDE DEF Sums
  <2>2. Sums(n)
    BY <1>4, <2>1 DEF Reach
  <2> QED
    BY <2>2 DEF Sums
<1>6. \E end : IsEnds(end, lists)
  <2>1. \A k \in 0 .. n : g[k] = IF k = 0 THEN 0 ELSE g[k - 1] + lists[k].size
    BY <1>1, <1>5
  <2>2. g = [k \in 0 .. n |-> IF k = 0 THEN 0 ELSE g[k - 1] + lists[k].size]
    BY <1>5, <2>1
  <2> QED
    BY <2>2 DEF IsEnds, n
<1> DEFINE e == CHOOSE end : IsEnds(end, lists)
<1>7. Ends(lists) = e
  BY DEF Ends, IsEnds
<1>8. IsEnds(e, lists)
  BY <1>6
<1> HIDE DEF e
<1>9. \A k \in 0 .. n : e[k] = IF k = 0 THEN 0 ELSE e[k - 1] + lists[k].size
  BY <1>8 DEF IsEnds, n
<1>10. \A k \in Nat : k <= n => e[k] = g[k]
  <2> DEFINE Same == {k \in Nat : k <= n => e[k] = g[k]}
  <2>1. 0 \in Same
    BY <1>1, <1>5, <1>9
  <2>2. ASSUME NEW k \in Nat, k \in Same PROVE k + 1 \in Same
    BY <1>1, <1>5, <1>9, <2>2
  <2> HIDE DEF Same
  <2>3. \A k \in Nat : k \in Same
    BY <2>1, <2>2, Induct, Zenon
  <2> QED
    BY <2>3 DEF Same
<1> QED
  BY <1>1, <1>5, <1>7, <1>10 DEF n

(* The header adds nothing to the quotient: an entry of more than 100      *)
(* bytes is larger.                                                        *)
LEMMA Quotient ==
    ASSUME NEW n \in Nat, NEW s \in Nat, s > HeaderOfList
    PROVE  (HeaderOfList + n * s) \div s = n
<1> DEFINE a == HeaderOfList + n * s
           q == a \div s
<1>1. a \in Nat /\ s > 28 /\ a = 28 + n * s
  BY DEF HeaderOfList
<1>2. q \in Nat /\ q * s <= a /\ a < (q + 1) * s
  <2> HIDE DEF a
  <2> QED
    BY <1>1
<1> HIDE DEF a, q
<1>3. ~ (q >= n + 1)
  <2> SUFFICES ASSUME q >= n + 1 PROVE FALSE
    OBVIOUS
  <2>1. q * s >= (n + 1) * s
    BY <1>1, <1>2
  <2>2. (n + 1) * s = n * s + s
    BY <1>1
  <2> QED
    BY <1>1, <1>2, <2>1, <2>2
<1>4. ~ (q + 1 <= n)
  <2> SUFFICES ASSUME q + 1 <= n PROVE FALSE
    OBVIOUS
  <2>1. (q + 1) * s <= n * s
    BY <1>1, <1>2
  <2> QED
    BY <1>1, <1>2, <2>1
<1>5. q = n
  BY <1>2, <1>3, <1>4
<1> QED
  BY <1>5 DEF a, q

----------------------------------------------------------------------------
(* Where the walk is: at a list whose lists before it are whole, and at    *)
(* one of its certificates.                                                *)
Places == {"args", "variable", "lists", "certs", "decode", "returned", "endless", "faulted", "astray"}
Inside == {"lists", "certs", "decode"}
InList == {"certs", "decode"}
Var == nvram[todo[1]]

WalkInv ==
    /\ nvram \in Stores
    /\ at \in Places
    /\ todo \in Seq(Names)
    /\ l \in Nat /\ Index \in Nat /\ c \in Nat /\ DataSize \in Int
    /\ at \in Inside =>
         /\ todo # <<>>
         /\ l >= 1 /\ l <= Len(Var.lists) + 1
         /\ Ends(Var.lists)[l - 1] <= Var.len
         /\ DataSize = Var.len - Ends(Var.lists)[l - 1]
    /\ at \in InList => l <= Len(Var.lists) /\ Ends(Var.lists)[l] <= Var.len
    /\ at = "certs" => Index <= CertCount
    /\ at = "decode" => Index < CertCount /\ CertList.sig > 100 /\ c <= Len(Calls)

(* What has been decoded: the certificates of the variables output, of the *)
(* lists before this one, and of this one up to Cert.                      *)
Certificates == Names \X Nat \X Nat
Entries(name, k, n) ==
    IF nvram[name].lists[k].sig > 100 THEN [j \in 1 .. n |-> <<name, k, j>>] ELSE <<>>
OfList(name, k) == Entries(name, k, Len(nvram[name].lists[k].certs))
OfLists(name, n) == FlattenSeq([k \in 1 .. n |-> OfList(name, k)])
OfVariable(outs, k) == IF outs[k] = "success" THEN CertsOf(Asked(argv)[k]) ELSE <<>>
OfVariables(outs, n) == FlattenSeq([k \in 1 .. n |-> OfVariable(outs, k)])

Outcomes == {"success", "not_found", "error"}
Left(k) == k <= Len(Asked(argv)) + 1 /\ todo = SubSeq(Asked(argv), k, Len(Asked(argv)))

OutputInv ==
    LET n == Len(outcomes)
    IN /\ outcomes \in Seq(Outcomes)
       /\ decoded \in Seq(Certificates)
       /\ at = "args" => outcomes = <<>> /\ decoded = <<>> /\ status = "success"
       /\ at \in Inside \cup {"variable"} =>
            status = IF outcomes = <<>> THEN "success" ELSE outcomes[n]
       /\ at = "variable" => Left(n + 1) /\ decoded = OfVariables(outcomes, n)
       /\ at \in Inside => n >= 1 /\ Left(n) /\ outcomes[n] = "success"
       /\ at = "lists" => decoded = OfVariables(outcomes, n - 1) \o OfLists(todo[1], l - 1)
       /\ at \in InList =>
            decoded = (OfVariables(outcomes, n - 1) \o OfLists(todo[1], l - 1))
                      \o Entries(todo[1], l, IF at = "certs" THEN Index ELSE Index + 1)
       /\ at = "returned" /\ ~NoArguments =>
            /\ n = Len(Asked(argv)) /\ decoded = OfVariables(outcomes, n)
            /\ outcomes # <<>> => status = outcomes[n]

(* What tmpbuf holds behind a callback: behind an algorithm its name, of a *)
(* name or an extension the pieces so far, and behind a line nothing.      *)
(* Only where a certificate leads up to its text it may hold the rest of   *)
(* another: an algorithm with a name replaces that.                        *)
Early == {do_version, do_serialnumber}
Leads(k) == \A j \in 1 .. k - 1 : Calls[j].action \in Early
Pieces == [cert : Certificates, of : Gathering \cup {do_algorithm}]
Lines == [cert : Certificates, of : Flushing \cup Printing, text : Seq(Pieces)]
Own(kinds) == \A p \in DOMAIN tmpbuf : tmpbuf[p].cert = Cert /\ tmpbuf[p].of \in kinds
Behind(action) ==
    /\ action = do_algorithm => Own({do_algorithm}) \/ (Leads(c) /\ ~StartsNamed(Calls))
    /\ action \in Early => Leads(c)
    /\ action \in {do_attribute_type, do_attribute_value} =>
         Own({do_attribute_type, do_attribute_value})
    /\ action = do_extension_id => Own({do_extension_id})
    /\ action \in Flushing \cup {do_validity_not_before, do_validity_not_after} => tmpbuf = <<>>

TextInv ==
    /\ tmpbuf \in Seq(Pieces)
    /\ printed \in Seq(Lines)
    /\ at = "decode" /\ c > 0 => Behind(Calls[c].action)
    /\ OnlyUnnamedCarry

----------------------------------------------------------------------------
(* What the assumption on Stores says of a variable.                       *)
LEMMA VariableHas ==
    ASSUME NEW store \in Stores, NEW name \in Names
    PROVE  /\ store[name].lists \in Seq(List)
           /\ store[name].len \in Nat
           /\ \A m \in 1 .. Len(store[name].lists) :
                store[name].lists[m].size =
                  HeaderOfList + store[name].lists[m].header
                    + Len(store[name].lists[m].certs) * store[name].lists[m].sig
<1>1. store[name] \in Contents
  BY StoresAssumption DEF Names
<1>2. store[name].lists \in Seq(List) /\ store[name].len \in Nat
  BY <1>1, Zenon DEF Contents
<1>3. DOMAIN store[name].lists = 1 .. Len(store[name].lists)
  BY <1>2, ListHas
<1>5. \A m \in DOMAIN store[name].lists :
         store[name].lists[m].size =
           HeaderOfList + store[name].lists[m].header
             + Len(store[name].lists[m].certs) * store[name].lists[m].sig
  BY StoresAssumption, Zenon
<1> QED
  BY <1>2, <1>3, <1>5, Zenon

(* The lists of a variable, and where they end.                            *)
LEMMA ContentsHave ==
    ASSUME NEW store \in Stores, NEW name \in Names
    PROVE  /\ store[name].len \in Nat /\ Len(store[name].lists) \in Nat
           /\ Ends(store[name].lists)[0] = 0
           /\ \A k \in 0 .. Len(store[name].lists) : Ends(store[name].lists)[k] \in Nat
           /\ \A k \in 1 .. Len(store[name].lists) :
                /\ Ends(store[name].lists)[k] = Ends(store[name].lists)[k - 1] + store[name].lists[k].size
                /\ store[name].lists[k].certs \in Seq(Seq(Call))
                /\ Len(store[name].lists[k].certs) \in Nat
                /\ store[name].lists[k].sig \in Nat \ {0} /\ store[name].lists[k].header \in Nat
                /\ store[name].lists[k].size \in Nat
                /\ store[name].lists[k].size - store[name].lists[k].header
                      = HeaderOfList + Len(store[name].lists[k].certs) * store[name].lists[k].sig
                /\ store[name].lists[k].size >= HeaderOfList
<1> DEFINE v == store[name]
<1>1. /\ v.lists \in Seq(List) /\ v.len \in Nat
      /\ \A m \in 1 .. Len(v.lists) :
           v.lists[m].size = HeaderOfList + v.lists[m].header + Len(v.lists[m].certs) * v.lists[m].sig
  BY VariableHas, Zenon
<1> HIDE DEF v
<1> DEFINE L == v.lists
<1>2. L \in Seq(List)
  BY <1>1
<1> HIDE DEF L
<1>3. /\ Ends(L)[0] = 0
      /\ \A k \in 0 .. Len(L) : Ends(L)[k] \in Nat
      /\ \A k \in 1 .. Len(L) : Ends(L)[k] = Ends(L)[k - 1] + L[k].size
  BY <1>2, EndsAre
<1>4. /\ Len(L) \in Nat
      /\ \A k \in 1 .. Len(L) :
                /\ L[k].size \in Nat /\ L[k].header \in Nat
                /\ L[k].sig \in Nat \ {0} /\ L[k].certs \in Seq(Seq(Call))
  BY <1>2, ListHas
<1>5. \A k \in 1 .. Len(L) :
         /\ Len(L[k].certs) \in Nat
         /\ L[k].size - L[k].header = HeaderOfList + Len(L[k].certs) * L[k].sig
         /\ L[k].size >= HeaderOfList
  <2> SUFFICES ASSUME NEW k \in 1 .. Len(L)
               PROVE  /\ Len(L[k].certs) \in Nat
                      /\ L[k].size - L[k].header = HeaderOfList + Len(L[k].certs) * L[k].sig
                      /\ L[k].size >= HeaderOfList
    OBVIOUS
  <2>1. Len(L[k].certs) \in Nat
    BY <1>4
  <2>2. L[k].size = HeaderOfList + L[k].header + Len(L[k].certs) * L[k].sig
    BY <1>1 DEF L
  <2>3. L[k].size \in Nat /\ L[k].header \in Nat /\ L[k].sig \in Nat
    BY <1>4
  <2>4. Len(L[k].certs) * L[k].sig \in Nat
    BY <2>1, <2>3
  <2> QED
    BY <2>1, <2>2, <2>3, <2>4, SMTT(30) DEF HeaderOfList
<1> QED
  BY <1>1, <1>3, <1>4, <1>5, Zenon DEF v, L

LEMMA VarHas ==
    ASSUME nvram \in Stores, todo \in Seq(Names), todo # <<>>
    PROVE  /\ todo[1] \in Names
           /\ Var.len \in Nat /\ Len(Var.lists) \in Nat
           /\ Ends(Var.lists)[0] = 0
           /\ \A k \in 0 .. Len(Var.lists) : Ends(Var.lists)[k] \in Nat
           /\ \A k \in 1 .. Len(Var.lists) :
                /\ Ends(Var.lists)[k] = Ends(Var.lists)[k - 1] + Var.lists[k].size
                /\ Var.lists[k].certs \in Seq(Seq(Call))
                /\ Len(Var.lists[k].certs) \in Nat
                /\ Var.lists[k].sig \in Nat \ {0} /\ Var.lists[k].header \in Nat
                /\ Var.lists[k].size \in Nat
                /\ Var.lists[k].size - Var.lists[k].header
                      = HeaderOfList + Len(Var.lists[k].certs) * Var.lists[k].sig
                /\ Var.lists[k].size >= HeaderOfList
<1>1. todo[1] \in Names
  OBVIOUS
<1> QED
  BY <1>1, ContentsHave, Zenon DEF Var

(* CertCount is the number of certificates, where there are any.           *)
LEMMA CountIs ==
    ASSUME WalkInv, at \in Inside, l <= Len(Var.lists)
    PROVE  /\ CertCount \in Nat
           /\ CertList.sig > 100 => CertCount = Len(CertList.certs)
           /\ CertList = Var.lists[l] /\ CertList.sig \in Nat
           /\ CertList.certs \in Seq(Seq(Call))
           /\ CertList.size \in Nat /\ CertList.size >= HeaderOfList
           /\ Ends(Var.lists)[l] = Ends(Var.lists)[l - 1] + CertList.size
<1>1. CertList = Var.lists[l]
  BY DEF CertList, Var
<1>2. l \in 1 .. Len(Var.lists)
  BY VarHas DEF WalkInv
<1> DEFINE n == Len(CertList.certs)
           s == CertList.sig
<1>3. /\ n \in Nat /\ s \in Nat \ {0} /\ CertList.certs \in Seq(Seq(Call))
      /\ CertList.size - CertList.header = HeaderOfList + n * s
      /\ CertList.size \in Nat /\ CertList.size >= HeaderOfList
      /\ Ends(Var.lists)[l] = Ends(Var.lists)[l - 1] + CertList.size
  BY <1>1, <1>2, VarHas DEF WalkInv
<1>4. CertCount = (HeaderOfList + n * s) \div s
  BY <1>3 DEF CertCount
<1> HIDE DEF n, s
<1>5. CertCount \in Nat
  <2>1. n * s \in Nat
    BY <1>3
  <2>2. HeaderOfList + n * s \in Nat
    BY <2>1 DEF HeaderOfList
  <2> DEFINE a == HeaderOfList + n * s
  <2>3. a \in Nat
    BY <2>2
  <2> HIDE DEF a
  <2>4. s \in Nat /\ s # 0
    BY <1>3
  <2>5. a \div s \in Nat
    BY ONLY <2>3, <2>4
  <2> QED
    BY <1>4, <2>5 DEF a
<1>6. s > 100 => CertCount = n
  <2> SUFFICES ASSUME s > 100 PROVE CertCount = n
    OBVIOUS
  <2>1. n \in Nat /\ s \in Nat /\ s > HeaderOfList
    BY <1>3 DEF HeaderOfList
  <2>2. (HeaderOfList + n * s) \div s = n
    BY <2>1, Quotient
  <2> QED
    BY <1>4, <2>2
<1>7. CertList.sig > 100 => CertCount = Len(CertList.certs)
  BY <1>6 DEF n, s
<1>8. CertList.sig \in Nat
  BY <1>3 DEF s
<1> QED
  BY <1>1, <1>3, <1>5, <1>7, <1>8

LEMMA AskedAre == \A line : Asked(line) \in Seq(Names)
<1>1. \A name \in Names : <<name>> \in Seq(Names)
  OBVIOUS
<1>2. <<"PK">> \in Seq(Names) /\ <<"KEK">> \in Seq(Names)
      /\ <<"db">> \in Seq(Names) /\ <<"dbx">> \in Seq(Names)
  BY <1>1 DEF Names
<1>3. variables \in Seq(Names) /\ <<>> \in Seq(Names)
  BY DEF variables, Names
<1> QED
  BY <1>2, <1>3, Zenon DEF Asked

LEMMA WalkAtFirst == Init => WalkInv
BY DEF Init, WalkInv, Places, Inside, InList

LEMMA WalkKept == WalkInv /\ [Next]_vars => WalkInv'
<1> SUFFICES ASSUME WalkInv, [Next]_vars PROVE WalkInv'
  OBVIOUS
<1> USE DEF Places, Inside, InList
<1>1. CASE GetArgsFails
  BY <1>1 DEF WalkInv, GetArgsFails, walk
<1>2. CASE ParseArgs
  BY <1>2, AskedAre DEF WalkInv, ParseArgs, walk
<1>3. CASE OutputVariable
  <2>1. Tail(todo) \in Seq(Names) /\ todo \in Seq(Names) /\ todo # <<>> /\ nvram \in Stores
    BY <1>3 DEF WalkInv, OutputVariable
  <2>2. CASE status' = "success"
    <3>1. /\ at' = "lists" /\ DataSize' = Var.len /\ l' = 1 /\ todo' = todo
          /\ nvram' = nvram /\ Index' = Index /\ c' = c
      BY <1>3, <2>2 DEF OutputVariable, Var
    <3>2. Var' = Var
      BY <3>1 DEF Var
    <3>3. Var.len \in Nat /\ Len(Var.lists) \in Nat /\ Ends(Var.lists)[0] = 0
      BY <2>1, VarHas
    <3> QED
      BY <2>1, <3>1, <3>2, <3>3 DEF WalkInv
  <2>3. CASE status' # "success"
    BY <1>3, <2>1, <2>3 DEF WalkInv, OutputVariable
  <2> QED
    BY <2>2, <2>3
<1>4. CASE NextList
  <2>1. /\ at = "lists" /\ at' = "certs" /\ Index' = 0 /\ nvram' = nvram /\ todo' = todo
        /\ DataSize' = DataSize /\ l' = l /\ c' = c /\ DataSize > 0 /\ DataSize >= CertList.size
    BY <1>4 DEF NextList, Complete
  <2>2. Var' = Var /\ CertCount' = CertCount
    BY <2>1 DEF Var, CertCount, CertList
  <2>3. l <= Len(Var.lists)
    BY <1>4 DEF NextList, Complete, Var
  <2>4. CertCount \in Nat /\ Ends(Var.lists)[l] = Ends(Var.lists)[l - 1] + CertList.size
        /\ CertList.size \in Nat
    BY <2>1, <2>3, CountIs
  <2>5. Ends(Var.lists)[l - 1] \in Nat /\ Var.len \in Nat
    BY <2>1, <2>3, VarHas DEF WalkInv
  <2> QED
    BY <2>1, <2>2, <2>3, <2>4, <2>5, SMTT(30) DEF WalkInv
<1>5. CASE LastList
  <2>1. Tail(todo) \in Seq(Names)
    BY <1>5 DEF WalkInv, LastList
  <2> QED
    BY <1>5, <2>1 DEF WalkInv, LastList, walk
<1>6. CASE NextCert
  <2>1. /\ at = "certs" /\ Index < CertCount /\ nvram' = nvram /\ todo' = todo
        /\ DataSize' = DataSize /\ l' = l
    BY <1>6 DEF NextCert
  <2>2. Var' = Var /\ CertCount' = CertCount /\ CertList' = CertList
    BY <2>1 DEF Var, CertCount, CertList
  <2>3. l <= Len(Var.lists) /\ CertCount \in Nat
    BY <2>1, CountIs DEF WalkInv
  <2>4. CASE CertList.sig > 100
    <3>1. at' = "decode" /\ c' = 0 /\ Index' = Index
      BY <1>6, <2>4 DEF NextCert
    <3>2. Calls' \in Seq(Call)
      <4>1. CertList.certs \in Seq(Seq(Call)) /\ Index < Len(CertList.certs) /\ Index \in Nat
        BY <2>1, <2>3, <2>4, CountIs DEF WalkInv
      <4>2. Calls' = CertList.certs[Index + 1]
        BY <2>2, <3>1, <4>1 DEF Calls
      <4> QED
        BY <4>1, <4>2
    <3>3. c' <= Len(Calls')
      BY <3>1, <3>2
    <3> QED
      BY <2>1, <2>2, <2>3, <2>4, <3>1, <3>3 DEF WalkInv
  <2>5. CASE ~(CertList.sig > 100)
    <3>1. at' = "certs" /\ c' = c /\ Index' = Index + 1
      BY <1>6, <2>5 DEF NextCert, PastSmall
    <3> QED
      BY <2>1, <2>2, <2>3, <3>1 DEF WalkInv
  <2> QED
    BY <2>4, <2>5
<1>7. CASE LastCert
  <2>1. /\ at = "certs" /\ at' = "lists" /\ nvram' = nvram /\ todo' = todo /\ Index' = Index
        /\ DataSize' = DataSize - CertList.size /\ l' = l + 1 /\ c' = c
    BY <1>7 DEF LastCert
  <2>2. Var' = Var
    BY <2>1 DEF Var
  <2>3. l <= Len(Var.lists) /\ Len(Var.lists) \in Nat
    BY <2>1, VarHas DEF WalkInv
  <2>4. Ends(Var.lists)[l] = Ends(Var.lists)[l - 1] + CertList.size /\ CertList.size \in Nat
    BY <2>1, <2>3, CountIs
  <2>5. Ends(Var.lists)[l - 1] \in Nat /\ Var.len \in Nat
    BY <2>1, <2>3, VarHas DEF WalkInv
  <2> QED
    BY <2>1, <2>2, <2>3, <2>4, <2>5, SMTT(30) DEF WalkInv
<1>8. CASE Callback
  <2>1. /\ at = "decode" /\ at' = "decode" /\ nvram' = nvram /\ todo' = todo /\ Index' = Index
        /\ DataSize' = DataSize /\ l' = l /\ c' = c + 1 /\ c < Len(Calls)
    BY <1>8 DEF Callback
  <2>2. Var' = Var /\ CertCount' = CertCount /\ CertList' = CertList /\ Calls' = Calls
    BY <2>1 DEF Var, CertCount, CertList, Calls
  <2>3. Len(Calls) \in Nat
    <3>1. CertList.certs \in Seq(Seq(Call)) /\ Index \in Nat
      BY <2>1, CountIs DEF WalkInv
    <3>2. Calls \in Seq(Call)
      BY <3>1 DEF Calls
    <3> QED
      BY <3>2
  <2> QED
    BY <2>1, <2>2, <2>3 DEF WalkInv
<1>9. CASE Decoded
  <2>1. /\ at = "decode" /\ at' = "certs" /\ nvram' = nvram /\ todo' = todo /\ Index' = Index + 1
        /\ DataSize' = DataSize /\ l' = l /\ c' = c
    BY <1>9 DEF Decoded
  <2>2. Var' = Var /\ CertCount' = CertCount
    BY <2>1 DEF Var, CertCount, CertList
  <2>3. CertCount \in Nat
    BY <2>1, CountIs DEF WalkInv
  <2> QED
    BY <2>1, <2>2, <2>3 DEF WalkInv
<1>10. CASE Return
  BY <1>10 DEF WalkInv, Return, walk
<1>11. CASE Endless \/ DivisionByZero \/ Astray
  BY <1>11 DEF WalkInv, Endless, DivisionByZero, Astray, Stop, walk
<1>12. CASE UNCHANGED vars
  BY <1>12 DEF WalkInv, vars, walk, Var, CertCount, CertList, Calls
<1> QED
  BY <1>1, <1>2, <1>3, <1>4, <1>5, <1>6, <1>7, <1>8, <1>9, <1>10, <1>11, <1>12 DEF Next

----------------------------------------------------------------------------
(* The calls of the certificate in work are those of one in Stores.        *)
LEMMA CallsAre ==
    ASSUME WalkInv, at = "decode"
    PROVE  /\ Calls \in Seq(Call) /\ Cert \in Certificates
           /\ CallsInOrder(Calls) /\ CallsOf(Cert) = Calls
<1>1. /\ nvram \in Stores /\ todo \in Seq(Names) /\ todo # <<>>
      /\ l \in Nat /\ l >= 1 /\ l <= Len(Var.lists) /\ Index \in Nat
      /\ Index < CertCount /\ CertList.sig > 100
  BY DEF WalkInv, Inside, InList
<1>2. /\ CertCount = Len(CertList.certs) /\ CertList.certs \in Seq(Seq(Call))
      /\ CertList = Var.lists[l]
  BY <1>1, CountIs DEF Inside
<1>3. Calls = CertList.certs[Index + 1] /\ Index + 1 \in 1 .. Len(CertList.certs)
  BY <1>1, <1>2 DEF Calls
<1>4. Calls \in Seq(Call)
  BY <1>2, <1>3
<1>5. todo[1] \in Names
  BY <1>1
<1>6. Cert \in Certificates
  BY <1>1, <1>5 DEF Cert, Certificates
<1>7. /\ l \in DOMAIN nvram[todo[1]].lists
      /\ Index + 1 \in DOMAIN nvram[todo[1]].lists[l].certs
      /\ Calls = nvram[todo[1]].lists[l].certs[Index + 1]
  <2>1. Var.lists \in Seq(List)
    BY <1>1, <1>5, VariableHas DEF Var
  <2>2. l \in DOMAIN Var.lists
    BY <1>1, <2>1, ListHas
  <2>3. Index + 1 \in DOMAIN CertList.certs
    BY <1>2, <1>3
  <2> QED
    BY <1>2, <1>3, <2>2, <2>3 DEF Var
<1>8. CallsInOrder(Calls)
  BY <1>1, <1>5, <1>7, OrderAssumption, Zenon DEF AllCerts
<1>9. CallsOf(Cert) = Calls
  BY <1>7, Zenon DEF CallsOf, Cert
<1> QED
  BY <1>4, <1>6, <1>8, <1>9

(* The order of the grammar, for the call that is next.                    *)
LEMMA NextInOrder ==
    ASSUME Calls \in Seq(Call), CallsInOrder(Calls), c \in Nat, c < Len(Calls)
    PROVE  LET b == Calls[c + 1].action
           IN /\ c = 0 => b \in Foremost
              /\ c > 0 => <<Calls[c].action, b>> \in Follow
              /\ b = do_subject_public_key_info =>
                   \E j \in 1 .. c : Calls[j].action = do_subject
<1> DEFINE n == Len(Calls)
           acts == Actions(Calls)
<1>1. n \in Nat /\ c + 1 \in 1 .. n /\ c + 1 - 1 = c /\ (c > 0 => c \in 1 .. n - 1 /\ c \in 1 .. n)
  OBVIOUS
<1>2. acts = [k \in 1 .. n |-> Calls[k].action]
  BY DEF Actions
<1>3. Len(acts) = n /\ (n > 0 => acts # <<>>) /\ \A k \in 1 .. n : acts[k] = Calls[k].action
  <2> HIDE DEF n
  <2> QED
    BY <1>1, <1>2
<1>4. /\ acts # <<>> => acts[1] \in Foremost
      /\ \A k \in 1 .. n - 1 : <<acts[k], acts[k + 1]>> \in Follow
      /\ \A k \in 1 .. n : acts[k] = do_subject_public_key_info =>
            \E j \in 1 .. k - 1 : acts[j] = do_subject
  BY <1>3, Zenon DEF CallsInOrder, InOrder
<1> HIDE DEF n, acts
<1>5. c = 0 => Calls[c + 1].action \in Foremost
  BY <1>1, <1>3, <1>4
<1>6. c > 0 => <<Calls[c].action, Calls[c + 1].action>> \in Follow
  BY <1>1, <1>3, <1>4, Zenon
<1>7. ASSUME Calls[c + 1].action = do_subject_public_key_info
      PROVE  \E j \in 1 .. c : Calls[j].action = do_subject
  <2>1. \E j \in 1 .. c + 1 - 1 : acts[j] = do_subject
    <3> DEFINE m == c + 1
    <3>1. m \in 1 .. n /\ acts[m] = do_subject_public_key_info
      BY <1>1, <1>3, <1>7
    <3> HIDE DEF m
    <3>2. \E j \in 1 .. m - 1 : acts[j] = do_subject
      BY <1>4, <3>1, Zenon
    <3> QED
      BY <3>2 DEF m
  <2>2. PICK j \in 1 .. c : acts[j] = do_subject
    BY <1>1, <2>1
  <2>3. j \in 1 .. n
    BY <1>1
  <2> QED
    BY <1>3, <2>2, <2>3
<1> QED
  BY <1>5, <1>6, <1>7

(* Where a certificate leads up to a call that is no algorithm with a      *)
(* name, it does not begin with one.                                       *)
LEMMA NotNamed ==
    ASSUME c \in Nat, Leads(c + 1), Calls[c + 1].action \notin Early,
           c < Len(Calls), Len(Calls) \in Nat,
           ~(Calls[c + 1].action = do_algorithm /\ Calls[c + 1].known)
    PROVE  ~StartsNamed(Calls)
<1> SUFFICES ASSUME NEW k \in 1 .. Len(Calls), Calls[k].action = do_algorithm, Calls[k].known,
                    \A j \in 1 .. k - 1 : Calls[j].action \in Early
             PROVE  FALSE
  BY DEF StartsNamed, Early
<1>1. do_algorithm \notin Early
  BY DEF Early, do_algorithm, do_version, do_serialnumber
<1>2. k \notin 1 .. c
  BY <1>1 DEF Leads
<1>3. k # c + 1
  OBVIOUS
<1>4. c + 1 \in 1 .. k - 1
  BY <1>2, <1>3
<1> QED
  BY <1>4

(* What tmpbuf may hold when a callback is made: it is known from the one  *)
(* before, but where the certificate leads up to its text.                 *)
LEMMA Before ==
    ASSUME TextInv, at = "decode", Calls \in Seq(Call), CallsInOrder(Calls),
           c \in Nat, c < Len(Calls), NEW b, b = Calls[c + 1].action
    PROVE  /\ b \in Early => Leads(c + 1)
           /\ b = do_algorithm => Leads(c + 1) \/ tmpbuf = <<>>
           /\ b = do_signature => Own({do_algorithm}) \/ ~StartsNamed(Calls)
           /\ b = do_subject_public_key_info => Own({do_algorithm})
           /\ b \in {do_attribute_type, do_attribute_value, do_issuer, do_subject} =>
                Own({do_attribute_type, do_attribute_value})
           /\ b \in {do_extension_id, do_extensions} => Own({do_extension_id})
           /\ b \in {do_validity_not_before, do_validity_not_after} => tmpbuf = <<>>
<1> DEFINE a == Calls[c].action
<1>1. /\ c = 0 => b \in Foremost
      /\ c > 0 => <<a, b>> \in Follow /\ Behind(a)
      /\ b = do_subject_public_key_info => \E j \in 1 .. c : Calls[j].action = do_subject
      /\ Len(Calls) \in Nat
  BY NextInOrder DEF TextInv
<1>2. c = 0 \/ (c > 0 /\ a \in Early) => Leads(c + 1)
  <2>1. c = 0 => Leads(c + 1)
    BY DEF Leads
  <2>2. ASSUME c > 0, a \in Early PROVE Leads(c + 1)
    <3>1. Leads(c)
      BY <1>1, <2>2 DEF Behind
    <3>2. \A j \in 1 .. c + 1 - 1 : j \in 1 .. c - 1 \/ j = c
      OBVIOUS
    <3> QED
      BY <2>2, <3>1, <3>2 DEF Leads
  <2> QED
    BY <2>1, <2>2
<1> HIDE DEF a
<1>3. tmpbuf = <<>> => Own({do_algorithm}) /\ Own({do_extension_id})
                       /\ Own({do_attribute_type, do_attribute_value})
  BY DEF Own
<1>4. c = 0 \/ c > 0
  OBVIOUS
<1>5. c = 0 => b \in Early \cup {do_algorithm, do_signature}
  BY <1>1 DEF Foremost, Early
<1>6. c > 0 =>
      /\ b \in Early => a \in Early
      /\ b = do_algorithm =>
           a \in Early \cup {do_subject, do_subject_public_key_info, do_extensions}
      /\ b = do_signature => a \in Early \cup {do_algorithm}
      /\ b = do_subject_public_key_info => a \in {do_algorithm, do_subject}
      /\ b \in {do_attribute_type, do_attribute_value, do_issuer, do_subject} =>
           a \in {do_attribute_type, do_attribute_value, do_signature, do_validity_not_after}
      /\ b \in {do_extension_id, do_extensions} => a \in {do_subject_public_key_info, do_extension_id}
      /\ b \in {do_validity_not_before, do_validity_not_after} =>
           a \in {do_issuer, do_validity_not_before}
  BY <1>1 DEF Follow, Early, do_algorithm, do_attribute_type, do_attribute_value, do_extension_id,
     do_extensions, do_issuer, do_serialnumber, do_signature, do_subject,
     do_subject_public_key_info, do_validity_not_after, do_validity_not_before, do_version
<1>7. c > 0 =>
      /\ a = do_algorithm => Own({do_algorithm}) \/ (Leads(c) /\ ~StartsNamed(Calls))
      /\ a \in {do_attribute_type, do_attribute_value} =>
           Own({do_attribute_type, do_attribute_value})
      /\ a = do_extension_id => Own({do_extension_id})
      /\ a \in {do_signature, do_issuer, do_subject, do_extensions, do_subject_public_key_info,
                do_validity_not_before, do_validity_not_after} => tmpbuf = <<>>
  BY <1>1 DEF Behind, Flushing
<1>8. b \in Early => Leads(c + 1)
  BY <1>2, <1>4, <1>6
<1>9. b = do_algorithm => Leads(c + 1) \/ tmpbuf = <<>>
  BY <1>2, <1>4, <1>6, <1>7
<1>10. ASSUME b = do_signature PROVE Own({do_algorithm}) \/ ~StartsNamed(Calls)
  <2>1. CASE c > 0 /\ a = do_algorithm
    BY <1>7, <2>1
  <2>2. CASE c = 0 \/ (c > 0 /\ a \in Early)
    <3>1. Calls[c + 1].action \notin Early /\ Calls[c + 1].action # do_algorithm
      BY <1>10 DEF Early, do_signature, do_version, do_serialnumber, do_algorithm
    <3> QED
      BY <1>1, <1>2, <2>2, <3>1, NotNamed
  <2> QED
    BY <1>4, <1>6, <1>10, <2>1, <2>2
<1>11. ASSUME b = do_subject_public_key_info PROVE Own({do_algorithm})
  <2>1. PICK j \in 1 .. c : Calls[j].action = do_subject
    BY <1>1, <1>11
  <2>2. c > 0
    BY <2>1
  <2>3. do_subject # do_algorithm /\ do_subject \notin Early
    BY DEF Early, do_subject, do_version, do_serialnumber, do_algorithm
  <2>4. ~(a = do_algorithm /\ Leads(c))
    BY <2>1, <2>2, <2>3 DEF Leads, a
  <2> QED
    BY <1>3, <1>6, <1>7, <1>11, <2>2, <2>4
<1>12. \A x \in {do_attribute_type, do_attribute_value, do_issuer, do_subject, do_extension_id,
                 do_extensions, do_validity_not_before, do_validity_not_after} :
          x \notin Early \cup {do_algorithm, do_signature}
  BY DEF Early, do_algorithm, do_attribute_type, do_attribute_value, do_extension_id, do_extensions,
     do_issuer, do_serialnumber, do_signature, do_subject, do_validity_not_after,
     do_validity_not_before, do_version
<1>13. /\ b \in {do_attribute_type, do_attribute_value, do_issuer, do_subject} =>
            Own({do_attribute_type, do_attribute_value})
       /\ b \in {do_extension_id, do_extensions} => Own({do_extension_id})
       /\ b \in {do_validity_not_before, do_validity_not_after} => tmpbuf = <<>>
  BY <1>3, <1>4, <1>5, <1>6, <1>7, <1>12
<1> QED
  BY <1>8, <1>9, <1>10, <1>11, <1>13

LEMMA AppendHas ==
    ASSUME NEW S, NEW s \in Seq(S), NEW e \in S
    PROVE  /\ Append(s, e) \in Seq(S)
           /\ DOMAIN Append(s, e) = 1 .. Len(s) + 1 /\ DOMAIN s = 1 .. Len(s) /\ Len(s) \in Nat
           /\ Append(s, e)[Len(s) + 1] = e
           /\ \A k \in 1 .. Len(s) : Append(s, e)[k] = s[k]
OBVIOUS

(* A line that shows what belongs to it, or that may show more.            *)
LEMMA LineKeeps ==
    ASSUME NEW action \in Flushing \cup Printing, NEW text \in Seq(Pieces), Line(action, text),
           TextInv, Cert \in Certificates, nvram' = nvram, CallsOf(Cert) = Calls,
           \/ action = do_signature /\ ~StartsNamed(Calls)
           \/ \A p \in DOMAIN text :
                 Belongs(text[p], [cert |-> Cert, of |-> action, text |-> text])
    PROVE  printed' \in Seq(Lines) /\ OnlyUnnamedCarry'
<1> DEFINE line == [cert |-> Cert, of |-> action, text |-> text]
<1>1. line \in Lines
  BY DEF Lines
<1>2. printed' = Append(printed, line) /\ printed \in Seq(Lines)
  BY DEF Line, TextInv
<1> DEFINE Good(x) == (x.of = do_signature /\ ~StartsNamed(CallsOf(x.cert))) \/ ShowsOwn(x)
<1>3. Good(line)
  BY DEF ShowsOwn
<1> HIDE DEF line
<1>4. /\ printed' \in Seq(Lines) /\ DOMAIN printed' = 1 .. Len(printed) + 1
      /\ DOMAIN printed = 1 .. Len(printed) /\ Len(printed) \in Nat
      /\ printed'[Len(printed) + 1] = line
      /\ \A k \in 1 .. Len(printed) : printed'[k] = printed[k]
  BY <1>1, <1>2, AppendHas
<1>5. \A k \in DOMAIN printed : Good(printed[k])
  BY DEF TextInv, OnlyUnnamedCarry
<1>6. \A k \in DOMAIN printed' : k \in DOMAIN printed \/ k = Len(printed) + 1
  BY <1>4
<1> HIDE DEF Good
<1>7. \A k \in DOMAIN printed' : Good(printed'[k])
  BY <1>3, <1>4, <1>5, <1>6
<1>8. \A cert : CallsOf(cert)' = CallsOf(cert)
  BY Zenon DEF CallsOf
<1>9. OnlyUnnamedCarry'
  BY <1>7, <1>8 DEF OnlyUnnamedCarry, Good, ShowsOwn, Belongs, StartsNamed
<1> QED
  BY <1>4, <1>9

(* A piece of its own added to what belongs to the same certificate.       *)
LEMMA StrCatKeeps ==
    ASSUME NEW kinds, NEW action \in Gathering \cup {do_algorithm}, action \in kinds,
           Own(kinds), StrCat(action), tmpbuf \in Seq(Pieces), Cert \in Certificates, Cert' = Cert
    PROVE  tmpbuf' \in Seq(Pieces) /\ Own(kinds)'
<1>1. Piece(action) \in Pieces /\ Piece(action).cert = Cert /\ Piece(action).of = action
  BY DEF Piece, Pieces
<1>2. tmpbuf' = Append(tmpbuf, Piece(action))
  BY DEF StrCat
<1> DEFINE n == Len(tmpbuf)
<1>3. /\ tmpbuf' \in Seq(Pieces) /\ DOMAIN tmpbuf' = 1 .. n + 1 /\ DOMAIN tmpbuf = 1 .. n /\ n \in Nat
      /\ tmpbuf'[n + 1] = Piece(action) /\ \A k \in 1 .. n : tmpbuf'[k] = tmpbuf[k]
  BY <1>1, <1>2, AppendHas
<1> HIDE DEF n
<1>4. \A p \in DOMAIN tmpbuf' : tmpbuf'[p].cert = Cert /\ tmpbuf'[p].of \in kinds
  <2> SUFFICES ASSUME NEW p \in DOMAIN tmpbuf'
               PROVE  tmpbuf'[p].cert = Cert /\ tmpbuf'[p].of \in kinds
    OBVIOUS
  <2>1. p \in 1 .. n \/ p = n + 1
    BY <1>3
  <2> QED
    BY <1>1, <1>3, <2>1 DEF Own
<1> QED
  BY <1>3, <1>4 DEF Own

LEMMA BehindIs ==
    ASSUME NEW a,
           \/ a = do_algorithm /\ (Own({do_algorithm})' \/ (Leads(c) /\ ~StartsNamed(Calls))')
           \/ a \in {do_attribute_type, do_attribute_value}
                /\ Own({do_attribute_type, do_attribute_value})'
           \/ a = do_extension_id /\ Own({do_extension_id})'
           \/ a \in Flushing \cup {do_validity_not_before, do_validity_not_after} /\ tmpbuf' = <<>>
           \/ a \in Early /\ Leads(c)'
    PROVE  Behind(a)'
BY DEF Behind, Early, Flushing, do_algorithm, do_attribute_type, do_attribute_value,
       do_extension_id, do_extensions, do_issuer, do_serialnumber, do_signature, do_subject,
       do_subject_public_key_info, do_validity_not_after, do_validity_not_before, do_version

LEMMA CarryKept ==
    ASSUME OnlyUnnamedCarry, nvram' = nvram, printed' = printed
    PROVE  OnlyUnnamedCarry'
<1>1. \A k : StartsNamed(CallsOf(printed[k].cert))' <=> StartsNamed(CallsOf(printed[k].cert))
  BY Zenon DEF StartsNamed, CallsOf
<1>2. \A k : ShowsOwn(printed[k])' <=> ShowsOwn(printed[k])
  BY Zenon DEF ShowsOwn, Belongs
<1> QED
  BY <1>1, <1>2, Zenon DEF OnlyUnnamedCarry

LEMMA TextAtFirst == Init => TextInv
BY DEF Init, TextInv, OnlyUnnamedCarry

LEMMA TextKept == WalkInv /\ TextInv /\ [Next]_vars => TextInv'
<1> SUFFICES ASSUME WalkInv, TextInv, [Next]_vars PROVE TextInv'
  OBVIOUS
<1>1. ASSUME Callback PROVE TextInv'
  <2>1. /\ at = "decode" /\ at' = "decode" /\ nvram' = nvram /\ todo' = todo /\ Index' = Index
        /\ l' = l /\ c' = c + 1 /\ c < Len(Calls) /\ c \in Nat
        /\ tmpbuf \in Seq(Pieces) /\ printed \in Seq(Lines)
    BY <1>1 DEF Callback, WalkInv, TextInv
  <2>2. Calls' = Calls /\ Cert' = Cert
    BY <2>1 DEF Calls, Cert, CertList
  <2>3. Calls \in Seq(Call) /\ Cert \in Certificates /\ CallsInOrder(Calls) /\ CallsOf(Cert) = Calls
        /\ Len(Calls) \in Nat
    BY <2>1, CallsAre
  <2> DEFINE call == Calls[c + 1]
             b == call.action
  <2>4. Leads(c + 1) <=> Leads(c)'
    BY <2>1, <2>2 DEF Leads
  <2>5. b = Calls'[c'].action
    BY <2>1, <2>2
  <2>6. \/ b = do_algorithm /\ do_algorithm_text(call.known)
        \/ b \in Gathering /\ StrCat(b)
        \/ b \in Flushing /\ Flush(b)
        \/ b \in Printing /\ Line(b, <<>>) /\ UNCHANGED tmpbuf
    BY <1>1 DEF Callback
  <2>7. b = do_algorithm /\ Leads(c + 1) /\ ~call.known => ~StartsNamed(Calls)
    <3>1. do_algorithm \notin Early
      BY DEF Early, do_algorithm, do_version, do_serialnumber
    <3> QED
      BY <2>1, <2>3, <3>1, NotNamed
  <2>8. /\ b \in Early => Leads(c + 1)
        /\ b = do_algorithm => Leads(c + 1) \/ tmpbuf = <<>>
        /\ b = do_signature => Own({do_algorithm}) \/ ~StartsNamed(Calls)
        /\ b = do_subject_public_key_info => Own({do_algorithm})
        /\ b \in {do_attribute_type, do_attribute_value, do_issuer, do_subject} =>
             Own({do_attribute_type, do_attribute_value})
        /\ b \in {do_extension_id, do_extensions} => Own({do_extension_id})
        /\ b \in {do_validity_not_before, do_validity_not_after} => tmpbuf = <<>>
    BY <2>1, <2>3, Before
  <2> HIDE DEF call, b
  <2>9. PICK action : action = b
    OBVIOUS
  <2>10. ASSUME tmpbuf' \in Seq(Pieces), printed' \in Seq(Lines), Behind(action)', OnlyUnnamedCarry'
         PROVE  TextInv'
    <3>1. Behind(Calls[c].action)'
      BY <2>5, <2>9, <2>10 DEF Behind
    <3> QED
      BY <2>10, <3>1 DEF TextInv
  <2>11. UNCHANGED printed => printed' \in Seq(Lines) /\ OnlyUnnamedCarry'
    BY <2>1, CarryKept DEF TextInv
  <2>12. ASSUME action = do_algorithm, do_algorithm_text(call.known) PROVE TextInv'
    <3> DEFINE Named == tmpbuf' = <<Piece(do_algorithm)>>
    <3>1. CASE Named
      <4>1. Piece(do_algorithm) \in Pieces /\ Piece(do_algorithm).cert = Cert
            /\ Piece(do_algorithm).of = do_algorithm
        BY <2>3 DEF Piece, Pieces
      <4>2. DOMAIN tmpbuf' = {1} /\ tmpbuf'[1] = Piece(do_algorithm) /\ tmpbuf' \in Seq(Pieces)
        BY <3>1, <4>1
      <4>3. Own({do_algorithm})'
        BY <2>2, <4>1, <4>2 DEF Own
      <4>4. UNCHANGED printed
        BY <2>12 DEF do_algorithm_text, StrCpy, StrCat
      <4> QED
        BY <2>10, <2>11, <2>12, <4>2, <4>3, <4>4, BehindIs
    <3>2. CASE StrCat(do_algorithm) /\ tmpbuf = <<>>
      <4>1. Own({do_algorithm})
        BY <3>2 DEF Own
      <4>2. tmpbuf' \in Seq(Pieces) /\ Own({do_algorithm})'
        BY <2>1, <2>2, <2>3, <3>2, <4>1, StrCatKeeps
      <4>3. UNCHANGED printed
        BY <3>2 DEF StrCat
      <4> QED
        BY <2>10, <2>11, <2>12, <4>2, <4>3, BehindIs
    <3>3. CASE StrCat(do_algorithm) /\ ~call.known /\ Leads(c + 1)
      <4>1. tmpbuf' \in Seq(Pieces)
        <5>1. Piece(do_algorithm) \in Pieces
          BY <2>3 DEF Piece, Pieces
        <5> QED
          BY <2>1, <3>3, <5>1 DEF StrCat
      <4>2. UNCHANGED printed
        BY <3>3 DEF StrCat
      <4>3. Leads(c)' /\ ~StartsNamed(Calls)'
        <5>1. ~StartsNamed(Calls)
          BY <2>7, <2>9, <2>12, <3>3
        <5> QED
          BY <2>2, <2>4, <3>3, <5>1 DEF StartsNamed
      <4>4. Behind(action)'
        BY <2>12, <4>3, BehindIs
      <4> QED
        BY <2>10, <2>11, <4>1, <4>2, <4>4
    <3> QED
      BY <2>8, <2>9, <2>12, <3>1, <3>2, <3>3 DEF do_algorithm_text, StrCpy
  <2>13. ASSUME action \in Gathering, StrCat(action) PROVE TextInv'
    <3>1. UNCHANGED printed
      BY <2>13 DEF StrCat
    <3>2. CASE action \in {do_attribute_type, do_attribute_value}
      <4>1. tmpbuf' \in Seq(Pieces) /\ Own({do_attribute_type, do_attribute_value})'
        BY <2>1, <2>2, <2>3, <2>8, <2>9, <2>13, <3>2, StrCatKeeps
      <4> QED
        BY <2>10, <2>11, <3>1, <3>2, <4>1, BehindIs
    <3>3. CASE action = do_extension_id
      <4>1. tmpbuf' \in Seq(Pieces) /\ Own({do_extension_id})'
        BY <2>1, <2>2, <2>3, <2>8, <2>9, <2>13, <3>3, StrCatKeeps
      <4> QED
        BY <2>10, <2>11, <3>1, <3>3, <4>1, BehindIs
    <3> QED
      BY <2>13, <3>2, <3>3 DEF Gathering
  <2>14. ASSUME action \in Flushing, Line(action, tmpbuf), tmpbuf' = <<>> PROVE TextInv'
    <3> DEFINE line == [cert |-> Cert, of |-> action, text |-> tmpbuf]
    <3>1. \/ action = do_signature /\ ~StartsNamed(Calls)
          \/ \A p \in DOMAIN tmpbuf : Belongs(tmpbuf[p], line)
      BY <2>8, <2>9, <2>14 DEF Belongs, Own, Flushing, do_algorithm, do_attribute_type,
         do_attribute_value, do_extension_id, do_extensions, do_issuer, do_signature, do_subject,
         do_subject_public_key_info
    <3>2. printed' \in Seq(Lines) /\ OnlyUnnamedCarry'
      BY <2>1, <2>3, <2>14, <3>1, LineKeeps
    <3>3. Behind(action)'
      BY <2>14, BehindIs
    <3>4. tmpbuf' \in Seq(Pieces)
      BY <2>14
    <3> QED
      BY <2>10, <3>2, <3>3, <3>4
  <2>15. ASSUME action \in Printing, Line(action, <<>>), UNCHANGED tmpbuf PROVE TextInv'
    <3>1. printed' \in Seq(Lines) /\ OnlyUnnamedCarry'
      <4>1. <<>> \in Seq(Pieces) /\ DOMAIN <<>> = {}
        OBVIOUS
      <4> QED
        BY <2>1, <2>3, <2>15, <4>1, LineKeeps
    <3>2. Behind(action)'
      BY <2>4, <2>8, <2>9, <2>15, BehindIs DEF Printing, Early
    <3> QED
      BY <2>1, <2>10, <2>15, <3>1, <3>2
  <2>16. \/ action = do_algorithm /\ do_algorithm_text(call.known)
         \/ action \in Gathering /\ StrCat(action)
         \/ action \in Flushing /\ Flush(action)
         \/ action \in Printing /\ Line(action, <<>>) /\ UNCHANGED tmpbuf
    BY <2>6, <2>9, Zenon
  <2> QED
    <3>1. CASE action = do_algorithm /\ do_algorithm_text(call.known)
      BY <2>12, <3>1
    <3>2. CASE action \in Gathering /\ StrCat(action)
      BY <2>13, <3>2
    <3>3. CASE action \in Flushing /\ Flush(action)
      BY <2>14, <3>3 DEF Flush
    <3>4. CASE action \in Printing /\ Line(action, <<>>) /\ UNCHANGED tmpbuf
      BY <2>15, <3>4
    <3> QED
      BY <2>16, <3>1, <3>2, <3>3, <3>4
<1>2. nvram' = nvram
  BY DEF Next, GetArgsFails, ParseArgs, OutputVariable, NextList, LastList, Endless, DivisionByZero,
         Astray, Stop, NextCert, LastCert, Callback, Decoded, Return, vars
<1>3. ASSUME UNCHANGED <<tmpbuf, printed>>
      PROVE  tmpbuf' \in Seq(Pieces) /\ printed' \in Seq(Lines) /\ OnlyUnnamedCarry'
  <2>1. tmpbuf' = tmpbuf /\ printed' = printed
    BY <1>3
  <2> QED
    BY <1>2, <2>1, CarryKept DEF TextInv
<1>4. CASE UNCHANGED vars
  <2>1. /\ nvram' = nvram /\ todo' = todo /\ l' = l /\ Index' = Index /\ c' = c
        /\ at' = at /\ tmpbuf' = tmpbuf /\ printed' = printed
    BY <1>4 DEF vars, walk
  <2>2. CertList' = CertList /\ Cert' = Cert
    BY <2>1, Zenon DEF CertList, Cert
  <2>3. Calls' = Calls
    BY <2>1, <2>2, Zenon DEF Calls
  <2>4. Behind(Calls[c].action)' <=> Behind(Calls[c].action)
    BY <2>1, <2>2, <2>3, Zenon DEF Behind, Own, Leads, StartsNamed
  <2>5. tmpbuf' \in Seq(Pieces) /\ printed' \in Seq(Lines) /\ OnlyUnnamedCarry'
    BY <1>3, <2>1
  <2> QED
    BY <2>1, <2>4, <2>5, Zenon DEF TextInv
<1>5. ASSUME Next, ~Callback PROVE TextInv'
  <2>1. UNCHANGED <<tmpbuf, printed>>
    BY <1>5 DEF Next, GetArgsFails, ParseArgs, OutputVariable, NextList, LastList, Endless,
                DivisionByZero, Astray, Stop, NextCert, LastCert, Decoded, Return
  <2>2. at' = "decode" => c' = 0
    BY <1>5 DEF Next, GetArgsFails, ParseArgs, OutputVariable, NextList, LastList, Endless,
                DivisionByZero, Astray, Stop, NextCert, LastCert, Decoded, Return
  <2>3. ~ (at' = "decode" /\ c' > 0)
    BY <2>2
  <2> QED
    BY <1>3, <2>1, <2>3 DEF TextInv
<1> QED
  BY <1>1, <1>4, <1>5

LEMMA WalkHolds == Spec => []WalkInv
BY WalkAtFirst, WalkKept, PTL DEF Spec

(* In any variables the program may be given, whatever was refused in them *)
(* or had members missing, nothing that is left in tmpbuf gets into the    *)
(* text of another certificate, unless into the line of the signature      *)
(* algorithm of one that does not begin with an algorithm with a name.     *)
THEOREM TextIsOwn == Spec => []OnlyUnnamedCarry
<1>1. WalkInv /\ TextInv /\ [Next]_vars => TextInv'
  BY TextKept
<1>2. TextInv => OnlyUnnamedCarry
  BY DEF TextInv
<1> QED
  BY <1>1, <1>2, TextAtFirst, WalkHolds, PTL DEF Spec

----------------------------------------------------------------------------
(* FlattenSeq, of a sequence that grows by one.                            *)
Joined(g, ss, n) == \A i \in 1 .. n : g[i] = IF i = 1 THEN ss[i] ELSE g[i - 1] \o ss[i]
IsFlatten(g, ss) == g = [i \in 1 .. Len(ss) |-> IF i = 1 THEN ss[i] ELSE g[i - 1] \o ss[i]]

LEMMA JoinedAt ==
    ASSUME NEW g, NEW ss, NEW n, Joined(g, ss, n), NEW i \in 1 .. n
    PROVE  g[i] = IF i = 1 THEN ss[i] ELSE g[i - 1] \o ss[i]
BY DEF Joined

LEMMA JoinedSame ==
    ASSUME NEW n \in Nat, NEW g, NEW h, NEW s, NEW t, Joined(g, s, n), Joined(h, t, n),
           \A i \in 1 .. n : s[i] = t[i]
    PROVE  \A i \in 1 .. n : g[i] = h[i]
<1> DEFINE Same == {i \in Nat : 1 <= i /\ i <= n => g[i] = h[i]}
<1>1. 0 \in Same
  OBVIOUS
<1>2. ASSUME NEW i \in Nat, i \in Same PROVE i + 1 \in Same
  <2> SUFFICES ASSUME i + 1 <= n PROVE g[i + 1] = h[i + 1]
    OBVIOUS
  <2>1. i + 1 \in 1 .. n /\ s[i + 1] = t[i + 1]
    OBVIOUS
  <2>2. /\ g[i + 1] = IF i + 1 = 1 THEN s[i + 1] ELSE g[i + 1 - 1] \o s[i + 1]
        /\ h[i + 1] = IF i + 1 = 1 THEN t[i + 1] ELSE h[i + 1 - 1] \o t[i + 1]
    BY <2>1, JoinedAt
  <2>3. i + 1 - 1 = i /\ (i + 1 # 1 => g[i] = h[i])
    BY <1>2
  <2> QED
    BY <2>1, <2>2, <2>3
<1> HIDE DEF Same
<1>3. \A i \in Nat : i \in Same
  BY <1>1, <1>2, Induct, Zenon
<1> QED
  BY <1>3 DEF Same

LEMMA JoinedExists ==
    ASSUME NEW S, NEW ss \in Seq(Seq(S))
    PROVE  \E g \in [1 .. Len(ss) -> Seq(S)] : Joined(g, ss, Len(ss))
<1> DEFINE n == Len(ss)
           Found(m) == \E g \in [1 .. m -> Seq(S)] : Joined(g, ss, m)
           Reach == {m \in Nat : m <= n => Found(m)}
<1>1. n \in Nat /\ \A i \in 1 .. n : ss[i] \in Seq(S)
  OBVIOUS
<1> HIDE DEF n
<1>2. 0 \in Reach
  <2> DEFINE g == [i \in 1 .. 0 |-> <<>>]
  <2>1. g \in [1 .. 0 -> Seq(S)] /\ Joined(g, ss, 0)
    BY DEF Joined
  <2>2. Found(0)
    BY <2>1
  <2> HIDE DEF Found
  <2> QED
    BY <2>2
<1>3. ASSUME NEW m \in Nat, m \in Reach PROVE m + 1 \in Reach
  <2> HIDE DEF Found
  <2> SUFFICES ASSUME m + 1 <= n PROVE Found(m + 1)
    OBVIOUS
  <2>0. Found(m)
    BY <1>1, <1>3
  <2>1. PICK g \in [1 .. m -> Seq(S)] : Joined(g, ss, m)
    BY <2>0 DEF Found
  <2> DEFINE e == IF m = 0 THEN ss[1] ELSE g[m] \o ss[m + 1]
             h == [i \in 1 .. m + 1 |-> IF i <= m THEN g[i] ELSE e]
  <2>2. e \in Seq(S)
    <3>1. ss[m + 1] \in Seq(S)
      BY <1>1
    <3>2. CASE m = 0
      BY <3>1, <3>2
    <3>3. CASE m # 0
      <4>1. g[m] \in Seq(S)
        BY <3>3
      <4> QED
        BY <3>1, <3>3, <4>1
    <3> QED
      BY <3>2, <3>3
  <2>3. \A i \in 1 .. m : h[i] = g[i]
    OBVIOUS
  <2>4. h[m + 1] = e
    OBVIOUS
  <2>5. h \in [1 .. m + 1 -> Seq(S)]
    <3> HIDE DEF e
    <3> QED
      BY <2>2
  <2> HIDE DEF h
  <2>6. Joined(h, ss, m + 1)
    <3> SUFFICES ASSUME NEW i \in 1 .. m + 1
                 PROVE  h[i] = IF i = 1 THEN ss[i] ELSE h[i - 1] \o ss[i]
      BY DEF Joined
    <3>1. CASE i <= m
      <4>1. i \in 1 .. m /\ (i # 1 => i - 1 \in 1 .. m)
        BY <3>1
      <4>2. g[i] = IF i = 1 THEN ss[i] ELSE g[i - 1] \o ss[i]
        BY <2>1, <4>1, Zenon DEF Joined
      <4>3. h[i] = g[i] /\ (i # 1 => h[i - 1] = g[i - 1])
        BY <2>3, <4>1
      <4> QED
        BY <4>2, <4>3
    <3>2. CASE i = m + 1
      <4>1. m # 0 => m \in 1 .. m /\ h[m] = g[m]
        BY <2>3
      <4>2. i - 1 = m /\ (i = 1 <=> m = 0)
        BY <3>2
      <4> QED
        BY <2>4, <3>2, <4>1, <4>2
    <3> QED
      BY <3>1, <3>2
  <2> QED
    BY <2>5, <2>6 DEF Found
<1> HIDE DEF Reach, Found
<1>4. n \in Reach
  BY <1>1, <1>2, <1>3, Induct, Zenon
<1>5. Found(n)
  BY <1>1, <1>4 DEF Reach
<1> QED
  BY <1>5 DEF Found, n

LEMMA FlattenIs ==
    ASSUME NEW S, NEW ss \in Seq(Seq(S)), ss # <<>>
    PROVE  \E g : /\ g \in [1 .. Len(ss) -> Seq(S)]
                  /\ Joined(g, ss, Len(ss)) /\ FlattenSeq(ss) = g[Len(ss)]
<1>1. PICK g \in [1 .. Len(ss) -> Seq(S)] : Joined(g, ss, Len(ss))
  BY JoinedExists
<1> DEFINE n == Len(ss)
           f == CHOOSE f : IsFlatten(f, ss)
<1>2. n \in Nat /\ n # 0
  OBVIOUS
<1>3. FlattenSeq(ss) = f[n]
  BY <1>2 DEF FlattenSeq, IsFlatten
<1>4. IsFlatten(g, ss)
  BY <1>1 DEF IsFlatten, Joined
<1>5. IsFlatten(f, ss)
  BY <1>4
<1> HIDE DEF f
<1>6. Joined(f, ss, n)
  BY <1>5 DEF IsFlatten, Joined
<1>7. f[n] = g[n]
  <2>1. \A i \in 1 .. n : f[i] = g[i]
    BY <1>1, <1>2, <1>6, JoinedSame
  <2> QED
    BY <1>2, <2>1
<1> QED
  BY <1>1, <1>3, <1>7

LEMMA FlattenNone == FlattenSeq(<<>>) = <<>>
BY DEF FlattenSeq

LEMMA FlattenAppend ==
    ASSUME NEW S, NEW ss \in Seq(Seq(S)), NEW x \in Seq(S)
    PROVE  /\ FlattenSeq(ss) \in Seq(S)
           /\ FlattenSeq(Append(ss, x)) = FlattenSeq(ss) \o x
<1> DEFINE n == Len(ss)
           t == Append(ss, x)
<1>1. /\ n \in Nat /\ t \in Seq(Seq(S)) /\ Len(t) = n + 1 /\ t # <<>> /\ t[n + 1] = x
      /\ \A i \in 1 .. n : t[i] = ss[i]
  <2>1. t[n + 1] = x /\ t \in Seq(Seq(S)) /\ Len(t) = n + 1 /\ \A i \in 1 .. n : t[i] = ss[i]
    BY AppendProperties
  <2> QED
    BY <2>1
<1> HIDE DEF t, n
<1>2. PICK h : /\ h \in [1 .. n + 1 -> Seq(S)]
               /\ Joined(h, t, n + 1) /\ FlattenSeq(t) = h[n + 1]
  BY <1>1, FlattenIs, Zenon
<1>3. FlattenSeq(t) = IF n = 0 THEN x ELSE h[n] \o x
  <2> DEFINE m == n + 1
  <2>1. m \in 1 .. m /\ Joined(h, t, m) /\ FlattenSeq(t) = h[m] /\ t[m] = x
        /\ m - 1 = n /\ (m = 1 <=> n = 0)
    BY <1>1, <1>2
  <2> HIDE DEF m
  <2>2. h[m] = IF m = 1 THEN t[m] ELSE h[m - 1] \o t[m]
    BY <2>1, Zenon DEF Joined
  <2> QED
    BY <2>1, <2>2
<1>4. CASE ss = <<>>
  <2>1. n = 0 /\ FlattenSeq(ss) = <<>>
    BY <1>4, FlattenNone DEF n
  <2>2. FlattenSeq(t) = x
    BY <1>1, <1>2, <1>3, <2>1
  <2>3. <<>> \o x = x
    OBVIOUS
  <2>4. <<>> \in Seq(S)
    OBVIOUS
  <2> QED
    BY <2>1, <2>2, <2>3, <2>4 DEF t
<1>5. CASE ss # <<>>
  <2>1. PICK g : /\ g \in [1 .. n -> Seq(S)]
                 /\ Joined(g, ss, n) /\ FlattenSeq(ss) = g[n]
    BY <1>5, FlattenIs, Zenon DEF n
  <2>2. n # 0
    BY <1>5, EmptySeq DEF n
  <2>3. Joined(h, t, n)
    <3> SUFFICES ASSUME NEW i \in 1 .. n
                 PROVE  h[i] = IF i = 1 THEN t[i] ELSE h[i - 1] \o t[i]
      BY DEF Joined
    <3>1. i \in 1 .. n + 1
      BY <1>1
    <3> QED
      BY <1>2, <3>1, Zenon DEF Joined
  <2>4. \A i \in 1 .. n : h[i] = g[i]
    <3>1. n \in Nat /\ Joined(h, t, n) /\ Joined(g, ss, n) /\ \A i \in 1 .. n : t[i] = ss[i]
      BY <1>1, <2>1, <2>3
    <3> QED
      BY <3>1, JoinedSame
  <2>5. n \in 1 .. n /\ n + 1 - 1 = n /\ n + 1 # 1
    BY <1>1, <2>2
  <2>6. FlattenSeq(t) = g[n] \o x /\ g[n] \in Seq(S)
    <3>1. h[n] = g[n] /\ g[n] \in Seq(S)
      BY <2>1, <2>4, <2>5
    <3> QED
      BY <1>3, <2>2, <3>1
  <2> QED
    BY <2>1, <2>6 DEF t
<1> QED
  BY <1>4, <1>5

LEMMA FlattenNext ==
    ASSUME NEW S, NEW s \in Seq(Seq(S)), NEW t \in Seq(Seq(S)),
           Len(t) = Len(s) + 1, \A i \in 1 .. Len(s) : t[i] = s[i]
    PROVE  /\ FlattenSeq(s) \in Seq(S)
           /\ FlattenSeq(t) = FlattenSeq(s) \o t[Len(s) + 1]
<1> DEFINE x == t[Len(s) + 1]
<1>1. x \in Seq(S)
  OBVIOUS
<1>2. t = Append(s, x)
  OBVIOUS
<1> HIDE DEF x
<1>3. FlattenSeq(s) \in Seq(S) /\ FlattenSeq(Append(s, x)) = FlattenSeq(s) \o x
  BY <1>1, FlattenAppend
<1> QED
  BY <1>2, <1>3 DEF x

(* Flattened as far as m.                                                  *)
UpTo(f, m) == FlattenSeq([k \in 1 .. m |-> f[k]])

LEMMA UpToNext ==
    ASSUME NEW S, NEW n \in Nat, NEW f, \A k \in 1 .. n : f[k] \in Seq(S)
    PROVE  /\ UpTo(f, n) \in Seq(S)
           /\ n > 0 => UpTo(f, n) = UpTo(f, n - 1) \o f[n]
           /\ UpTo(f, 0) = <<>>
<1> DEFINE of(m) == [k \in 1 .. m |-> f[k]]
<1>1. \A m \in 0 .. n : /\ of(m) \in Seq(Seq(S)) /\ Len(of(m)) = m
                       /\ \A k \in 1 .. m : of(m)[k] = f[k]
  OBVIOUS
<1>2. UpTo(f, 0) = <<>>
  <2>1. of(0) = <<>>
    OBVIOUS
  <2> QED
    BY <2>1, FlattenNone DEF UpTo
<1>3. \A m \in Nat : UpTo(f, m) = FlattenSeq(of(m))
  BY DEF UpTo
<1> HIDE DEF of
<1>4. UpTo(f, n) \in Seq(S)
  <2> DEFINE s == of(n)
  <2>1. s \in Seq(Seq(S))
    BY <1>1
  <2> HIDE DEF s
  <2>2. <<>> \in Seq(S)
    OBVIOUS
  <2>3. FlattenSeq(s) \in Seq(S)
    BY <2>1, <2>2, FlattenAppend
  <2> QED
    BY <1>3, <2>3 DEF s
<1>5. ASSUME n > 0 PROVE UpTo(f, n) = UpTo(f, n - 1) \o f[n]
  <2> DEFINE s == of(n - 1)
             t == of(n)
  <2>1. /\ s \in Seq(Seq(S)) /\ t \in Seq(Seq(S))
        /\ Len(s) = n - 1 /\ Len(t) = Len(s) + 1 /\ Len(s) + 1 = n
        /\ \A i \in 1 .. Len(s) : t[i] = s[i]
        /\ t[n] = f[n]
    <3>1. n - 1 \in 0 .. n /\ n \in 0 .. n /\ n - 1 + 1 = n /\ n \in 1 .. n
          /\ \A i \in 1 .. n - 1 : i \in 1 .. n
      BY <1>5
    <3>2. /\ s \in Seq(Seq(S)) /\ Len(s) = n - 1
          /\ \A i \in 1 .. n - 1 : s[i] = f[i]
      BY <1>1, <3>1
    <3>3. /\ t \in Seq(Seq(S)) /\ Len(t) = n
          /\ \A i \in 1 .. n : t[i] = f[i]
      BY <1>1, <3>1
    <3> HIDE DEF s, t
    <3> QED
      BY <3>1, <3>2, <3>3
  <2> HIDE DEF s, t
  <2>2. FlattenSeq(t) = FlattenSeq(s) \o t[Len(s) + 1]
    BY <2>1, FlattenNext
  <2>3. UpTo(f, n) = FlattenSeq(t) /\ UpTo(f, n - 1) = FlattenSeq(s)
    BY <1>3, <1>5 DEF s, t
  <2> QED
    BY <2>1, <2>2, <2>3
<1> QED
  BY <1>2, <1>4, <1>5

----------------------------------------------------------------------------
(* Each list is longer than nothing: the ends grow.                        *)
LEMMA Grows ==
    ASSUME NEW n \in Nat, NEW e, \A k \in 0 .. n : e[k] \in Nat,
           \A k \in 1 .. n : e[k - 1] < e[k]
    PROVE  \A i, j \in 0 .. n : i < j => e[i] < e[j]
<1> SUFFICES ASSUME NEW i \in 0 .. n PROVE \A j \in 0 .. n : i < j => e[i] < e[j]
  OBVIOUS
<1> DEFINE Good == {j \in Nat : j <= n /\ i < j => e[i] < e[j]}
<1>1. 0 \in Good
  OBVIOUS
<1>2. ASSUME NEW j \in Nat, j \in Good PROVE j + 1 \in Good
  <2> SUFFICES ASSUME j + 1 <= n, i < j + 1 PROVE e[i] < e[j + 1]
    OBVIOUS
  <2>1. j + 1 \in 1 .. n /\ j + 1 - 1 = j /\ j \in 0 .. n /\ (i = j \/ i < j)
    OBVIOUS
  <2>2. e[j] < e[j + 1]
    BY <2>1
  <2>3. i = j \/ e[i] < e[j]
    BY <1>2, <2>1
  <2>4. e[i] \in Nat /\ e[j] \in Nat /\ e[j + 1] \in Nat
    BY <2>1
  <2> QED
    BY <2>2, <2>3, <2>4
<1> HIDE DEF Good
<1>3. \A j \in Nat : j \in Good
  BY <1>1, <1>2, Induct, Zenon
<1> QED
  BY <1>3 DEF Good

(* The lists that are there as a whole are the first m, if the next ends   *)
(* behind the data.                                                        *)
LEMMA WholeAre ==
    ASSUME NEW store \in Stores, NEW name \in Names,
           NEW m \in 0 .. Len(store[name].lists),
           Ends(store[name].lists)[m] <= store[name].len,
           m < Len(store[name].lists) => Ends(store[name].lists)[m + 1] > store[name].len
    PROVE  Cardinality(WholeLists(store[name])) = m
<1> DEFINE n == Len(store[name].lists)
           e == Ends(store[name].lists)
           len == store[name].len
<1>1. /\ n \in Nat /\ len \in Nat /\ \A k \in 0 .. n : e[k] \in Nat
      /\ \A k \in 1 .. n : e[k - 1] < e[k]
  <2>1. /\ n \in Nat /\ len \in Nat /\ \A k \in 0 .. n : e[k] \in Nat
        /\ \A k \in 1 .. n : /\ e[k] = e[k - 1] + store[name].lists[k].size
                            /\ store[name].lists[k].size \in Nat
                            /\ store[name].lists[k].size >= HeaderOfList
    BY ContentsHave
  <2> HIDE DEF n, e, len
  <2>2. \A k \in 1 .. n : k - 1 \in 0 .. n
    BY <2>1
  <2>3. \A k \in 1 .. n : e[k - 1] < e[k]
    <3> SUFFICES ASSUME NEW k \in 1 .. n PROVE e[k - 1] < e[k]
      OBVIOUS
    <3> DEFINE size == store[name].lists[k].size
    <3>1. e[k] = e[k - 1] + size /\ size \in Nat /\ size >= 28
      BY <2>1, Zenon DEF HeaderOfList
    <3>2. e[k - 1] \in Nat
      BY <2>1, <2>2
    <3> HIDE DEF size
    <3> QED
      BY <3>1, <3>2
  <2> QED
    BY <2>1, <2>3
<1>2. DOMAIN store[name].lists = 1 .. n
  BY VariableHas, ListHas
<1>3. WholeLists(store[name]) = {k \in 1 .. n : e[k] <= len}
  BY <1>2 DEF WholeLists
<1>4. m \in 0 .. n /\ e[m] <= len /\ (m < n => e[m + 1] > len)
  OBVIOUS
<1> HIDE DEF n, e, len
<1>5. \A i, j \in 0 .. n : i < j => e[i] < e[j]
  BY <1>1, Grows
<1>6. \A k \in 1 .. n : e[k] <= len <=> k <= m
  <2> SUFFICES ASSUME NEW k \in 1 .. n PROVE e[k] <= len <=> k <= m
    OBVIOUS
  <2>1. /\ k \in 0 .. n /\ e[k] \in Nat /\ e[m] \in Nat /\ m \in Nat
    BY <1>1, <1>4
  <2>2. CASE k <= m
    <3>1. k = m \/ e[k] < e[m]
      BY <1>1, <1>4, <1>5, <2>1, <2>2
    <3> QED
      BY <1>1, <1>4, <2>1, <2>2, <3>1
  <2>3. CASE m < k
    <3>1. m < n /\ m + 1 \in 0 .. n /\ e[m + 1] \in Nat
      BY <1>1, <1>4, <2>1, <2>3
    <3>2. k = m + 1 \/ e[m + 1] < e[k]
      BY <1>1, <1>5, <2>1, <2>3, <3>1
    <3> QED
      BY <1>1, <1>4, <2>1, <2>3, <3>1, <3>2
  <2> QED
    BY <2>1, <2>2, <2>3
<1>7. WholeLists(store[name]) = 1 .. m
  BY <1>1, <1>3, <1>4, <1>6
<1>8. Cardinality(1 .. m) = m
  <2>1. m \in Int /\ 1 \in Int /\ m \in Nat
    BY <1>1, <1>4
  <2>2. Cardinality(1 .. m) = IF 1 > m THEN 0 ELSE m - 1 + 1
    BY <2>1, FS_Interval
  <2> QED
    BY <2>1, <2>2
<1> QED
  BY <1>7, <1>8

----------------------------------------------------------------------------
LEMMA EntriesNext ==
    ASSUME NEW name \in Names, NEW k \in Nat, NEW n \in Nat
    PROVE  /\ Entries(name, k, n) \in Seq(Certificates)
           /\ Entries(name, k, 0) = <<>>
           /\ nvram[name].lists[k].sig > 100 =>
                Entries(name, k, n + 1) = Append(Entries(name, k, n), <<name, k, n + 1>>)
           /\ ~(nvram[name].lists[k].sig > 100) => Entries(name, k, n) = <<>>
<1> DEFINE cert(j) == <<name, k, j>>
           f(m) == [j \in 1 .. m |-> cert(j)]
<1>1. \A j \in Nat : cert(j) \in Certificates
  BY DEF Certificates
<1> HIDE DEF cert
<1>2. \A m \in Nat : f(m) \in Seq(Certificates) /\ Len(f(m)) = m
                     /\ \A j \in 1 .. m : f(m)[j] = cert(j)
  BY <1>1
<1>3. f(0) = <<>>
  OBVIOUS
<1> HIDE DEF f
<1>4. f(n + 1) = Append(f(n), cert(n + 1))
  <2>1. /\ f(n) \in Seq(Certificates) /\ f(n + 1) \in Seq(Certificates)
        /\ Len(f(n)) = n /\ Len(f(n + 1)) = n + 1 /\ cert(n + 1) \in Certificates
        /\ \A j \in 1 .. n : f(n)[j] = cert(j)
        /\ \A j \in 1 .. n + 1 : f(n + 1)[j] = cert(j)
    BY <1>1, <1>2
  <2> DEFINE a == f(n)
             b == f(n + 1)
             x == cert(n + 1)
  <2>2. /\ a \in Seq(Certificates) /\ b \in Seq(Certificates) /\ x \in Certificates
        /\ Len(a) = n /\ Len(b) = n + 1 /\ \A j \in 1 .. n : a[j] = b[j]
        /\ b[n + 1] = x
    BY <2>1
  <2> HIDE DEF a, b, x
  <2>3. Append(a, x) \in Seq(Certificates) /\ Len(Append(a, x)) = n + 1
        /\ \A j \in 1 .. n + 1 : b[j] = Append(a, x)[j]
    BY <2>2
  <2>4. b = Append(a, x)
    BY <2>2, <2>3, SeqEqual
  <2> QED
    BY <2>4 DEF a, b, x
<1>5. \A m \in Nat : Entries(name, k, m) =
                    IF nvram[name].lists[k].sig > 100 THEN f(m) ELSE <<>>
  BY DEF Entries, f, cert
<1>6. <<>> \in Seq(Certificates)
  OBVIOUS
<1> DEFINE big == nvram[name].lists[k].sig > 100
<1>7. /\ Entries(name, k, 0) = IF big THEN f(0) ELSE <<>>
      /\ Entries(name, k, n) = IF big THEN f(n) ELSE <<>>
      /\ Entries(name, k, n + 1) = IF big THEN f(n + 1) ELSE <<>>
  BY <1>5
<1>8. f(n) \in Seq(Certificates) /\ cert(n + 1) = <<name, k, n + 1>>
  BY <1>2 DEF cert
<1> HIDE DEF big
<1>9. CASE big
  BY <1>3, <1>4, <1>7, <1>8, <1>9 DEF big
<1>10. CASE ~big
  BY <1>6, <1>7, <1>10 DEF big
<1> QED
  BY <1>9, <1>10

LEMMA OfListsNext ==
    ASSUME nvram \in Stores, NEW name \in Names,
           NEW n \in Nat, n <= Len(nvram[name].lists)
    PROVE  /\ OfLists(name, n) \in Seq(Certificates)
           /\ n > 0 => OfLists(name, n) = OfLists(name, n - 1) \o OfList(name, n)
           /\ OfLists(name, 0) = <<>>
<1>1. \A k \in 1 .. Len(nvram[name].lists) : OfList(name, k) \in Seq(Certificates)
  <2> SUFFICES ASSUME NEW k \in 1 .. Len(nvram[name].lists)
               PROVE  OfList(name, k) \in Seq(Certificates)
    OBVIOUS
  <2>1. Len(nvram[name].lists[k].certs) \in Nat /\ k \in Nat
    BY ContentsHave, SMTT(30)
  <2> QED
    BY <2>1, EntriesNext DEF OfList
<1>2. Len(nvram[name].lists) \in Nat
  BY ContentsHave
<1> DEFINE f == [k \in 1 .. n |-> OfList(name, k)]
<1>3. \A m \in 0 .. n : [k \in 1 .. m |-> f[k]] = [k \in 1 .. m |-> OfList(name, k)]
  <2> SUFFICES ASSUME NEW m \in 0 .. n
               PROVE  [k \in 1 .. m |-> f[k]] = [k \in 1 .. m |-> OfList(name, k)]
    OBVIOUS
  <2>1. \A k \in 1 .. m : f[k] = OfList(name, k)
    OBVIOUS
  <2> HIDE DEF f
  <2> QED
    BY <2>1
<1>4. \A m \in 0 .. n : OfLists(name, m) = UpTo(f, m)
  BY <1>3 DEF OfLists, UpTo
<1>5. (\A k \in 1 .. n : f[k] \in Seq(Certificates)) /\ (n > 0 => f[n] = OfList(name, n))
  BY <1>1, <1>2
<1> HIDE DEF f
<1>6. 0 \in 0 .. n /\ n \in 0 .. n /\ (n > 0 => n - 1 \in 0 .. n)
  OBVIOUS
<1>7. /\ UpTo(f, n) \in Seq(Certificates)
      /\ n > 0 => UpTo(f, n) = UpTo(f, n - 1) \o f[n]
      /\ UpTo(f, 0) = <<>>
  BY <1>5, UpToNext
<1> QED
  BY <1>4, <1>5, <1>6, <1>7

(* CertsOf, as the lists that are there as a whole.                        *)
LEMMA CertsOfIs ==
    ASSUME nvram \in Stores, NEW name \in Names
    PROVE  /\ CertsOf(name) = OfLists(name, Cardinality(WholeLists(nvram[name])))
           /\ CertsOf(name) \in Seq(Certificates)
<1> DEFINE lists == nvram[name].lists
           n == Len(lists)
           m == Cardinality(WholeLists(nvram[name]))
<1>1. /\ n \in Nat /\ DOMAIN lists = 1 .. n
      /\ \A k \in 1 .. n : DOMAIN lists[k].certs = 1 .. Len(lists[k].certs)
  <2>1. lists \in Seq(List)
    BY VariableHas
  <2> HIDE DEF lists
  <2> QED
    BY <2>1, ListHas
<1>2. m \in Nat /\ m <= n
  <2>1. WholeLists(nvram[name]) \in SUBSET (1 .. n)
    BY <1>1 DEF WholeLists
  <2>2. IsFiniteSet(1 .. n) /\ Cardinality(1 .. n) = n
    <3>1. n \in Int /\ 1 \in Int
      BY <1>1
    <3>2. IsFiniteSet(1 .. n) /\ Cardinality(1 .. n) = IF 1 > n THEN 0 ELSE n - 1 + 1
      BY <3>1, FS_Interval
    <3> HIDE DEF n
    <3> QED
      BY <1>1, <3>2
  <2>3. IsFiniteSet(WholeLists(nvram[name])) /\ m <= Cardinality(1 .. n)
    BY <2>1, <2>2, FS_Subset
  <2>4. m \in Nat
    BY <2>3, FS_CardinalityType
  <2> QED
    BY <2>2, <2>3, <2>4
<1>3. CertsOf(name) = OfLists(name, m)
  <2> DEFINE of(k) == IF lists[k].sig > 100
                      THEN [j \in DOMAIN lists[k].certs |-> <<name, k, j>>] ELSE <<>>
  <2>1. CertsOf(name) = FlattenSeq([k \in 1 .. m |-> of(k)])
    BY DEF CertsOf
  <2>2. \A k \in 1 .. m : of(k) = OfList(name, k)
    <3> SUFFICES ASSUME NEW k \in 1 .. m PROVE of(k) = OfList(name, k)
      OBVIOUS
    <3>1. k \in 1 .. n
      BY <1>1, <1>2
    <3>2. DOMAIN lists[k].certs = 1 .. Len(lists[k].certs)
      BY <1>1, <3>1
    <3> QED
      BY <3>2 DEF OfList, Entries
  <2> HIDE DEF of, m
  <2>3. [k \in 1 .. m |-> of(k)] = [k \in 1 .. m |-> OfList(name, k)]
    BY <2>2
  <2> QED
    BY <2>1, <2>3 DEF OfLists
<1> QED
  BY <1>2, <1>3, OfListsNext

(* What is left of the variables that were asked for.                      *)
LEMMA LeftAre ==
    ASSUME NEW A \in Seq(Names), NEW k \in Nat, k >= 1, k <= Len(A) + 1
    PROVE  LET s == SubSeq(A, k, Len(A))
           IN /\ s = <<>> => k = Len(A) + 1
              /\ s # <<>> => /\ k <= Len(A) /\ s[1] = A[k] /\ A[k] \in Names
                             /\ Tail(s) = SubSeq(A, k + 1, Len(A))
<1>1. CASE k = Len(A) + 1
  <2>1. SubSeq(A, k, Len(A)) = <<>>
    <3>1. k \in Int /\ Len(A) \in Int /\ Len(A) < k
      BY <1>1
    <3> QED
      BY <3>1, SubSeqEmpty
  <2> QED
    BY <1>1, <2>1
<1>2. CASE k <= Len(A)
  <2>1. k \in 1 .. Len(A) /\ Len(A) \in k .. Len(A)
    BY <1>2
  <2>2. /\ Head(SubSeq(A, k, Len(A))) = A[k]
        /\ Tail(SubSeq(A, k, Len(A))) = SubSeq(A, k + 1, Len(A))
    BY <2>1, HeadTailOfSubSeq
  <2>3. Len(SubSeq(A, k, Len(A))) = Len(A) - k + 1 /\ SubSeq(A, k, Len(A)) \in Seq(Names)
    BY <2>1
  <2>4. SubSeq(A, k, Len(A)) # <<>> /\ SubSeq(A, k, Len(A))[1] = Head(SubSeq(A, k, Len(A)))
    <3> DEFINE s == SubSeq(A, k, Len(A))
    <3>1. s \in Seq(Names) /\ Len(s) # 0
      BY <1>2, <2>3
    <3> HIDE DEF s
    <3>2. s # <<>> /\ s[1] = Head(s)
      BY <3>1
    <3> QED
      BY <3>2 DEF s
  <2> QED
    BY <1>2, <2>1, <2>2, <2>4
<1> QED
  BY <1>1, <1>2

LEMMA OfVariablesNext ==
    ASSUME nvram \in Stores, NEW outs \in Seq(Outcomes),
           NEW n \in Nat, n <= Len(outs), n <= Len(Asked(argv))
    PROVE  /\ OfVariables(outs, n) \in Seq(Certificates)
           /\ n > 0 => OfVariables(outs, n) = OfVariables(outs, n - 1) \o OfVariable(outs, n)
           /\ OfVariables(outs, 0) = <<>>
<1>1. \A k \in 1 .. n : OfVariable(outs, k) \in Seq(Certificates)
  <2> SUFFICES ASSUME NEW k \in 1 .. n PROVE OfVariable(outs, k) \in Seq(Certificates)
    OBVIOUS
  <2>1. Asked(argv)[k] \in Names
    <3>1. Asked(argv) \in Seq(Names)
      BY AskedAre
    <3>2. k \in 1 .. Len(Asked(argv))
      BY <3>1
    <3> QED
      BY <3>1, <3>2
  <2>2. CertsOf(Asked(argv)[k]) \in Seq(Certificates)
    BY <2>1, CertsOfIs
  <2>3. <<>> \in Seq(Certificates)
    OBVIOUS
  <2> QED
    BY <2>2, <2>3 DEF OfVariable
<1> DEFINE f == [k \in 1 .. n |-> OfVariable(outs, k)]
<1>2. \A m \in 0 .. n : [k \in 1 .. m |-> f[k]] = [k \in 1 .. m |-> OfVariable(outs, k)]
  <2> SUFFICES ASSUME NEW m \in 0 .. n
               PROVE  [k \in 1 .. m |-> f[k]] = [k \in 1 .. m |-> OfVariable(outs, k)]
    OBVIOUS
  <2>1. \A k \in 1 .. m : f[k] = OfVariable(outs, k)
    OBVIOUS
  <2> HIDE DEF f
  <2> QED
    BY <2>1
<1>3. \A m \in 0 .. n : OfVariables(outs, m) = UpTo(f, m)
  BY <1>2 DEF OfVariables, UpTo
<1>4. (\A k \in 1 .. n : f[k] \in Seq(Certificates)) /\ (n > 0 => f[n] = OfVariable(outs, n))
  BY <1>1
<1> HIDE DEF f
<1>5. 0 \in 0 .. n /\ n \in 0 .. n /\ (n > 0 => n - 1 \in 0 .. n)
  OBVIOUS
<1>6. /\ UpTo(f, n) \in Seq(Certificates)
      /\ n > 0 => UpTo(f, n) = UpTo(f, n - 1) \o f[n]
      /\ UpTo(f, 0) = <<>>
  BY <1>4, UpToNext
<1> QED
  BY <1>3, <1>4, <1>5, <1>6

(* An outcome more says nothing of the variables before it.                *)
LEMMA OfVariablesSame ==
    ASSUME NEW outs \in Seq(Outcomes), NEW s \in Outcomes, NEW n \in Nat, n <= Len(outs)
    PROVE  OfVariables(Append(outs, s), n) = OfVariables(outs, n)
<1>1. \A k \in 1 .. n : OfVariable(Append(outs, s), k) = OfVariable(outs, k)
  <2>1. \A k \in 1 .. n : Append(outs, s)[k] = outs[k]
    OBVIOUS
  <2> QED
    BY <2>1 DEF OfVariable
<1>2. [k \in 1 .. n |-> OfVariable(Append(outs, s), k)] = [k \in 1 .. n |-> OfVariable(outs, k)]
  BY <1>1
<1> QED
  BY <1>2 DEF OfVariables

LEMMA OutputAtFirst == Init => OutputInv
BY DEF Init, OutputInv, Inside, InList

(* OutputInv after a step that leaves the variables and the arguments.     *)
LEMMA OutputNext ==
    ASSUME nvram' = nvram, argv' = argv, NEW n, n = Len(outcomes'),
           outcomes' \in Seq(Outcomes), decoded' \in Seq(Certificates),
           at' = "args" => outcomes' = <<>> /\ decoded' = <<>> /\ status' = "success",
           at' \in Inside \cup {"variable"} =>
             status' = IF outcomes' = <<>> THEN "success" ELSE outcomes'[n],
           at' \in Inside \cup {"variable"} =>
             LET k == IF at' = "variable" THEN n + 1 ELSE n
             IN k <= Len(Asked(argv)) + 1 /\ todo' = SubSeq(Asked(argv), k, Len(Asked(argv))),
           at' = "variable" => decoded' = OfVariables(outcomes', n),
           at' \in Inside => n >= 1 /\ outcomes'[n] = "success",
           at' = "lists" => decoded' = OfVariables(outcomes', n - 1) \o OfLists(todo'[1], l' - 1),
           at' \in InList =>
             decoded' = (OfVariables(outcomes', n - 1) \o OfLists(todo'[1], l' - 1))
                        \o Entries(todo'[1], l', IF at' = "certs" THEN Index' ELSE Index' + 1),
           at' = "returned" /\ ~(status' = "error" /\ outcomes' = <<>>) =>
             /\ n = Len(Asked(argv)) /\ decoded' = OfVariables(outcomes', n)
             /\ outcomes' # <<>> => status' = outcomes'[n]
    PROVE  OutputInv'
<1>1. OfVariables(outcomes, Len(outcomes))' = OfVariables(outcomes', n)
      /\ OfVariables(outcomes, Len(outcomes) - 1)' = OfVariables(outcomes', n - 1)
  <2>1. \A k : OfVariable(outcomes, k)' = OfVariable(outcomes', k)
    BY DEF OfVariable, CertsOf
  <2>2. \A m : [k \in 1 .. m |-> OfVariable(outcomes, k)'] = [k \in 1 .. m |-> OfVariable(outcomes', k)]
    BY <2>1
  <2>3. /\ OfVariables(outcomes, Len(outcomes))' = FlattenSeq([k \in 1 .. n |-> OfVariable(outcomes, k)'])
        /\ OfVariables(outcomes, Len(outcomes) - 1)'
              = FlattenSeq([k \in 1 .. n - 1 |-> OfVariable(outcomes, k)'])
    BY DEF OfVariables
  <2> QED
    BY <2>2, <2>3 DEF OfVariables
<1>2. OfLists(todo[1], l - 1)' = OfLists(todo'[1], l' - 1)
  BY DEF OfLists, OfList, Entries
<1>3. Entries(todo[1], l, IF at = "certs" THEN Index ELSE Index + 1)' =
        Entries(todo'[1], l', IF at' = "certs" THEN Index' ELSE Index' + 1)
  BY DEF Entries
<1>4. /\ Left(Len(outcomes) + 1)' <=> n + 1 <= Len(Asked(argv)) + 1
                                     /\ todo' = SubSeq(Asked(argv), n + 1, Len(Asked(argv)))
      /\ Left(Len(outcomes))' <=> n <= Len(Asked(argv)) + 1
                                 /\ todo' = SubSeq(Asked(argv), n, Len(Asked(argv)))
  BY DEF Left
<1>5. "variable" \notin Inside
  BY DEF Inside
<1> QED
  BY <1>1, <1>2, <1>3, <1>4, <1>5 DEF OutputInv, NoArguments

LEMMA Sides ==
    ASSUME WalkInv, OutputInv, at \in Inside \cup {"variable"}
    PROVE  LET n == Len(outcomes)
               k == IF at = "variable" THEN n + 1 ELSE n
           IN /\ Asked(argv) \in Seq(Names) /\ nvram \in Stores
              /\ outcomes \in Seq(Outcomes) /\ n \in Nat
              /\ Len(Asked(argv)) \in Nat /\ k <= Len(Asked(argv)) + 1 /\ k >= 1
              /\ todo = <<>> => k = Len(Asked(argv)) + 1
              /\ todo # <<>> => /\ k <= Len(Asked(argv)) /\ todo[1] = Asked(argv)[k] /\ todo[1] \in Names
                                /\ Tail(todo) = SubSeq(Asked(argv), k + 1, Len(Asked(argv)))
<1> DEFINE n == Len(outcomes)
           k == IF at = "variable" THEN n + 1 ELSE n
<1>1. Asked(argv) \in Seq(Names) /\ nvram \in Stores /\ outcomes \in Seq(Outcomes) /\ n \in Nat
  BY AskedAre DEF WalkInv, OutputInv
<1>2. Left(k) /\ k \in Nat /\ k >= 1
  BY <1>1 DEF OutputInv, Inside
<1> HIDE DEF k
<1>3. /\ k <= Len(Asked(argv)) + 1 /\ todo = SubSeq(Asked(argv), k, Len(Asked(argv)))
      /\ Len(Asked(argv)) \in Nat
  BY <1>1, <1>2 DEF Left
<1>4. /\ todo = <<>> => k = Len(Asked(argv)) + 1
      /\ todo # <<>> => /\ k <= Len(Asked(argv)) /\ todo[1] = Asked(argv)[k] /\ Asked(argv)[k] \in Names
                        /\ Tail(todo) = SubSeq(Asked(argv), k + 1, Len(Asked(argv)))
  BY <1>1, <1>2, <1>3, LeftAre
<1> QED
  BY <1>1, <1>2, <1>3, <1>4 DEF k

LEMMA OutputVariableKeeps == WalkInv /\ OutputInv /\ OutputVariable => OutputInv'
<1> SUFFICES ASSUME WalkInv, OutputInv, OutputVariable PROVE OutputInv'
  OBVIOUS
<1> DEFINE n == Len(outcomes)
           A == Asked(argv)
<1>1. /\ at = "variable" /\ todo # <<>> /\ nvram' = nvram /\ argv' = argv /\ decoded' = decoded
  BY DEF OutputVariable
<1>2. /\ A \in Seq(Names) /\ nvram \in Stores /\ outcomes \in Seq(Outcomes) /\ n \in Nat
      /\ Len(A) \in Nat /\ n + 1 <= Len(A) /\ todo[1] = A[n + 1] /\ todo[1] \in Names
      /\ Tail(todo) = SubSeq(A, n + 2, Len(A))
  BY <1>1, Sides
<1>3. PICK s \in Outcomes :
         /\ status' = s /\ outcomes' = Append(outcomes, s)
         /\ IF s = "success" THEN at' = "lists" /\ l' = 1 /\ todo' = todo
                            ELSE at' = "variable" /\ todo' = Tail(todo)
  BY DEF OutputVariable, Outcomes
<1>4. /\ outcomes' \in Seq(Outcomes) /\ Len(outcomes') = n + 1 /\ outcomes'[n + 1] = s
      /\ outcomes' # <<>>
  BY <1>2, <1>3
<1>5. decoded = OfVariables(outcomes, n) /\ decoded \in Seq(Certificates) /\ Left(n + 1)
  BY <1>1 DEF OutputInv
<1>6. OfVariables(outcomes', n) = OfVariables(outcomes, n)
  BY <1>2, <1>3, OfVariablesSame
<1>7. CASE s = "success"
  <2>1. /\ at' = "lists" /\ l' = 1 /\ todo' = todo /\ status' = s
    BY <1>3, <1>7
  <2>2. OfLists(todo[1], 0) = <<>>
    <3>1. 0 \in Nat /\ 0 <= Len(nvram[todo[1]].lists)
      BY <1>2, ContentsHave
    <3> QED
      BY <1>2, <3>1, OfListsNext
  <2>3. decoded = decoded \o <<>>
    BY <1>5
  <2>4. decoded' = OfVariables(outcomes', n + 1 - 1) \o OfLists(todo'[1], l' - 1)
    BY <1>1, <1>2, <1>5, <1>6, <2>1, <2>2, <2>3
  <2>5. n + 1 <= Len(A) + 1 /\ todo' = SubSeq(A, n + 1, Len(A))
    BY <1>2, <1>5, <2>1 DEF Left
  <2> DEFINE m == n + 1
  <2>6. /\ nvram' = nvram /\ argv' = argv /\ m = Len(outcomes') /\ m >= 1
        /\ outcomes' \in Seq(Outcomes) /\ outcomes' # <<>> /\ decoded' \in Seq(Certificates)
        /\ at' = "lists" /\ status' = outcomes'[m] /\ outcomes'[m] = "success"
        /\ m <= Len(Asked(argv)) + 1 /\ todo' = SubSeq(Asked(argv), m, Len(Asked(argv)))
        /\ decoded' = OfVariables(outcomes', m - 1) \o OfLists(todo'[1], l' - 1)
    <3>1. decoded' = OfVariables(outcomes', m - 1) \o OfLists(todo'[1], l' - 1)
      BY <2>4
    <3>2. m <= Len(A) + 1 /\ todo' = SubSeq(A, m, Len(A)) /\ m >= 1
      BY <1>2, <2>5
    <3>3. outcomes'[m] = s
      BY <1>4
    <3> HIDE DEF m
    <3>4. decoded' \in Seq(Certificates)
      BY <1>1, <1>5
    <3>5. m = Len(outcomes')
      BY <1>4 DEF m
    <3> QED
      BY <1>1, <1>4, <1>7, <2>1, <3>1, <3>2, <3>3, <3>4, <3>5
  <2> HIDE DEF m
  <2> QED
    BY <2>6, OutputNext DEF Inside, InList
<1>8. CASE s # "success"
  <2>1. at' = "variable" /\ todo' = Tail(todo) /\ status' = s
    BY <1>3, <1>8
  <2>2. OfVariables(outcomes', n + 1) = OfVariables(outcomes', n) \o OfVariable(outcomes', n + 1)
    <3>1. n + 1 \in Nat /\ n + 1 <= Len(outcomes') /\ n + 1 > 0 /\ n + 1 - 1 = n
      BY <1>2, <1>4
    <3> HIDE DEF n
    <3> QED
      BY <1>2, <1>4, <3>1, OfVariablesNext, SMTT(30)
  <2>3. OfVariable(outcomes', n + 1) = <<>>
    BY <1>4, <1>8 DEF OfVariable
  <2>4. decoded = decoded \o <<>>
    BY <1>5
  <2>5. decoded' = OfVariables(outcomes', n + 1)
    BY <1>1, <1>5, <1>6, <2>2, <2>3, <2>4
  <2>6. n + 1 + 1 <= Len(A) + 1 /\ todo' = SubSeq(A, n + 1 + 1, Len(A))
    BY <1>2, <2>1
  <2> HIDE DEF n, A
  <2> QED
    BY <1>1, <1>2, <1>3, <1>4, <1>5, <2>1, <2>5, <2>6, OutputNext DEF A, Inside, InList
<1> QED
  BY <1>7, <1>8

(* Where the program is in a list, as OutputInv and WalkInv have it.       *)
LEMMA InsideHas ==
    ASSUME WalkInv, OutputInv, at \in Inside
    PROVE  LET n == Len(outcomes)
               A == Asked(argv)
               before == OfVariables(outcomes, n - 1) \o OfLists(todo[1], l - 1)
           IN /\ A \in Seq(Names) /\ nvram \in Stores /\ Len(A) \in Nat
              /\ outcomes \in Seq(Outcomes) /\ outcomes # <<>> /\ n \in Nat /\ n >= 1 /\ n <= Len(A)
              /\ outcomes[n] = "success" /\ status = outcomes[n]
              /\ todo = SubSeq(A, n, Len(A)) /\ Tail(todo) = SubSeq(A, n + 1, Len(A))
              /\ todo[1] = A[n] /\ todo[1] \in Names
              /\ OfVariables(outcomes, n - 1) \in Seq(Certificates)
              /\ OfLists(todo[1], l - 1) \in Seq(Certificates)
              /\ before \in Seq(Certificates) /\ decoded \in Seq(Certificates)
              /\ l \in Nat /\ l >= 1 /\ l <= Len(nvram[todo[1]].lists) + 1
              /\ at = "lists" => decoded = before
              /\ at = "certs" => decoded = before \o Entries(todo[1], l, Index)
              /\ at = "decode" => decoded = before \o Entries(todo[1], l, Index + 1)
<1> DEFINE n == Len(outcomes)
           A == Asked(argv)
<1>1. at # "variable" /\ todo # <<>> /\ l \in Nat /\ l >= 1 /\ l <= Len(nvram[todo[1]].lists) + 1
  BY DEF WalkInv, Inside, Var
<1>2. /\ A \in Seq(Names) /\ nvram \in Stores /\ outcomes \in Seq(Outcomes) /\ n \in Nat
      /\ Len(A) \in Nat /\ n >= 1 /\ n <= Len(A) /\ todo[1] = A[n] /\ todo[1] \in Names
      /\ Tail(todo) = SubSeq(A, n + 1, Len(A))
  BY <1>1, Sides
<1>3. outcomes # <<>>
  BY <1>2
<1>4. /\ outcomes[n] = "success" /\ status = outcomes[n] /\ todo = SubSeq(A, n, Len(A))
      /\ decoded \in Seq(Certificates)
      /\ at = "lists" => decoded = OfVariables(outcomes, n - 1) \o OfLists(todo[1], l - 1)
      /\ at = "certs" => decoded = (OfVariables(outcomes, n - 1) \o OfLists(todo[1], l - 1))
                                    \o Entries(todo[1], l, Index)
      /\ at = "decode" => decoded = (OfVariables(outcomes, n - 1) \o OfLists(todo[1], l - 1))
                                     \o Entries(todo[1], l, Index + 1)
  BY <1>3 DEF OutputInv, Left, InList
<1>5. OfVariables(outcomes, n - 1) \in Seq(Certificates)
  <2>1. n - 1 \in Nat /\ n - 1 <= Len(outcomes) /\ n - 1 <= Len(A)
    BY <1>2
  <2> QED
    BY <1>2, <2>1, OfVariablesNext
<1>6. OfLists(todo[1], l - 1) \in Seq(Certificates)
  <2>1. l - 1 \in Nat /\ l - 1 <= Len(nvram[todo[1]].lists)
    <3>1. Len(nvram[todo[1]].lists) \in Nat
      BY <1>2, ContentsHave
    <3> QED
      BY <1>1, <3>1
  <2> QED
    BY <1>2, <2>1, OfListsNext
<1>7. OfVariables(outcomes, n - 1) \o OfLists(todo[1], l - 1) \in Seq(Certificates)
  BY <1>5, <1>6
<1> QED
  BY <1>1, <1>2, <1>3, <1>4, <1>5, <1>6, <1>7

(* A step inside a variable keeps all but what has been decoded.           *)
LEMMA InsideKeeps ==
    ASSUME WalkInv, OutputInv, at \in Inside,
           UNCHANGED <<nvram, argv, todo, outcomes, status>>, decoded' \in Seq(Certificates),
           NEW before, before = OfVariables(outcomes, Len(outcomes) - 1) \o OfLists(todo[1], l' - 1),
           \/ at' = "lists" /\ decoded' = before
           \/ at' = "certs" /\ decoded' = before \o Entries(todo[1], l', Index')
           \/ at' = "decode" /\ decoded' = before \o Entries(todo[1], l', Index' + 1)
    PROVE  OutputInv'
<1> DEFINE n == Len(outcomes)
<1>1. /\ nvram' = nvram /\ argv' = argv /\ n = Len(outcomes') /\ n >= 1
      /\ outcomes' \in Seq(Outcomes) /\ outcomes' # <<>> /\ outcomes' = outcomes /\ todo' = todo
      /\ status' = outcomes'[n] /\ outcomes'[n] = "success"
      /\ n <= Len(Asked(argv)) + 1 /\ todo' = SubSeq(Asked(argv), n, Len(Asked(argv)))
  BY InsideHas, SMTT(30)
<1> HIDE DEF n
<1>2. CASE at' = "lists" /\ decoded' = before
  BY <1>1, <1>2, OutputNext DEF Inside, InList, n
<1>3. CASE at' = "certs" /\ decoded' = before \o Entries(todo[1], l', Index')
  BY <1>1, <1>3, OutputNext DEF Inside, InList, n
<1>4. CASE at' = "decode" /\ decoded' = before \o Entries(todo[1], l', Index' + 1)
  BY <1>1, <1>4, OutputNext DEF Inside, InList, n
<1> QED
  BY <1>2, <1>3, <1>4

LEMMA AppendBehind ==
    \A b, e \in Seq(Certificates) : \A x \in Certificates :
       Append(b \o e, x) = b \o Append(e, x)
OBVIOUS

LEMMA WalkOutputKept == WalkInv /\ OutputInv /\ Next => OutputInv'
<1> SUFFICES ASSUME WalkInv, OutputInv, Next PROVE OutputInv'
  OBVIOUS
<1> DEFINE n == Len(outcomes)
           A == Asked(argv)
           name == todo[1]
           before == OfVariables(outcomes, n - 1) \o OfLists(name, l - 1)
<1>1. CASE OutputVariable
  BY <1>1, OutputVariableKeeps
<1>2. CASE NextList
  <2>1. /\ at = "lists" /\ at' = "certs" /\ Index' = 0 /\ l' = l /\ decoded' = decoded
        /\ UNCHANGED <<nvram, argv, todo, outcomes, status>>
    BY <1>2 DEF NextList
  <2>2. /\ decoded = before /\ before \in Seq(Certificates) /\ name \in Names /\ l \in Nat
    BY <2>1, InsideHas DEF Inside
  <2>3. Entries(name, l, 0) = <<>>
    BY <2>2, EntriesNext
  <2>4. before = before \o <<>>
    BY <2>2
  <2> HIDE DEF before
  <2>5. decoded' = before \o Entries(name, l', Index') /\ decoded' \in Seq(Certificates)
    BY <2>1, <2>2, <2>3, <2>4
  <2> QED
    BY <2>1, <2>5, InsideKeeps DEF Inside, before
<1>3. CASE LastList
  <2>1. /\ at = "lists" /\ at' = "variable" /\ ~Complete /\ todo' = Tail(todo) /\ decoded' = decoded
        /\ UNCHANGED <<nvram, argv, outcomes, status>>
    BY <1>3 DEF LastList
  <2>2. /\ decoded = before /\ decoded \in Seq(Certificates) /\ name \in Names /\ nvram \in Stores
        /\ l \in Nat /\ l >= 1 /\ l <= Len(nvram[name].lists) + 1
        /\ A \in Seq(Names) /\ Len(A) \in Nat /\ outcomes \in Seq(Outcomes) /\ outcomes # <<>>
        /\ n \in Nat /\ n >= 1 /\ n <= Len(A) /\ outcomes[n] = "success" /\ status = outcomes[n]
        /\ name = A[n] /\ Tail(todo) = SubSeq(A, n + 1, Len(A))
    BY <2>1, InsideHas DEF Inside
  <2>3. /\ Ends(nvram[name].lists)[l - 1] <= nvram[name].len
        /\ DataSize = nvram[name].len - Ends(nvram[name].lists)[l - 1]
    BY <2>1 DEF WalkInv, Inside, Var
  <2>4. Len(nvram[name].lists) \in Nat /\ nvram[name].len \in Nat
        /\ \A k \in 0 .. Len(nvram[name].lists) : Ends(nvram[name].lists)[k] \in Nat
    BY <2>2, ContentsHave
  <2>5. l - 1 \in 0 .. Len(nvram[name].lists) /\ Ends(nvram[name].lists)[l - 1] \in Nat
    <3>1. l - 1 \in 0 .. Len(nvram[name].lists)
      BY <2>2, <2>4, SMTT(30)
    <3> QED
      BY <2>4, <3>1, Zenon
  <2>6. ASSUME l <= Len(nvram[name].lists)
        PROVE  Ends(nvram[name].lists)[l] > nvram[name].len
    <3>1. /\ Ends(nvram[name].lists)[l] = Ends(nvram[name].lists)[l - 1] + CertList.size
          /\ CertList.size \in Nat /\ CertList.size >= 28
      BY <2>1, <2>6, CountIs DEF Inside, Var, HeaderOfList
    <3>2. DataSize <= 0 \/ DataSize < CertList.size
      BY <2>1, <2>3, <2>4, <2>5, <2>6, <3>1 DEF Complete
    <3> QED
      BY <2>3, <2>4, <2>5, <3>1, <3>2
  <2>7. Cardinality(WholeLists(nvram[name])) = l - 1
    <3>1. l - 1 < Len(nvram[name].lists) => Ends(nvram[name].lists)[l - 1 + 1] > nvram[name].len
      <4>1. l - 1 + 1 = l /\ (l - 1 < Len(nvram[name].lists) => l <= Len(nvram[name].lists))
        BY <2>2, <2>4, SMTT(30)
      <4> QED
        BY <2>6, <4>1
    <3> QED
      BY <2>2, <2>3, <2>5, <3>1, WholeAre
  <2>8. CertsOf(name) = OfLists(name, l - 1)
    BY <2>2, <2>7, CertsOfIs
  <2>9. OfVariables(outcomes, n) = OfVariables(outcomes, n - 1) \o OfVariable(outcomes, n)
    <3>1. n \in Nat /\ n <= Len(outcomes) /\ n <= Len(Asked(argv)) /\ n > 0
      BY <2>2
    <3> HIDE DEF n, name, before
    <3> QED
      BY <2>2, <3>1, OfVariablesNext
  <2>10. OfVariable(outcomes, n) = CertsOf(name)
    BY <2>2 DEF OfVariable
  <2>11. decoded' = OfVariables(outcomes', n)
    BY <2>1, <2>2, <2>8, <2>9, <2>10
  <2> HIDE DEF before, name
  <2>12. /\ nvram' = nvram /\ argv' = argv /\ n = Len(outcomes') /\ n >= 1
         /\ outcomes' \in Seq(Outcomes) /\ outcomes' # <<>> /\ decoded' \in Seq(Certificates)
         /\ at' = "variable" /\ status' = outcomes'[n] /\ decoded' = OfVariables(outcomes', n)
         /\ n + 1 <= Len(A) + 1 /\ todo' = SubSeq(A, n + 1, Len(A))
    BY <2>1, <2>2, <2>11
  <2> HIDE DEF n, A
  <2> QED
    BY <2>12, OutputNext DEF Inside, InList, A
<1>4. CASE NextCert
  <2>1. /\ at = "certs" /\ l' = l /\ UNCHANGED <<nvram, argv, todo, outcomes, status>>
    BY <1>4 DEF NextCert
  <2>2. /\ decoded = before \o Entries(name, l, Index) /\ before \in Seq(Certificates)
        /\ name \in Names /\ l \in Nat /\ Index \in Nat
    BY <2>1, InsideHas DEF Inside, WalkInv
  <2> HIDE DEF before
  <2>3. CertList = nvram[name].lists[l] /\ Cert = <<name, l, Index + 1>> /\ Cert \in Certificates
    BY <2>2 DEF CertList, Cert, Certificates
  <2>4. Entries(name, l, Index) \in Seq(Certificates)
    BY <2>2, EntriesNext
  <2>5. CASE CertList.sig > 100
    <3>1. at' = "decode" /\ decoded' = Append(decoded, Cert) /\ Index' = Index
      BY <1>4, <2>5 DEF NextCert
    <3>2. Entries(name, l, Index + 1) = Append(Entries(name, l, Index), Cert)
      BY <2>2, <2>3, <2>5, EntriesNext
    <3>3. decoded' = before \o Entries(name, l', Index' + 1)
      <4>1. Append(before \o Entries(name, l, Index), Cert) = before \o Append(Entries(name, l, Index), Cert)
        <5> DEFINE e == Entries(name, l, Index)
        <5>1. e \in Seq(Certificates) /\ before \in Seq(Certificates) /\ Cert \in Certificates
          BY <2>2, <2>3, <2>4
        <5> HIDE DEF e
        <5>2. Append(before \o e, Cert) = before \o Append(e, Cert)
          BY <5>1, AppendBehind
        <5> QED
          BY <5>2 DEF e
      <4> QED
        BY <2>1, <2>2, <3>1, <3>2, <4>1
    <3>4. decoded' \in Seq(Certificates)
      BY <2>2, <2>3, <2>4, <3>1
    <3> QED
      BY <2>1, <3>1, <3>3, <3>4, InsideKeeps DEF Inside, before
  <2>6. CASE ~(CertList.sig > 100)
    <3>1. at' = "certs" /\ decoded' = decoded /\ Index' = Index + 1
      BY <1>4, <2>1, <2>6 DEF NextCert, PastSmall
    <3>2. Entries(name, l, Index) = <<>> /\ Entries(name, l, Index + 1) = <<>>
      <4>1. Index + 1 \in Nat
        BY <2>2
      <4> QED
        BY <2>2, <2>3, <2>6, <4>1, EntriesNext
    <3>3. decoded' = before \o Entries(name, l', Index')
      BY <2>1, <2>2, <3>1, <3>2
    <3>4. decoded' \in Seq(Certificates)
      BY <2>2, <2>4, <3>1
    <3> QED
      BY <2>1, <3>1, <3>3, <3>4, InsideKeeps DEF Inside, before
  <2> QED
    BY <2>5, <2>6
<1>5. CASE LastCert
  <2>1. /\ at = "certs" /\ at' = "lists" /\ Index >= CertCount /\ l' = l + 1 /\ decoded' = decoded
        /\ UNCHANGED <<nvram, argv, todo, outcomes, status>>
    BY <1>5 DEF LastCert
  <2>2. /\ decoded = before \o Entries(name, l, Index) /\ decoded \in Seq(Certificates)
        /\ OfVariables(outcomes, n - 1) \in Seq(Certificates)
        /\ OfLists(name, l - 1) \in Seq(Certificates)
        /\ name \in Names /\ nvram \in Stores /\ l \in Nat /\ l >= 1
    BY <2>1, InsideHas DEF Inside
  <2>3. Index \in Nat /\ Index <= CertCount /\ l <= Len(Var.lists)
    BY <2>1 DEF WalkInv, InList
  <2>4. /\ CertCount \in Nat /\ CertList = nvram[name].lists[l]
        /\ CertList.sig > 100 => CertCount = Len(CertList.certs)
    BY <2>1, <2>3, CountIs DEF Inside, Var
  <2>5. Entries(name, l, Index) = OfList(name, l)
    <3>1. Index = CertCount
      BY <2>1, <2>3, <2>4
    <3>2. CASE CertList.sig > 100
      BY <2>4, <3>1, <3>2 DEF OfList
    <3>3. CASE ~(CertList.sig > 100)
      BY <2>4, <3>3 DEF OfList, Entries
    <3> QED
      BY <3>2, <3>3
  <2>6. OfLists(name, l) = OfLists(name, l - 1) \o OfList(name, l)
    <3>1. l \in Nat /\ l <= Len(nvram[name].lists) /\ l > 0
      BY <2>2, <2>3 DEF Var
    <3> HIDE DEF name, before, n
    <3> QED
      BY <2>2, <3>1, OfListsNext
  <2>7. OfList(name, l) \in Seq(Certificates)
    BY <2>2, <2>3, <2>5, EntriesNext
  <2>8. decoded = OfVariables(outcomes, n - 1) \o OfLists(name, l)
    <3> DEFINE x == OfVariables(outcomes, n - 1)
               y == OfLists(name, l - 1)
               z == OfList(name, l)
    <3>1. x \in Seq(Certificates) /\ y \in Seq(Certificates) /\ z \in Seq(Certificates)
      BY <2>2, <2>7
    <3>2. decoded = (x \o y) \o z /\ OfLists(name, l) = y \o z
      BY <2>2, <2>5, <2>6
    <3> HIDE DEF x, y, z
    <3>3. (x \o y) \o z = x \o (y \o z)
      BY <3>1, ConcatAssociative
    <3> QED
      BY <3>2, <3>3 DEF x
  <2>9. l' - 1 = l
    BY <2>1, <2>2
  <2> DEFINE behind == OfVariables(outcomes, n - 1) \o OfLists(name, l' - 1)
  <2>10. decoded' = behind /\ decoded' \in Seq(Certificates)
    BY <2>1, <2>2, <2>8, <2>9
  <2> HIDE DEF before, behind
  <2> QED
    BY <2>1, <2>10, InsideKeeps DEF Inside, behind
<1>6. CASE Callback
  <2>1. /\ at = "decode" /\ at' = "decode" /\ l' = l /\ Index' = Index /\ decoded' = decoded
        /\ UNCHANGED <<nvram, argv, todo, outcomes, status>>
    BY <1>6 DEF Callback
  <2>2. decoded = before \o Entries(name, l, Index + 1) /\ decoded \in Seq(Certificates)
    BY <2>1, InsideHas DEF Inside
  <2> HIDE DEF before
  <2>3. decoded' = before \o Entries(name, l', Index' + 1) /\ decoded' \in Seq(Certificates)
    BY <2>1, <2>2
  <2> QED
    BY <2>1, <2>3, InsideKeeps DEF Inside, before
<1>7. CASE Decoded
  <2>1. /\ at = "decode" /\ at' = "certs" /\ l' = l /\ Index' = Index + 1 /\ decoded' = decoded
        /\ UNCHANGED <<nvram, argv, todo, outcomes, status>>
    BY <1>7 DEF Decoded
  <2>2. decoded = before \o Entries(name, l, Index + 1) /\ decoded \in Seq(Certificates)
    BY <2>1, InsideHas DEF Inside
  <2> HIDE DEF before
  <2>3. decoded' = before \o Entries(name, l', Index') /\ decoded' \in Seq(Certificates)
    BY <2>1, <2>2
  <2> QED
    BY <2>1, <2>3, InsideKeeps DEF Inside, before
<1>8. CASE ParseArgs
  <2>1. /\ at = "args" /\ at' = "variable" /\ todo' = Asked(argv)
        /\ UNCHANGED <<nvram, argv, outcomes, status, decoded>>
    BY <1>8 DEF ParseArgs
  <2>2. outcomes = <<>> /\ decoded = <<>> /\ status = "success" /\ nvram \in Stores
    BY <2>1 DEF OutputInv, WalkInv
  <2>3. A \in Seq(Names) /\ Len(A) \in Nat
    BY AskedAre
  <2>4. OfVariables(outcomes, 0) = <<>>
    <3>1. 0 \in Nat /\ 0 <= Len(A) /\ outcomes \in Seq(Outcomes) /\ 0 <= Len(outcomes)
      BY <2>2, <2>3
    <3> QED
      BY <2>2, <3>1, OfVariablesNext
  <2>5. A = SubSeq(A, 1, Len(A))
    BY <2>3, SubSeqFull
  <2>6. /\ nvram' = nvram /\ argv' = argv /\ 0 = Len(outcomes')
        /\ outcomes' \in Seq(Outcomes) /\ outcomes' = <<>> /\ decoded' \in Seq(Certificates)
        /\ at' = "variable" /\ status' = "success" /\ decoded' = OfVariables(outcomes', 0)
        /\ 0 + 1 <= Len(A) + 1 /\ todo' = SubSeq(A, 0 + 1, Len(A))
    BY <2>1, <2>2, <2>3, <2>4, <2>5
  <2> HIDE DEF A
  <2> QED
    BY <2>6, OutputNext DEF Inside, InList, A
<1>9. CASE GetArgsFails
  <2>1. /\ at = "args" /\ at' = "returned" /\ status' = "error"
        /\ UNCHANGED <<nvram, argv, outcomes, decoded>>
    BY <1>9 DEF GetArgsFails
  <2>2. outcomes = <<>> /\ decoded = <<>>
    BY <2>1 DEF OutputInv
  <2>3. outcomes' \in Seq(Outcomes) /\ decoded' \in Seq(Certificates) /\ NoArguments'
    BY <2>1, <2>2 DEF NoArguments
  <2> QED
    BY <2>1, <2>3 DEF OutputInv, Inside, InList
<1>10. CASE Return
  <2>1. /\ at = "variable" /\ at' = "returned" /\ todo = <<>>
        /\ UNCHANGED <<nvram, argv, outcomes, decoded, status>>
    BY <1>10 DEF Return, walk
  <2>2. /\ n \in Nat /\ Len(A) \in Nat /\ n + 1 = Len(A) + 1 /\ outcomes \in Seq(Outcomes)
    BY <2>1, Sides
  <2>3. /\ decoded = OfVariables(outcomes, n) /\ decoded \in Seq(Certificates)
        /\ outcomes # <<>> => status = outcomes[n]
    BY <2>1 DEF OutputInv
  <2>4. /\ nvram' = nvram /\ argv' = argv /\ n = Len(outcomes') /\ n = Len(A)
        /\ outcomes' \in Seq(Outcomes) /\ decoded' \in Seq(Certificates)
        /\ at' = "returned" /\ (outcomes' # <<>> => status' = outcomes'[n])
        /\ decoded' = OfVariables(outcomes', n)
    BY <2>1, <2>2, <2>3
  <2> HIDE DEF n, A
  <2> QED
    BY <2>4, OutputNext DEF Inside, InList, A
<1>11. CASE Endless \/ DivisionByZero \/ Astray
  <2>1. /\ at = "lists" /\ at' \in {"endless", "faulted", "astray"}
        /\ outcomes' = outcomes /\ decoded' = decoded
    BY <1>11 DEF Endless, DivisionByZero, Astray, Stop
  <2>2. outcomes' \in Seq(Outcomes) /\ decoded' \in Seq(Certificates)
    BY <2>1 DEF OutputInv
  <2> QED
    BY <2>1, <2>2 DEF OutputInv, Inside, InList
<1> QED
  BY <1>1, <1>2, <1>3, <1>4, <1>5, <1>6, <1>7, <1>8, <1>9, <1>10, <1>11 DEF Next

LEMMA OutputKept == WalkInv /\ OutputInv /\ [Next]_vars => OutputInv'
<1> SUFFICES ASSUME WalkInv, OutputInv, [Next]_vars PROVE OutputInv'
  OBVIOUS
<1>1. CASE Next
  BY <1>1, WalkOutputKept
<1>2. CASE UNCHANGED vars
  <2>1. /\ nvram' = nvram /\ argv' = argv /\ at' = at /\ todo' = todo /\ l' = l /\ Index' = Index
        /\ status' = status /\ outcomes' = outcomes /\ decoded' = decoded
    BY <1>2 DEF vars, walk
  <2> QED
    BY <2>1, OutputNext, ZenonT(30) DEF OutputInv, Left, Inside, InList, NoArguments
<1> QED
  BY <1>1, <1>2

LEMMA OutputHolds == Spec => []OutputInv
BY OutputAtFirst, OutputKept, WalkHolds, PTL DEF Spec

(* Every variable asked for is tried, and of those that could be read each *)
(* certificate of each whole list is decoded once and nothing else, for    *)
(* any number of lists whose sizes are those of what is in them, and       *)
(* entries of any size: a header of a list never adds to the count of its  *)
(* certificates.  Runs that do not return are said nothing of.             *)
THEOREM EachIsDecoded == Spec => []EachCertificate
<1>1. OutputInv => EachCertificate
  <2> SUFFICES ASSUME OutputInv, at = "returned", ~NoArguments
               PROVE  /\ Len(outcomes) = Len(Asked(argv))
                      /\ outcomes # <<>> => status = Last(outcomes)
                      /\ decoded = FlattenSeq([k \in DOMAIN outcomes |->
                           IF outcomes[k] = "success" THEN CertsOf(Asked(argv)[k]) ELSE <<>>])
    BY DEF EachCertificate
  <2>1. /\ outcomes \in Seq(Outcomes) /\ Len(outcomes) = Len(Asked(argv))
        /\ decoded = OfVariables(outcomes, Len(outcomes))
        /\ outcomes # <<>> => status = outcomes[Len(outcomes)]
    BY DEF OutputInv
  <2>2. DOMAIN outcomes = 1 .. Len(outcomes)
    BY <2>1
  <2>3. decoded = FlattenSeq([k \in DOMAIN outcomes |->
                     IF outcomes[k] = "success" THEN CertsOf(Asked(argv)[k]) ELSE <<>>])
    BY <2>1, <2>2 DEF OfVariables, OfVariable
  <2> QED
    BY <2>1, <2>3 DEF Last
<1> QED
  BY <1>1, OutputHolds, PTL

=============================================================================
