--------------------------- MODULE ReadersProofs ---------------------------
(***************************************************************************)
(* What is proved of the lookup of an object identifier holds of it as one *)
(* of the programs of Readers, too; and efimemory, showsb and showlenovo   *)
(* show what there is, for all maps and all values of the variables.       *)
(***************************************************************************)
EXTENDS Readers, WellFoundedInduction, FiniteSetTheorems, SequenceTheorems, TLAPS

(* Lookup_OID.  Its instance defines the order of the tables anew.         *)
LEMMA SameOrder ==
    /\ Oids = oids!Oids /\ Octets = oids!Octets
    /\ \A j : Entry(j) = oids!Entry(j) /\ EntryOctets(j) = oids!EntryOctets(j)
    /\ \A octets : Hash(octets) = oids!Hash(octets)
    /\ \A g, h, a, b : Greater(g, a, h, b) = oids!Greater(g, a, h, b)
<1>1. Oids = oids!Oids /\ Octets = oids!Octets
  BY DEF Oids, oids!Oids, Octets, oids!Octets
<1>2. \A j : Entry(j) = oids!Entry(j) /\ EntryOctets(j) = oids!EntryOctets(j)
  BY DEF Entry, oids!Entry, EntryOctets, oids!EntryOctets
<1>3. \A octets : Hash(octets) = oids!Hash(octets)
  BY Zenon DEF Hash, oids!Hash, Folded, oids!Folded, Bit, oids!Bit
<1>4. \A g, h, a, b : Greater(g, a, h, b) = oids!Greater(g, a, h, b)
  BY Zenon DEF Greater, oids!Greater, LaterOctet, oids!LaterOctet
<1> QED
  BY <1>1, <1>2, <1>3, <1>4

LEMMA TheTables ==
    /\ OID__NR \in Nat
    /\ octets_of \in [oids!Oids -> Seq(oids!Octets)]
    /\ oid_search_table \in [oids!Oids -> [hash : oids!Octets, oid : oids!Oids]]
    /\ \A id \in Identifiers : id.data \in Seq(oids!Octets)
BY TablesAssumption, SameOrder

LEMMA TheOrder ==
    /\ \A o \in oids!Oids : \E j \in oids!Oids : oids!Entry(j).oid = o
    /\ \A j \in oids!Oids : oids!Entry(j).hash = oids!Hash(oids!EntryOctets(j))
    /\ \A j, n \in oids!Oids :
          j < n => oids!Greater(oids!Entry(n).hash, oids!EntryOctets(n), oids!Entry(j).hash, oids!EntryOctets(j))
BY OrderAssumption, SameOrder

(* What is looked for is never outside i .. k - 1.                         *)
StaysInside ==
    at = "search" => \A n \in oids!Oids : oids!EntryOctets(n) = oids!data => i <= n /\ n < k

SearchTypes ==
    /\ identifier \in Identifiers
    /\ at \in {"search", "sprint", "returned"}
    /\ i \in 0 .. OID__NR /\ k \in 0 .. OID__NR

LookupInv == SearchTypes /\ StaysInside /\ oids!FindsRegistered

LEMMA EntryTypes ==
    ASSUME NEW n \in oids!Oids
    PROVE  /\ oids!Entry(n) \in [hash : oids!Octets, oid : oids!Oids]
           /\ oids!EntryOctets(n) \in Seq(oids!Octets)
           /\ oids!Entry(n).hash \in Int
<1>1. oids!Entry(n) \in [hash : oids!Octets, oid : oids!Oids]
  BY TheTables DEF oids!Entry
<1>2. octets_of[oids!Entry(n).oid] \in Seq(oids!Octets)
  BY <1>1, TheTables
<1>3. oids!Entry(n).hash \in Int
  BY <1>1 DEF oids!Octets
<1> QED
  BY <1>1, <1>2, <1>3 DEF oids!EntryOctets

(* Of two identifiers at most one comes behind the other: both cannot have *)
(* the later of the last octets in which they differ.                      *)
LEMMA OrderAsymmetric ==
    ASSUME NEW h \in Int, NEW g \in Int, NEW a \in Seq(oids!Octets), NEW b \in Seq(oids!Octets),
           oids!Greater(h, a, g, b), oids!Greater(g, b, h, a)
    PROVE  FALSE
<1>1. h = g /\ Len(a) = Len(b)
  BY DEF oids!Greater
<1>2. oids!LaterOctet(a, b) /\ oids!LaterOctet(b, a)
  BY <1>1 DEF oids!Greater
<1>3. DOMAIN a = 1 .. Len(a) /\ DOMAIN b = 1 .. Len(a)
  BY <1>1
<1>4. PICK n \in DOMAIN a : a[n] > b[n] /\ \A m \in DOMAIN a : m > n => a[m] = b[m]
  BY <1>2 DEF oids!LaterOctet
<1>5. PICK p \in DOMAIN b : b[p] > a[p] /\ \A m \in DOMAIN b : m > p => b[m] = a[m]
  BY <1>2 DEF oids!LaterOctet
<1>6. /\ n \in Int /\ p \in Int
      /\ a[n] \in Int /\ b[n] \in Int /\ a[p] \in Int /\ b[p] \in Int
  <2>1. n \in 1 .. Len(a) /\ p \in 1 .. Len(b) /\ Len(a) = Len(b) /\ Len(a) \in Nat
    BY <1>1, <1>3, <1>4, <1>5
  <2>2. a[n] \in oids!Octets /\ b[n] \in oids!Octets /\ a[p] \in oids!Octets /\ b[p] \in oids!Octets
    BY <2>1
  <2>3. \A octet \in oids!Octets : octet \in Int
    BY DEF oids!Octets
  <2>4. n \in Int /\ p \in Int
    BY <2>1
  <2> QED
    BY <2>2, <2>3, <2>4
<1>7. CASE n > p
  BY <1>3, <1>4, <1>5, <1>6, <1>7
<1>8. CASE p > n
  BY <1>3, <1>4, <1>5, <1>6, <1>8
<1>9. CASE n = p
  BY <1>4, <1>5, <1>6, <1>9
<1> QED
  BY <1>6, <1>7, <1>8, <1>9

LEMMA LookedForType == ASSUME SearchTypes PROVE oids!data \in Seq(oids!Octets)
BY TheTables DEF SearchTypes, oids!data

(* The middle lies between the ends of what is searched.                   *)
LEMMA MiddleEntry ==
    ASSUME SearchTypes, i < k
    PROVE  oids!middle \in oids!Oids /\ i <= oids!middle /\ oids!middle < k
BY TheTables DEF SearchTypes, oids!middle, oids!Oids

(* An entry that has the octets looked for has their hash; so it is not    *)
(* behind one that is less than they are, nor before one that is greater.  *)
LEMMA HashOfEntry ==
    ASSUME NEW n \in oids!Oids, oids!EntryOctets(n) = oids!data
    PROVE  oids!Entry(n).hash = oids!Hash(oids!data)
BY TheOrder

LEMMA GreaterEntriesBehind ==
    ASSUME NEW n \in oids!Oids, NEW m \in oids!Oids, oids!EntryOctets(n) = oids!data,
           oids!Greater(oids!Entry(m).hash, oids!EntryOctets(m), oids!Hash(oids!data), oids!data)
    PROVE  n < m
<1>1. oids!Entry(n).hash = oids!Hash(oids!data)
  BY HashOfEntry
<1>2. oids!Greater(oids!Entry(m).hash, oids!EntryOctets(m), oids!Entry(n).hash, oids!EntryOctets(n))
  BY <1>1
<1>3. ~oids!Greater(oids!Entry(n).hash, oids!EntryOctets(n), oids!Entry(m).hash, oids!EntryOctets(m))
  BY <1>2, EntryTypes, OrderAsymmetric
<1>4. ~(m < n)
  BY <1>3, TheOrder
<1>5. n # m
  BY <1>2, <1>3
<1> QED
  BY <1>4, <1>5 DEF oids!Oids

LEMMA LesserEntriesBefore ==
    ASSUME NEW n \in oids!Oids, NEW m \in oids!Oids, oids!EntryOctets(n) = oids!data,
           oids!Greater(oids!Hash(oids!data), oids!data, oids!Entry(m).hash, oids!EntryOctets(m))
    PROVE  m < n
<1>1. oids!Entry(n).hash = oids!Hash(oids!data)
  BY HashOfEntry
<1>2. oids!Greater(oids!Entry(n).hash, oids!EntryOctets(n), oids!Entry(m).hash, oids!EntryOctets(m))
  BY <1>1
<1>3. ~oids!Greater(oids!Entry(m).hash, oids!EntryOctets(m), oids!Entry(n).hash, oids!EntryOctets(n))
  BY <1>2, EntryTypes, OrderAsymmetric
<1>4. ~(n < m)
  BY <1>3, TheOrder
<1>5. n # m
  BY <1>2, <1>3
<1> QED
  BY <1>4, <1>5 DEF oids!Oids

LEMMA LookupInit == oids!Init => LookupInv
BY TheTables
   DEF oids!Init, LookupInv, SearchTypes, StaysInside, oids!FindsRegistered, oids!Oids

LEMMA LookupStep == LookupInv /\ [oids!Next]_(oids!vars) => LookupInv'
<1> SUFFICES ASSUME LookupInv, [oids!Next]_(oids!vars) PROVE LookupInv'
  OBVIOUS
<1> USE DEF LookupInv
<1>1. CASE oids!SearchLower
  <2>1. oids!middle \in oids!Oids /\ i <= oids!middle /\ oids!middle < k /\ oids!middle \in 0 .. OID__NR
    BY <1>1, MiddleEntry, TheTables DEF oids!SearchLower, oids!Oids
  <2>2. SearchTypes' /\ oids!FindsRegistered'
    BY <1>1, <2>1 DEF oids!SearchLower, SearchTypes, oids!FindsRegistered, oids!sprint, oids!data,
                      oids!Oids
  <2>3. ASSUME NEW n \in oids!Oids, oids!EntryOctets(n) = oids!data
        PROVE  i <= n /\ n < oids!middle
    BY <1>1, <2>1, <2>3, GreaterEntriesBehind DEF oids!SearchLower, oids!Above, StaysInside
  <2>4. StaysInside'
    BY <1>1, <2>3 DEF oids!SearchLower, StaysInside, oids!data, oids!Oids, oids!EntryOctets,
                      oids!Entry
  <2> QED
    BY <2>2, <2>4
<1>2. CASE oids!SearchHigher
  <2>1. oids!middle \in oids!Oids /\ i <= oids!middle /\ oids!middle < k /\ oids!middle + 1 \in 0 .. OID__NR
    BY <1>2, MiddleEntry, TheTables, SMTT(30) DEF oids!SearchHigher, oids!Oids, SearchTypes
  <2>2. SearchTypes' /\ oids!FindsRegistered'
    BY <1>2, <2>1 DEF oids!SearchHigher, oids!Behind, SearchTypes, oids!FindsRegistered,
                      oids!sprint, oids!data, oids!Oids
  <2>3. ASSUME NEW n \in oids!Oids, oids!EntryOctets(n) = oids!data
        PROVE  oids!middle + 1 <= n /\ n < k
    <3>1. oids!middle < n
      BY <1>2, <2>1, <2>3, LesserEntriesBefore DEF oids!SearchHigher, oids!Below
    <3>2. n < k
      BY <1>2, <2>3 DEF oids!SearchHigher, StaysInside
    <3> QED
      BY <2>1, <3>1, <3>2 DEF oids!Oids
  <2>4. StaysInside'
    BY <1>2, <2>3 DEF oids!SearchHigher, oids!Behind, StaysInside, oids!data, oids!Oids,
                      oids!EntryOctets, oids!Entry
  <2> QED
    BY <2>2, <2>4
<1>3. CASE oids!Found
  <2>1. oids!middle \in oids!Oids
    BY <1>3, MiddleEntry DEF oids!Found
  <2>2. oids!Entry(oids!middle).oid \in oids!Oids /\ octets_of[oids!Entry(oids!middle).oid] = oids!data
    BY <1>3, <2>1, EntryTypes DEF oids!Found, oids!Same, oids!EntryOctets
  <2> QED
    BY <1>3, <2>2 DEF oids!Found, SearchTypes, StaysInside, oids!FindsRegistered, oids!sprint,
                      oids!data, oids!Oids, oids!Octets, oids!EntryOctets, oids!Entry
<1>4. CASE oids!NotFound
  <2>1. ASSUME NEW o \in oids!Oids, octets_of[o] = oids!data PROVE FALSE
    <3>1. PICK n \in oids!Oids : oids!Entry(n).oid = o
      BY TheOrder
    <3>2. i <= n /\ n < k
      BY <1>4, <2>1, <3>1 DEF oids!NotFound, StaysInside, oids!EntryOctets
    <3> QED
      BY <1>4, <3>2 DEF oids!NotFound, SearchTypes, oids!Oids
  <2> QED
    BY <1>4, <2>1 DEF oids!NotFound, SearchTypes, StaysInside, oids!FindsRegistered, oids!sprint,
                      oids!data, oids!Oids, oids!Octets, oids!EntryOctets, oids!Entry
<1>5. CASE oids!BadMessage \/ oids!Finish
  BY <1>5 DEF oids!BadMessage, oids!Finish, oids!Return, oids!search, SearchTypes, StaysInside,
              oids!FindsRegistered, oids!data, oids!Oids, oids!Octets, oids!EntryOctets, oids!Entry
<1>6. CASE oids!PrintFirst \/ oids!PrintArc
  BY <1>6 DEF oids!PrintFirst, oids!PrintArc, oids!search, SearchTypes, StaysInside,
              oids!FindsRegistered, oids!data, oids!Oids, oids!Octets, oids!EntryOctets, oids!Entry
<1>7. CASE UNCHANGED oids!vars
  BY <1>7 DEF oids!vars, oids!search, oids!sprint, SearchTypes, StaysInside, oids!FindsRegistered,
              oids!data, oids!Oids, oids!Octets, oids!EntryOctets, oids!Entry
<1> QED
  BY <1>1, <1>2, <1>3, <1>4, <1>5, <1>6, <1>7 DEF oids!Next

(* Lookup_OID never fails to find a registered identifier, whatever others *)
(* share its hash or its size, and takes no octets for one that they are   *)
(* not.                                                                    *)
THEOREM LookupFindsRegistered == oids!Spec => []oids!FindsRegistered
<1>1. LookupInv => oids!FindsRegistered
  BY DEF LookupInv
<1> QED
  BY <1>1, LookupInit, LookupStep, PTL DEF oids!Spec

(* Lookup_OID is one of the programs.                                      *)
FoundInv == program = "oids" => LookupInv

LEMMA FoundInit == Init => FoundInv
BY LookupInit DEF Init, FoundInv

LEMMA FoundStep == FoundInv /\ [Next]_vars => FoundInv'
<1> SUFFICES ASSUME FoundInv, [Next]_vars, program' = "oids" PROVE LookupInv'
  BY DEF FoundInv
<1>1. program = "oids" /\ LookupInv
  BY DEF FoundInv, Next, vars
<1>2. oids!Next \/ UNCHANGED vars
  BY <1>1 DEF Next
<1>3. [oids!Next]_(oids!vars)
  BY <1>2 DEF vars, ofOid, oids!vars, oids!search, oids!sprint
<1> QED
  BY <1>1, <1>3, LookupStep

(* Of every run of every one of the programs: when listcerts has looked an *)
(* object identifier up, it has what is registered under the identifier's  *)
(* octets, whatever others share its hash or its size, or nothing if       *)
(* nothing is.                                                             *)
THEOREM RegisteredAreFound == Spec => []FindsRegistered
<1>1. FoundInv => FindsRegistered
  BY DEF FoundInv, FindsRegistered, LookupInv
<1> QED
  BY <1>1, FoundInit, FoundStep, PTL DEF Spec

----------------------------------------------------------------------------
(* showsb and showlenovo: the room that a call takes over from the one     *)
(* before is an octet at least.                                            *)
Fit == \A n \in DOMAIN reads : showvariables!Fits(reads[n])

VariablesInv ==
    program = "showvariables" =>
       /\ reads \in {showvariables!showsb, showvariables!showlenovo}
       /\ store \in Stores /\ Verbose \in BOOLEAN
       /\ at \in {"args", "read", "returned", "overrun"}
       /\ Len(printed) \in 0 .. Len(reads) /\ DOMAIN printed = 1 .. Len(printed)
       /\ DataSize \in Nat /\ (Fit /\ printed # <<>> => DataSize > 0)
       /\ at # "returned" => status = "none"
       /\ at = "args" => printed = <<>>
       /\ showvariables!ShowsOwn

(* Of the calls: the first brings a DataSize of its own, as do those that  *)
(* read a text, and the others read a switch or a number.                  *)
LEMMA Calls ==
    ASSUME VariablesInv, program = "showvariables", NEW n \in 1 .. Len(reads)
    PROVE  /\ DOMAIN reads = 1 .. Len(reads) /\ Len(reads) \in Nat \ {0}
           /\ reads[n].name \in showvariables!Names
           /\ reads[n].as \in {"text", "switch", "number"}
           /\ n = 1 => reads[n].size # 0
           /\ reads[n].size \in Nat
           /\ reads[n].as = "text" => reads[n].size = BUFSIZE
           /\ reads[n].as # "text" => reads[n].size \in {0, 1}
<1> DEFINE lenovo == showvariables!showlenovo
           sb == showvariables!showsb
<1>1. BUFSIZE \in Nat \ {0}
  BY ProgramsAssumption
<1>2. Len(lenovo) = 5 /\ DOMAIN lenovo = 1 .. 5 /\ Len(sb) = 2 /\ DOMAIN sb = 1 .. 2
  BY DEF showvariables!showlenovo, showvariables!showsb
<1>3. \A m \in 1 .. 5 : lenovo[m].name \in showvariables!Names
  BY <1>2 DEF showvariables!Names
<1>4. CASE reads = lenovo
  <2>1. n \in {1, 2, 3, 4, 5}
    <3>1. n \in 1 .. 5
      BY <1>2, <1>4, Zenon
    <3> QED
      BY <3>1
  <2> QED
    BY <1>1, <1>2, <1>3, <1>4, <2>1 DEF showvariables!showlenovo, showvariables!Kept
<1>5. CASE reads = sb
  <2>1. n \in {1, 2}
    <3>1. n \in 1 .. 2
      BY <1>2, <1>5, Zenon
    <3> QED
      BY <3>1
  <2>2. sb[1].name = lenovo[4].name /\ sb[2].name = lenovo[5].name
    BY DEF showvariables!showsb, showvariables!showlenovo
  <2> QED
    BY <1>1, <1>2, <1>3, <1>5, <2>1, <2>2 DEF showvariables!showsb, showvariables!Kept
<1> QED
  BY <1>4, <1>5 DEF VariablesInv

LEMMA VariablesInvHoldsAtFirst == Init => VariablesInv
<1> SUFFICES ASSUME Init, program = "showvariables" PROVE VariablesInv
  BY DEF VariablesInv
<1>1. showvariables!Init
  BY DEF Init
<1>2. Len(reads) \in Nat
  BY <1>1 DEF showvariables!Init, showvariables!showsb, showvariables!showlenovo
<1>3. printed = <<>> /\ status = "none" /\ at = "args"
  BY <1>1 DEF showvariables!Init
<1>4. showvariables!ShowsOwn
  BY <1>3 DEF showvariables!ShowsOwn
<1>5. Len(printed) \in 0 .. Len(reads) /\ DOMAIN printed = 1 .. Len(printed)
  BY <1>2, <1>3
<1> QED
  BY <1>1, <1>3, <1>4, <1>5 DEF VariablesInv, showvariables!Init

LEMMA ReadKeeps ==
    ASSUME VariablesInv, program = "showvariables", program' = "showvariables", showvariables!Read
    PROVE  VariablesInv'
<1> USE DEF VariablesInv
<1> DEFINE n == Len(printed) + 1
           value == store[reads[n].name]
<1>1. /\ at = "read" /\ status = "none" /\ Len(printed) < Len(reads)
      /\ UNCHANGED <<reads, store, argv, Verbose>>
  BY DEF showvariables!Read
<1>2. n \in 1 .. Len(reads) /\ n \in DOMAIN reads /\ Len(reads) \in Nat
  <2>1. n \in 1 .. Len(reads)
    BY <1>1
  <2> QED
    BY <2>1, Calls
<1>3. value \in Seq(Octets)
  <2>1. reads[n].name \in showvariables!Names
    BY <1>2, Calls
  <2> QED
    BY <2>1, StoresAssumption
<1>4. PICK s :
        /\ s = "error" \/ s = showvariables!GetVariable(value, showvariables!Size)
        /\ \/ s # "success" /\ showvariables!Return(s) /\ UNCHANGED <<DataSize, printed>>
           \/ /\ s = "success" /\ ~showvariables!Overruns
              /\ \E line \in showvariables!Printed : printed' = Append(printed, line)
              /\ DataSize' = Len(value) /\ UNCHANGED <<at, status>>
  BY DEF showvariables!Read, showvariables!Value, showvariables!Reading
<1>5. ASSUME Fit PROVE showvariables!GetVariable(value, showvariables!Size) = "success"
  <2>1. value # <<>> /\ Len(value) <= (IF reads[n].as = "text" THEN BUFSIZE ELSE 1)
    BY <1>2, <1>5 DEF Fit, showvariables!Fits, showvariables!Absent
  <2>2. showvariables!Size \in Nat
        /\ showvariables!Size >= (IF reads[n].as = "text" THEN BUFSIZE ELSE 1)
    <3>1. BUFSIZE \in Nat \ {0}
      BY ProgramsAssumption
    <3>2. printed = <<>> => n = 1
      OBVIOUS
    <3> QED
      BY <1>2, <1>5, <3>1, <3>2, Calls
      DEF showvariables!Size, showvariables!Reading, showvariables!Kept
  <2>3. Len(value) \in Nat
    BY <1>3
  <2> QED
    BY <2>1, <2>2, <2>3, ProgramsAssumption DEF showvariables!GetVariable, showvariables!Absent
<1>6. CASE s # "success"
  <2>1. showvariables!Return(s) /\ UNCHANGED <<DataSize, printed>>
    BY <1>4, <1>6
  <2>2. Fit => s = "error"
    BY <1>4, <1>5, <1>6
  <2>3. showvariables!ShowsOwn'
    BY <1>1, <1>6, <2>1, <2>2
    DEF showvariables!ShowsOwn, showvariables!Return, showvariables!Shows, showvariables!Fits, Fit
  <2> QED
    BY <1>1, <1>6, <2>1, <2>3 DEF showvariables!Return, Fit, showvariables!Fits
<1>7. CASE s = "success"
  <2>1. PICK line \in showvariables!Printed : printed' = Append(printed, line)
    BY <1>4, <1>7
  <2>2. ~showvariables!Overruns /\ DataSize' = Len(value) /\ UNCHANGED <<at, status>>
    BY <1>4, <1>7
  <2>3. value # <<>> /\ Len(value) \in Nat \ {0}
        /\ (reads[n].as # "text" => Len(value) = 1)
    <3>1. showvariables!GetVariable(value, showvariables!Size) = "success"
      BY <1>4, <1>7
    <3>2. value # <<>>
      BY <3>1 DEF showvariables!GetVariable, showvariables!Absent
    <3>3. Len(value) \in Nat \ {0}
      BY <1>3, <3>2
    <3>4. reads[n].as # "text" => ~(Len(value) > 1)
      BY <2>2, <3>1 DEF showvariables!Overruns, showvariables!Value, showvariables!Reading
    <3>5. \A m \in Nat \ {0} : ~(m > 1) => m = 1
      OBVIOUS
    <3>6. reads[n].as # "text" => Len(value) = 1
      BY <3>3, <3>4, <3>5, Zenon
    <3> QED
      BY <3>2, <3>3, <3>6
  <2>4. /\ Len(printed') = n /\ printed'[n] = line
        /\ DOMAIN printed' = 1 .. n
        /\ \A m \in 1 .. Len(printed) : printed'[m] = printed[m]
    BY <1>1, <2>1
  <2>5. showvariables!Shows(line, reads[n])
    <3>1. reads[n].as # "text" => value = <<value[1]>>
      BY <1>3, <2>3
    <3>2. CASE reads[n].as = "text"
      BY <2>1, <3>2
      DEF showvariables!Printed, showvariables!Shows, showvariables!Reading, showvariables!Value
    <3>3. CASE reads[n].as = "switch" /\ Verbose
      <4>1. line = IF value[1] # 0 THEN "Enabled" ELSE "Disabled"
        BY <2>1, <3>3 DEF showvariables!Printed, showvariables!Reading, showvariables!Value
      <4>2. value[1] = 0 <=> value = <<0>>
        BY <3>1, <3>3
      <4> QED
        BY <3>3, <4>1, <4>2 DEF showvariables!Shows
    <3>4. CASE reads[n].as # "text" /\ ~(reads[n].as = "switch" /\ Verbose)
      <4>1. line = value[1]
        BY <2>1, <3>4 DEF showvariables!Printed, showvariables!Reading, showvariables!Value
      <4> QED
        BY <3>1, <3>4, <4>1 DEF showvariables!Shows
    <3> QED
      BY <3>2, <3>3, <3>4
  <2>6. \A m \in DOMAIN printed' : showvariables!Shows(printed'[m], reads[m])
    <3>1. \A m \in 1 .. Len(printed) : showvariables!Shows(printed[m], reads[m])
      BY DEF showvariables!ShowsOwn
    <3>2. \A m \in 1 .. n : m = n \/ m \in 1 .. Len(printed)
      BY <1>1
    <3> QED
      BY <2>4, <2>5, <3>1, <3>2
  <2>7. showvariables!ShowsOwn'
    BY <1>1, <2>2, <2>6
    DEF showvariables!ShowsOwn, showvariables!Shows, showvariables!Fits
  <2> QED
    BY <1>1, <1>2, <2>2, <2>3, <2>4, <2>7 DEF Fit, showvariables!Fits
<1> QED
  BY <1>6, <1>7

LEMMA VariablesInvKept == VariablesInv /\ [Next]_vars => VariablesInv'
<1> SUFFICES ASSUME VariablesInv, [Next]_vars,
                    program = "showvariables", program' = "showvariables"
             PROVE  VariablesInv'
  BY DEF VariablesInv, Next, vars
<1> USE DEF VariablesInv, Fit, showvariables!Fits, showvariables!ShowsOwn, showvariables!Shows
<1>1. showvariables!Next \/ UNCHANGED vars
  BY DEF Next
<1>2. CASE showvariables!GetArgsFails
  BY <1>2 DEF showvariables!GetArgsFails, showvariables!Return
<1>6. CASE showvariables!ParseArgs
  <2>1. /\ UNCHANGED <<reads, store, argv, DataSize, printed>> /\ Verbose' \in BOOLEAN
        /\ \/ at' = "read" /\ status' = "none"
           \/ at' = "returned" /\ status' = "success" /\ argv = <<"help">>
           \/ at' = "returned" /\ status' = "invalid_parameter"
    BY <1>6 DEF showvariables!ParseArgs, showvariables!Return
  <2>2. printed = <<>>
    BY <1>6 DEF showvariables!ParseArgs
  <2> QED
    BY <2>1, <2>2
<1>3. CASE showvariables!Overrun
  <2>1. PICK n \in 1 .. Len(reads) : ~showvariables!Fits(reads[n])
    <3>1. Len(printed) + 1 \in 1 .. Len(reads)
      BY <1>3, Calls DEF showvariables!Overrun
    <3> QED
      BY <1>3, <3>1, Calls
      DEF showvariables!Overrun, showvariables!Overruns, showvariables!Value, showvariables!Reading
  <2>2. n \in DOMAIN reads
    BY <2>1, Calls
  <2> QED
    BY <1>3, <2>1, <2>2 DEF showvariables!Overrun
<1>4. CASE showvariables!Finish
  BY <1>4 DEF showvariables!Finish, showvariables!Return
<1>5. CASE UNCHANGED vars
  BY <1>5 DEF vars, ofVariables
<1> QED
  BY <1>1, <1>2, <1>3, <1>4, <1>5, <1>6, ReadKeeps DEF showvariables!Next

(* Each line of showsb and showlenovo is of the variable it names, and     *)
(* where the variables have the sizes that the UEFI specification gives    *)
(* them the DataSize handed on is always enough.                           *)
THEOREM VariablesAreShown == Spec => []ShowsOwn
<1>1. VariablesInv => ShowsOwn
  BY DEF VariablesInv, ShowsOwn
<1> QED
  BY <1>1, VariablesInvHoldsAtFirst, VariablesInvKept, PTL DEF Spec

----------------------------------------------------------------------------
(* efimemory: the room a retry asks for is enough for the regions there    *)
(* are and one more, as long as descriptors are no larger than compiled in,*)
(* and in any case for more than the m regions there were when firmware    *)
(* was asked; and the offset of the next descriptor is that of the next    *)
(* region.                                                                 *)
Usual == desc_size <= SIZEOF_DESC
RoomFor(m) == tries <= m /\ map_size = desc_size * m + SIZEOF_DESC

MemoryInv ==
    program = "efimemory" =>
       /\ regions \in Seq(Types) /\ regions # <<>>
       /\ Len(regions) <= MaxRegions
       /\ desc_size \in Nat \ {0} /\ map_size \in Nat /\ tries \in 0 .. MaxRegions + 1
       /\ at \in {"allocate", "get", "print", "returned"}
       /\ held = IF at \in {"get", "print"} \/ status = "error" THEN 1 ELSE 0
       /\ at # "returned" => status = "none"
       /\ Usual => tries <= 2
       /\ at \in {"allocate", "get"} /\ tries > 0 => \E m \in 1 .. MaxRegions : RoomFor(m)
       /\ at = "allocate" /\ Usual =>
             tries = 0 \/ (tries = 1 /\ map_size >= desc_size * Len(regions) + desc_size)
       /\ at = "get" /\ Usual =>
             tries = 0 \/ (tries = 1 /\ map_size >= desc_size * Len(regions))
       /\ at \in {"allocate", "get"} => desc = 0 /\ printed = <<>>
       /\ at = "print" =>
             /\ buf \in Seq(Types) /\ map_size = desc_size * Len(buf)
             /\ Len(printed) \in Nat /\ desc = desc_size * Len(printed)
             /\ Len(printed) <= Len(buf) /\ DOMAIN printed = 1 .. Len(printed)
             /\ \A n \in DOMAIN printed : printed[n].type = buf[n]
       /\ efimemory!WholeMapPrinted

LEMMA Product ==
    ASSUME NEW d \in Nat \ {0}, NEW m \in Nat, NEW n \in Nat
    PROVE  /\ d * n \in Nat /\ d * (n + 1) = d * n + d
           /\ d * m < d * n <=> m < n
           /\ (d * n) \div d = n
OBVIOUS

LEMMA MemoryInvHoldsAtFirst == Init => MemoryInv
<1> SUFFICES ASSUME Init, program = "efimemory" PROVE MemoryInv
  BY DEF MemoryInv
<1>1. efimemory!Init
  BY DEF Init
<1>2. desc_size \in Nat \ {0} /\ SIZEOF_DESC * (FIRST_COUNT + 1) \in Nat
  BY <1>1, ProgramsAssumption DEF efimemory!Init
<1>3. PICK n \in 1 .. MaxRegions : regions \in [1 .. n -> Types]
  BY <1>1 DEF efimemory!Init
<1>4. regions \in Seq(Types) /\ regions # <<>>
  <2>1. n \in Nat /\ 1 \in 1 .. n
    BY ProgramsAssumption
  <2> QED
    BY <1>3, <2>1
<1>5. /\ at = "allocate" /\ map_size = SIZEOF_DESC * (FIRST_COUNT + 1) /\ status = "none"
      /\ held = 0 /\ tries = 0 /\ desc = 0 /\ printed = <<>>
  BY <1>1 DEF efimemory!Init
<1>6. Len(regions) <= MaxRegions /\ tries \in 0 .. MaxRegions + 1
  <2>1. n \in Nat /\ MaxRegions \in Nat
    BY ProgramsAssumption
  <2> QED
    BY <1>3, <1>5, <2>1
<1> QED
  BY <1>2, <1>4, <1>5, <1>6 DEF MemoryInv, efimemory!WholeMapPrinted

LEMMA AllocateKeeps ==
    ASSUME MemoryInv, program = "efimemory", program' = "efimemory", efimemory!Allocate
    PROVE  MemoryInv'
<1> USE DEF MemoryInv, Usual
<1>1. CASE at' = "returned"
  BY <1>1 DEF efimemory!Allocate, efimemory!Return, efimemory!WholeMapPrinted
<1>2. CASE at' = "get"
  <2>1. /\ at = "allocate" /\ held' = 1 /\ status' = "none" /\ status = "none"
        /\ UNCHANGED <<desc_size, map_size, tries, buf, desc, printed>>
    BY <1>2 DEF efimemory!Allocate, efimemory!Return
  <2>2. /\ regions' \in Seq(Types) /\ regions' # <<>>
        /\ Len(regions') = Len(regions) \/ Len(regions') = Len(regions) + 1
    <3>1. regions' = regions \/ regions' = <<regions[1]>> \o regions
      BY <1>2 DEF efimemory!Allocate, efimemory!Return
    <3>2. regions \in Seq(Types) /\ Len(regions) \in Nat \ {0}
      OBVIOUS
    <3>3. <<regions[1]>> \in Seq(Types) /\ Len(<<regions[1]>>) = 1
      BY <3>2
    <3>4. /\ <<regions[1]>> \o regions \in Seq(Types)
          /\ Len(<<regions[1]>> \o regions) = Len(regions) + 1
      BY <3>2, <3>3
    <3>5. <<regions[1]>> \o regions # <<>>
      BY <3>2, <3>4
    <3> QED
      BY <3>1, <3>4, <3>5
  <2>3. desc_size * Len(regions') <= desc_size * Len(regions) + desc_size
    BY <2>2, Product
  <2>4. Usual => tries = 0 \/ (tries = 1 /\ map_size >= desc_size * Len(regions'))
    <3>1. desc_size * Len(regions') \in Nat /\ desc_size * Len(regions) \in Nat
      BY <2>2, Product
    <3> QED
      BY <2>3, <3>1 DEF efimemory!Allocate
  <2>5. Len(regions') <= MaxRegions
    <3>1. regions' = regions \/ Len(regions) < MaxRegions
      BY <1>2 DEF efimemory!Allocate, efimemory!Return
    <3>2. Len(regions) \in Nat /\ MaxRegions \in Nat
      BY ProgramsAssumption
    <3> QED
      BY <2>2, <3>1, <3>2
  <2>6. tries' > 0 => \E m \in 1 .. MaxRegions : RoomFor(m)'
    BY <2>1 DEF RoomFor
  <2>7. Usual' <=> Usual
    BY <2>1
  <2> QED
    BY <1>2, <2>1, <2>2, <2>4, <2>5, <2>6, <2>7 DEF efimemory!WholeMapPrinted
<1> QED
  BY <1>1, <1>2 DEF efimemory!Allocate, efimemory!Return

LEMMA GetMemoryMapKeeps ==
    ASSUME MemoryInv, program = "efimemory", program' = "efimemory", efimemory!GetMemoryMap
    PROVE  MemoryInv'
<1> USE DEF MemoryInv, Usual
<1>1. /\ at = "get" /\ status = "none" /\ held = 1 /\ desc = 0 /\ printed = <<>>
      /\ UNCHANGED <<desc_size, desc, printed>>
      /\ tries' = tries + 1
  BY DEF efimemory!GetMemoryMap
<1>2. tries' \in 0 .. MaxRegions + 1 /\ (Usual => tries' <= 2)
  <2>1. tries > 0 => tries <= MaxRegions
    BY <1>1, ProgramsAssumption DEF RoomFor
  <2> QED
    BY <1>1, <2>1, ProgramsAssumption
<1>3. desc_size * Len(regions) \in Nat
  BY Product
<1>4. CASE map_size >= efimemory!Needed /\ at' = "print" /\ buf' = regions
           /\ map_size' = efimemory!Needed /\ UNCHANGED <<regions, held, status>>
  <2>1. /\ Len(printed') = 0 /\ DOMAIN printed' = {} /\ desc' = desc_size * 0
        /\ map_size' = desc_size * Len(buf') /\ Len(buf') \in Nat
    BY <1>1, <1>4 DEF efimemory!Needed
  <2> QED
    BY <1>1, <1>2, <1>3, <1>4, <2>1 DEF efimemory!WholeMapPrinted
<1>5. CASE /\ map_size < efimemory!Needed
           /\ at' = "allocate" /\ held' = efimemory!Free
           /\ map_size' = efimemory!Enlarged(efimemory!Needed)
           /\ regions' = regions \/ (Len(regions) > 1 /\ regions' = Tail(regions))
           /\ UNCHANGED <<buf, status>>
  <2>1. SIZEOF_DESC \in Nat
    BY ProgramsAssumption
  <2>2. held' = 0 /\ map_size' = desc_size * Len(regions) + SIZEOF_DESC /\ map_size' \in Nat
    BY <1>1, <1>3, <1>5, <2>1 DEF efimemory!Free, efimemory!Enlarged, efimemory!Needed
  <2>3. /\ regions' \in Seq(Types) /\ regions' # <<>>
        /\ Len(regions') \in Nat /\ Len(regions') <= Len(regions)
    BY <1>5
  <2>4. /\ desc_size * Len(regions') \in Nat
        /\ desc_size * Len(regions') <= desc_size * Len(regions)
    <3>1. ~(Len(regions) < Len(regions')) /\ Len(regions) \in Nat
      BY <2>3
    <3>2. ~(desc_size * Len(regions) < desc_size * Len(regions'))
      BY <2>3, <3>1, Product
    <3>3. desc_size * Len(regions') \in Nat
      BY <2>3, Product
    <3> QED
      BY <1>3, <3>2, <3>3
  <2>5. Usual => tries = 0
    BY <1>1, <1>3, <1>5 DEF efimemory!Needed
  <2>6. Usual => tries' = 1 /\ map_size' >= desc_size * Len(regions') + desc_size
    BY <1>1, <1>3, <2>1, <2>2, <2>4, <2>5, SMTT(30)
  <2>7. /\ tries' <= Len(regions) /\ map_size' = desc_size' * Len(regions) + SIZEOF_DESC
        /\ Len(regions) \in 1 .. MaxRegions /\ Len(regions') <= MaxRegions
    <3>1. Len(regions) \in 1 .. MaxRegions /\ MaxRegions \in Nat
      BY ProgramsAssumption
    <3>2. CASE tries = 0
      BY <1>1, <2>2, <2>3, <3>1, <3>2
    <3>3. CASE tries > 0
      <4>1. PICK m \in 1 .. MaxRegions : RoomFor(m)
        BY <1>1, <3>3
      <4>2. desc_size * m < desc_size * Len(regions)
        <5>1. desc_size * m \in Nat
          BY <4>1, Product
        <5> QED
          BY <1>3, <1>5, <2>1, <4>1, <5>1 DEF RoomFor, efimemory!Needed
      <4>3. m < Len(regions)
        BY <3>1, <4>2, Product
      <4> QED
        BY <1>1, <2>2, <2>3, <3>1, <4>1, <4>3 DEF RoomFor
    <3> QED
      BY <3>2, <3>3
  <2>8. \E m \in 1 .. MaxRegions : RoomFor(m)'
    BY <2>7 DEF RoomFor
  <2> QED
    BY <1>1, <1>2, <1>5, <2>2, <2>3, <2>6, <2>7, <2>8 DEF efimemory!WholeMapPrinted
<1>6. CASE efimemory!Return("error") /\ UNCHANGED <<regions, buf, held, map_size>>
  BY <1>1, <1>2, <1>6 DEF efimemory!Return, efimemory!WholeMapPrinted
<1> QED
  BY <1>4, <1>5, <1>6 DEF efimemory!GetMemoryMap

LEMMA PrintDescriptorKeeps ==
    ASSUME MemoryInv, program = "efimemory", program' = "efimemory", efimemory!PrintDescriptor
    PROVE  MemoryInv'
<1> USE DEF MemoryInv, Usual
<1>1. /\ at = "print" /\ desc < map_size /\ status = "none"
      /\ UNCHANGED <<regions, desc_size, at, map_size, held, tries, buf, status>>
      /\ desc' = desc + desc_size
  BY DEF efimemory!PrintDescriptor, efimemory!NextDescriptor
<1>2. /\ Len(printed) < Len(buf) /\ desc \div desc_size = Len(printed)
      /\ desc' = desc_size * (Len(printed) + 1)
  <2>1. /\ Len(buf) \in Nat /\ Len(printed) \in Nat /\ desc_size \in Nat \ {0}
        /\ map_size = desc_size * Len(buf) /\ desc = desc_size * Len(printed)
    BY <1>1
  <2>2. Len(printed) < Len(buf)
    BY <1>1, <2>1, Product
  <2>3. desc \div desc_size = Len(printed)
    BY <2>1, Product
  <2>4. desc' = desc_size * (Len(printed) + 1)
    BY <1>1, <2>1, Product
  <2> QED
    BY <2>2, <2>3, <2>4
<1> DEFINE type == buf[Len(printed) + 1]
           line == [type |-> type, name |-> efimemory!memory_type_to_str(type)]
<1>3. printed' = Append(printed, line) /\ line.type = buf[Len(printed) + 1]
  BY <1>2 DEF efimemory!PrintDescriptor
<1>4. /\ Len(printed') = Len(printed) + 1 /\ DOMAIN printed' = 1 .. Len(printed) + 1
      /\ printed'[Len(printed) + 1] = line
      /\ \A n \in 1 .. Len(printed) : printed'[n] = printed[n]
  BY <1>1, <1>3
<1>5. \A n \in DOMAIN printed' : printed'[n].type = buf[n]
  <2>1. \A n \in 1 .. Len(printed) : printed[n].type = buf[n]
    BY <1>1
  <2>2. Len(printed) \in Nat
    BY <1>1
  <2>3. \A n \in 1 .. Len(printed) + 1 : n = Len(printed) + 1 \/ n \in 1 .. Len(printed)
    BY ONLY <2>2
  <2> QED
    BY <1>3, <1>4, <2>1, <2>3
<1>6. Len(printed') \in Nat /\ Len(printed') <= Len(buf) /\ desc' = desc_size * Len(printed')
  BY <1>1, <1>2, <1>4
<1> QED
  BY <1>1, <1>4, <1>5, <1>6 DEF efimemory!WholeMapPrinted

LEMMA MemoryInvKept == MemoryInv /\ [Next]_vars => MemoryInv'
<1> SUFFICES ASSUME MemoryInv, [Next]_vars, program = "efimemory", program' = "efimemory"
             PROVE  MemoryInv'
  BY DEF MemoryInv, Next, vars
<1> USE DEF MemoryInv, Usual, efimemory!WholeMapPrinted
<1>1. efimemory!Next \/ UNCHANGED vars
  BY DEF Next
<1>2. CASE efimemory!Finish
  <2>1. /\ at = "print" /\ desc >= map_size /\ held' = 0
        /\ at' = "returned" /\ status' = "success"
        /\ UNCHANGED <<regions, desc_size, map_size, tries, buf, desc, printed>>
    BY <1>2 DEF efimemory!Finish, efimemory!Free, efimemory!Return
  <2>2. Len(printed) = Len(buf) /\ DOMAIN buf = 1 .. Len(buf)
    <3>1. Len(printed) \in Nat /\ Len(buf) \in Nat /\ Len(printed) <= Len(buf)
      BY <2>1
    <3>2. ~(desc_size * Len(printed) < desc_size * Len(buf))
      <4>1. desc_size * Len(printed) \in Nat /\ desc_size * Len(buf) \in Nat
        BY <3>1, Product
      <4> QED
        BY <2>1, <4>1
    <3>3. ~(Len(printed) < Len(buf))
      BY <3>1, <3>2, Product
    <3> QED
      BY <2>1, <3>1, <3>3
  <2> QED
    BY <2>1, <2>2
<1>3. CASE UNCHANGED vars
  BY <1>3 DEF vars, ofMemory, RoomFor
<1> QED
  BY <1>1, <1>2, <1>3, AllocateKeeps, GetMemoryMapKeeps, PrintDescriptorKeeps
  DEF efimemory!Next

(* However often firmware's map grows because of the buffer for it, the    *)
(* second is large enough, if descriptors are no larger than compiled in;  *)
(* if they are, there are no more tries than memory can have regions, and  *)
(* one.  No buffer is lost over that but the one for which GetMemoryMap    *)
(* fails (efimemory.c:61-63).                                              *)
THEOREM OneRetryIsEnough == Spec => []OneRetry
<1>1. MemoryInv => OneRetry
  BY DEF MemoryInv, Usual, OneRetry, efimemory!OneRetry
<1> QED
  BY <1>1, MemoryInvHoldsAtFirst, MemoryInvKept, PTL DEF Spec

(* Whatever the size of descriptors, each of the map is printed once and   *)
(* in order.                                                               *)
THEOREM MemoryMapIsPrinted == Spec => []WholeMapPrinted
<1>1. MemoryInv => WholeMapPrinted
  BY DEF MemoryInv, WholeMapPrinted
<1> QED
  BY <1>1, MemoryInvHoldsAtFirst, MemoryInvKept, PTL DEF Spec

----------------------------------------------------------------------------
(* A set of numbers has a least one.                                       *)
LEMMA LeastElement ==
    ASSUME NEW S \in SUBSET Nat, S # {}
    PROVE  \E n \in S : \A m \in S : n <= m
<1>1. PICK less : IsWellFoundedOn(less, Nat) /\ \A m, n \in Nat : <<m, n>> \in less <=> m < n
  <2> DEFINE less == OpToRel(<, Nat)
  <2>1. IsWellFoundedOn(less, Nat)
    BY NatLessThanWellFounded
  <2>2. \A m, n \in Nat : <<m, n>> \in less <=> m < n
    BY DEF OpToRel
  <2> HIDE DEF less
  <2> QED
    BY <2>1, <2>2
<1>2. IsWellFoundedOn(less, Nat) /\ S \subseteq Nat
  BY <1>1
<1>3. PICK n \in S : \A m \in S : ~ (<<m, n>> \in less)
  <2>1. \E x \in S : \A y \in S : ~ (<<y, x>> \in less)
    BY <1>2, WFMin, Zenon
  <2> QED
    BY <2>1
<1>4. \A m \in S : ~ (m < n)
  BY <1>1, <1>2, <1>3
<1>5. \A m, q \in Nat : ~ (m < q) => q <= m
  OBVIOUS
<1> QED
  BY <1>2, <1>3, <1>4, <1>5

----------------------------------------------------------------------------
(* showfirmware, with a table that conforms: as many structures as have    *)
(* been looked at are behind, none of them of type 0, and Handle is that   *)
(* of the next.  Once one of type 0 is found it is the first, and stays    *)
(* the one that strings are taken from.                                    *)
LookedAt ==
    /\ Index <= Len(table)
    /\ \A q \in 1 .. Index : table[q].Type # 0
    /\ Handle = IF Index < Len(table) THEN table[Index + 1].Handle ELSE INVALID_HANDLE

Lines == STRING \cup {showfirmware!Null}

AtBios ==
    /\ SmbiosStruct \in 1 .. Len(table) /\ table[SmbiosStruct].Type = 0
    /\ \A q \in 1 .. SmbiosStruct - 1 : table[q].Type # 0
    /\ printed \in Seq(Lines) /\ Len(printed) \in 0 .. 3
    /\ \A n \in 1 .. Len(printed) :
         printed[n] \in {table[SmbiosStruct].strings[n], showfirmware!Null}

FirmwareInv ==
    program = "showfirmware" =>
       /\ table \in Tables /\ count \in Nat /\ Index \in Nat
       /\ showfirmware!Conforming =>
            /\ at = "table" => printed = <<>> /\ Index = 0
            /\ at = "search" => printed = <<>> /\ LookedAt
            /\ at = "strings" => AtBios
       /\ showfirmware!BiosStrings

LEMMA TableHas ==
    ASSUME FirmwareInv, program = "showfirmware"
    PROVE  /\ table \in Seq(Structures) /\ Len(table) \in Nat \ {0} /\ DOMAIN table = 1 .. Len(table)
           /\ INVALID_HANDLE \in Nat
           /\ \A p \in 1 .. Len(table) : /\ table[p].Handle \in Nat
                                         /\ Len(table[p].strings) \in Nat
<1>1. table \in Seq(Structures) /\ table # <<>> /\ INVALID_HANDLE \in Nat
  BY ProgramsAssumption DEF FirmwareInv
<1>2. Len(table) \in Nat \ {0} /\ DOMAIN table = 1 .. Len(table)
  BY <1>1
<1>3. \A p \in 1 .. Len(table) : table[p] \in Structures
  BY <1>1
<1>4. \A x \in Structures : x.Handle \in Nat /\ Len(x.strings) \in Nat
  BY DEF Structures
<1> QED
  BY <1>1, <1>2, <1>3, <1>4

LEMMA FirmwareInvHoldsAtFirst == Init => FirmwareInv
<1> SUFFICES ASSUME Init, program = "showfirmware" PROVE FirmwareInv
  BY DEF FirmwareInv
<1>1. showfirmware!Init
  BY DEF Init
<1>2. /\ table \in Tables /\ count \in Counts(table) /\ at = "table"
      /\ Index = 0 /\ printed = <<>>
  BY <1>1 DEF showfirmware!Init
<1>3. count \in Nat
  BY <1>2, ProgramsAssumption
<1> QED
  BY <1>2, <1>3 DEF FirmwareInv, showfirmware!BiosStrings

(* The structure found is the one behind those looked at.                  *)
LEMMA SearchKeeps ==
    ASSUME FirmwareInv, program = "showfirmware", showfirmware!Search, showfirmware!Conforming
    PROVE  /\ printed' = printed /\ printed = <<>> /\ at' \in {"search", "strings"}
           /\ Index' \in Nat
           /\ at' = "search" => LookedAt'
           /\ at' = "strings" => AtBios'
<1> DEFINE Is(q) == /\ table[q].Handle = Handle
                    /\ \A r \in 1 .. q - 1 : table[r].Handle # Handle
           p == CHOOSE q \in DOMAIN table : Is(q)
           n == Len(table)
<1>1. /\ at = "search" /\ Index < count /\ Handle # INVALID_HANDLE /\ Index' = Index + 1
      /\ table' = table /\ count' = count /\ printed' = printed
  BY DEF showfirmware!Search, showfirmware!More
<1>2. /\ Handle' = showfirmware!HandleBehind(p) /\ SmbiosStruct' = p
      /\ at' = IF table[p].Type = 0 THEN "strings" ELSE "search"
  BY DEF showfirmware!Search, showfirmware!LibGetSmbiosStructure
<1>3. printed = <<>> /\ LookedAt /\ Index \in Nat
  BY <1>1 DEF FirmwareInv
<1>4. n \in Nat \ {0} /\ DOMAIN table = 1 .. n
  BY TableHas
<1> HIDE DEF n
<1>5. Index < n /\ Handle = table[Index + 1].Handle /\ Index + 1 \in 1 .. n
  <2>1. Index < n
    BY <1>1, <1>3 DEF LookedAt, n
  <2> QED
    BY <2>1, <1>3, <1>4 DEF LookedAt, n
<1>6. \A q, r \in 1 .. n : table[q].Handle = table[r].Handle => q = r
  BY <1>4 DEF showfirmware!Conforming
<1>7. Is(Index + 1)
  <2>1. \A r \in 1 .. (Index + 1) - 1 : r \in 1 .. n /\ r # Index + 1
    BY <1>3, <1>4, <1>5
  <2> QED
    BY <1>5, <1>6, <2>1
<1>8. p \in 1 .. n /\ Is(p)
  BY <1>4, <1>5, <1>7, Zenon
<1>9. p = Index + 1
  BY <1>5, <1>6, <1>8, Zenon
<1> HIDE DEF p
<1>10. CASE table[p].Type = 0
  <2>1. at' = "strings"
    BY <1>2, <1>10
  <2>2. \A q \in 1 .. p - 1 : table[q].Type # 0
    BY <1>3, <1>9 DEF LookedAt
  <2>3. printed' \in Seq(Lines) /\ Len(printed') = 0
    BY <1>1, <1>3
  <2>4. AtBios'
    BY <1>1, <1>2, <1>8, <1>10, <2>2, <2>3 DEF AtBios, n
  <2> QED
    BY <1>1, <1>3, <2>1, <2>4
<1>11. CASE table[p].Type # 0
  <2>1. at' = "search"
    BY <1>2, <1>11
  <2>2. Handle' = IF Index + 1 < n THEN table[Index + 1 + 1].Handle ELSE INVALID_HANDLE
    BY <1>2, <1>9 DEF showfirmware!HandleBehind, n
  <2>3. \A q \in 1 .. Index + 1 : table[q].Type # 0
    <3>1. \A q \in 1 .. Index + 1 : q \in 1 .. Index \/ q = Index + 1
      BY <1>3
    <3> QED
      BY <1>3, <1>9, <1>11, <3>1 DEF LookedAt
  <2>4. LookedAt'
    BY <1>1, <1>3, <1>5, <2>2, <2>3 DEF LookedAt, n
  <2> QED
    BY <1>1, <1>3, <2>1, <2>4
<1> QED
  BY <1>10, <1>11

(* Where the search ends without a find there is no structure of type 0.   *)
LEMMA NotThereMeansNone ==
    ASSUME FirmwareInv, program = "showfirmware", showfirmware!NotThere, showfirmware!Conforming
    PROVE  showfirmware!BiosAt = {}
<1>1. at = "search" /\ (Index >= count \/ Handle = INVALID_HANDLE) /\ LookedAt
      /\ Index \in Nat /\ count \in Nat
  BY DEF showfirmware!NotThere, showfirmware!More, FirmwareInv
<1>2. Len(table) \in Nat /\ DOMAIN table = 1 .. Len(table)
  BY TableHas
<1>3. SUFFICES ASSUME showfirmware!BiosAt # {} PROVE FALSE
  OBVIOUS
<1>4. showfirmware!BiosAt \subseteq Nat
  BY <1>2 DEF showfirmware!BiosAt
<1>5. PICK p \in showfirmware!BiosAt : \A q \in showfirmware!BiosAt : p <= q
  BY <1>3, <1>4, LeastElement
<1>6. p \in 1 .. Len(table) /\ table[p].Type = 0
  BY <1>2 DEF showfirmware!BiosAt
<1>7. p <= count
  <2>1. ~ \E q \in showfirmware!BiosAt : q < p
    BY <1>4, <1>5
  <2> QED
    BY <2>1 DEF showfirmware!Conforming
<1>8. p > Index
  BY <1>1, <1>6 DEF LookedAt
<1>9. Index = Len(table)
  <2>1. Handle = INVALID_HANDLE
    BY <1>1, <1>6, <1>7, <1>8
  <2>2. \A q \in 1 .. Len(table) : table[q].Handle # INVALID_HANDLE
    BY <1>2 DEF showfirmware!Conforming
  <2>3. Index < Len(table) => Index + 1 \in 1 .. Len(table) /\ Handle = table[Index + 1].Handle
    BY <1>1, <1>2 DEF LookedAt
  <2>4. ~ (Index < Len(table))
    BY <2>1, <2>2, <2>3, Zenon
  <2>5. Index <= Len(table)
    BY <1>1 DEF LookedAt
  <2>6. Index \in Nat /\ Len(table) \in Nat
    BY <1>1, <1>2, Zenon
  <2> QED
    BY <2>4, <2>5, <2>6
<1> QED
  BY <1>1, <1>2, <1>6, <1>8, <1>9

(* In the first structure of type 0 the three strings are there.           *)
LEMMA BiosHasStrings ==
    ASSUME FirmwareInv, program = "showfirmware", showfirmware!Conforming, AtBios
    PROVE  /\ Len(table[SmbiosStruct].strings) >= 3 /\ table[SmbiosStruct].numbers = <<1, 2, 3>>
           /\ SmbiosStruct \in showfirmware!BiosAt
           /\ SmbiosStruct = CHOOSE p \in showfirmware!BiosAt :
                                 \A q \in showfirmware!BiosAt : p <= q
<1> DEFINE Least(p) == \A q \in showfirmware!BiosAt : p <= q
           bios == CHOOSE p \in showfirmware!BiosAt : Least(p)
<1>1. DOMAIN table = 1 .. Len(table) /\ Len(table) \in Nat
  BY TableHas
<1>2. SmbiosStruct \in showfirmware!BiosAt
  BY <1>1 DEF AtBios, showfirmware!BiosAt
<1>3. Least(SmbiosStruct)
  BY <1>1 DEF AtBios, showfirmware!BiosAt
<1>4. ~ \E q \in showfirmware!BiosAt : q < SmbiosStruct
  BY <1>1, <1>2, <1>3 DEF showfirmware!BiosAt
<1>5. /\ Len(table[SmbiosStruct].strings) >= 3 /\ table[SmbiosStruct].numbers = <<1, 2, 3>>
  BY <1>2, <1>4 DEF showfirmware!Conforming
<1>6. bios \in showfirmware!BiosAt /\ Least(bios)
  BY <1>2, <1>3, Zenon
<1>7. bios = SmbiosStruct
  <2>1. bios <= SmbiosStruct /\ SmbiosStruct <= bios
    BY <1>2, <1>3, <1>6, Zenon
  <2>2. bios \in Nat /\ SmbiosStruct \in Nat
    BY <1>1, <1>2, <1>6 DEF showfirmware!BiosAt
  <2> HIDE DEF bios
  <2> QED
    BY <2>1, <2>2
<1> QED
  BY <1>2, <1>5, <1>7, Zenon

LEMMA PrintStringKeeps ==
    ASSUME FirmwareInv, program = "showfirmware", showfirmware!PrintString, showfirmware!Conforming
    PROVE  AtBios'
<1>1. /\ at = "strings" /\ Len(printed) < 3 /\ table' = table
      /\ SmbiosStruct' = showfirmware!String.structure
  BY DEF showfirmware!PrintString
<1>2. PICK fails \in FirmwareFails :
        printed' = Append(printed, IF fails THEN showfirmware!Null ELSE showfirmware!String.text)
  BY DEF showfirmware!PrintString
<1>3. AtBios
  BY <1>1 DEF FirmwareInv
<1> DEFINE n == Len(printed) + 1
           strings == table[SmbiosStruct].strings
           line == IF fails THEN showfirmware!Null ELSE showfirmware!String.text
<1>4. Len(strings) >= 3 /\ Len(strings) \in Nat /\ n \in 1 .. 3
  BY <1>1, <1>3, BiosHasStrings, TableHas DEF AtBios
<1>5. showfirmware!String = [text |-> strings[n], structure |-> SmbiosStruct]
  <2>1. SmbiosStruct \in 1 .. Len(table) /\ Len(table) \in Nat
    BY <1>3, TableHas DEF AtBios
  <2>2. ~(SmbiosStruct > Len(table)) /\ n <= Len(strings)
    BY <1>4, <2>1
  <2> QED
    BY <2>2 DEF showfirmware!String, showfirmware!LibGetSmbiosString
<1>6. line \in {strings[n], showfirmware!Null} /\ SmbiosStruct' = SmbiosStruct
  BY <1>1, <1>5
<1>7. line \in Lines
  <2>1. strings \in Seq(STRING)
    <3>1. table[SmbiosStruct] \in Structures
      BY <1>3, TableHas DEF AtBios
    <3> QED
      BY <3>1 DEF Structures
  <2>2. n \in 1 .. Len(strings)
    BY <1>4
  <2>3. strings[n] \in STRING
    <3> HIDE DEF strings, n
    <3> QED
      BY <2>1, <2>2
  <2> QED
    BY <1>6, <2>3 DEF Lines
<1> HIDE DEF line
<1>8. /\ printed' \in Seq(Lines) /\ Len(printed') = n /\ printed'[n] = line
      /\ \A m \in 1 .. Len(printed) : printed'[m] = printed[m]
  BY <1>2, <1>3, <1>7 DEF AtBios, line
<1>9. \A m \in 1 .. n : printed'[m] \in {strings[m], showfirmware!Null}
  <2>1. \A m \in 1 .. n : m = n \/ m \in 1 .. Len(printed)
    BY <1>4
  <2>2. \A m \in 1 .. Len(printed) : printed[m] \in {strings[m], showfirmware!Null}
    BY <1>3 DEF AtBios
  <2> QED
    BY <1>6, <1>8, <2>1, <2>2
<1> QED
  BY <1>1, <1>3, <1>4, <1>6, <1>8, <1>9 DEF AtBios

LEMMA FirmwareInvKept == FirmwareInv /\ [Next]_vars => FirmwareInv'
<1> SUFFICES ASSUME FirmwareInv, [Next]_vars,
                    program = "showfirmware", program' = "showfirmware"
             PROVE  FirmwareInv'
  BY DEF FirmwareInv, Next, vars
<1>1. showfirmware!Next \/ UNCHANGED vars
  BY DEF Next
<1>2. CASE UNCHANGED vars
  <2>1. /\ table' = table /\ count' = count /\ Handle' = Handle /\ Index' = Index
        /\ SmbiosStruct' = SmbiosStruct /\ at' = at /\ printed' = printed
    BY <1>2 DEF vars, ofFirmware
  <2>2. LookedAt' = LookedAt /\ AtBios' = AtBios
    BY <2>1 DEF LookedAt, AtBios
  <2>3. /\ showfirmware!Conforming' = showfirmware!Conforming
        /\ showfirmware!BiosStrings' = showfirmware!BiosStrings
    BY <2>1 DEF showfirmware!Conforming, showfirmware!BiosAt, showfirmware!BiosStrings
  <2> QED
    BY <2>1, <2>2, <2>3 DEF FirmwareInv
<1>3. ASSUME showfirmware!Next
      PROVE  /\ table' = table /\ count' = count
             /\ showfirmware!Conforming' <=> showfirmware!Conforming
             /\ showfirmware!BiosAt' = showfirmware!BiosAt
  <2>1. table' = table /\ count' = count
    BY <1>3 DEF showfirmware!Next, showfirmware!NoTable, showfirmware!FirstHandle,
                showfirmware!Search,
         showfirmware!NotThere, showfirmware!PrintString, showfirmware!Fault, showfirmware!Finish
  <2> QED
    BY <2>1, Zenon DEF showfirmware!Conforming, showfirmware!BiosAt
<1>4. table \in Tables /\ count \in Nat /\ Index \in Nat
  BY DEF FirmwareInv
<1>5. CASE showfirmware!NoTable
  <2>1. at = "table" /\ at' = "returned" /\ Index' = Index /\ printed' = printed
    BY <1>5 DEF showfirmware!NoTable, showfirmware!Return
  <2>2. showfirmware!Conforming => Index' = 0
    BY <2>1 DEF FirmwareInv
  <2> QED
    BY <1>3, <1>4, <1>5, <2>1, <2>2 DEF FirmwareInv, showfirmware!BiosStrings, showfirmware!Next
<1>6. CASE showfirmware!FirstHandle
  <2>1. /\ at = "table" /\ at' = "search" /\ Handle' = table[1].Handle
        /\ Index' = Index /\ printed' = printed
    BY <1>6 DEF showfirmware!FirstHandle
  <2>2. Len(table) \in Nat \ {0}
    BY TableHas
  <2>3. showfirmware!Conforming => Index = 0 /\ printed = <<>>
    BY <2>1 DEF FirmwareInv
  <2>4. showfirmware!Conforming => LookedAt'
    BY <1>3, <1>6, <2>1, <2>2, <2>3 DEF LookedAt, showfirmware!Next
  <2> QED
    BY <1>3, <1>4, <1>6, <2>1, <2>3, <2>4 DEF FirmwareInv, showfirmware!BiosStrings,
                                              showfirmware!Next
<1>7. CASE showfirmware!Search
  <2>1. at' \in {"search", "strings"} /\ Index' = Index + 1
    BY <1>7 DEF showfirmware!Search, showfirmware!LibGetSmbiosStructure
  <2>2. Index' \in Nat
    BY <1>4, <2>1
  <2> QED
    BY <1>3, <1>4, <1>7, <2>1, <2>2, SearchKeeps DEF FirmwareInv, showfirmware!BiosStrings,
                                                     showfirmware!Next
<1>8. CASE showfirmware!NotThere
  <2>1. at = "search" /\ at' = "returned" /\ Index' = Index /\ printed' = printed
    BY <1>8 DEF showfirmware!NotThere, showfirmware!Return
  <2>2. showfirmware!Conforming => printed = <<>> /\ showfirmware!BiosAt = {}
    BY <1>8, <2>1, NotThereMeansNone DEF FirmwareInv
  <2> QED
    BY <1>3, <1>4, <1>8, <2>1, <2>2 DEF FirmwareInv, showfirmware!BiosStrings, showfirmware!Next
<1>9. CASE showfirmware!PrintString
  <2>1. at = "strings" /\ at' = "strings" /\ Index' = Index
    BY <1>9 DEF showfirmware!PrintString
  <2> QED
    BY <1>3, <1>4, <1>9, <2>1, PrintStringKeeps DEF FirmwareInv, showfirmware!BiosStrings,
                                                    showfirmware!Next
<1>10. CASE showfirmware!Fault
  <2>1. at' = "faulted" /\ Index' = Index
    BY <1>10 DEF showfirmware!Fault
  <2> QED
    BY <1>3, <1>4, <1>10, <2>1 DEF FirmwareInv, showfirmware!BiosStrings, showfirmware!Next
<1>11. CASE showfirmware!Finish
  <2>1. /\ at = "strings" /\ at' = "returned" /\ Len(printed) = 3
        /\ Index' = Index /\ printed' = printed
    BY <1>11 DEF showfirmware!Finish, showfirmware!Return
  <2>2. ASSUME showfirmware!Conforming
        PROVE  LET bios == table[CHOOSE p \in showfirmware!BiosAt :
                                    \A q \in showfirmware!BiosAt : p <= q]
               IN /\ Len(printed) = 3
                  /\ \A n \in 1 .. 3 : printed[n] \in {bios.strings[bios.numbers[n]], showfirmware!Null}
    <3>1. AtBios
      BY <2>1, <2>2 DEF FirmwareInv
    <3> DEFINE bios == table[SmbiosStruct]
    <3>2. bios.numbers[1] = 1 /\ bios.numbers[2] = 2 /\ bios.numbers[3] = 3
      BY <2>2, <3>1, BiosHasStrings
    <3>3. \A n \in 1 .. 3 : printed[n] \in {bios.strings[n], showfirmware!Null}
      BY <2>1, <3>1 DEF AtBios
    <3> HIDE DEF bios
    <3>4. \A n \in 1 .. 3 : bios.numbers[n] = n
      BY <3>2
    <3>5. \A n \in 1 .. 3 : printed[n] \in {bios.strings[bios.numbers[n]], showfirmware!Null}
      BY <3>3, <3>4
    <3> QED
      BY <2>1, <2>2, <3>1, <3>5, BiosHasStrings DEF bios
  <2>3. showfirmware!Conforming => showfirmware!BiosAt # {}
    BY <2>1, BiosHasStrings DEF FirmwareInv
  <2>4. showfirmware!BiosStrings'
    BY <1>3, <1>11, <2>1, <2>2, <2>3 DEF showfirmware!BiosStrings, showfirmware!Next
  <2> QED
    BY <1>3, <1>4, <1>11, <2>1, <2>4 DEF FirmwareInv, showfirmware!Next
<1> QED
  BY <1>1, <1>2, <1>5, <1>6, <1>7, <1>8, <1>9, <1>10, <1>11 DEF showfirmware!Next

(* In a table whose handles tell the structures apart, none being 0xFFFF,  *)
(* whose count covers the first structure of type 0 and where this one has *)
(* strings numbered 1, 2 and 3, the walk from handle to handle finds it,   *)
(* and the lines are of its strings: the pointer that LibGetSmbiosString   *)
(* moves is still at it for each of the three (showfirmware.c:182-203).    *)
(* Without a structure of type 0 nothing is printed.                       *)
THEOREM FirmwareStringsAreShown == Spec => []BiosStrings
<1>1. FirmwareInv => BiosStrings
  BY DEF FirmwareInv, BiosStrings
<1> QED
  BY <1>1, FirmwareInvHoldsAtFirst, FirmwareInvKept, PTL DEF Spec

----------------------------------------------------------------------------
(* The arcs of an object identifier.  Numbers are defined by recursion over*)
(* the octets; induction over naturals is from the least that fails.       *)
LEMMA Induct ==
    ASSUME NEW S, 0 \in S, \A n \in Nat : n \in S => n + 1 \in S
    PROVE  \A n \in Nat : n \in S
<1> DEFINE T == Nat \ S
<1>1. SUFFICES ASSUME T # {} PROVE FALSE
  OBVIOUS
<1>2. PICK n \in T : \A m \in T : n <= m
  BY <1>1, LeastElement
<1>3. n # 0 /\ n - 1 \in Nat /\ n - 1 \notin T
  BY <1>2
<1> QED
  BY <1>2, <1>3

(* There is a function g with g[n] = step[n, g[n - 1]].                    *)
LEMMA Recursion ==
    ASSUME NEW N \in Nat, NEW step \in [(1 .. N) \X Nat -> Nat]
    PROVE  \E g \in [0 .. N -> Nat] :
              g[0] = 0 /\ \A n \in 1 .. N : g[n] = step[<<n, g[n - 1]>>]
<1> DEFINE Good(g, m) == g[0] = 0 /\ \A n \in 1 .. m : g[n] = step[<<n, g[n - 1]>>]
           Exists(m) == \E g \in [0 .. m -> Nat] : Good(g, m)
           Reach == {m \in Nat : m <= N => Exists(m)}
<1>1. 0 \in Reach
  <2> DEFINE g == [n \in 0 .. 0 |-> 0]
  <2>1. g \in [0 .. 0 -> Nat] /\ Good(g, 0)
    OBVIOUS
  <2>2. Exists(0)
    BY <2>1
  <2> HIDE DEF Exists
  <2> QED
    BY <2>2
<1>2. ASSUME NEW m \in Nat, m \in Reach PROVE m + 1 \in Reach
  <2> HIDE DEF Exists
  <2> SUFFICES ASSUME m + 1 <= N PROVE Exists(m + 1)
    OBVIOUS
  <2>1. Exists(m)
    BY <1>2
  <2>2. PICK g \in [0 .. m -> Nat] : Good(g, m)
    BY <2>1 DEF Exists
  <2> DEFINE next == step[<<m + 1, g[m]>>]
             h == [n \in 0 .. m + 1 |-> IF n <= m THEN g[n] ELSE next]
  <2>3. next \in Nat
    <3>1. <<m + 1, g[m]>> \in (1 .. N) \X Nat
      BY <2>2
    <3> QED
      BY <3>1
  <2> HIDE DEF next
  <2>4. h \in [0 .. m + 1 -> Nat]
    BY <2>2, <2>3
  <2>5. h[m + 1] = next /\ \A n \in 0 .. m : h[n] = g[n]
    OBVIOUS
  <2> HIDE DEF h
  <2>6. \A n \in 1 .. m + 1 : h[n] = step[<<n, h[n - 1]>>]
    <3> SUFFICES ASSUME NEW n \in 1 .. m + 1 PROVE h[n] = step[<<n, h[n - 1]>>]
      OBVIOUS
    <3>1. CASE n \in 1 .. m
      <4>1. n - 1 \in 0 .. m /\ n \in 0 .. m
        BY <3>1
      <4> QED
        BY <2>2, <2>5, <3>1, <4>1
    <3>2. CASE n = m + 1
      <4>1. n - 1 = m /\ m \in 0 .. m
        BY <3>2
      <4> QED
        BY <2>5, <3>2, <4>1 DEF next
    <3> QED
      BY <3>1, <3>2
  <2>7. h[0] = 0
    BY <2>2, <2>5
  <2> QED
    BY <2>4, <2>6, <2>7 DEF Exists
<1> HIDE DEF Exists, Reach
<1>3. N \in Reach
  BY <1>1, <1>2, Induct, Zenon
<1>4. Exists(N)
  BY <1>3 DEF Reach
<1> QED
  BY <1>4, Zenon DEF Exists

LEMMA OctetRange ==
    ASSUME NEW octets \in Seq(Octets)
    PROVE  /\ Len(octets) \in Nat
           /\ \A n \in 1 .. Len(octets) :
                octets[n] \in 0 .. 255 /\ octets[n] \in Int /\ octets[n] % 128 \in Nat
<1>1. Len(octets) \in Nat /\ \A n \in 1 .. Len(octets) : octets[n] \in Octets
  OBVIOUS
<1>2. \A x \in Octets : x \in 0 .. 255 /\ x \in Int
  BY DEF Octets
<1>3. \A x \in 0 .. 255 : x % 128 \in Nat
  OBVIOUS
<1> QED
  BY <1>1, <1>2, <1>3

(* One octet more: seven bits more of the number before, or of a new one.  *)
Continued(octets, n, before) ==
    (IF n > 1 /\ octets[n - 1] >= 128 THEN before ELSE 0) * 128 + (octets[n] % 128)

LEMMA NumberIs ==
    ASSUME NEW octets \in Seq(Octets)
    PROVE  /\ \A n \in 0 .. Len(octets) : Number(octets)[n] \in Nat
           /\ \A n \in 1 .. Len(octets) :
                Number(octets)[n] = Continued(octets, n, Number(octets)[n - 1])
<1> DEFINE N == Len(octets)
           Is(f) == f = [n \in 0 .. N |-> IF n = 0 THEN 0 ELSE Continued(octets, n, f[n - 1])]
           f == CHOOSE g : Is(g)
           step == [p \in (1 .. N) \X Nat |-> Continued(octets, p[1], p[2])]
<1>1. N \in Nat /\ \A n \in 1 .. N : octets[n] % 128 \in Nat
  BY OctetRange
<1>2. \A n \in 1 .. N, x \in Nat : Continued(octets, n, x) \in Nat
  <2> SUFFICES ASSUME NEW n \in 1 .. N, NEW x \in Nat PROVE Continued(octets, n, x) \in Nat
    OBVIOUS
  <2> DEFINE low == octets[n] % 128
  <2>1. low \in Nat
    BY <1>1
  <2> HIDE DEF low
  <2>2. x * 128 + low \in Nat /\ 0 * 128 + low \in Nat
    BY <2>1
  <2>3. Continued(octets, n, x) = x * 128 + low \/ Continued(octets, n, x) = 0 * 128 + low
    BY Zenon DEF Continued, low
  <2> QED
    BY <2>2, <2>3
<1> HIDE DEF N
<1>3. step \in [(1 .. N) \X Nat -> Nat]
  BY <1>2
<1>4. \A n \in 1 .. N, x \in Nat : step[<<n, x>>] = Continued(octets, n, x)
  OBVIOUS
<1> HIDE DEF step
<1>5. PICK g \in [0 .. N -> Nat] : g[0] = 0 /\ \A n \in 1 .. N : g[n] = step[<<n, g[n - 1]>>]
  BY <1>1, <1>3, Recursion
<1>6. \A n \in 1 .. N : g[n] = Continued(octets, n, g[n - 1])
  <2>1. \A n \in 1 .. N : g[n - 1] \in Nat
    BY <1>1, <1>5
  <2> QED
    BY <1>4, <1>5, <2>1
<1>7. Is(g)
  <2>1. \A n \in 0 .. N : g[n] = IF n = 0 THEN 0 ELSE Continued(octets, n, g[n - 1])
    BY <1>1, <1>5, <1>6
  <2> QED
    BY <1>5, <2>1
<1>8. Is(f)
  BY <1>7, Zenon
<1>9. Number(octets) = f
  BY DEF Number, Continued, N
<1> HIDE DEF f
<1>10. /\ f[0] = 0
       /\ \A n \in 1 .. N : f[n] = Continued(octets, n, f[n - 1])
  BY <1>1, <1>8, SMTT(30)
<1>11. \A n \in Nat : n <= N => f[n] \in Nat
  <2> DEFINE S == {n \in Nat : n <= N => f[n] \in Nat}
  <2>1. 0 \in S
    BY <1>10
  <2>2. ASSUME NEW n \in Nat, n \in S PROVE n + 1 \in S
    <3> SUFFICES ASSUME n + 1 <= N PROVE f[n + 1] \in Nat
      OBVIOUS
    <3>1. f[n] \in Nat /\ n + 1 \in 1 .. N /\ n + 1 - 1 = n
      BY <1>1, <2>2
    <3>2. f[n + 1] = Continued(octets, n + 1, f[n])
      <4>1. f[n + 1] = Continued(octets, n + 1, f[n + 1 - 1])
        BY <1>10, <3>1
      <4> QED
        BY <3>1, <4>1
    <3>3. Continued(octets, n + 1, f[n]) \in Nat
      BY <1>2, <3>1, Zenon
    <3> QED
      BY <3>2, <3>3
  <2> HIDE DEF S
  <2>3. \A n \in Nat : n \in S
    BY <2>1, <2>2, Induct, Zenon
  <2> QED
    BY <2>3 DEF S
<1> QED
  BY <1>1, <1>9, <1>10, <1>11 DEF N

(* Ends of numbers, counted.                                               *)
LEMMA EndsGrow ==
    ASSUME NEW octets \in Seq(Octets), NEW n \in 1 .. Len(octets)
    PROVE  LET Count(m) == Cardinality(NumberEnds(octets, m))
           IN /\ Count(n - 1) \in Nat /\ Count(n) \in Nat /\ Count(0) = 0
              /\ octets[n] < 128 => Count(n) = Count(n - 1) + 1
              /\ octets[n] >= 128 => Count(n) = Count(n - 1)
              /\ octets[1] < 128 => Count(n) >= 1
<1> DEFINE E(m) == NumberEnds(octets, m)
<1>1. n \in Nat /\ n >= 1 /\ \A m \in 1 .. n : octets[m] \in Int
  <2>1. n \in 1 .. Len(octets) /\ Len(octets) \in Nat
    BY OctetRange
  <2>2. \A m \in 1 .. n : m \in 1 .. Len(octets)
    BY <2>1
  <2> QED
    BY <2>1, <2>2, OctetRange
<1>2. \A m \in Nat : IsFiniteSet(E(m))
  <2> SUFFICES ASSUME NEW m \in Nat PROVE IsFiniteSet(E(m))
    OBVIOUS
  <2>1. IsFiniteSet(1 .. m)
    BY FS_Interval
  <2>2. E(m) \in SUBSET (1 .. m)
    BY DEF NumberEnds
  <2> QED
    BY <2>1, <2>2, FS_Subset
<1>3. IsFiniteSet(E(n - 1)) /\ IsFiniteSet(E(n)) /\ E(0) = {} /\ IsFiniteSet(E(0))
  <2>1. n - 1 \in Nat /\ 0 \in Nat /\ n \in Nat
    BY <1>1
  <2>2. E(0) = {}
    BY DEF NumberEnds
  <2> HIDE DEF E
  <2> QED
    BY <1>2, <2>1, <2>2
<1>4. n \notin E(n - 1)
  BY <1>1 DEF NumberEnds
<1>5. octets[n] < 128 => E(n) = E(n - 1) \cup {n}
  BY <1>1 DEF NumberEnds
<1>6. octets[n] >= 128 => E(n) = E(n - 1)
  BY <1>1 DEF NumberEnds
<1>7. octets[1] < 128 => 1 \in E(n)
  BY <1>1 DEF NumberEnds
<1> HIDE DEF E
<1>8. octets[n] < 128 => Cardinality(E(n)) = Cardinality(E(n - 1)) + 1
  BY <1>3, <1>4, <1>5, FS_AddElement
<1>9. Cardinality(E(n)) \in Nat /\ Cardinality(E(n - 1)) \in Nat /\ Cardinality(E(0)) = 0
  BY <1>3, FS_CardinalityType, FS_EmptySet
<1>10. octets[1] < 128 => Cardinality(E(n)) >= 1
  <2>1. octets[1] < 128 => Cardinality(E(n)) # 0
    BY <1>3, <1>7, FS_EmptySet
  <2> QED
    BY <1>9, <2>1
<1> QED
  BY <1>6, <1>8, <1>9, <1>10 DEF E

(* What the arcs are when the first octet is a usual one, number by number.*)
LEMMA NoMoreEnds ==
    ASSUME NEW octets \in Seq(Octets), NEW n \in 1 .. Len(octets)
    PROVE  Cardinality(NumberEnds(octets, n)) <= Cardinality(NumberEnds(octets, Len(octets)))
<1> DEFINE all == NumberEnds(octets, Len(octets))
<1>1. IsFiniteSet(1 .. Len(octets))
  BY FS_Interval
<1>2. all \in SUBSET (1 .. Len(octets)) /\ NumberEnds(octets, n) \in SUBSET all
  BY DEF NumberEnds
<1> HIDE DEF all
<1>3. IsFiniteSet(all)
  BY <1>1, <1>2, FS_Subset
<1>4. Cardinality(NumberEnds(octets, n)) <= Cardinality(all)
  BY <1>2, <1>3, FS_Subset
<1> QED
  BY <1>4 DEF all

LEMMA ArcsOf ==
    ASSUME NEW octets \in Seq(Octets), NEW list, Spells(octets, list),
           octets # <<>>, octets[Len(octets)] < 128,
           octets[1] < 128, list # <<>> => octets[1] < 120
    PROVE  LET Count(m) == Cardinality(NumberEnds(octets, m))
           IN /\ list \in Seq(Nat) /\ list # <<>> /\ Count(Len(octets)) \in Nat
              /\ Len(list) = 1 + Count(Len(octets))
              /\ Count(1) = 1 /\ octets[1] \in 0 .. 119
              /\ list[1] = octets[1] \div 40 /\ list[2] = octets[1] - 40 * list[1]
              /\ \A n \in 2 .. Len(octets) :
                    octets[n] < 128 => list[Count(n) + 1] = Number(octets)[n]
<1> DEFINE N == Len(octets)
           Count(m) == Cardinality(NumberEnds(octets, m))
<1>1. /\ N \in Nat /\ N >= 1
      /\ \A n \in 1 .. N : octets[n] \in 0 .. 255 /\ octets[n] \in Int
  BY OctetRange
<1>2. /\ list \in Seq(Nat) /\ Len(list) = 1 + Count(N)
      /\ \A n \in NumberEnds(octets, N) :
           IF Count(n) > 1 THEN list[Count(n) + 1] = Number(octets)[n]
           ELSE /\ list[1] = IF Number(octets)[n] < 80 THEN Number(octets)[n] \div 40 ELSE 2
                /\ list[2] = Number(octets)[n] - 40 * list[1]
  <2>1. ~(octets = <<>> \/ octets[Len(octets)] >= 128)
    BY <1>1
  <2> QED
    BY <2>1, Zenon DEF Spells
<1>3. /\ \A n \in 1 .. N : Count(n - 1) \in Nat /\ Count(n) \in Nat /\ Count(n) >= 1
      /\ \A n \in 1 .. N : octets[n] < 128 => Count(n) = Count(n - 1) + 1
      /\ Count(0) = 0
  <2>1. ASSUME NEW n \in 1 .. N
        PROVE  /\ Count(n - 1) \in Nat /\ Count(n) \in Nat /\ Count(n) >= 1 /\ Count(0) = 0
               /\ octets[n] < 128 => Count(n) = Count(n - 1) + 1
    BY EndsGrow, Zenon
  <2>2. 1 \in 1 .. N
    BY <1>1
  <2> HIDE DEF Count
  <2> QED
    BY <2>1, <2>2
<1>4. \A n \in 1 .. N : octets[n] < 128 => n \in NumberEnds(octets, N)
  BY DEF NumberEnds
<1> HIDE DEF Count
<1>5. Count(1) = 1
  <2>1. 1 \in 1 .. N /\ 1 - 1 = 0
    BY <1>1
  <2> QED
    BY <1>3, <2>1
<1>6. list # <<>>
  <2>1. N \in 1 .. N
    BY <1>1
  <2> QED
    BY <1>2, <1>3, <2>1
<1>7. octets[1] \in 0 .. 119
  <2>1. 1 \in 1 .. N
    BY <1>1
  <2> DEFINE first == octets[1]
  <2>2. first \in 0 .. 255
    BY <1>1, <2>1, Zenon
  <2>3. first < 120
    BY <1>6, Zenon
  <2> HIDE DEF first
  <2>4. first \in 0 .. 119
    BY <2>2, <2>3
  <2> QED
    BY <2>4 DEF first
<1>8. Number(octets)[1] = octets[1]
  <2>1. 1 \in 1 .. N
    BY <1>1
  <2>2. Number(octets)[1] = Continued(octets, 1, Number(octets)[1 - 1])
    BY <2>1, NumberIs
  <2>3. Continued(octets, 1, Number(octets)[1 - 1]) = 0 * 128 + (octets[1] % 128)
    BY DEF Continued
  <2>4. \A x \in 0 .. 119 : 0 * 128 + (x % 128) = x
    OBVIOUS
  <2> QED
    BY <1>7, <2>2, <2>3, <2>4, Zenon
<1>9. list[1] = octets[1] \div 40 /\ list[2] = octets[1] - 40 * list[1]
  <2>1. 1 \in NumberEnds(octets, N)
    BY <1>1, <1>4
  <2>2. /\ list[1] = IF octets[1] < 80 THEN octets[1] \div 40 ELSE 2
        /\ list[2] = octets[1] - 40 * list[1]
    BY <1>2, <1>5, <1>8, <2>1
  <2> DEFINE first == octets[1]
             two == list[1]
  <2>3. first \in 0 .. 119 /\ two = (IF first < 80 THEN first \div 40 ELSE 2)
    BY <1>7, <2>2
  <2> HIDE DEF first, two
  <2>4. two = first \div 40
    BY <2>3
  <2> QED
    BY <2>2, <2>4 DEF first, two
<1>10. ASSUME NEW n \in 2 .. N, octets[n] < 128
       PROVE  list[Count(n) + 1] = Number(octets)[n]
  <2>1. n \in 1 .. N /\ n - 1 \in 1 .. N
    BY <1>1
  <2>2. Count(n) > 1
    <3>1. Count(n - 1) \in Nat /\ Count(n - 1) >= 1
      BY <1>3, <2>1
    <3>2. Count(n) = Count(n - 1) + 1
      BY <1>3, <1>10, <2>1, Zenon
    <3> QED
      BY <3>1, <3>2
  <2>3. n \in NumberEnds(octets, N)
    BY <1>4, <1>10, <2>1
  <2> QED
    BY <1>2, <2>2, <2>3
<1>11. Count(N) \in Nat
  <2>1. N \in 1 .. N
    BY <1>1
  <2> QED
    BY <1>3, <2>1
<1> QED
  BY <1>2, <1>5, <1>6, <1>7, <1>9, <1>10, <1>11, Zenon DEF Count

(* Sprint_OID in the middle: the number in hand, if the octet before did   *)
(* not end one and nothing has been shifted out of it, and, unless the     *)
(* octets are to be refused, as many arcs of the identifier printed as     *)
(* numbers have ended, and one more.                                       *)
InHand(octets) ==
    IF v > 0 /\ octets[v] >= 128
    THEN \E x \in Nat : num = <<x>> /\ (2 * Number(octets)[v] < UINT64 => x = Number(octets)[v])
    ELSE num = <<>>

Spelling ==
    LET octets == identifier.data
    IN /\ v \in 0 .. Len(octets)
       /\ InHand(octets)
       /\ v > 0 /\ octets[Len(octets)] < 128 =>
            /\ printed \in Seq(Nat) /\ Len(printed) = 1 + Cardinality(NumberEnds(octets, v))
            /\ \A n \in 1 .. Len(printed) : printed[n] = identifier.arcs[n]

SpellInv ==
    program = "oids" =>
       /\ identifier \in Identifiers /\ at \in {"search", "sprint", "returned"}
       /\ at = "search" => v = 0 /\ num = <<>>
       /\ at = "sprint" /\ oids!FirstIsUsual /\ oids!ArcsFit => Spelling
       /\ oids!SpelledOut

LEMMA SpellInvHoldsAtFirst == Init => SpellInv
<1> SUFFICES ASSUME Init, program = "oids" PROVE SpellInv
  BY DEF SpellInv
<1>1. oids!Init
  BY DEF Init
<1> QED
  BY <1>1 DEF oids!Init, SpellInv, oids!SpelledOut

(* A first octet.                                                          *)
LEMMA PrintsFirst ==
    ASSUME identifier \in Identifiers, oids!FirstIsUsual, Spelling, oids!PrintFirst
    PROVE  Spelling'
<1> DEFINE octets == identifier.data
<1>1. /\ octets \in Seq(Octets) /\ Spells(octets, identifier.arcs)
      /\ octets # <<>> /\ identifier' = identifier
      /\ v = 0 /\ v' = 1 /\ num' = num /\ num = <<>>
      /\ printed' = <<octets[1] \div 40, octets[1] % 40>>
      /\ octets[1] < 128 /\ (identifier.arcs # <<>> => octets[1] < 120)
  BY TablesAssumption, ArcsAssumption
  DEF Spelling, InHand, oids!PrintFirst, oids!data, oids!FirstArcs, oids!FirstIsUsual, oids!search
<1>2. Len(octets) \in Nat /\ Len(octets) >= 1 /\ octets[1] \in Int
  <2>1. Len(octets) \in Nat /\ Len(octets) >= 1
    BY <1>1
  <2>2. 1 \in 1 .. Len(octets)
    BY <2>1
  <2> QED
    BY <1>1, <2>1, <2>2, OctetRange
<1>3. v' \in 0 .. Len(octets) /\ num' = <<>> /\ ~(octets[1] >= 128)
  BY <1>1, <1>2
<1>4. ASSUME octets[Len(octets)] < 128
      PROVE  /\ printed' \in Seq(Nat) /\ Len(printed') = 1 + Cardinality(NumberEnds(octets, 1))
             /\ \A n \in 1 .. Len(printed') : printed'[n] = identifier.arcs[n]
  <2>1. /\ Cardinality(NumberEnds(octets, 1)) = 1 /\ octets[1] \in 0 .. 119
        /\ identifier.arcs[1] = octets[1] \div 40
        /\ identifier.arcs[2] = octets[1] - 40 * identifier.arcs[1]
    BY <1>1, <1>4, ArcsOf, SMTT(30)
  <2>2. \A x \in 0 .. 119 : x \div 40 \in Nat /\ x % 40 \in Nat /\ x % 40 = x - 40 * (x \div 40)
    OBVIOUS
  <2> DEFINE first == octets[1]
  <2>3. /\ first \in 0 .. 119 /\ printed' = <<first \div 40, first % 40>>
        /\ identifier.arcs[1] = first \div 40
        /\ identifier.arcs[2] = first - 40 * identifier.arcs[1]
    BY <1>1, <2>1
  <2> HIDE DEF first
  <2>4. /\ first \div 40 \in Nat /\ first % 40 \in Nat
        /\ identifier.arcs[2] = first % 40
    BY <2>2, <2>3
  <2>5. /\ printed' \in Seq(Nat) /\ Len(printed') = 2
        /\ printed'[1] = first \div 40 /\ printed'[2] = first % 40
    BY <2>3, <2>4
  <2> QED
    BY <2>1, <2>3, <2>4, <2>5
<1> QED
  BY <1>1, <1>3, <1>4 DEF Spelling, InHand

(* One of the octets behind it.                                            *)
LEMMA PrintsArc ==
    ASSUME identifier \in Identifiers, oids!FirstIsUsual, oids!ArcsFit, Spelling, oids!PrintArc
    PROVE  Spelling'
<1> DEFINE octets == identifier.data
           arcs == identifier.arcs
           n == v + 1
           rest == IF num = <<>> THEN 0 ELSE num[1]
           whole == rest * 128 + (octets[n] % 128)
           arc == whole % UINT64
           number == Number(octets)[n]
           Count(m) == Cardinality(NumberEnds(octets, m))
<1>1. /\ octets \in Seq(Octets) /\ Spells(octets, arcs)
      /\ octets # <<>> => octets[1] < 128 /\ (arcs # <<>> => octets[1] < 120)
  BY TablesAssumption, ArcsAssumption DEF oids!data, oids!FirstIsUsual
<1>2. /\ identifier' = identifier /\ v' = n /\ v > 0 /\ v < Len(octets)
      /\ IF octets[n] >= 128 THEN num' = <<arc>> /\ printed' = printed
         ELSE num' = <<>> /\ printed' = Append(printed, oids!Signed(arc))
  BY DEF oids!PrintArc, oids!data, oids!search
<1>3. /\ v \in 0 .. Len(octets) /\ InHand(octets)
      /\ v > 0 /\ octets[Len(octets)] < 128 =>
            /\ printed \in Seq(Nat) /\ Len(printed) = 1 + Count(v)
            /\ \A m \in 1 .. Len(printed) : printed[m] = arcs[m]
  BY DEF Spelling
<1>4. /\ v \in Nat /\ v >= 1 /\ Len(octets) \in Nat /\ n \in 1 .. Len(octets) /\ v \in 1 .. Len(octets)
      /\ octets # <<>> /\ n - 1 = v /\ n > 1 /\ n \in 0 .. Len(octets) /\ n \in 2 .. Len(octets)
  BY <1>1, <1>2, <1>3
<1>5. octets[n] \in Int /\ octets[v] \in Int
  BY <1>1, <1>4, OctetRange
<1>6. /\ number \in Nat /\ arc \in Nat
      /\ 2 * number < UINT64 => arc = number
  <2> DEFINE before == Number(octets)[v]
             digit == octets[n] % 128
  <2>1. /\ number = Continued(octets, n, before) /\ number \in Nat /\ before \in Nat
        /\ octets[n - 1] = octets[v]
    BY <1>1, <1>4, NumberIs
  <2>2. number = (IF octets[v] >= 128 THEN before ELSE 0) * 128 + digit
    BY <1>4, <2>1, Zenon DEF Continued
  <2>3. IF octets[v] >= 128 THEN rest \in Nat /\ (2 * before < UINT64 => rest = before)
        ELSE rest = 0
    BY <1>2, <1>3 DEF InHand
  <2>4. digit \in Nat /\ UINT64 \in Nat \ {0}
    BY <1>5, ProgramsAssumption
  <2>6. whole = rest * 128 + digit
    OBVIOUS
  <2> HIDE DEF rest, before, digit, number, whole
  <2>5. whole \in Nat /\ (2 * number < UINT64 => whole = number)
    <3>1. CASE octets[v] >= 128
      <4>1. number = before * 128 + digit /\ rest \in Nat /\ (2 * before < UINT64 => rest = before)
        BY <2>2, <2>3, <3>1
      <4> QED
        BY <2>1, <2>4, <2>6, <4>1
    <3>2. CASE ~(octets[v] >= 128)
      <4>1. number = digit /\ rest = 0
        BY <2>2, <2>3, <2>4, <3>2
      <4> QED
        BY <2>4, <2>6, <4>1
    <3> QED
      BY <3>1, <3>2
  <2> HIDE DEF whole
  <2> QED
    BY <2>1, <2>4, <2>5
<1> HIDE DEF arc
<1>8. InHand(octets)'
  <2>1. octets' = octets /\ v' = n /\ n > 0
    BY <1>2, <1>4
  <2>2. CASE octets[n] >= 128
    BY <1>2, <1>6, <2>1, <2>2 DEF InHand
  <2>3. CASE ~(octets[n] >= 128)
    BY <1>2, <2>1, <2>3 DEF InHand
  <2> QED
    BY <2>2, <2>3
<1>9. ASSUME octets[Len(octets)] < 128
      PROVE  /\ printed' \in Seq(Nat) /\ Len(printed') = 1 + Count(n)
             /\ \A m \in 1 .. Len(printed') : printed'[m] = arcs[m]
  <2>1. /\ Count(v) \in Nat /\ Count(n) \in Nat
        /\ octets[n] < 128 => Count(n) = Count(v) + 1
        /\ octets[n] >= 128 => Count(n) = Count(v)
    BY <1>1, <1>4, EndsGrow
  <2>2. octets[n] < 128 => arcs[Count(n) + 1] = number
    BY <1>1, <1>4, <1>9, ArcsOf
  <2>6. octets[n] < 128 => arcs[Count(n) + 1] = oids!Signed(arc) /\ oids!Signed(arc) \in Nat
    <3> SUFFICES ASSUME octets[n] < 128
                 PROVE  arcs[Count(n) + 1] = oids!Signed(arc) /\ oids!Signed(arc) \in Nat
      OBVIOUS
    <3>1. Count(n) + 1 \in DOMAIN arcs
      <4>1. /\ arcs \in Seq(Nat) /\ Len(arcs) = 1 + Count(Len(octets)) /\ Count(Len(octets)) \in Nat
        BY <1>1, <1>4, <1>9, ArcsOf
      <4>2. Count(n) <= Count(Len(octets))
        BY <1>1, <1>4, NoMoreEnds
      <4> HIDE DEF Count
      <4> QED
        BY <2>1, <4>1, <4>2
    <3>2. oids!Signed(number) = number
      BY <2>2, <3>1 DEF oids!ArcsFit
    <3>3. UINT64 \in Nat \ {0}
      BY ProgramsAssumption
    <3> HIDE DEF number
    <3>4. 2 * number < UINT64
      BY <1>6, <3>2, <3>3 DEF oids!Signed
    <3> QED
      BY <1>6, <2>2, <3>2, <3>4
  <2> HIDE DEF Count
  <2>3. /\ printed \in Seq(Nat) /\ Len(printed) = 1 + Count(v)
        /\ \A m \in 1 .. Len(printed) : printed[m] = arcs[m]
    BY <1>2, <1>3, <1>9
  <2>4. CASE octets[n] >= 128
    BY <1>2, <2>1, <2>3, <2>4
  <2>5. CASE octets[n] < 128
    <3> DEFINE last == oids!Signed(arc)
    <3>1. ~(octets[n] >= 128) /\ Count(n) = Count(v) + 1 /\ arcs[Count(n) + 1] = last
      BY <1>5, <2>1, <2>6, <2>5
    <3>7. last \in Nat
      BY <2>5, <2>6
    <3>2. printed' = Append(printed, last)
      BY <1>2, <3>1
    <3> HIDE DEF last
    <3>3. /\ printed' \in Seq(Nat) /\ Len(printed') = Len(printed) + 1
          /\ printed'[Len(printed) + 1] = last
          /\ \A m \in 1 .. Len(printed) : printed'[m] = printed[m]
      BY <3>7, <2>3, <3>2
    <3>4. Len(printed) + 1 = Count(n) + 1
      BY <2>1, <2>3, <3>1
    <3>5. \A m \in 1 .. Len(printed') : m \in 1 .. Len(printed) \/ m = Len(printed) + 1
      BY <2>3, <3>3
    <3>6. ASSUME NEW m \in 1 .. Len(printed') PROVE printed'[m] = arcs[m]
      BY <2>3, <3>1, <3>3, <3>4, <3>5
    <3> QED
      BY <2>1, <3>3, <3>4, <3>6
  <2> QED
    BY <1>5, <2>4, <2>5
<1>10. v' \in 0 .. Len(octets)
  BY <1>2, <1>4
<1> QED
  BY <1>2, <1>8, <1>9, <1>10 DEF Spelling

(* An identifier that is refused, and one that is accepted.                *)
LEMMA SpellsOut ==
    ASSUME identifier \in Identifiers, oids!FirstIsUsual, Spelling,
           oids!BadMessage \/ oids!Finish
    PROVE  IF identifier.arcs = <<>> THEN status' = "EBADMSG"
           ELSE status' = "success" /\ printed' = identifier.arcs
<1> DEFINE octets == identifier.data
           arcs == identifier.arcs
<1>1. /\ octets \in Seq(Octets) /\ Spells(octets, arcs) /\ Len(octets) \in Nat
      /\ octets # <<>> => octets[1] < 128 /\ (arcs # <<>> => octets[1] < 120)
      /\ octets # <<>> => octets[Len(octets)] \in Int /\ Len(octets) > 0
  <2>1. octets \in Seq(Octets) /\ Spells(octets, arcs)
    BY TablesAssumption, ArcsAssumption
  <2>2. octets # <<>> => Len(octets) \in 1 .. Len(octets) /\ Len(octets) > 0
    BY <2>1
  <2> QED
    BY <2>1, <2>2, OctetRange DEF oids!FirstIsUsual, oids!data
<1>2. /\ IF v > 0 /\ octets[v] >= 128 THEN num # <<>> ELSE num = <<>>
      /\ v > 0 /\ octets[Len(octets)] < 128 =>
            /\ printed \in Seq(Nat) /\ Len(printed) = 1 + Cardinality(NumberEnds(octets, v))
            /\ \A n \in 1 .. Len(printed) : printed[n] = arcs[n]
  <2>1. InHand(octets)
    BY DEF Spelling
  <2>2. IF v > 0 /\ octets[v] >= 128 THEN num # <<>> ELSE num = <<>>
    <3>1. \A x \in Nat : num = <<x>> => num # <<>>
      OBVIOUS
    <3>2. CASE v > 0 /\ octets[v] >= 128
      <4>1. PICK x \in Nat : num = <<x>>
        BY <2>1, <3>2, Zenon DEF InHand
      <4> QED
        BY <3>1, <3>2, <4>1, Zenon
    <3>3. CASE ~(v > 0 /\ octets[v] >= 128)
      BY <2>1, <3>3, Zenon DEF InHand
    <3> QED
      BY <3>2, <3>3
  <2> QED
    BY <2>2 DEF Spelling
<1>3. CASE oids!BadMessage
  <2>1. /\ v = Len(octets) /\ (v = 0 \/ num # <<>>) /\ status' = "EBADMSG"
    BY <1>3 DEF oids!BadMessage, oids!Return, oids!data
  <2>2. octets = <<>> \/ octets[Len(octets)] >= 128
    BY <1>1, <1>2, <2>1
  <2>3. arcs = <<>>
    BY <1>1, <2>2, Zenon DEF Spells
  <2> QED
    BY <2>1, <2>3
<1>4. CASE oids!Finish
  <2>1. /\ v = Len(octets) /\ v > 0 /\ num = <<>> /\ status' = "success" /\ printed' = printed
    BY <1>4 DEF oids!Finish, oids!Return, oids!data
  <2>2. octets # <<>> /\ octets[Len(octets)] < 128
    BY <1>1, <1>2, <2>1
  <2>3. /\ arcs \in Seq(Nat) /\ arcs # <<>>
        /\ Len(arcs) = 1 + Cardinality(NumberEnds(octets, Len(octets)))
    BY <1>1, <2>2, ArcsOf
  <2>4. /\ printed \in Seq(Nat) /\ Len(printed) = Len(arcs)
        /\ \A n \in 1 .. Len(printed) : printed[n] = arcs[n]
    BY <1>2, <2>1, <2>2, <2>3
  <2>5. printed = arcs
    BY <2>3, <2>4, SeqEqual
  <2> QED
    BY <2>1, <2>3, <2>5
<1> QED
  BY <1>3, <1>4

LEMMA SpellInvKept == SpellInv /\ [Next]_vars => SpellInv'
<1> SUFFICES ASSUME SpellInv, [Next]_vars, program' = "oids" PROVE SpellInv'
  BY DEF SpellInv
<1>1. program = "oids"
  BY DEF Next, vars
<1>2. /\ identifier \in Identifiers /\ at \in {"search", "sprint", "returned"}
      /\ at = "search" => v = 0 /\ num = <<>>
      /\ at = "sprint" /\ oids!FirstIsUsual /\ oids!ArcsFit => Spelling
      /\ oids!SpelledOut
  BY <1>1 DEF SpellInv
<1>3. oids!Next \/ UNCHANGED vars
  BY <1>1 DEF Next
<1>4. CASE UNCHANGED vars
  BY <1>2, <1>4
  DEF vars, ofOid, SpellInv, Spelling, InHand, oids!SpelledOut, oids!FirstIsUsual,
      oids!ArcsFit, oids!data
<1>5. CASE oids!SearchLower \/ oids!SearchHigher
  BY <1>2, <1>5 DEF oids!SearchLower, oids!SearchHigher, oids!sprint, SpellInv, oids!SpelledOut
<1>6. CASE oids!Found \/ oids!NotFound
  <2>1. /\ identifier' = identifier /\ v' = 0 /\ num' = <<>> /\ at' = "sprint"
    BY <1>2, <1>6 DEF oids!Found, oids!NotFound, oids!sprint
  <2>2. Len(identifier.data) \in Nat
    BY <1>2, TablesAssumption
  <2>3. Spelling'
    BY <2>1, <2>2 DEF Spelling, InHand
  <2> QED
    BY <1>2, <2>1, <2>3 DEF SpellInv, oids!SpelledOut
<1>7. CASE oids!PrintFirst \/ oids!PrintArc
  <2>1. /\ identifier' = identifier /\ at = "sprint" /\ at' = "sprint"
    BY <1>7 DEF oids!PrintFirst, oids!PrintArc, oids!search
  <2>2. /\ oids!FirstIsUsual' => oids!FirstIsUsual
        /\ oids!ArcsFit' => oids!ArcsFit
    BY <2>1 DEF oids!FirstIsUsual, oids!ArcsFit, oids!data
  <2>3. oids!FirstIsUsual' /\ oids!ArcsFit' => Spelling'
    BY <1>2, <1>7, <2>1, <2>2, PrintsFirst, PrintsArc
  <2> QED
    BY <1>2, <2>1, <2>3 DEF SpellInv, oids!SpelledOut
<1>8. CASE oids!BadMessage \/ oids!Finish
  <2>1. /\ identifier' = identifier /\ at = "sprint" /\ at' = "returned"
    BY <1>8 DEF oids!BadMessage, oids!Finish, oids!Return
  <2>2. /\ oids!FirstIsUsual' => oids!FirstIsUsual
        /\ oids!ArcsFit' => oids!ArcsFit
    BY <2>1 DEF oids!FirstIsUsual, oids!ArcsFit, oids!data
  <2>3. oids!SpelledOut'
    BY <1>2, <1>8, <2>1, <2>2, SpellsOut DEF oids!SpelledOut
  <2> QED
    BY <1>2, <2>1, <2>3 DEF SpellInv
<1> QED
  BY <1>3, <1>4, <1>5, <1>6, <1>7, <1>8 DEF oids!Next

(* Of every run, whatever the tables and the identifier: the arcs that     *)
(* Sprint_OID prints are those its octets spell, all of them and in order, *)
(* and octets that end within an arc are refused; if the first octet is a  *)
(* usual one, up to 119, and no arc is 2^63 or more.                       *)
THEOREM ArcsAreSpelledOut == Spec => []SpelledOut
<1>1. Init => SpellInv
  BY SpellInvHoldsAtFirst
<1>2. SpellInv /\ [Next]_vars => SpellInv'
  BY SpellInvKept
<1>3. SpellInv => SpelledOut
  BY DEF SpellInv, SpelledOut
<1> QED
  BY <1>1, <1>2, <1>3, PTL DEF Spec

----------------------------------------------------------------------------
(* showedid.  The numbers of the type float, for each octet that may say    *)
(* what the gamma is.                                                       *)
(* Powers of 2 at hand.                                                    *)
LEMMA Powers ==
    /\ 2^0 = 1 /\ 2^1 = 2 /\ 2^2 = 4 /\ 2^3 = 8 /\ 2^4 = 16 /\ 2^5 = 32 /\ 2^6 = 64 /\ 2^7 = 128
    /\ 2^21 = 2097152 /\ 2^22 = 4194304 /\ 2^23 = 8388608 /\ 2^24 = 16777216
    /\ 2^25 = 33554432 /\ 2^26 = 67108864 /\ 2^27 = 134217728 /\ 2^28 = 268435456
    /\ 2^29 = 536870912 /\ 2^30 = 1073741824
OBVIOUS

Shifts(g) == {shift \in 22 .. 30 : g * 2^shift >= 100 * 2^23 /\ g * 2^(shift - 1) < 100 * 2^23}

LEMMA AShift == \A g \in 1 .. 255 : Shifts(g) # {}
<1> SUFFICES ASSUME NEW g \in 1 .. 255 PROVE \E shift \in 22 .. 30 : shift \in Shifts(g)
  OBVIOUS
<1>1. /\ 22 - 1 = 21 /\ 23 - 1 = 22 /\ 24 - 1 = 23 /\ 25 - 1 = 24 /\ 26 - 1 = 25 /\ 27 - 1 = 26
      /\ 28 - 1 = 27 /\ 29 - 1 = 28 /\ 30 - 1 = 29
  OBVIOUS
<1>2. CASE g >= 200
  <2>1. 22 \in Shifts(g) BY <1>1, <1>2, Powers DEF Shifts
  <2> QED BY <2>1
<1>3. CASE g < 200 /\ g >= 100
  <2>1. 23 \in Shifts(g) BY <1>1, <1>3, Powers DEF Shifts
  <2> QED BY <2>1
<1>4. CASE g < 100 /\ g >= 50
  <2>1. 24 \in Shifts(g) BY <1>1, <1>4, Powers DEF Shifts
  <2> QED BY <2>1
<1>5. CASE g < 50 /\ g >= 25
  <2>1. 25 \in Shifts(g) BY <1>1, <1>5, Powers DEF Shifts
  <2> QED BY <2>1
<1>6. CASE g < 25 /\ g >= 13
  <2>1. 26 \in Shifts(g) BY <1>1, <1>6, Powers DEF Shifts
  <2> QED BY <2>1
<1>7. CASE g < 13 /\ g >= 7
  <2>1. 27 \in Shifts(g) BY <1>1, <1>7, Powers DEF Shifts
  <2> QED BY <2>1
<1>8. CASE g < 7 /\ g >= 4
  <2>1. 28 \in Shifts(g) BY <1>1, <1>8, Powers DEF Shifts
  <2> QED BY <2>1
<1>9. CASE g < 4 /\ g >= 2
  <2>1. 29 \in Shifts(g) BY <1>1, <1>9, Powers DEF Shifts
  <2> QED BY <2>1
<1>10. CASE g = 1
  <2>1. 30 \in Shifts(g) BY <1>1, <1>10, Powers DEF Shifts
  <2> QED BY <2>1
<1> QED
  BY <1>2, <1>3, <1>4, <1>5, <1>6, <1>7, <1>8, <1>9, <1>10

(* A quotient is rounded by a half at most.                                *)
Divisors == {1, 2, 4, 8, 16, 32, 64, 128, 100}
LEMMA RoundedNear ==
    ASSUME NEW a \in Nat, NEW b \in Divisors
    PROVE  /\ showedid!Rounded(a, b) \in Nat
           /\ 2 * b * showedid!Rounded(a, b) <= 2 * a + b /\ 2 * b * showedid!Rounded(a, b) >= 2 * a - b
<1>1. CASE b = 1
  BY <1>1 DEF showedid!Rounded
<1>2. CASE b = 2
  BY <1>2 DEF showedid!Rounded
<1>3. CASE b = 4
  BY <1>3 DEF showedid!Rounded
<1>4. CASE b = 8
  BY <1>4 DEF showedid!Rounded
<1>5. CASE b = 16
  BY <1>5 DEF showedid!Rounded
<1>6. CASE b = 32
  BY <1>6 DEF showedid!Rounded
<1>7. CASE b = 64
  BY <1>7 DEF showedid!Rounded
<1>8. CASE b = 128
  BY <1>8 DEF showedid!Rounded
<1>9. CASE b = 100
  BY <1>9 DEF showedid!Rounded
<1> QED
  BY <1>1, <1>2, <1>3, <1>4, <1>5, <1>6, <1>7, <1>8, <1>9 DEF Divisors

(* showedid!Rounded twice: to a float, and after the addition.                      *)
WithinOne(r, g, u) == r \in Nat /\ 100 * r <= g * u + 100 /\ 100 * r >= g * u - 100

LEMMA RoundedTwice ==
    ASSUME NEW g \in Nat, NEW u \in Nat, NEW q \in Divisors,
           NEW r, r = showedid!Rounded(showedid!Rounded(g * (u * q), 100), q)
    PROVE  WithinOne(r, g, u)
<1> DEFINE a == showedid!Rounded(g * (u * q), 100)
           x == g * u
<1>1. x \in Nat /\ g * (u * q) = x * q /\ x * q \in Nat
  BY DEF Divisors
<1>2. a \in Nat /\ 200 * a <= 2 * (x * q) + 100 /\ 200 * a >= 2 * (x * q) - 100
  <2>1. /\ a \in Nat
        /\ 2 * 100 * a <= 2 * (x * q) + 100 /\ 2 * 100 * a >= 2 * (x * q) - 100
    <3> DEFINE y == g * (u * q)
    <3>1. 100 \in Divisors /\ y \in Nat /\ a = showedid!Rounded(y, 100) /\ x * q = y
      BY <1>1 DEF Divisors
    <3> HIDE DEF y, a
    <3>2. /\ a \in Nat
          /\ 2 * 100 * a <= 2 * y + 100 /\ 2 * 100 * a >= 2 * y - 100
      BY <3>1, RoundedNear
    <3> QED
      BY <3>1, <3>2
  <2> HIDE DEF a, x
  <2> QED
    BY <1>1, <2>1
<1> HIDE DEF a, x
<1>3. r \in Nat /\ 2 * q * r <= 2 * a + q /\ 2 * q * r >= 2 * a - q
  <2>1. a \in Nat
    BY <1>2
  <2>2. \A b \in Divisors : /\ showedid!Rounded(a, b) \in Nat
                            /\ 2 * b * showedid!Rounded(a, b) <= 2 * a + b
                            /\ 2 * b * showedid!Rounded(a, b) >= 2 * a - b
    BY <2>1, RoundedNear
  <2> QED
    BY <2>2, Zenon DEF a
<1>4. 100 * r <= x + 100 /\ 100 * r >= x - 100
  <2>1. CASE q = 1 BY <1>1, <1>2, <1>3, <2>1
  <2>2. CASE q = 2 BY <1>1, <1>2, <1>3, <2>2
  <2>3. CASE q = 4 BY <1>1, <1>2, <1>3, <2>3
  <2>4. CASE q = 8 BY <1>1, <1>2, <1>3, <2>4
  <2>5. CASE q = 16 BY <1>1, <1>2, <1>3, <2>5
  <2>6. CASE q = 32 BY <1>1, <1>2, <1>3, <2>6
  <2>7. CASE q = 64 BY <1>1, <1>2, <1>3, <2>7
  <2>8. CASE q = 128 BY <1>1, <1>2, <1>3, <2>8
  <2>9. CASE q = 100 BY <1>1, <1>2, <1>3, <2>9
  <2> QED
    BY <2>1, <2>2, <2>3, <2>4, <2>5, <2>6, <2>7, <2>8, <2>9 DEF Divisors
<1> QED
  BY <1>3, <1>4 DEF x, WithinOne

(* So the gamma is 1 + g/100 up to one unit of its mantissa.               *)
Approximates(g, m, e, u) ==
    /\ showedid!Gamma(g) = [mantissa |-> m, exp2 |-> e] /\ u = 2^(23 - e) /\ u > 100
    /\ 100 * m <= (100 + g) * u + 100 /\ 100 * m >= (100 + g) * u - 100

LEMMA GammaNear ==
    ASSUME NEW g \in 1 .. 255
    PROVE  \E m, u \in Nat, e \in {0, 1} : Approximates(g, m, e, u)
<1> DEFINE shift == CHOOSE j \in 22 .. 30 : g * 2^j >= 100 * 2^23 /\ g * 2^(j - 1) < 100 * 2^23
           a == showedid!Rounded(g * 2^shift, 100)
           e == IF g < 100 THEN 0 ELSE 1
           r == showedid!Rounded(a, 2^(shift - 23 + e))
<1>1. shift \in 22 .. 30 /\ g * 2^shift >= 100 * 2^23 /\ g * 2^(shift - 1) < 100 * 2^23
  <2>1. \E j \in 22 .. 30 : g * 2^j >= 100 * 2^23 /\ g * 2^(j - 1) < 100 * 2^23
    BY AShift DEF Shifts
  <2> QED
    BY <2>1, Zenon
<1>2. showedid!Gamma(g) = [mantissa |-> 2^(23 - e) + r, exp2 |-> e]
  <2>1. g # 0
    OBVIOUS
  <2> QED
    BY <2>1 DEF showedid!Gamma, showedid!Hundredths
<1> DEFINE p == 2^shift
           w == shift - 23 + e
           q == 2^w
           u == IF g < 100 THEN 8388608 ELSE 4194304
           Powered == p = u * q /\ q \in {1, 2, 4, 8, 16, 32, 64, 128}
<1> HIDE DEF shift, e, p, q, u, w
<1>3. Powered
  <2>1. CASE shift = 22
    <3>1. g >= 100 /\ w = 0
      BY <1>1, <2>1, Powers DEF e, w
    <3>2. p = 4194304
      BY <2>1, Powers DEF p
    <3>3. q = 1
      BY <3>1, Powers DEF q
    <3>4. u = 4194304
      BY <3>1 DEF u
    <3> QED
      BY <3>2, <3>3, <3>4
  <2>2. CASE shift = 23
    <3>1. g >= 100 /\ w = 1
      BY <1>1, <2>2, Powers DEF e, w
    <3>2. p = 8388608
      BY <2>2, Powers DEF p
    <3>3. q = 2
      BY <3>1, Powers DEF q
    <3>4. u = 4194304
      BY <3>1 DEF u
    <3> QED
      BY <3>2, <3>3, <3>4
  <2>3. CASE shift = 24
    <3>1. g < 100 /\ w = 1
      BY <1>1, <2>3, Powers DEF e, w
    <3>2. p = 16777216
      BY <2>3, Powers DEF p
    <3>3. q = 2
      BY <3>1, Powers DEF q
    <3>4. u = 8388608
      BY <3>1 DEF u
    <3> QED
      BY <3>2, <3>3, <3>4
  <2>4. CASE shift = 25
    <3>1. g < 100 /\ w = 2
      BY <1>1, <2>4, Powers DEF e, w
    <3>2. p = 33554432
      BY <2>4, Powers DEF p
    <3>3. q = 4
      BY <3>1, Powers DEF q
    <3>4. u = 8388608
      BY <3>1 DEF u
    <3> QED
      BY <3>2, <3>3, <3>4
  <2>5. CASE shift = 26
    <3>1. g < 100 /\ w = 3
      BY <1>1, <2>5, Powers DEF e, w
    <3>2. p = 67108864
      BY <2>5, Powers DEF p
    <3>3. q = 8
      BY <3>1, Powers DEF q
    <3>4. u = 8388608
      BY <3>1 DEF u
    <3> QED
      BY <3>2, <3>3, <3>4
  <2>6. CASE shift = 27
    <3>1. g < 100 /\ w = 4
      BY <1>1, <2>6, Powers DEF e, w
    <3>2. p = 134217728
      BY <2>6, Powers DEF p
    <3>3. q = 16
      BY <3>1, Powers DEF q
    <3>4. u = 8388608
      BY <3>1 DEF u
    <3> QED
      BY <3>2, <3>3, <3>4
  <2>7. CASE shift = 28
    <3>1. g < 100 /\ w = 5
      BY <1>1, <2>7, Powers DEF e, w
    <3>2. p = 268435456
      BY <2>7, Powers DEF p
    <3>3. q = 32
      BY <3>1, Powers DEF q
    <3>4. u = 8388608
      BY <3>1 DEF u
    <3> QED
      BY <3>2, <3>3, <3>4
  <2>8. CASE shift = 29
    <3>1. g < 100 /\ w = 6
      BY <1>1, <2>8, Powers DEF e, w
    <3>2. p = 536870912
      BY <2>8, Powers DEF p
    <3>3. q = 64
      BY <3>1, Powers DEF q
    <3>4. u = 8388608
      BY <3>1 DEF u
    <3> QED
      BY <3>2, <3>3, <3>4
  <2>9. CASE shift = 30
    <3>1. g < 100 /\ w = 7
      BY <1>1, <2>9, Powers DEF e, w
    <3>2. p = 1073741824
      BY <2>9, Powers DEF p
    <3>3. q = 128
      BY <3>1, Powers DEF q
    <3>4. u = 8388608
      BY <3>1 DEF u
    <3> QED
      BY <3>2, <3>3, <3>4
  <2> QED
    BY <1>1, <2>1, <2>2, <2>3, <2>4, <2>5, <2>6, <2>7, <2>8, <2>9
<1>4. r \in Nat /\ 100 * r <= g * u + 100 /\ 100 * r >= g * u - 100
  <2>1. r = showedid!Rounded(showedid!Rounded(g * (u * q), 100), q)
    BY <1>3 DEF p, q, w
  <2>2. u \in Nat
    BY DEF u
  <2>3. q \in Divisors
    BY <1>3 DEF Divisors
  <2>4. g \in Nat
    OBVIOUS
  <2> HIDE DEF r
  <2>5. WithinOne(r, g, u)
    BY <2>1, <2>2, <2>3, <2>4, RoundedTwice, Zenon
  <2> QED
    BY <2>5 DEF WithinOne
<1> DEFINE z == 23 - e
<1>5. 2^z = u /\ u \in {4194304, 8388608} /\ (u = 8388608 <=> g < 100)
  <2>1. CASE g < 100
    <3>1. z = 23
      BY <2>1 DEF e
    <3> HIDE DEF z
    <3> QED
      BY <2>1, <3>1, Powers DEF u
  <2>2. CASE g >= 100
    <3>1. z = 22
      BY <2>2 DEF e
    <3> HIDE DEF z
    <3> QED
      BY <2>2, <3>1, Powers DEF u
  <2> QED
    BY <2>1, <2>2
<1> DEFINE m == u + r
<1>6. m \in Nat /\ 100 * m <= (100 + g) * u + 100 /\ 100 * m >= (100 + g) * u - 100
  <2> HIDE DEF r
  <2> QED
    BY <1>4, <1>5
<1>7. showedid!Gamma(g) = [mantissa |-> m, exp2 |-> e]
  BY <1>2, <1>5
<1> HIDE DEF m
<1>8. u \in Nat /\ u > 100 /\ e \in {0, 1}
  BY <1>5 DEF e
<1>9. Approximates(g, m, e, u)
  BY <1>5, <1>6, <1>7, <1>8 DEF Approximates, z
<1> QED
  BY <1>6, <1>8, <1>9

(* The digits are those of 100 times the number, cut off.                  *)
Shown(text) == text[1] * 100 + text[2] * 10 + (IF Len(text) = 3 THEN text[3] ELSE 0)

LEMMA Digits ==
    ASSUME NEW m \in Nat, NEW e \in {0, 1}, NEW u, u = 2^(23 - e),
           NEW f, f = [mantissa |-> m, exp2 |-> e]
    PROVE  LET h == Shown(showedid!Float2AsciiString(f, 2))
           IN h \in Nat /\ h * u <= 100 * m /\ 100 * m < (h + 1) * u
<1> DEFINE F == showedid!FractionalPart(f)
           next(x) == (x * 10) % 16777216
           digit(x) == (x * 10) \div 16777216
           front == m \div u
           rest == [n \in 0 .. 2 |-> IF n = 0 THEN F ELSE IF n = 1 THEN next(F) ELSE next(next(F))]
           Is(r) == r = [n \in 0 .. 2 |-> IF n = 0 THEN F ELSE (r[n - 1] * 10) % 2^24]
           chosen == CHOOSE r : Is(r)
           text == showedid!Float2AsciiString(f, 2)
<1>0. u = IF e = 0 THEN 8388608 ELSE 4194304
  <2> DEFINE z == 23 - e
  <2>1. u = 2^z /\ (e = 0 => z = 23) /\ (e # 0 => z = 22)
    OBVIOUS
  <2> HIDE DEF z
  <2>2. CASE e = 0
    BY <2>1, <2>2, Powers
  <2>3. CASE e # 0
    BY <2>1, <2>3, Powers
  <2> QED
    BY <2>2, <2>3
<1>1. F = IF e = 0 THEN (m * 2) % 16777216 ELSE (m * 4) % 16777216
  <2> DEFINE w == e + 1
  <2>1. F = (m * 2^w) % 2^24
    BY DEF showedid!FractionalPart
  <2>2. (e = 0 => w = 1) /\ (e # 0 => w = 2)
    OBVIOUS
  <2> HIDE DEF F, w
  <2>3. 2^w = IF e = 0 THEN 2 ELSE 4
    <3>1. CASE e = 0
      BY <2>2, <3>1, Powers
    <3>2. CASE e # 0
      BY <2>2, <3>2, Powers
    <3> QED
      BY <3>1, <3>2
  <2> QED
    BY <2>1, <2>3, Powers
<1>2. front \in Nat /\ F \in Nat /\ F < 16777216
      /\ \E x \in Nat : m = front * u + x /\ x < u /\ F = IF e = 0 THEN 2 * x ELSE 4 * x
  <2> HIDE DEF F, front
  <2>1. CASE e = 0
    <3>1. u = 8388608
      BY <2>1, <1>0
    <3> QED
      BY <1>1, <2>1, <3>1 DEF front
  <2>2. CASE e = 1
    <3>1. u = 4194304
      BY <2>2, <1>0
    <3> QED
      BY <1>1, <2>2, <3>1 DEF front
  <2> QED
    BY <2>1, <2>2
<1> HIDE DEF F, front
<1>3. Is(rest)
  <2>1. 2^24 = 16777216
    BY Powers
  <2>2. rest[0] = F /\ rest[1] = next(F) /\ rest[2] = next(next(F))
    OBVIOUS
  <2>3. \A n \in 0 .. 2 : n = 0 \/ n = 1 \/ n = 2
    OBVIOUS
  <2> QED
    BY <2>1, <2>2, <2>3
<1>4. Is(chosen)
  BY <1>3
<1> HIDE DEF chosen
<1>5. chosen[0] = F /\ chosen[1] = next(F)
  <2>1. chosen[0] = F /\ chosen[1] = (chosen[0] * 10) % 2^24
    BY <1>4
  <2> QED
    BY <2>1, Powers
<1>6. text = <<front>>
               \o (IF F = 0 THEN <<0>> ELSE [n \in 1 .. 2 |-> (chosen[n - 1] * 10) \div 2^24])
  <2>1. f.mantissa \div 2^(23 - f.exp2) = front
    BY DEF front
  <2>2. text = <<f.mantissa \div 2^(23 - f.exp2)>>
               \o (IF F = 0 THEN <<0>> ELSE [n \in 1 .. 2 |-> (chosen[n - 1] * 10) \div 2^24])
    BY Zenon DEF showedid!Float2AsciiString, chosen, F
  <2> QED
    BY <2>1, <2>2, Zenon
<1> HIDE DEF text, next, digit
<1>8. IF F = 0 THEN text[1] = front /\ text[2] = 0 /\ Len(text) = 2
      ELSE text[1] = front /\ text[2] = digit(F) /\ text[3] = digit(next(F)) /\ Len(text) = 3
  <2>1. CASE F = 0
    <3>1. text = <<front>> \o <<0>>
      BY <1>6, <2>1
    <3> QED
      BY <1>2, <2>1, <3>1
  <2>2. CASE F # 0
    <3> DEFINE digits == [n \in 1 .. 2 |-> (chosen[n - 1] * 10) \div 2^24]
    <3>1. digits[1] = digit(F) /\ digits[2] = digit(next(F))
      <4>1. digits[1] = (chosen[0] * 10) \div 2^24 /\ digits[2] = (chosen[1] * 10) \div 2^24
        OBVIOUS
      <4> QED
        BY <1>5, <4>1, Powers DEF digit
    <3>2. digits \in Seq(Int) /\ Len(digits) = 2
      <4>1. digit(F) \in Int /\ digit(next(F)) \in Int
        BY <1>2 DEF digit, next
      <4>2. digits \in [1 .. 2 -> Int]
        BY <3>1, <4>1
      <4> QED
        BY <4>2
    <3>3. text = <<front>> \o digits
      BY <1>6, <2>2
    <3> HIDE DEF digits
    <3>4. /\ Len(text) = 3 /\ text[1] = front /\ text[2] = digits[1] /\ text[3] = digits[2]
      <4>1. <<front>> \in Seq(Int) /\ Len(<<front>>) = 1 /\ <<front>>[1] = front
        BY <1>2
      <4>2. /\ Len(text) = 1 + 2
            /\ \A n \in 1 .. 1 + 2 : text[n] = IF n <= 1 THEN <<front>>[n] ELSE digits[n - 1]
        <5> DEFINE head == <<front>>
        <5> HIDE DEF head
        <5>1. head \in Seq(Int) /\ Len(head) = 1 /\ text = head \o digits
          BY <3>3, <4>1 DEF head
        <5>2. /\ Len(head \o digits) = Len(head) + Len(digits)
              /\ \A n \in 1 .. Len(head) + Len(digits) :
                    (head \o digits)[n] = IF n <= Len(head) THEN head[n] ELSE digits[n - Len(head)]
          BY <3>2, <5>1, ConcatProperties
        <5> QED
          BY <3>2, <5>1, <5>2 DEF head
      <4> QED
        BY <4>1, <4>2
    <3> QED
      BY <2>2, <3>1, <3>4
  <2> QED
    BY <2>1, <2>2
<1>9. /\ digit(F) \in Nat /\ digit(next(F)) \in Nat
      /\ \E y \in Nat : y < 16777216 /\ 100 * F = (10 * digit(F) + digit(next(F))) * 16777216 + y
  <2>1. \A z \in Nat : /\ (z * 10) \div 16777216 \in Nat /\ (z * 10) % 16777216 \in Nat
                       /\ (z * 10) % 16777216 < 16777216
                       /\ z * 10 = ((z * 10) \div 16777216) * 16777216 + ((z * 10) % 16777216)
    OBVIOUS
  <2>2. /\ digit(F) \in Nat /\ next(F) \in Nat /\ next(F) < 16777216
        /\ F * 10 = digit(F) * 16777216 + next(F)
    BY <1>2, <2>1 DEF digit, next
  <2>3. /\ digit(next(F)) \in Nat /\ next(next(F)) \in Nat /\ next(next(F)) < 16777216
        /\ next(F) * 10 = digit(next(F)) * 16777216 + next(next(F))
    <3> DEFINE z == next(F)
    <3> HIDE DEF z
    <3>1. z \in Nat
      BY <2>2 DEF z
    <3>2. /\ digit(z) \in Nat /\ next(z) \in Nat /\ next(z) < 16777216
          /\ z * 10 = digit(z) * 16777216 + next(z)
      BY <2>1, <3>1 DEF digit, next
    <3> QED
      BY <3>2 DEF z
  <2>4. \A z, a, b, c, y \in Nat :
           z * 10 = a * 16777216 + b /\ b * 10 = c * 16777216 + y
             => 100 * z = (10 * a + c) * 16777216 + y
    OBVIOUS
  <2>5. 100 * F = (10 * digit(F) + digit(next(F))) * 16777216 + next(next(F))
    <3> DEFINE a == digit(F)
               b == next(F)
               c == digit(next(F))
               y == next(next(F))
    <3>1. /\ F \in Nat /\ a \in Nat /\ b \in Nat /\ c \in Nat /\ y \in Nat
          /\ F * 10 = a * 16777216 + b /\ b * 10 = c * 16777216 + y
      BY <1>2, <2>2, <2>3
    <3> HIDE DEF a, b, c, y
    <3>2. 100 * F = (10 * a + c) * 16777216 + y
      BY <2>4, <3>1
    <3> QED
      BY <3>2 DEF a, b, c, y
  <2> QED
    BY <2>2, <2>3, <2>5
<1> DEFINE d == IF F = 0 THEN 0 ELSE 10 * digit(F) + digit(next(F))
           h == text[1] * 100 + text[2] * 10 + (IF Len(text) = 3 THEN text[3] ELSE 0)
<1>10. h = 100 * front + d /\ d \in Nat
  <2>1. CASE F = 0
    BY <1>2, <1>8, <2>1
  <2>2. CASE F # 0
    BY <1>2, <1>8, <1>9, <2>2
  <2> QED
    BY <2>1, <2>2
<1>11. \E y \in Nat : y < 16777216 /\ 100 * F = d * 16777216 + y
  BY <1>2, <1>9
<1> HIDE DEF h, d
<1>12. h \in Nat /\ h * u <= 100 * m /\ 100 * m < (h + 1) * u
  <2>1. PICK x \in Nat : m = front * u + x /\ x < u /\ F = IF e = 0 THEN 2 * x ELSE 4 * x
    BY <1>2
  <2>2. PICK y \in Nat : y < 16777216 /\ 100 * F = d * 16777216 + y
    BY <1>11
  <2>3. CASE e = 0
    <3>1. u = 8388608 /\ m = front * 8388608 + x /\ x < 8388608
      BY <1>0, <2>1, <2>3
    <3>2. 200 * x = d * 16777216 + y
      BY <2>1, <2>2, <2>3
    <3>3. \A a, b, c, z \in Nat :
             200 * b = c * 16777216 + z /\ z < 16777216 =>
               /\ (100 * a + c) * 8388608 <= 100 * (a * 8388608 + b)
               /\ 100 * (a * 8388608 + b) < (100 * a + c + 1) * 8388608
      OBVIOUS
    <3>4. h * 8388608 <= 100 * m /\ 100 * m < (h + 1) * 8388608
      BY <1>2, <1>10, <2>1, <2>2, <3>1, <3>2, <3>3
    <3> QED
      BY <1>2, <1>10, <3>1, <3>4
  <2>4. CASE e = 1
    <3>1. u = 4194304 /\ m = front * 4194304 + x /\ x < 4194304
      BY <1>0, <2>1, <2>4
    <3>2. 400 * x = d * 16777216 + y
      BY <2>1, <2>2, <2>4
    <3>3. \A a, b, c, z \in Nat :
             400 * b = c * 16777216 + z /\ z < 16777216 =>
               /\ (100 * a + c) * 4194304 <= 100 * (a * 4194304 + b)
               /\ 100 * (a * 4194304 + b) < (100 * a + c + 1) * 4194304
      OBVIOUS
    <3>4. h * 4194304 <= 100 * m /\ 100 * m < (h + 1) * 4194304
      BY <1>2, <1>10, <2>1, <2>2, <3>1, <3>2, <3>3
    <3> QED
      BY <1>2, <1>10, <3>1, <3>4
  <2> QED
    BY <2>3, <2>4
<1> QED
  BY <1>12 DEF h, text, Shown

(* Every gamma, as the program converts it.                                *)
LEMMA GammasNear == \A g \in 0 .. 255 : showedid!NearGamma(showedid!DisplayGammaString(g), g)
<1> SUFFICES ASSUME NEW g \in 0 .. 255 PROVE showedid!NearGamma(showedid!DisplayGammaString(g), g)
  OBVIOUS
<1>1. \E m, u \in Nat, e \in {0, 1} : Approximates(g, m, e, u)
  <2>1. CASE g = 0
    <3>1. showedid!Gamma(g) = [mantissa |-> 2^23, exp2 |-> 0] /\ 2^23 = 8388608 /\ 2^(23 - 0) = 8388608
      BY <2>1, Powers DEF showedid!Gamma
    <3>2. Approximates(g, 8388608, 0, 8388608)
      BY <2>1, <3>1 DEF Approximates
    <3> QED
      BY <3>2
  <2>2. CASE g # 0
    <3>1. g \in 1 .. 255
      BY <2>2
    <3> QED
      BY <3>1, GammaNear
  <2> QED
    BY <2>1, <2>2
<1>2. PICK m, u \in Nat, e \in {0, 1} : Approximates(g, m, e, u)
  BY <1>1, Zenon
<1> DEFINE h == Shown(showedid!DisplayGammaString(g))
<1>3. h \in Nat /\ h * u <= 100 * m /\ 100 * m < (h + 1) * u
  <2> DEFINE f == [mantissa |-> m, exp2 |-> e]
  <2>1. h = Shown(showedid!Float2AsciiString(f, 2)) /\ u = 2^(23 - e)
    BY <1>2 DEF showedid!DisplayGammaString, Approximates
  <2> HIDE DEF f
  <2>2. f = [mantissa |-> m, exp2 |-> e]
    BY DEF f
  <2>3. LET shown == Shown(showedid!Float2AsciiString(f, 2))
        IN shown \in Nat /\ shown * u <= 100 * m /\ 100 * m < (shown + 1) * u
    BY <2>1, <2>2, Digits, ZenonT(30)
  <2> QED
    BY <2>1, <2>3, Zenon
<1> HIDE DEF h
<1>4. h \in {100 + g - 1, 100 + g}
  <2>1. /\ u > 100
        /\ h * u <= (100 + g) * u + 100 /\ (100 + g) * u - 100 < (h + 1) * u
    BY <1>2, <1>3 DEF Approximates
  <2>2. h < 100 + g + 1
    BY <1>3, <2>1
  <2>3. h + 1 > 100 + g - 1
    BY <1>3, <2>1
  <2> QED
    BY <1>3, <2>2, <2>3
<1> QED
  BY <1>4 DEF h, showedid!NearGamma, Shown

----------------------------------------------------------------------------
(* The EDID of a display: 128 numbers below 256.                           *)
LEMMA BlockLength ==
    ASSUME NEW block \in Blocks
    PROVE  block \in Seq(Nat) /\ Len(block) = 128
<1> DEFINE O == 0 .. 255
<1>1. block \in Seq(0 .. 255) /\ Len(block) = 128
  BY Zenon DEF Blocks
<1>2. \A x \in O : x \in Nat
  OBVIOUS
<1>3. block \in Seq(O)
  BY <1>1
<1> HIDE DEF O
<1> QED
  BY <1>1, <1>2, <1>3

LEMMA BlockOctets ==
    ASSUME NEW block \in Blocks
    PROVE  \A n \in Nat : 1 <= n /\ n <= 128 => block[n] \in Nat /\ block[n] < 256
<1> DEFINE O == 0 .. 255
<1>1. block \in Seq(0 .. 255) /\ Len(block) = 128
  BY Zenon DEF Blocks
<1>2. \A x \in O : x \in Nat /\ x < 256
  OBVIOUS
<1>3. block \in Seq(O)
  BY <1>1
<1> HIDE DEF O
<1>4. \A n \in 1 .. Len(block) : block[n] \in O
  BY <1>3
<1>5. \A n \in Nat : 1 <= n /\ n <= 128 => n \in 1 .. Len(block)
  BY <1>1
<1> QED
  BY <1>2, <1>4, <1>5

(* The sum of octets, and the one that the program computes, are functions *)
(* of how many octets were added.                                          *)
LEMMA TotalIs ==
    ASSUME NEW octets \in Seq(Nat)
    PROVE  \E f \in [0 .. Len(octets) -> Nat] :
              /\ f[0] = 0 /\ Total(octets) = f[Len(octets)]
              /\ \A n \in 1 .. Len(octets) : f[n] = f[n - 1] + octets[n]
<1> DEFINE N == Len(octets)
           Plus(n, x) == x + octets[n]
           Is(f) == f = [n \in 0 .. N |-> IF n = 0 THEN 0 ELSE Plus(n, f[n - 1])]
           chosen == CHOOSE f : Is(f)
           step == [pair \in (1 .. N) \X Nat |-> Plus(pair[1], pair[2])]
<1>1. N \in Nat /\ \A n \in 1 .. N : octets[n] \in Nat
  OBVIOUS
<1>2. Total(octets) = chosen[N]
  BY Zenon DEF Total
<1>3. \A n \in 1 .. N, x \in Nat : Plus(n, x) \in Nat
  BY <1>1
<1> HIDE DEF N, Plus
<1>4. step \in [(1 .. N) \X Nat -> Nat]
  BY <1>3
<1>5. \A n \in 1 .. N, x \in Nat : step[<<n, x>>] = Plus(n, x)
  OBVIOUS
<1> HIDE DEF step
<1>6. PICK g \in [0 .. N -> Nat] : g[0] = 0 /\ \A n \in 1 .. N : g[n] = step[<<n, g[n - 1]>>]
  BY <1>1, <1>4, Recursion
<1>7. \A n \in 1 .. N : g[n] = Plus(n, g[n - 1])
  <2>1. \A n \in 1 .. N : g[n - 1] \in Nat
    BY <1>1, <1>6
  <2> QED
    BY <1>5, <1>6, <2>1
<1>8. Is(chosen)
  <2>1. \A n \in 0 .. N : g[n] = IF n = 0 THEN 0 ELSE Plus(n, g[n - 1])
    BY <1>1, <1>6, <1>7
  <2>2. Is(g)
    BY <1>6, <2>1
  <2> QED
    BY <2>2, Zenon
<1> HIDE DEF chosen
<1>9. chosen[0] = 0 /\ \A n \in 1 .. N : chosen[n] = Plus(n, chosen[n - 1])
  BY <1>1, <1>8
<1>10. \A n \in 0 .. N : chosen[n] = g[n]
  <2> DEFINE S == {n \in Nat : n <= N => chosen[n] = g[n]}
  <2>1. 0 \in S
    BY <1>1, <1>6, <1>9
  <2>2. ASSUME NEW n \in Nat, n \in S PROVE n + 1 \in S
    <3> SUFFICES ASSUME n + 1 <= N PROVE chosen[n + 1] = g[n + 1]
      OBVIOUS
    <3>1. chosen[n] = g[n] /\ n + 1 \in 1 .. N /\ n + 1 \in 0 .. N /\ n + 1 - 1 = n /\ n + 1 # 0
      BY <1>1, <2>2
    <3>2. chosen[n + 1] = Plus(n + 1, chosen[n + 1 - 1])
      BY <1>9, <3>1
    <3>3. g[n + 1] = Plus(n + 1, g[n + 1 - 1])
      BY <1>7, <3>1
    <3> QED
      BY <3>1, <3>2, <3>3
  <2> HIDE DEF S
  <2>3. \A n \in Nat : n \in S
    BY <2>1, <2>2, Induct, Zenon
  <2> QED
    BY <1>1, <2>3 DEF S
<1>11. N \in 0 .. N
  BY <1>1
<1>12. /\ g \in [0 .. N -> Nat] /\ g[0] = 0 /\ Total(octets) = g[N]
       /\ \A n \in 1 .. N : g[n] = Plus(n, g[n - 1])
  BY <1>2, <1>6, <1>7, <1>10, <1>11
<1> QED
  BY <1>12, Zenon DEF N, Plus

LEMMA ChecksumIs ==
    ASSUME NEW octets \in Seq(Nat)
    PROVE  \E f \in [0 .. Len(octets) -> Nat] :
              /\ f[0] = 0 /\ showedid!Checksum(octets, Len(octets)) = f[Len(octets)]
              /\ \A n \in 1 .. Len(octets) : f[n] = (f[n - 1] + octets[n]) % 256
<1> DEFINE N == Len(octets)
           Plus(n, x) == (x + octets[n]) % 256
           Is(f) == f = [n \in 0 .. N |-> IF n = 0 THEN 0 ELSE Plus(n, f[n - 1])]
           chosen == CHOOSE f : Is(f)
           step == [pair \in (1 .. N) \X Nat |-> Plus(pair[1], pair[2])]
<1>1. N \in Nat /\ \A n \in 1 .. N : octets[n] \in Nat
  OBVIOUS
<1>2. showedid!Checksum(octets, Len(octets)) = chosen[N]
  BY Zenon DEF showedid!Checksum
<1>3. \A n \in 1 .. N, x \in Nat : Plus(n, x) \in Nat
  BY <1>1
<1> HIDE DEF N, Plus
<1>4. step \in [(1 .. N) \X Nat -> Nat]
  BY <1>3
<1>5. \A n \in 1 .. N, x \in Nat : step[<<n, x>>] = Plus(n, x)
  OBVIOUS
<1> HIDE DEF step
<1>6. PICK g \in [0 .. N -> Nat] : g[0] = 0 /\ \A n \in 1 .. N : g[n] = step[<<n, g[n - 1]>>]
  BY <1>1, <1>4, Recursion
<1>7. \A n \in 1 .. N : g[n] = Plus(n, g[n - 1])
  <2>1. \A n \in 1 .. N : g[n - 1] \in Nat
    BY <1>1, <1>6
  <2> QED
    BY <1>5, <1>6, <2>1
<1>8. Is(chosen)
  <2>1. \A n \in 0 .. N : g[n] = IF n = 0 THEN 0 ELSE Plus(n, g[n - 1])
    BY <1>1, <1>6, <1>7
  <2>2. Is(g)
    BY <1>6, <2>1
  <2> QED
    BY <2>2, Zenon
<1> HIDE DEF chosen
<1>9. chosen[0] = 0 /\ \A n \in 1 .. N : chosen[n] = Plus(n, chosen[n - 1])
  BY <1>1, <1>8
<1>10. \A n \in 0 .. N : chosen[n] = g[n]
  <2> DEFINE S == {n \in Nat : n <= N => chosen[n] = g[n]}
  <2>1. 0 \in S
    BY <1>1, <1>6, <1>9
  <2>2. ASSUME NEW n \in Nat, n \in S PROVE n + 1 \in S
    <3> SUFFICES ASSUME n + 1 <= N PROVE chosen[n + 1] = g[n + 1]
      OBVIOUS
    <3>1. chosen[n] = g[n] /\ n + 1 \in 1 .. N /\ n + 1 \in 0 .. N /\ n + 1 - 1 = n /\ n + 1 # 0
      BY <1>1, <2>2
    <3>2. chosen[n + 1] = Plus(n + 1, chosen[n + 1 - 1])
      BY <1>9, <3>1
    <3>3. g[n + 1] = Plus(n + 1, g[n + 1 - 1])
      BY <1>7, <3>1
    <3> QED
      BY <3>1, <3>2, <3>3
  <2> HIDE DEF S
  <2>3. \A n \in Nat : n \in S
    BY <2>1, <2>2, Induct, Zenon
  <2> QED
    BY <1>1, <2>3 DEF S
<1>11. N \in 0 .. N
  BY <1>1
<1>12. /\ g \in [0 .. N -> Nat] /\ g[0] = 0 /\ showedid!Checksum(octets, Len(octets)) = g[N]
       /\ \A n \in 1 .. N : g[n] = Plus(n, g[n - 1])
  BY <1>2, <1>6, <1>7, <1>10, <1>11
<1> QED
  BY <1>12, Zenon DEF N, Plus

(* The sum of octets, which keeps eight bits, is the total modulo 256.     *)
LEMMA ChecksumIsTotal ==
    ASSUME NEW octets \in Seq(Nat)
    PROVE  showedid!Checksum(octets, Len(octets)) = Total(octets) % 256
<1> DEFINE N == Len(octets)
<1>1. \A x, y \in Nat : ((x % 256) + y) % 256 = (x + y) % 256
  OBVIOUS
<1>2. N \in Nat /\ \A n \in 1 .. N : octets[n] \in Nat
  OBVIOUS
<1>3. PICK t \in [0 .. N -> Nat] :
          /\ t[0] = 0 /\ Total(octets) = t[N]
          /\ \A n \in 1 .. N : t[n] = t[n - 1] + octets[n]
  BY TotalIs, ZenonT(30)
<1>4. PICK c \in [0 .. N -> Nat] :
          /\ c[0] = 0 /\ showedid!Checksum(octets, N) = c[N]
          /\ \A n \in 1 .. N : c[n] = (c[n - 1] + octets[n]) % 256
  BY ChecksumIs, ZenonT(30)
<1> HIDE DEF N
<1> DEFINE S == {n \in Nat : n <= N => c[n] = t[n] % 256}
<1>5. 0 \in S
  BY <1>3, <1>4
<1>6. ASSUME NEW n \in Nat, n \in S PROVE n + 1 \in S
  <2> SUFFICES ASSUME n + 1 <= N PROVE c[n + 1] = t[n + 1] % 256
    OBVIOUS
  <2>1. c[n] = t[n] % 256 /\ n \in 0 .. N /\ n + 1 \in 1 .. N /\ n + 1 - 1 = n
    BY <1>2, <1>6
  <2>2. c[n + 1] = (c[n] + octets[n + 1]) % 256
    BY <1>4, <2>1
  <2>3. t[n + 1] = t[n] + octets[n + 1]
    BY <1>3, <2>1
  <2>4. t[n] \in Nat /\ octets[n + 1] \in Nat
    BY <1>2, <1>3, <2>1
  <2> QED
    BY <1>1, <2>1, <2>2, <2>3, <2>4
<1> HIDE DEF S
<1>7. \A n \in Nat : n \in S
  BY <1>5, <1>6, Induct, Zenon
<1>8. c[N] = t[N] % 256
  BY <1>2, <1>7 DEF S
<1> QED
  BY <1>3, <1>4, <1>8, Zenon DEF N

(* A block is taken for an EDID if and only if it is sound.                *)
LEMMA ValidIsSound ==
    ASSUME NEW block \in Blocks
    PROVE  showedid!CheckForValidEdid(block) <=> Sound(block)
<1> DEFINE eight == SubSeq(block, 1, 8)
<1>1. block \in Seq(Nat) /\ Len(block) = 128
  BY BlockLength
<1>2. Len(eight) = 8 /\ \A n \in 1 .. 8 : eight[n] = block[n]
  BY <1>1
<1>3. eight = showedid!EdidHeader <=> /\ eight[1] = 0 /\ eight[8] = 0
                                      /\ \A n \in 2 .. 7 : eight[n] = 255
  <2>1. eight \in Seq(Nat)
    <3>1. \A n \in 1 .. 8 : block[n] \in Nat
      BY BlockOctets
    <3> QED
      BY <3>1, SubSeqProperties
  <2> HIDE DEF eight
  <2>2. eight = <<eight[1], eight[2], eight[3], eight[4], eight[5], eight[6], eight[7], eight[8]>>
    BY <1>2, <2>1
  <2>3. (\A n \in 2 .. 7 : eight[n] = 255) <=>
          /\ eight[2] = 255 /\ eight[3] = 255 /\ eight[4] = 255
          /\ eight[5] = 255 /\ eight[6] = 255 /\ eight[7] = 255
    BY SMT
  <2> QED
    BY <2>2, <2>3 DEF showedid!EdidHeader
<1>4. block[1] = 0 => (eight = showedid!EdidHeader <=> block[8] = 0 /\ \A n \in 2 .. 7 : block[n] = 255)
  BY <1>2, <1>3
<1> HIDE DEF eight
<1>5. showedid!Checksum(block, 128) = Total(block) % 256
  BY <1>1, ChecksumIsTotal
<1> QED
  BY <1>4, <1>5, Zenon DEF eight, showedid!CheckForValidEdid, showedid!EDID_LENGTH, Sound

(* Three numbers of five bits in two octets, and two of twelve in three.   *)
LEMMA FiveBits ==
    ASSUME NEW a \in Nat, NEW b \in Nat, NEW c \in Nat, a < 32, b < 32, c < 32,
           NEW h, h = (a * 4 + b \div 8) * 256 + ((b % 8) * 32 + c)
    PROVE  (h \div 1024) % 32 = a /\ (h \div 32) % 32 = b /\ h % 32 = c
<1>1. PICK q \in Nat, r \in Nat : b = 8 * q + r /\ r < 8 /\ b \div 8 = q /\ b % 8 = r
  <2>1. b \div 8 \in Nat /\ b % 8 \in Nat /\ b = 8 * (b \div 8) + (b % 8) /\ b % 8 < 8
    OBVIOUS
  <2> QED
    BY <2>1
<1>2. h = 1024 * a + (32 * b + c) /\ h = 32 * (32 * a + b) + c
  <2>1. h = (a * 4 + q) * 256 + (r * 32 + c)
    BY <1>1
  <2> QED
    BY <1>1, <2>1
<1>3. h \div 1024 = a
  BY <1>2
<1>4. h \div 32 = 32 * a + b /\ h % 32 = c
  BY <1>2
<1>5. (32 * a + b) % 32 = b /\ a % 32 = a
  OBVIOUS
<1> QED
  BY <1>3, <1>4, <1>5

LEMMA TwelveBits ==
    ASSUME NEW a \in Nat, NEW b \in Nat, a < 4096, b < 4096,
           NEW o, o = (a \div 256) * 16 + b \div 256
    PROVE  (a % 256) + (o \div 16) * 256 = a /\ (b % 256) + (o % 16) * 256 = b
<1>1. PICK q \in Nat, r \in Nat : a = 256 * q + r /\ r < 256 /\ a \div 256 = q /\ a % 256 = r
  <2>1. a \div 256 \in Nat /\ a % 256 \in Nat /\ a = 256 * (a \div 256) + (a % 256) /\ a % 256 < 256
    OBVIOUS
  <2> QED
    BY <2>1
<1>2. PICK p \in Nat, s \in Nat : b = 256 * p + s /\ s < 256 /\ b \div 256 = p /\ b % 256 = s
  <2>1. b \div 256 \in Nat /\ b % 256 \in Nat /\ b = 256 * (b \div 256) + (b % 256) /\ b % 256 < 256
    OBVIOUS
  <2> QED
    BY <2>1
<1>3. p < 16 /\ o = q * 16 + p
  BY <1>1, <1>2
<1>4. o \div 16 = q /\ o % 16 = p
  BY <1>3
<1> QED
  BY <1>1, <1>2, <1>4

(* What a sound block says is what is printed of it.                       *)
LEMMA SaidIsPrinted ==
    ASSUME NEW block \in Blocks, NEW said \in Sayings, SaysSo(block, said)
    PROVE  showedid!Says(showedid!PrintEdid(block), said)
<1> DEFINE text == showedid!PrintEdid(block)
           timing == SubSeq(block, 55, 72)
           letters == said.vendor
           sizes == said.size
<1>1. /\ letters \in [1 .. 3 -> Letters] /\ sizes \in [1 .. 2 -> Sizes]
      /\ said.year \in Years /\ said.gamma \in Gammas
  BY DEF Sayings
<1>2. \A x \in Letters : x \in Nat /\ x < 32
  BY DEF Letters
<1>3. \A x \in Years : x \in Int
  BY DEF Years
<1>4. \A g \in Gammas : showedid!NearGamma(showedid!DisplayGammaString(g), g)
  BY GammasNear DEF Gammas
<1>5. \A x \in Sizes : x \in Nat /\ x < 4096
  BY DEF Sizes
<1> HIDE DEF letters, sizes
<1>6. /\ letters = <<letters[1], letters[2], letters[3]>>
       /\ letters[1] \in Nat /\ letters[2] \in Nat /\ letters[3] \in Nat
       /\ letters[1] < 32 /\ letters[2] < 32 /\ letters[3] < 32
  <2>1. /\ letters = <<letters[1], letters[2], letters[3]>>
        /\ letters[1] \in Letters /\ letters[2] \in Letters /\ letters[3] \in Letters
    BY <1>1
  <2> QED
    BY <1>2, <2>1
<1>7. /\ sizes = <<sizes[1], sizes[2]>>
       /\ sizes[1] \in Nat /\ sizes[2] \in Nat /\ sizes[1] < 4096 /\ sizes[2] < 4096
  <2>1. sizes = <<sizes[1], sizes[2]>> /\ sizes[1] \in Sizes /\ sizes[2] \in Sizes
    BY <1>1
  <2> QED
    BY <1>5, <2>1
<1>8. /\ block[9] = letters[1] * 4 + letters[2] \div 8 /\ block[10] = (letters[2] % 8) * 32 + letters[3]
      /\ block[18] = said.year - 1990 /\ block[24] = said.gamma
      /\ block[67] = sizes[1] % 256 /\ block[68] = sizes[2] % 256
      /\ block[69] = (sizes[1] \div 256) * 16 + sizes[2] \div 256
  BY DEF SaysSo, letters, sizes
<1>9. showedid!ManufacturerAbbrev(block) = letters
  <2> DEFINE h == block[9] * 256 + block[10]
  <2>1. h = (letters[1] * 4 + letters[2] \div 8) * 256 + ((letters[2] % 8) * 32 + letters[3])
    BY <1>8
  <2> HIDE DEF h
  <2>2. (h \div 1024) % 32 = letters[1] /\ (h \div 32) % 32 = letters[2] /\ h % 32 = letters[3]
    BY <1>6, <2>1, FiveBits
  <2>3. showedid!ManufacturerAbbrev(block) = <<(h \div 1024) % 32, (h \div 32) % 32, h % 32>>
    BY Zenon DEF showedid!ManufacturerAbbrev, h
  <2> QED
    BY <1>6, <2>2, <2>3
<1>10. timing[13] = block[67] /\ timing[14] = block[68] /\ timing[15] = block[69]
  <2>1. \A n \in 55 .. 72 : block[n] \in Nat
    BY BlockOctets
  <2> QED
    BY <2>1, SubSeqProperties
<1> HIDE DEF timing
<1>11. /\ showedid!EDID_DET_TIMING_HSIZE(timing) = sizes[1]
      /\ showedid!EDID_DET_TIMING_VSIZE(timing) = sizes[2]
  <2> DEFINE o == block[69]
  <2>1. (sizes[1] % 256) + (o \div 16) * 256 = sizes[1] /\ (sizes[2] % 256) + (o % 16) * 256 = sizes[2]
    BY <1>7, <1>8, TwelveBits
  <2> QED
    BY <1>8, <1>10, <2>1 DEF showedid!EDID_DET_TIMING_HSIZE, showedid!EDID_DET_TIMING_VSIZE
<1>12. /\ text.vendor = showedid!ManufacturerAbbrev(block)
      /\ text.year = block[18] + 1990 /\ text.gamma = showedid!DisplayGammaString(block[24])
      /\ text.timing.hsize = showedid!EDID_DET_TIMING_HSIZE(timing)
      /\ text.timing.vsize = showedid!EDID_DET_TIMING_VSIZE(timing)
  BY DEF showedid!PrintEdid, showedid!PrintDetailedTimingBlock, timing
<1> HIDE DEF text
<1>13. text.year = said.year
  BY <1>1, <1>3, <1>8, <1>12
<1>14. showedid!NearGamma(text.gamma, said.gamma)
  <2>1. showedid!NearGamma(showedid!DisplayGammaString(said.gamma), said.gamma)
    BY <1>1, <1>4, Zenon
  <2>2. text.gamma = showedid!DisplayGammaString(said.gamma)
    BY <1>8, <1>12
  <2> QED
    BY <2>1, <2>2, Zenon
<1>15. text.vendor = said.vendor /\ <<text.timing.hsize, text.timing.vsize>> = said.size
  BY <1>7, <1>9, <1>11, <1>12 DEF letters, sizes
<1> QED
  BY <1>13, <1>14, <1>15, Zenon DEF text, showedid!Says

(* What is on the screen, in the order of the displays, says what the EDID *)
(* of each display does.                                                   *)
Shows(screen, entry) ==
    LET says == screen[entry.display].says
    IN /\ says = {} <=> entry.text = {}
       /\ \A text \in entry.text : \A said \in says : showedid!Says(text, said)

Entries == [display : Nat, text : SUBSET {showedid!PrintEdid(block) : block \in Blocks}]

EdidInv ==
    program = "showedid" =>
       /\ displays \in Screens /\ i \in Nat \ {0}
       /\ at = "edid" => i <= Len(displays)
       /\ printed \in Seq(Entries)
       /\ \A n \in 1 .. Len(printed) : printed[n].display < i /\ Shows(displays, printed[n])
       /\ \A n \in 2 .. Len(printed) : printed[n - 1].display < printed[n].display

LEMMA EdidInvHoldsAtFirst == Init => EdidInv
<1> SUFFICES ASSUME Init, program = "showedid" PROVE EdidInv
  BY DEF EdidInv
<1>1. displays \in Screens /\ at = "locate" /\ i = 1 /\ printed = <<>>
  BY DEF Init, showedid!Init
<1>2. printed \in Seq(Entries) /\ Len(printed) = 0
  BY <1>1
<1> QED
  BY <1>1, <1>2 DEF EdidInv

(* The entry for a display whose EDID could be read.                       *)
LEMMA EntryShows ==
    ASSUME EdidInv, program = "showedid", at = "edid",
           NEW text, text = (IF showedid!CheckForValidEdid(showedid!Block)
                             THEN {showedid!PrintEdid(showedid!Block)} ELSE {}),
           showedid!Block # showedid!NoEdid
    PROVE  [display |-> i, text |-> text] \in Entries /\ Shows(displays, [display |-> i, text |-> text])
<1> DEFINE d == displays[i]
           entry == [display |-> i, text |-> text]
<1>1. displays \in Seq(FaithfulDisplays) /\ i \in Nat \ {0} /\ i <= Len(displays)
  BY ProgramsAssumption DEF EdidInv
<1>2. d \in FaithfulDisplays
  <2>1. i \in 1 .. Len(displays)
    BY <1>1
  <2> QED
    BY <1>1, <2>1
<1>3. d \in Displays /\ showedid!Block = d.block /\ d.block # <<>>
  BY <1>2 DEF FaithfulDisplays, showedid!Block, showedid!NoEdid
<1> DEFINE block == d.block
           says == d.says
<1>4. block \in Blocks /\ says \subseteq Sayings
  BY <1>3 DEF Displays
<1>5. /\ says # {} => Sound(block) /\ \A said \in says : SaysSo(block, said)
      /\ says = {} => ~Sound(block)
  BY <1>2, <1>3, Zenon DEF FaithfulDisplays
<1>6. text = IF showedid!CheckForValidEdid(block) THEN {showedid!PrintEdid(block)} ELSE {}
  BY <1>3, Zenon
<1>7. displays[entry.display].says = says /\ entry.text = text
  OBVIOUS
<1> HIDE DEF block, says
<1>8. showedid!CheckForValidEdid(block) <=> Sound(block)
  BY <1>4, ValidIsSound
<1>9. says = {} <=> text = {}
  BY <1>5, <1>6, <1>8
<1>10. ASSUME NEW said \in says PROVE showedid!Says(showedid!PrintEdid(block), said)
  <2>1. said \in Sayings /\ SaysSo(block, said)
    BY <1>4, <1>5, <1>10
  <2> QED
    BY <1>4, <2>1, SaidIsPrinted, Zenon
<1>11. \A t \in text : \A said \in says : showedid!Says(t, said)
  BY <1>6, <1>10
<1>12. text \subseteq {showedid!PrintEdid(b) : b \in Blocks}
  BY <1>4, <1>6
<1>13. Shows(displays, entry)
  BY <1>7, <1>9, <1>11, Zenon DEF Shows
<1> QED
  BY <1>1, <1>12, <1>13 DEF Entries

LEMMA EdidInvKept == EdidInv /\ [Next]_vars => EdidInv'
<1> SUFFICES ASSUME EdidInv, [Next]_vars, program = "showedid", program' = "showedid"
             PROVE  EdidInv'
  BY DEF EdidInv, Next, vars
<1>1. /\ displays \in Screens /\ i \in Nat \ {0}
      /\ at = "edid" => i <= Len(displays)
      /\ printed \in Seq(Entries)
      /\ \A n \in 1 .. Len(printed) : printed[n].display < i /\ Shows(displays, printed[n])
      /\ \A n \in 2 .. Len(printed) : printed[n - 1].display < printed[n].display
  BY DEF EdidInv
<1>3. ASSUME displays' = displays, i' = i, printed' = printed,
             at' = "edid" => at = "edid" \/ i <= Len(displays)
      PROVE  EdidInv'
  BY <1>1, <1>3 DEF EdidInv
<1>4. CASE UNCHANGED vars
  BY <1>3, <1>4 DEF vars, ofEdid
<1>5. CASE showedid!LocateHandleSize
  BY <1>3, <1>5 DEF showedid!LocateHandleSize, showedid!Return
<1>6. CASE showedid!LocateHandle
  BY <1>3, <1>6 DEF showedid!LocateHandle, showedid!Return
<1>7. CASE showedid!OpenProtocol
  BY <1>3, <1>7 DEF showedid!OpenProtocol, showedid!Return
<1>8. CASE showedid!ShowDisplay
  <2>1. at = "edid" /\ at' = "display" /\ displays' = displays /\ i' = i + 1
    BY <1>8 DEF showedid!ShowDisplay
  <2>2. CASE printed' = printed
    <3>1. \A n \in 1 .. Len(printed) : printed[n].display \in Nat
      <4>1. \A n \in 1 .. Len(printed) : printed[n] \in Entries
        BY <1>1
      <4> QED
        BY <4>1 DEF Entries
    <3>2. \A n \in 1 .. Len(printed) : printed[n].display < i + 1
      BY <1>1, <3>1
    <3> QED
      BY <1>1, <2>1, <2>2, <3>2 DEF EdidInv
  <2>3. CASE printed' # printed
    <3> DEFINE text == IF showedid!CheckForValidEdid(showedid!Block)
                       THEN {showedid!PrintEdid(showedid!Block)} ELSE {}
               entry == [display |-> i, text |-> text]
               n == Len(printed)
    <3>1. showedid!Block # showedid!NoEdid /\ printed' = Append(printed, entry)
      BY <1>8, <2>3, Zenon DEF showedid!ShowDisplay
    <3>2. entry \in Entries /\ Shows(displays, entry)
      BY <2>1, <3>1, EntryShows
    <3>3. entry.display = i
      OBVIOUS
    <3> HIDE DEF text, entry
    <3>4. /\ printed' \in Seq(Entries) /\ Len(printed') = n + 1 /\ printed'[n + 1] = entry
          /\ n \in Nat /\ \A m \in 1 .. n : printed'[m] = printed[m]
      BY <1>1, <3>1, <3>2
    <3> HIDE DEF n
    <3>5. \A m \in 1 .. n : printed[m].display \in Nat
      <4>1. \A m \in 1 .. Len(printed) : printed[m] \in Entries
        BY <1>1
      <4> QED
        BY <4>1 DEF Entries, n
    <3>6. \A m \in 1 .. n + 1 : m \in 1 .. n \/ m = n + 1
      BY <3>4
    <3>7. \A m \in 1 .. n + 1 : printed'[m].display < i' /\ Shows(displays', printed'[m])
      <4>1. \A m \in 1 .. n : printed'[m].display < i' /\ Shows(displays', printed'[m])
        BY <1>1, <2>1, <3>4, <3>5 DEF n
      <4>2. printed'[n + 1].display < i' /\ Shows(displays', printed'[n + 1])
        BY <1>1, <2>1, <3>2, <3>3, <3>4
      <4> QED
        BY <3>6, <4>1, <4>2
    <3>8. \A m \in 2 .. n + 1 : printed'[m - 1].display < printed'[m].display
      <4>1. \A m \in 2 .. n : m \in 1 .. n /\ m - 1 \in 1 .. n
        BY <3>4
      <4>2. \A m \in 2 .. n : printed'[m - 1].display < printed'[m].display
        BY <1>1, <3>4, <4>1 DEF n
      <4>3. n + 1 \in 2 .. n + 1 => printed'[n].display < printed'[n + 1].display
        BY <1>1, <3>3, <3>4 DEF n
      <4> QED
        BY <3>4, <4>2, <4>3
    <3> QED
      BY <1>1, <2>1, <3>4, <3>7, <3>8 DEF EdidInv
  <2> QED
    BY <2>2, <2>3
<1>9. CASE showedid!Finish
  BY <1>3, <1>9 DEF showedid!Finish, showedid!Return
<1>10. CASE showedid!Fault
  BY <1>3, <1>10 DEF showedid!Fault
<1> QED
  BY <1>4, <1>5, <1>6, <1>7, <1>8, <1>9, <1>10 DEF Next, showedid!Next

(* The vendor, the year and the size in millimetres that showedid prints   *)
(* of a display are what its EDID was made to say, and the gamma is or is  *)
(* a hundredth less, for every value of each; the displays come in their   *)
(* order, and of an EDID that is not sound no field is printed             *)
(* (showedid.c:182-206, 362-373).                                          *)
THEOREM EdidsAreShown == Spec => []EdidsShown
<1>1. EdidInv => EdidsShown
  <2> SUFFICES ASSUME EdidInv, program = "showedid", NEW n \in DOMAIN printed
               PROVE  /\ Shows(displays, printed[n])
                      /\ n > 1 => printed[n - 1].display < printed[n].display
    BY Zenon DEF EdidsShown, showedid!EdidsShown, Shows
  <2>1. n \in 1 .. Len(printed) /\ Len(printed) \in Nat
    BY DEF EdidInv
  <2>2. n > 1 => n \in 2 .. Len(printed)
    BY <2>1
  <2> QED
    BY <2>1, <2>2 DEF EdidInv
<1> QED
  BY <1>1, EdidInvHoldsAtFirst, EdidInvKept, PTL DEF Spec

(* An EDID of which one octet was changed, whichever and to whatever, is   *)
(* not taken for one any more: the sum would differ by a multiple of 256   *)
(* (showedid.c:182-206).                                                     *)
THEOREM DamageIsNoticed ==
    ASSUME NEW block \in Blocks, showedid!CheckForValidEdid(block),
           NEW m \in 1 .. 128, NEW x \in 0 .. 255, x # block[m]
    PROVE  ~ showedid!CheckForValidEdid([block EXCEPT ![m] = x])
<1> DEFINE O == 0 .. 255
           N == Len(block)
           damaged == [block EXCEPT ![m] = x]
<1>1. block \in Seq(0 .. 255) /\ N = 128
  BY Zenon DEF Blocks
<1>2. x \in O /\ \A y \in O : y \in Nat /\ y < 256
  OBVIOUS
<1>3. N \in Nat /\ m \in 1 .. N /\ block \in Seq(O)
  BY <1>1
<1>4. \A y \in Seq(O) : y \in Seq(Nat)
  <2> HIDE DEF N, damaged
  <2>1. \A y \in O : y \in Nat
    BY <1>2
  <2> HIDE DEF O
  <2> QED
    BY <2>1
<1> HIDE DEF O
<1>5. /\ damaged \in Seq(O) /\ Len(damaged) = N /\ damaged[m] = x
      /\ \A n \in 1 .. N : block[n] \in O /\ (n # m => damaged[n] = block[n])
  BY <1>2, <1>3
<1> HIDE DEF damaged
<1>6. damaged \in Blocks /\ damaged \in Seq(Nat) /\ block \in Seq(Nat)
  <2>1. damaged \in Seq(0 .. 255) /\ Len(damaged) = 128
    BY <1>1, <1>5 DEF O
  <2> QED
    BY <1>3, <1>4, <1>5, <2>1, Zenon DEF Blocks
<1>7. PICK t \in [0 .. N -> Nat] :
          /\ t[0] = 0 /\ Total(block) = t[N]
          /\ \A n \in 1 .. N : t[n] = t[n - 1] + block[n]
  BY <1>6, TotalIs, Zenon
<1>8. PICK u \in [0 .. N -> Nat] :
          /\ u[0] = 0 /\ Total(damaged) = u[N]
          /\ \A n \in 1 .. N : u[n] = u[n - 1] + damaged[n]
  <2> HIDE DEF N
  <2>1. Len(damaged) = N
    BY <1>5
  <2> QED
    BY <1>6, <2>1, TotalIs
<1> HIDE DEF N
<1> DEFINE S == {n \in Nat : n <= N => /\ n < m => u[n] = t[n]
                                       /\ n >= m => u[n] + block[m] = t[n] + x}
<1>9. x \in Nat /\ x < 256 /\ \A n \in 1 .. N : block[n] \in Nat /\ block[n] < 256
  BY <1>2, <1>5
<1>10. 0 \in S
  BY <1>3, <1>7, <1>8
<1>11. ASSUME NEW n \in Nat, n \in S PROVE n + 1 \in S
  <2> SUFFICES ASSUME n + 1 <= N
               PROVE  /\ n + 1 < m => u[n + 1] = t[n + 1]
                      /\ n + 1 >= m => u[n + 1] + block[m] = t[n + 1] + x
    OBVIOUS
  <2>1. /\ n < m => u[n] = t[n]
        /\ n >= m => u[n] + block[m] = t[n] + x
        /\ n \in 0 .. N /\ n + 1 \in 1 .. N /\ n + 1 - 1 = n /\ m \in Nat
    BY <1>3, <1>11
  <2>2. u[n + 1] = u[n] + damaged[n + 1] /\ t[n + 1] = t[n] + block[n + 1]
    BY <1>7, <1>8, <2>1
  <2>3. /\ t[n] \in Nat /\ u[n] \in Nat /\ block[n + 1] \in Nat /\ block[m] \in Nat /\ x \in Nat
    BY <1>3, <1>7, <1>8, <1>9, <2>1
  <2>4. CASE n + 1 = m
    <3>1. u[n] = t[n] /\ damaged[n + 1] = x
      BY <1>5, <2>1, <2>4
    <3> QED
      BY <2>2, <2>3, <2>4, <3>1
  <2>5. CASE n + 1 # m
    <3>1. damaged[n + 1] = block[n + 1]
      BY <1>5, <2>1, <2>5
    <3>2. n + 1 < m => n < m
      BY <2>1
    <3>3. n + 1 >= m => n >= m
      BY <2>1, <2>5
    <3>4. u[n + 1] = u[n] + block[n + 1] /\ t[n + 1] = t[n] + block[n + 1]
      BY <2>2, <3>1
    <3>5. n >= m => u[n + 1] + block[m] = t[n + 1] + x
      <4> DEFINE a == u[n]
                 b == t[n]
                 c == block[n + 1]
                 y == block[m]
      <4>1. /\ a \in Nat /\ b \in Nat /\ c \in Nat /\ y \in Nat /\ x \in Nat
            /\ n >= m => a + y = b + x
        BY <2>1, <2>3
      <4> HIDE DEF a, b, c, y
      <4>2. n >= m => (a + c) + y = (b + c) + x
        BY <4>1
      <4> QED
        BY <3>4, <4>2 DEF a, b, c, y
    <3> QED
      BY <2>1, <3>2, <3>3, <3>4, <3>5
  <2> QED
    BY <2>4, <2>5
<1> HIDE DEF S
<1>12. \A n \in Nat : n \in S
  BY <1>10, <1>11, Induct, Zenon
<1>13. Total(damaged) + block[m] = Total(block) + x
  <2>1. u[N] + block[m] = t[N] + x
    <3>1. N \in S
      BY <1>3, <1>12, Zenon
    <3>2. N <= N /\ N >= m
      BY <1>3
    <3> QED
      BY <3>1, <3>2, Zenon DEF S
  <2>2. Total(damaged) = u[N] /\ Total(block) = t[N]
    BY <1>7, <1>8
  <2> QED
    BY <2>1, <2>2
<1>14. Total(damaged) \in Nat /\ Total(block) \in Nat
  <2>1. N \in 0 .. N
    BY <1>3
  <2> QED
    BY <1>7, <1>8, <2>1
<1>15. Total(block) % 256 = 0
  BY ValidIsSound DEF Sound
<1>16. Total(damaged) % 256 # 0
  <2> DEFINE T == Total(block)
             U == Total(damaged)
             y == block[m]
  <2>1. U + y = T + x /\ U \in Nat /\ T \in Nat /\ T % 256 = 0 /\ x # y
        /\ y \in Nat /\ y < 256 /\ x \in Nat /\ x < 256
    BY <1>3, <1>9, <1>13, <1>14, <1>15
  <2> HIDE DEF T, U, y
  <2>2. U % 256 # 0
    BY <2>1
  <2> QED
    BY <2>2 DEF U
<1> QED
  BY <1>6, <1>16, ValidIsSound DEF Sound, damaged
=============================================================================
