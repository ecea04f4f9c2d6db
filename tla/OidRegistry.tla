---------------------------- MODULE OidRegistry ----------------------------
(***************************************************************************)
(* listcerts/oid_registry.c: Lookup_OID and Sprint_OID, which listcerts    *)
(* calls one after the other for each object identifier.                   *)
(***************************************************************************)
EXTENDS OidOrder

CONSTANT UINT64     \* 2^64 in the code: as many values as num may have

VARIABLES
    identifier,
    at, i, k,       \* the search: what may still be found is in i .. k - 1
    oid,
    v,              \* octets that Sprint_OID has read
    num,            \* the arc in hand, and is there one?
    arcs,           \* the arcs printed
    ret

search == <<i, k, oid>>
sprint == <<v, num, arcs, ret>>
vars == <<identifier, at, search, sprint>>

data == identifier.data

Init ==
    /\ identifier \in Identifiers
    /\ at = "search" /\ i = 0 /\ k = OID__NR /\ oid = OID__NR
    /\ v = 0 /\ num = <<>> /\ arcs = <<>> /\ ret = "none"

(* One turn of the loop: the entry in the middle is greater, less or it.   *)
middle == (i + k) \div 2
Same == Entry(middle).hash = Hash(data) /\ EntryOctets(middle) = data
Above == Greater(Entry(middle).hash, EntryOctets(middle), Hash(data), data)
Below == Greater(Hash(data), data, Entry(middle).hash, EntryOctets(middle))

SearchLower ==
    /\ at = "search" /\ i < k /\ Above
    /\ k' = middle
    /\ UNCHANGED <<identifier, at, i, oid, sprint>>

(* Seeded bug: the entry that was looked at stays in.                      *)
Behind_not == middle
(* Seeded bug: the entry behind it is left out, too.                       *)
Behind_two == middle + 2
Behind == middle + 1

SearchHigher ==
    /\ at = "search" /\ i < k /\ Below
    /\ i' = Behind
    /\ UNCHANGED <<identifier, at, k, oid, sprint>>

Found ==
    /\ at = "search" /\ i < k /\ Same
    /\ at' = "sprint" /\ oid' = Entry(middle).oid
    /\ UNCHANGED <<identifier, i, k, sprint>>

NotFound ==
    /\ at = "search" /\ i >= k
    /\ at' = "sprint" /\ oid' = OID__NR
    /\ UNCHANGED <<identifier, i, k, sprint>>

----------------------------------------------------------------------------
Return(r) == at' = "returned" /\ ret' = r

(* -EBADMSG: there is no octet, or none behind one with the highest bit.   *)
BadMessage ==
    /\ at = "sprint" /\ v = Len(data) /\ (v = 0 \/ num # <<>>)
    /\ Return("EBADMSG")
    /\ UNCHANGED <<identifier, search, v, num, arcs>>

(* Seeded bug: the first octet is of the base of the others.               *)
FirstArcs_base == <<data[1] \div 128, data[1] % 128>>
FirstArcs == <<data[1] \div 40, data[1] % 40>>

PrintFirst ==
    /\ at = "sprint" /\ v = 0 /\ data # <<>>
    /\ v' = 1 /\ arcs' = FirstArcs
    /\ UNCHANGED <<identifier, at, search, num, ret>>

(* "%ld" prints a number with a sign.                                      *)
Signed(n) == IF 2 * n < UINT64 THEN n ELSE n - UINT64

(* One octet: seven bits of an arc, which goes on if the highest is set.   *)
(* What num has no room for is shifted out.                                *)
PrintArc ==
    /\ at = "sprint" /\ v > 0 /\ v < Len(data)
    /\ LET n   == data[v + 1]
           arc == ((IF num = <<>> THEN 0 ELSE num[1]) * 128 + (n % 128)) % UINT64
       IN IF n >= 128 THEN num' = <<arc>> /\ UNCHANGED arcs
          ELSE num' = <<>> /\ arcs' = Append(arcs, Signed(arc))
    /\ v' = v + 1
    /\ UNCHANGED <<identifier, at, search, ret>>

Finish ==
    /\ at = "sprint" /\ v = Len(data) /\ v > 0 /\ num = <<>>
    /\ Return("success")
    /\ UNCHANGED <<identifier, search, v, num, arcs>>

Next == SearchLower \/ SearchHigher \/ Found \/ NotFound
        \/ BadMessage \/ PrintFirst \/ PrintArc \/ Finish

(* A function of one thread: it goes on until it returns.                  *)
Spec == Init /\ [][Next]_vars /\ WF_vars(Next)

----------------------------------------------------------------------------
(* What is registered under the octets looked for is found, although others*)
(* share its hash and its size, and nothing is found for other octets: the *)
(* search never leaves the entry in question on the wrong side.            *)
FindsRegistered ==
    at # "search" =>
       IF \E o \in Oids : octets_of[o] = data
       THEN oid \in Oids /\ octets_of[oid] = data
       ELSE oid = OID__NR

(* The arcs printed are those of the identifier: "The OID is rendered into *)
(* the buffer in a.b.c.d format" (oid_registry.c:108); octets that end in  *)
(* the middle of an arc are refused.  But the first octet is split without *)
(* regard to what it is, so that 2.40 and above come out wrong; and arcs   *)
(* from 2^63 come out negative or cut off.                                 *)
FirstIsUsual ==
    data # <<>> => data[1] < 128 /\ (identifier.arcs # <<>> => data[1] < 120)
ArcsFit == \A n \in DOMAIN identifier.arcs : Signed(identifier.arcs[n]) = identifier.arcs[n]

SpelledOut ==
    at = "returned" /\ FirstIsUsual /\ ArcsFit =>
       IF identifier.arcs = <<>> THEN ret = "EBADMSG"
       ELSE ret = "success" /\ arcs = identifier.arcs
=============================================================================
