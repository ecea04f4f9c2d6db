----------------------------- MODULE OidOrder -----------------------------
(***************************************************************************)
(* The tables of listcerts/oid_registry_data.h, which a script generates,  *)
(* and their order, which the search of oid_registry.c relies on.  Both    *)
(* tables are counted from 0; octets of an identifier from 1.              *)
(***************************************************************************)
EXTENDS Integers, Sequences

CONSTANTS
    OID__NR,            \* the number of identifiers registered
    octets_of,          \* oid_data, cut up by oid_index: the octets of each
    oid_search_table,   \* [hash, oid] in the order of the search
    Identifiers         \* what is looked up: [data, arcs], octets and the arcs that they
                        \* are made of, none where they are no identifier

Oids == 0 .. OID__NR - 1
Octets == 0 .. 255

(* The hash, folded to an octet: bit by bit the sum of its four octets is  *)
(* taken modulo 2.  (The hash of an identifier, of at most 65535 octets,   *)
(* has room in an unsigned; the four octets of the empty one's are 255.)   *)
Bit(a, n) == (a \div 2^n) % 2
Folded(hash) ==
    LET octet(m) == (hash \div 256^m) % 256
        sum[n \in 0 .. 8] ==
            IF n = 0 THEN 0
            ELSE sum[n - 1] + 2^(n - 1) *
                   ((Bit(octet(0), n - 1) + Bit(octet(1), n - 1)
                      + Bit(octet(2), n - 1) + Bit(octet(3), n - 1)) % 2)
    IN sum[8]

Hash(octets) ==
    LET sum[n \in 0 .. Len(octets)] == IF n = 0 THEN Len(octets) - 1 ELSE sum[n - 1] + octets[n] * 33
    IN IF octets = <<>> THEN 0 ELSE Folded(sum[Len(octets)])

(* The order of identifiers: by hash, then by size, then by their octets   *)
(* from the last to the first.  This compares an entry, of a hash stored   *)
(* in the table, with the octets looked for.                               *)
LaterOctet(a, b) ==
    \E n \in DOMAIN a : a[n] > b[n] /\ \A m \in DOMAIN a : m > n => a[m] = b[m]

Greater(hash, a, xhash, b) ==
    \/ hash > xhash
    \/ hash = xhash /\ Len(a) > Len(b)
    \/ hash = xhash /\ Len(a) = Len(b) /\ LaterOctet(a, b)

Entry(j) == oid_search_table[j]
EntryOctets(j) == octets_of[Entry(j).oid]

ASSUME TablesAssumption ==
    /\ OID__NR \in Nat
    /\ octets_of \in [Oids -> Seq(Octets)]
    /\ oid_search_table \in [Oids -> [hash : Octets, oid : Oids]]
    /\ \A id \in Identifiers : id.data \in Seq(Octets)

(* "OIDs are stored in ascending order of hash value then ascending order  *)
(* of size and then in ascending order of reverse value"; each is there,   *)
(* with its hash.                                                          *)
ASSUME OrderAssumption ==
    /\ \A o \in Oids : \E j \in Oids : Entry(j).oid = o
    /\ \A j \in Oids : Entry(j).hash = Hash(EntryOctets(j))
    /\ \A j, n \in Oids :
          j < n => Greater(Entry(n).hash, EntryOctets(n), Entry(j).hash, EntryOctets(j))
=============================================================================
