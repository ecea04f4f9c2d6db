------------------------------ MODULE OidArcs ------------------------------
(***************************************************************************)
(* The arcs that the octets of an object identifier stand for, as X.690,   *)
(* 8.19 has them: what Sprint_OID of listcerts/oid_registry.c is to print. *)
(* An octet below 128 ends a number of base 128, and the first number      *)
(* holds two arcs.                                                         *)
(***************************************************************************)
EXTENDS OidOrder, FiniteSets

(* The octets up to the n-th that end a number.                            *)
NumberEnds(octets, n) == {m \in 1 .. n : octets[m] < 128}

(* The number that the octets spell up to the n-th, since the last end.    *)
Number(octets) ==
    LET number[n \in 0 .. Len(octets)] ==
            IF n = 0 THEN 0
            ELSE (IF n > 1 /\ octets[n - 1] >= 128 THEN number[n - 1] ELSE 0) * 128 + (octets[n] % 128)
    IN number

Spells(octets, arcs) ==
    IF octets = <<>> \/ octets[Len(octets)] >= 128 THEN arcs = <<>>
    ELSE /\ arcs \in Seq(Nat)
         /\ Len(arcs) = 1 + Cardinality(NumberEnds(octets, Len(octets)))
         /\ \A n \in NumberEnds(octets, Len(octets)) :
              LET place == Cardinality(NumberEnds(octets, n))
                  number == Number(octets)[n]
              IN IF place > 1 THEN arcs[place + 1] = number
                 ELSE /\ arcs[1] = IF number < 80 THEN number \div 40 ELSE 2
                      /\ arcs[2] = number - 40 * arcs[1]

ASSUME ArcsAssumption == \A id \in Identifiers : Spells(id.data, id.arcs)
=============================================================================
