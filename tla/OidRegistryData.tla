-------------------------- MODULE OidRegistryData --------------------------
(***************************************************************************)
(* The contents of listcerts/oid_registry_data.h: 52 identifiers, in the   *)
(* order of enum OID, and the table that Lookup_OID searches.              *)
(***************************************************************************)
EXTENDS Integers, Sequences

(* oid_data, cut up by oid_index; from 0.                                  *)
RegisteredOctets ==
    LET octets ==
    <<
      <<42, 134, 72, 206, 46, 4, 3>>, <<42, 134, 72, 206, 56, 4, 1>>,
      <<42, 134, 72, 206, 61, 4, 1>>, <<42, 134, 72, 206, 61, 2, 1>>,
      <<42, 134, 72, 134, 247, 13, 1, 1, 1>>, <<42, 134, 72, 134, 247, 13, 1, 1, 2>>,
      <<42, 134, 72, 134, 247, 13, 1, 1, 3>>, <<42, 134, 72, 134, 247, 13, 1, 1, 4>>,
      <<42, 134, 72, 134, 247, 13, 1, 1, 5>>, <<42, 134, 72, 134, 247, 13, 1, 1, 11>>,
      <<42, 134, 72, 134, 247, 13, 1, 1, 12>>, <<42, 134, 72, 134, 247, 13, 1, 1, 13>>,
      <<42, 134, 72, 134, 247, 13, 1, 1, 14>>, <<42, 134, 72, 134, 247, 13, 1, 7, 1>>,
      <<42, 134, 72, 134, 247, 13, 1, 7, 2>>, <<42, 134, 72, 134, 247, 13, 1, 9, 1>>,
      <<42, 134, 72, 134, 247, 13, 1, 9, 3>>, <<42, 134, 72, 134, 247, 13, 1, 9, 4>>,
      <<42, 134, 72, 134, 247, 13, 1, 9, 5>>, <<42, 134, 72, 134, 247, 13, 1, 9, 15>>,
      <<42, 134, 72, 134, 247, 13, 1, 9, 16, 2, 11>>, <<42, 134, 72, 134, 247, 13, 2, 2>>,
      <<42, 134, 72, 134, 247, 13, 2, 4>>, <<42, 134, 72, 134, 247, 13, 2, 5>>,
      <<43, 6, 1, 4, 1, 130, 55, 16, 4>>, <<43, 6, 1, 4, 1, 130, 55, 20, 2>>,
      <<43, 6, 1, 4, 1, 130, 55, 21, 1>>, <<43, 6, 1, 4, 1, 130, 55, 21, 2>>,
      <<43, 6, 1, 5, 5, 7, 1, 1>>, <<43, 14, 3, 2, 26>>, <<85, 4, 3>>, <<85, 4, 4>>,
      <<85, 4, 6>>, <<85, 4, 7>>, <<85, 4, 8>>, <<85, 4, 10>>, <<85, 4, 11>>,
      <<85, 4, 12>>, <<85, 4, 13>>, <<85, 4, 41>>, <<85, 4, 42>>, <<85, 4, 43>>,
      <<85, 4, 44>>, <<85, 29, 14>>, <<85, 29, 15>>, <<85, 29, 17>>, <<85, 29, 18>>,
      <<85, 29, 19>>, <<85, 29, 31>>, <<85, 29, 32>>, <<85, 29, 35>>, <<85, 29, 37>>
    >>
    IN [oid \in 0 .. Len(octets) - 1 |-> octets[oid + 1]]

(* oid_search_table: hash and identifier; from 0.                          *)
RegisteredTable ==
    LET entries ==
    <<
      <<10, 37>>, <<23, 46>>, <<23, 41>>, <<29, 5>>, <<30, 21>>, <<32, 0>>, <<35, 16>>,
      <<35, 9>>, <<36, 50>>, <<37, 38>>, <<43, 1>>, <<54, 47>>, <<54, 42>>, <<60, 6>>,
      <<64, 14>>, <<77, 32>>, <<77, 2>>, <<85, 19>>, <<87, 29>>, <<97, 15>>, <<106, 51>>,
      <<110, 33>>, <<126, 4>>, <<132, 20>>, <<142, 3>>, <<142, 12>>, <<143, 34>>,
      <<146, 43>>, <<160, 13>>, <<161, 48>>, <<173, 24>>, <<179, 44>>, <<195, 7>>,
      <<198, 49>>, <<201, 35>>, <<204, 17>>, <<204, 10>>, <<206, 27>>, <<212, 39>>,
      <<213, 30>>, <<220, 22>>, <<226, 8>>, <<227, 23>>, <<228, 28>>, <<234, 36>>,
      <<237, 18>>, <<237, 11>>, <<239, 26>>, <<239, 25>>, <<244, 31>>, <<245, 45>>,
      <<245, 40>>
    >>
    IN [n \in 0 .. Len(entries) - 1 |-> [hash |-> entries[n + 1][1], oid |-> entries[n + 1][2]]]
=============================================================================
