----------------------------- MODULE MCHotKeys -----------------------------
(* HotKeys over small variable stores: three or four hot keys in every     *)
(* order of enumeration, among them equal ones, numbers with letters,      *)
(* names whose #### are no digits, and variables that are no hot keys.     *)
EXTENDS HotKeys, TLC

Hot(d) == [global |-> TRUE, key |-> TRUE, size |-> 16, digits |-> d]
Lang   == [global |-> TRUE, key |-> FALSE, size |-> 10, digits |-> <<>>]
Long   == [global |-> FALSE, key |-> FALSE, size |-> 40, digits |-> <<>>]
Vendor == [Hot(<<0, 0, 0, 1>>) EXCEPT !.global = FALSE]

Numbers == {<<0, 0, 0, 0>>, <<0, 0, 0, 2>>, <<0, 0, 1, 0>>, <<0, 0, 0, 10>>, <<0, 0, 16, 2>>}

HotKeyStores == UNION {[1 .. n -> {Hot(d) : d \in Numbers}] : n \in 0 .. 4}
MixedStores  == [1 .. 4 -> {Hot(<<0, 0, 0, 0>>), Hot(<<0, 0, 0, 2>>), Lang, Long, Vendor}]

AnyStore == HotKeyStores \cup MixedStores

AnyCommandLine == {<<>>, <<"help">>, <<"verbose">>, <<"nosort">>, <<"other">>,
                   <<"verbose", "nosort">>, <<"nosort", "help">>,
                   <<"nosort", "verbose", "other">>}
=============================================================================
