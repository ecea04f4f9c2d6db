------------------------------ MODULE HotKeys ------------------------------
(***************************************************************************)
(* The program showhotkeys/showhotkeys.c: it collects the Key#### entries  *)
(* of the variable store in a list, each put in its place as it is found,  *)
(* and then prints and frees the list from the front.                      *)
(*                                                                         *)
(* The catalogue is the store as GetNextVariableName enumerates it.  The   *)
(* list entry made for the i-th variable is the node i, the static list    *)
(* head is the node 0.                                                     *)
(***************************************************************************)
EXTENDS Naturals, Sequences, FiniteSets

CONSTANTS
    MaxNames,       \* bound: variables in a store
    Catalogues,     \* sequences of [global, key, size, digits] records
    CommandLines,   \* what may follow the program's name
    SupportValues,  \* what BootOptionSupport may hold
    FirmwareFails,  \* subset of BOOLEAN: may a firmware service fail?
    BUFSIZE         \* 8 in the code

ASSUME ParametersAssumption ==
    /\ MaxNames \in Nat
    /\ \A c \in Catalogues : Len(c) \in 0 .. MaxNames /\ DOMAIN c = 1 .. Len(c)
    /\ \A c \in Catalogues : \A i \in DOMAIN c :
          /\ c[i].global \in BOOLEAN /\ c[i].key \in BOOLEAN /\ c[i].size \in Nat
          /\ c[i].size = 16 /\ c[i].key => c[i].digits \in [1 .. 4 -> 0 .. 16]
    /\ SupportValues \subseteq Nat /\ FirmwareFails \subseteq BOOLEAN /\ BUFSIZE \in Nat

VARIABLES
    catalogue, argv,    \* the surroundings: store and command line
    support,            \* the value of BootOptionSupport
    at,                 \* where efi_main has got to
    Verbose, NoSort,    \* the option flags
    name,               \* the variable last enumerated, 0 before the first
    CurSize,            \* the size of the Name buffer, in bytes
    links, Node, PrevNode,
    printed,            \* history: the nodes printed, in order
    status              \* the value returned

surroundings == <<catalogue, argv, support>>
options == <<Verbose, NoSort>>
buffer == <<name, CurSize>>
list == <<links, Node, PrevNode>>
vars == <<surroundings, at, options, buffer, list, printed, status>>

ListHead == 0
Entries == 1 .. MaxNames

(* The nodes from the first to the last, as the ForwardLinks lead; at most *)
(* as many as there are.                                                   *)
Walk(l) ==
    LET step[k \in 0 .. MaxNames + 1] == IF k = 0 THEN ListHead ELSE l.fwd[step[k - 1]]
        size == CHOOSE k \in 0 .. MaxNames + 1 :
                  /\ k = MaxNames + 1 \/ step[k + 1] = ListHead
                  /\ \A m \in 1 .. k : step[m] # ListHead
    IN [k \in 1 .. size |-> step[k]]

List == INSTANCE EfiLink WITH order <- Walk(links)

----------------------------------------------------------------------------
(* The name is L"Key####": StrSize counts its terminator, too.  What the   *)
(* four characters are is not looked at.                                   *)
IsHotKeyVariable(v) == v.global /\ v.size = 16 /\ v.key

(* A character of the four is a digit 0 .. 15, or 16: anything else, which *)
(* is passed over.  The letters A .. F count 0 .. 5 in a decimal number.   *)
WithDigit(n, c) == IF c = 16 THEN n ELSE (n * 10 + (c % 10)) % 2^16

OptionNumber(v) ==
    LET d == v.digits
    IN WithDigit(WithDigit(WithDigit(WithDigit(0, d[1]), d[2]), d[3]), d[4])

CompareOptionNumbers(i, j) ==
    LET m == OptionNumber(catalogue[i])
        n == OptionNumber(catalogue[j])
    IN IF m > n THEN "greater" ELSE IF m < n THEN "less" ELSE "equal"

Init ==
    /\ catalogue \in Catalogues /\ argv \in CommandLines /\ support \in SupportValues
    /\ at = "args" /\ status = "none"
    /\ Verbose = 0 /\ NoSort = 0
    /\ name = 0 /\ CurSize = BUFSIZE
    /\ links = List!InitializeListHead(
                 [fwd |-> [n \in List!Nodes |-> n], back |-> [n \in List!Nodes |-> n]], ListHead)
    /\ Node = ListHead /\ PrevNode = ListHead
    /\ printed = <<>>

Return(s) == at' = "returned" /\ status' = s

(* Options are looked for in command lines of one or two arguments, help   *)
(* in those of one; an argument that is none of them is passed over.       *)
Given(option) == Len(argv) \in {1, 2} /\ option \in {argv[i] : i \in DOMAIN argv}

(* The shell gives no arguments: get_args fails.                           *)
GetArgsFails ==
    /\ at = "args" /\ TRUE \in FirmwareFails
    /\ Return("error")
    /\ UNCHANGED <<surroundings, options, buffer, list, printed>>

ParseArgs ==
    /\ at = "args"
    /\ IF argv = <<"help">>
       THEN Return("success") /\ UNCHANGED options
       ELSE /\ Verbose' = IF Given("verbose") THEN 1 ELSE 0
            /\ NoSort' = IF Given("nosort") THEN 1 ELSE 0
            /\ at' = "support" /\ UNCHANGED status
    /\ UNCHANGED <<surroundings, buffer, list, printed>>

(* DataValue && EFI_BOOT_OPTION_SUPPORT_KEY: any value but 0 will do.      *)
KeysSupported(value) == value # 0

GetSupport ==
    /\ at = "support"
    /\ \E fails \in FirmwareFails :
         IF fails THEN \E s \in {"not_found", "error"} : Return(s)
         ELSE IF ~KeysSupported(support) THEN Return("success")
         ELSE at' = "enumerate" /\ UNCHANGED status
    /\ UNCHANGED <<surroundings, options, buffer, list, printed>>

----------------------------------------------------------------------------
(* The enumeration, and the place of each hot key in the list.             *)

NoMoreNames ==
    /\ at = "enumerate" /\ name = Len(catalogue)
    /\ at' = "print" /\ status' = "not_found"
    /\ UNCHANGED <<surroundings, options, buffer, list, printed>>

(* Either call of GetNextVariableName, or the allocation of an entry: the  *)
(* Name buffer, which nothing reads any more, is left as it was.           *)
EnumerationFails ==
    /\ at = "enumerate" /\ TRUE \in FirmwareFails
    /\ \/ Return("error")
       \/ /\ name < Len(catalogue) /\ IsHotKeyVariable(catalogue[name + 1])
          /\ Return("out_of_resources")
    /\ UNCHANGED <<surroundings, options, buffer, list, printed>>

(* Seeded bug: the larger size is not remembered.                          *)
Grown_not(size) == CurSize
Grown(size) == IF size > CurSize THEN size ELSE CurSize

(* The buffer grows to a name that does not fit and the call is repeated.  *)
NextName ==
    /\ at = "enumerate" /\ name < Len(catalogue)
    /\ name' = name + 1
    /\ CurSize' = Grown(catalogue[name'].size)
    /\ IF IsHotKeyVariable(catalogue[name'])
       THEN /\ links' = List!InsertHeadList(links, ListHead, name')
            /\ IF NoSort = 0
               THEN /\ at' = "sort"
                    /\ Node' = List!GetFirstNode(links', ListHead) /\ PrevNode' = Node'
               ELSE UNCHANGED <<at, Node, PrevNode>>
       ELSE UNCHANGED <<at, list>>
    /\ UNCHANGED <<surroundings, options, printed, status>>

(* Seeded bug: the entry is thought to be in place after one exchange.     *)
SortTurn_once ==
    IF CompareOptionNumbers(PrevNode, Node) = "greater"
    THEN links' = List!SwapListEntries(links, PrevNode, Node) /\ at' = "enumerate" /\ UNCHANGED Node
    ELSE at' = "enumerate" /\ UNCHANGED <<links, Node>>

(* Seeded bug: the loop goes on from the new entry, not from its successor.*)
SortTurn_from_prev ==
    /\ links' = IF CompareOptionNumbers(PrevNode, Node) = "greater"
                THEN List!SwapListEntries(links, PrevNode, Node) ELSE links
    /\ Node' = PrevNode /\ at' = at

(* One turn of the for loop: the new entry, PrevNode, changes places with  *)
(* a smaller Node and stops in front of a greater one.                     *)
SortTurn ==
    CASE CompareOptionNumbers(PrevNode, Node) = "greater" ->
           /\ links' = List!SwapListEntries(links, PrevNode, Node)
           /\ Node' = List!GetNextNode(links', Node)
           /\ at' = at
      [] CompareOptionNumbers(PrevNode, Node) = "less" ->
           at' = "enumerate" /\ UNCHANGED <<links, Node>>
      [] CompareOptionNumbers(PrevNode, Node) = "equal" ->
           /\ Node' = List!GetNextNode(links, Node)
           /\ UNCHANGED <<links, at>>

Sort ==
    /\ at = "sort"
    /\ IF List!IsNull(ListHead, Node) THEN at' = "enumerate" /\ UNCHANGED <<links, Node>>
       ELSE SortTurn
    /\ UNCHANGED <<surroundings, options, buffer, PrevNode, printed, status>>

----------------------------------------------------------------------------
(* Seeded bug: it is Node, which the sort has left somewhere, that is      *)
(* looked at, not the head of the list.                                    *)
Drained_node == List!IsNull(ListHead, Node)
Drained == List!IsListEmpty(links, ListHead)

PrintFirst ==
    /\ at = "print" /\ ~Drained
    /\ Node' = List!GetFirstNode(links, ListHead)
    /\ printed' = Append(printed, Node')
    /\ links' = List!RemoveEntryList(links, Node')
    /\ UNCHANGED <<surroundings, at, options, buffer, PrevNode, status>>

(* The status returned is that of the last GetNextVariableName.            *)
Finish ==
    /\ at = "print" /\ Drained
    /\ Return(status)
    /\ UNCHANGED <<surroundings, options, buffer, list, printed>>

Next == GetArgsFails \/ ParseArgs \/ GetSupport \/ NoMoreNames \/ EnumerationFails \/ NextName \/ Sort
        \/ PrintFirst \/ Finish

(* A program of one thread: it goes on until it returns.                   *)
Spec == Init /\ [][Next]_vars /\ WF_vars(Next)

----------------------------------------------------------------------------
HotKeysUpTo(n) == {i \in 1 .. n : IsHotKeyVariable(catalogue[i])}

(* Every variable keeps its type; the name last enumerated fits the buffer.*)
TypeOK ==
    /\ at \in {"args", "support", "enumerate", "sort", "print", "returned"}
    /\ status \in {"none", "success", "not_found", "error", "out_of_resources"}
    /\ Verbose \in 0 .. 1 /\ NoSort \in 0 .. 1
    /\ name \in 0 .. Len(catalogue) /\ CurSize \in Nat
    /\ name > 0 => catalogue[name].size <= CurSize
    /\ links \in [fwd : [List!Nodes -> List!Nodes], back : [List!Nodes -> List!Nodes]]
    /\ Node \in List!Nodes /\ PrevNode \in List!Nodes
    /\ printed \in Seq(Entries)

(* The program treats the list as efilink.c wants it treated: it puts in   *)
(* only entries that are out, takes out and swaps only entries that are    *)
(* in, and changes the links in no other way.                              *)
ListOperations == List!Spec

(* While names are read and while they are printed the list is in the      *)
(* order of CompareOptionNumbers, equal numbers and all.                   *)
ListSorted ==
    at \in {"enumerate", "print"} /\ NoSort = 0 =>
       LET w == Walk(links)
       IN \A i, j \in DOMAIN w : i < j => CompareOptionNumbers(w[i], w[j]) # "greater"

(* At every moment each hot key met so far is once on the list or has once *)
(* been printed, also in the middle of a swap sequence.                    *)
EachOnce ==
    LET known == printed \o Walk(links)
    IN /\ {known[i] : i \in DOMAIN known} = HotKeysUpTo(name)
       /\ Len(known) = Cardinality(HotKeysUpTo(name))

(* A run that has got to the end of the names (they are at an end when one *)
(* is not found, which is what the program returns then) has printed every *)
(* hot key of the store, in the order of the numbers, or the last found    *)
(* first if sorting is off: the loop that prints and frees the list does   *)
(* not end before the list does.  (Where no name has been read, it was     *)
(* BootOptionSupport that was not found, or the store is empty.)           *)
PrintedAll ==
    at = "returned" /\ status = "not_found" /\ name > 0 =>
       /\ {printed[i] : i \in DOMAIN printed} = HotKeysUpTo(Len(catalogue))
       /\ \A i, j \in DOMAIN printed : i < j =>
            IF NoSort = 1 THEN printed[i] > printed[j]
            ELSE CompareOptionNumbers(printed[i], printed[j]) # "greater"

(* The program comes to an end whatever the store holds.                   *)
Terminates == <>(at = "returned")
=============================================================================
