------------------------------ MODULE Readers ------------------------------
(***************************************************************************)
(* The programs that change nothing: efimemory, showfirmware, showedid,    *)
(* showsb and showlenovo, and of listcerts the part that finds a name for  *)
(* an object identifier.                                                   *)
(*                                                                         *)
(* The shell runs one at a time, and none leaves anything behind that      *)
(* another would read: a behaviour is one run of one of them.              *)
(***************************************************************************)
EXTENDS OidArcs, EdidBlocks

CONSTANTS
    FirmwareFails,                                              \* may a service fail?
    UINT64,                                                     \* of OidRegistry
    SIZEOF_DESC, DescSizes, FIRST_COUNT, Types, MaxRegions,     \* of MemoryMap
    Tables, Counts(_), INVALID_HANDLE,                          \* of ShowFirmware
    Screens,                                                    \* of ShowEdid
    Stores, BUFSIZE                                             \* of ShowVariables

(* An SMBIOS structure, with its strings and the numbers of three of them. *)
Structures == [Type : Nat, Handle : Nat, numbers : Seq(Nat), strings : Seq(STRING)]

(* A display has an EDID that is sound and says what it was made to say, or*)
(* one that is not sound any more, or none; and what lies at NULL is taken *)
(* not to be a sound one.                                                  *)
Displays == [gop : BOOLEAN, null : BOOLEAN, block : Blocks \cup {<<>>}, says : SUBSET Sayings]
FaithfulDisplays ==
    {d \in Displays : d.block # <<>> =>
        /\ d.says # {} => Sound(d.block) /\ \A said \in d.says : SaysSo(d.block, said)
        /\ d.says = {} => ~Sound(d.block)}

ASSUME ProgramsAssumption ==
    /\ FirmwareFails \subseteq BOOLEAN
    /\ SIZEOF_DESC \in Nat \ {0} /\ DescSizes \subseteq Nat \ {0} /\ FIRST_COUNT \in Nat
    /\ MaxRegions \in Nat \ {0} /\ Types \subseteq Nat
    /\ Tables \subseteq Seq(Structures) \ {<<>>}
    /\ INVALID_HANDLE \in Nat /\ \A smbios \in Tables : Counts(smbios) \subseteq Nat
    /\ BUFSIZE \in Nat \ {0} /\ UINT64 \in Nat \ {0}
    /\ Screens \subseteq Seq(FaithfulDisplays)

VARIABLES
    program,                                                    \* the one in use
    at, printed, status,                                        \* of each
    regions, desc_size, map_size, held, tries, buf, desc,       \* of efimemory
    table, count, Handle, Index, SmbiosStruct,                  \* of showfirmware
    displays, HandleList, i, Interface,                         \* of showedid
    reads, store, argv, Verbose, DataSize,                      \* of showsb, showlenovo
    identifier, k, oid, v, num                                  \* of Lookup_OID

ofMemory == <<regions, desc_size, map_size, held, tries, buf, desc>>
ofFirmware == <<table, count, Handle, Index, SmbiosStruct>>
ofEdid == <<displays, HandleList, Interface>>
ofVariables == <<reads, store, argv, Verbose, DataSize>>
ofOid == <<identifier, k, oid, v, num>>
vars == <<program, at, printed, status, i, ofMemory, ofFirmware, ofEdid, ofVariables, ofOid>>

efimemory == INSTANCE MemoryMap WITH err <- status
showfirmware == INSTANCE ShowFirmware
showedid == INSTANCE ShowEdid
showvariables == INSTANCE ShowVariables
oids == INSTANCE OidRegistry WITH arcs <- printed, ret <- status

ASSUME StoresAssumption == Stores \subseteq [showvariables!Names -> Seq(Octets)]

Unused == {"unused"}
NoMemory == /\ regions \in Unused /\ desc_size \in Unused /\ map_size \in Unused
            /\ held \in Unused /\ tries \in Unused /\ buf \in Unused /\ desc \in Unused
NoFirmware == /\ table \in Unused /\ count \in Unused /\ Handle \in Unused
              /\ Index \in Unused /\ SmbiosStruct \in Unused
NoDisplays == displays \in Unused /\ HandleList \in Unused /\ Interface \in Unused
NoVariables == /\ reads \in Unused /\ store \in Unused /\ argv \in Unused
               /\ Verbose \in Unused /\ DataSize \in Unused
NoOid == /\ identifier \in Unused /\ k \in Unused /\ oid \in Unused
         /\ v \in Unused /\ num \in Unused
NoIndex == i \in Unused

Init ==
    \/ /\ program = "efimemory" /\ efimemory!Init
       /\ NoFirmware /\ NoDisplays /\ NoVariables /\ NoOid /\ NoIndex
    \/ /\ program = "showfirmware" /\ showfirmware!Init
       /\ NoMemory /\ NoDisplays /\ NoVariables /\ NoOid /\ NoIndex
    \/ /\ program = "showedid" /\ showedid!Init
       /\ NoMemory /\ NoFirmware /\ NoVariables /\ NoOid
    \/ /\ program = "showvariables" /\ showvariables!Init
       /\ NoMemory /\ NoFirmware /\ NoDisplays /\ NoOid /\ NoIndex
    \/ /\ program = "oids" /\ oids!Init
       /\ NoMemory /\ NoFirmware /\ NoDisplays /\ NoVariables

Next ==
    \/ /\ program = "efimemory" /\ efimemory!Next
       /\ UNCHANGED <<program, i, ofFirmware, ofEdid, ofVariables, ofOid>>
    \/ /\ program = "showfirmware" /\ showfirmware!Next
       /\ UNCHANGED <<program, i, ofMemory, ofEdid, ofVariables, ofOid>>
    \/ /\ program = "showedid" /\ showedid!Next
       /\ UNCHANGED <<program, ofMemory, ofFirmware, ofVariables, ofOid>>
    \/ /\ program = "showvariables" /\ showvariables!Next
       /\ UNCHANGED <<program, i, ofMemory, ofFirmware, ofEdid, ofOid>>
    \/ /\ program = "oids" /\ oids!Next
       /\ UNCHANGED <<program, ofMemory, ofFirmware, ofEdid, ofVariables>>

(* A program of one thread: it goes on until it returns.                   *)
Spec == Init /\ [][Next]_vars /\ WF_vars(Next)

----------------------------------------------------------------------------
(* efimemory: no retry of the memory map keeps the buffer of the one       *)
(* before, one retry is enough for descriptors as large as compiled in, as *)
(* many as memory has regions for larger ones; and the whole map that was  *)
(* fetched is printed.                                                     *)
OneRetry == program = "efimemory" => efimemory!OneRetry
WholeMapPrinted == program = "efimemory" => efimemory!WholeMapPrinted

(* showfirmware: the lines show the strings of the first structure of type *)
(* 0, and none of another structure.                                       *)
BiosStrings == program = "showfirmware" => showfirmware!BiosStrings

(* showedid: what is printed for a display is what its EDID says, and an   *)
(* EDID that was damaged is not printed.                                   *)
EdidsShown == program = "showedid" => showedid!EdidsShown

(* showsb and showlenovo: each line shows the variable it names.           *)
ShowsOwn == program = "showvariables" => showvariables!ShowsOwn

(* listcerts: each registered identifier is found and no other, and those  *)
(* that have no name are spelled out.                                      *)
FindsRegistered == program = "oids" => oids!FindsRegistered
SpelledOut == program = "oids" => oids!SpelledOut

(* Each program ends, whatever firmware's tables, variables and handles    *)
(* hold: retries, handles that lead back to one another, a search that     *)
(* finds nothing.  It may end by a fault, or go astray over an overrun.    *)
RunsEnd == <>(at \in {"returned", "faulted", "overrun"})
=============================================================================
