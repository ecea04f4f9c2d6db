--------------------------- MODULE ShowFirmware ---------------------------
(***************************************************************************)
(* The program showfirmware/showfirmware.c: look for the structure of type *)
(* 0 in the SMBIOS table and print three of its strings.                   *)
(*                                                                         *)
(* The table is a sequence of structures, and a pointer into it the number *)
(* of one, or a greater number: what lies behind the table may hold        *)
(* anything.  Structures are found by their handles, from the start of the *)
(* table each time.                                                        *)
(***************************************************************************)
EXTENDS Naturals, Sequences

CONSTANTS
    Tables,         \* sequences of [Type, Handle, numbers, strings]: numbers are those
                    \* of the strings for vendor, version and release date
    Counts(_),      \* what the entry point of a table may state as their number
    INVALID_HANDLE, \* 16#FFFF, which a structure may have for its handle, too
    FirmwareFails   \* subset of BOOLEAN: may a service fail?

Junk == "junk"      \* text from where no string is
Null == "(null)"    \* how Print shows a text for which there was no memory

VARIABLES
    table, count,   \* SMBIOS, NumberOfSmbiosStructures
    at, Handle, Index,
    SmbiosStruct,   \* the structure whose strings are printed
    printed, status

vars == <<table, count, at, Handle, Index, SmbiosStruct, printed, status>>

Init ==
    /\ table \in Tables /\ count \in Counts(table)
    /\ at = "table" /\ Handle = INVALID_HANDLE /\ Index = 0 /\ SmbiosStruct = 1
    /\ printed = <<>> /\ status = "none"

Return(s) == at' = "returned" /\ status' = s

(* No table, or one without the anchor "_SM_", for which the status is     *)
(* that of a call that did not fail.                                       *)
NoTable ==
    /\ at = "table" /\ TRUE \in FirmwareFails
    /\ \E s \in {"not_found", "success"} : Return(s)
    /\ UNCHANGED <<table, count, Handle, Index, SmbiosStruct, printed>>

(* LibGetSmbiosStructure is given INVALID_HANDLE: it asks for the first.   *)
FirstHandle ==
    /\ at = "table"
    /\ at' = "search" /\ Handle' = table[1].Handle
    /\ UNCHANGED <<table, count, Index, SmbiosStruct, printed, status>>

(* Seeded bug: the handle is that of the structure found.                  *)
HandleBehind_same(p) == table[p].Handle
HandleBehind(p) == IF p < Len(table) THEN table[p + 1].Handle ELSE INVALID_HANDLE

(* The handle is that of some structure, the first with it is found, and   *)
(* Handle moves on to the structure behind; it is never found missing.     *)
LibGetSmbiosStructure ==
    LET p == CHOOSE q \in DOMAIN table :
               /\ table[q].Handle = Handle
               /\ \A r \in 1 .. q - 1 : table[r].Handle # Handle
    IN /\ Handle' = HandleBehind(p)
       /\ SmbiosStruct' = p
       /\ at' = IF table[p].Type = 0 THEN "strings" ELSE "search"

More == Index < count /\ Handle # INVALID_HANDLE

Search ==
    /\ at = "search" /\ More
    /\ LibGetSmbiosStructure
    /\ Index' = Index + 1
    /\ UNCHANGED <<table, count, printed, status>>

NotThere ==
    /\ at = "search" /\ ~More
    /\ Return("success")
    /\ UNCHANGED <<table, count, Handle, Index, SmbiosStruct, printed>>

(* LibGetSmbiosString: the text, and where the caller's pointer is left.   *)
(* A structure without strings ends like one whose first string is empty;  *)
(* for any other that is not there the pointer is moved to the structure   *)
(* behind, and the text is at NULL.                                        *)
LibGetSmbiosString(p, n) ==
    IF p > Len(table) THEN [text |-> Junk, structure |-> p]
    ELSE LET strings == table[p].strings
         IN IF n <= Len(strings) THEN [text |-> strings[n], structure |-> p]
            ELSE IF n = 1 THEN [text |-> "", structure |-> p]
            ELSE [text |-> Junk, structure |-> p + 1]

String == LibGetSmbiosString(SmbiosStruct, Len(printed) + 1)

(* ASCII_to_UCS2 gets no memory, or copies the text.                       *)
PrintString ==
    /\ at = "strings" /\ Len(printed) < 3
    /\ SmbiosStruct' = String.structure
    /\ \E fails \in FirmwareFails :
         printed' = Append(printed, IF fails THEN Null ELSE String.text)
    /\ UNCHANGED <<table, count, at, Handle, Index, status>>

(* To measure a text at NULL may raise an exception, which ends it all.    *)
Fault ==
    /\ at = "strings" /\ Len(printed) < 3 /\ String.text = Junk
    /\ at' = "faulted"
    /\ UNCHANGED <<table, count, Handle, Index, SmbiosStruct, printed, status>>

Finish ==
    /\ at = "strings" /\ Len(printed) = 3
    /\ Return("success")
    /\ UNCHANGED <<table, count, Handle, Index, SmbiosStruct, printed>>

Next == NoTable \/ FirstHandle \/ Search \/ NotThere \/ PrintString \/ Fault \/ Finish

(* A program of one thread: it goes on until it returns.                   *)
Spec == Init /\ [][Next]_vars /\ WF_vars(Next)

----------------------------------------------------------------------------
BiosAt == {p \in DOMAIN table : table[p].Type = 0}

(* What the program relies on: handles that tell the structures apart, a   *)
(* count that covers the first structure of type 0, and in that one the    *)
(* three strings numbered from 1.                                          *)
Conforming ==
    /\ \A p, q \in DOMAIN table : table[p].Handle = table[q].Handle => p = q
    /\ \A p \in DOMAIN table : table[p].Handle # INVALID_HANDLE
    /\ \A p \in BiosAt : \/ \E q \in BiosAt : q < p
                         \/ /\ p <= count /\ table[p].numbers = <<1, 2, 3>>
                            /\ Len(table[p].strings) >= 3

(* In such a table the walk from handle to handle reaches the structure,   *)
(* and the lines show its vendor, version and release date, in this order, *)
(* although the pointer is the one that LibGetSmbiosString moves; without  *)
(* such a structure nothing is printed.                                    *)
BiosStrings ==
    at = "returned" /\ Index > 0 /\ Conforming =>
       IF BiosAt = {} THEN printed = <<>>
       ELSE LET bios == table[CHOOSE p \in BiosAt : \A q \in BiosAt : p <= q]
            IN /\ Len(printed) = 3
               /\ \A n \in 1 .. 3 : printed[n] \in {bios.strings[bios.numbers[n]], Null}
=============================================================================
