----------------------------- MODULE MemoryMap -----------------------------
(***************************************************************************)
(* The program efimemory/efimemory.c: fetch the memory map into a buffer   *)
(* of the right size, and print its descriptors.                           *)
(*                                                                         *)
(* The buffer lies in the memory that the map describes: to allocate it    *)
(* may split a free region and so add descriptors, and to free it may join *)
(* what had been split.  The size that GetMemoryMap asks for can therefore *)
(* be too small when the program comes back with it.  It is an assumption  *)
(* about the firmware, which the code shares, that one AllocatePool adds   *)
(* at most one descriptor.                                                 *)
(***************************************************************************)
EXTENDS Naturals, Sequences

CONSTANTS
    SIZEOF_DESC,    \* sizeof(EFI_MEMORY_DESCRIPTOR), 40
    DescSizes,      \* the descriptor sizes firmware may use: 40, 48 ...
    FIRST_COUNT,    \* 31 in the code
    Types,          \* of the regions
    MaxRegions,     \* as many regions as memory can be split into
    FirmwareFails   \* subset of BOOLEAN: may a boot service fail?

VARIABLES
    regions,    \* the firmware's map: the sequence of the regions' types
    desc_size,  \* the size of one descriptor
    at,
    map_size,   \* *map_size: room asked for, then the size of the map
    held,       \* history: the buffers allocated and not freed
    tries,      \* history: the calls of GetMemoryMap
    buf,        \* what is in the buffer
    desc,       \* the offset of the descriptor to be printed
    printed,    \* history: the types printed, in order
    err

vars == <<regions, desc_size, at, map_size, held, tries, buf, desc, printed, err>>

memory_types_count == 14

Init ==
    /\ regions \in UNION {[1 .. n -> Types] : n \in 1 .. MaxRegions}
    /\ desc_size \in DescSizes
    /\ at = "allocate" /\ map_size = SIZEOF_DESC * (FIRST_COUNT + 1)
    /\ held = 0 /\ tries = 0 /\ buf = <<>> /\ desc = 0 /\ printed = <<>> /\ err = "none"

Return(e) == at' = "returned" /\ err' = e

(* AllocatePool, which may split one region.                               *)
Allocate ==
    /\ at = "allocate"
    /\ \/ /\ at' = "get" /\ held' = held + 1 /\ UNCHANGED err
          /\ \/ UNCHANGED regions
             \/ Len(regions) < MaxRegions /\ regions' = <<regions[1]>> \o regions
       \/ /\ TRUE \in FirmwareFails
          /\ Return("out_of_resources") /\ UNCHANGED <<regions, held>>
    /\ UNCHANGED <<desc_size, map_size, tries, buf, desc, printed>>

Needed == desc_size * Len(regions)

(* Seeded bug: no room is added to the size that GetMemoryMap asks for.    *)
Enlarged_not(size) == size
Enlarged(size) == size + SIZEOF_DESC

Free == held - 1

(* GetMemoryMap; if the buffer is too small it is freed, which may join    *)
(* two regions of a type, and the next one is larger than what is needed.  *)
GetMemoryMap ==
    /\ at = "get" /\ tries' = tries + 1
    /\ \/ /\ map_size >= Needed
          /\ at' = "print" /\ buf' = regions /\ map_size' = Needed
          /\ UNCHANGED <<regions, held, err>>
       \/ /\ map_size < Needed
          /\ at' = "allocate" /\ held' = Free /\ map_size' = Enlarged(Needed)
          /\ \/ UNCHANGED regions
             \/ Len(regions) > 1 /\ regions[1] = regions[2] /\ regions' = Tail(regions)
          /\ UNCHANGED <<buf, err>>
       \/ /\ TRUE \in FirmwareFails
          /\ Return("error") /\ UNCHANGED <<regions, buf, held, map_size>>
    /\ UNCHANGED <<desc_size, desc, printed>>

----------------------------------------------------------------------------
(* memory_type_to_str reads memory_types[type], or says "Unknown".         *)
memory_type_to_str(type) ==
    IF type > memory_types_count THEN "Unknown"
    ELSE IF type < memory_types_count THEN "Name" ELSE "Beyond"

(* Seeded bug: the step to the next descriptor is of the size compiled in. *)
NextDescriptor_sizeof == desc + SIZEOF_DESC
NextDescriptor == desc + desc_size

PrintDescriptor ==
    /\ at = "print" /\ desc < map_size
    /\ LET type == buf[desc \div desc_size + 1]
       IN printed' = Append(printed, [type |-> type, name |-> memory_type_to_str(type)])
    /\ desc' = NextDescriptor
    /\ UNCHANGED <<regions, desc_size, at, map_size, held, tries, buf, err>>

Finish ==
    /\ at = "print" /\ desc >= map_size
    /\ held' = Free /\ Return("success")
    /\ UNCHANGED <<regions, desc_size, map_size, tries, buf, desc, printed>>

Next == Allocate \/ GetMemoryMap \/ PrintDescriptor \/ Finish

(* A program of one thread: it goes on until it returns.                   *)
Spec == Init /\ [][Next]_vars /\ WF_vars(Next)

----------------------------------------------------------------------------
(* One buffer is allocated at a time, over all retries, and none is left   *)
(* but the one for which GetMemoryMap failed; and the descriptor's worth   *)
(* of room that each retry adds makes up for the region that allocating    *)
(* the buffer splits: one retry is enough, as long as firmware's           *)
(* descriptors are no larger than the one compiled in.  Where they are, as *)
(* they are in EDK2, a retry is too small only if there are more regions   *)
(* than at the try before, which can happen as often as memory has regions.*)
OneRetry ==
    /\ held = IF at \in {"get", "print"} \/ err = "error" THEN 1 ELSE 0
    /\ tries <= (IF desc_size <= SIZEOF_DESC THEN 2 ELSE MaxRegions + 1)

(* All regions of the map fetched are printed, once each and in its order. *)
WholeMapPrinted ==
    err = "success" => /\ Len(printed) = Len(buf)
                       /\ \A i \in DOMAIN buf : printed[i].type = buf[i]

(* A type that the table of names does not cover is printed as "Unknown"   *)
(* (efimemory.c:32).                                                       *)
UnknownTypes ==
    \A i \in DOMAIN printed :
       printed[i].type \notin 0 .. memory_types_count - 1 => printed[i].name = "Unknown"
=============================================================================
