--------------------------- MODULE ClearCrashVars ---------------------------
(***************************************************************************)
(* The program clearcrashvars/clearcrashvars.c: print, delete, or print    *)
(* and delete the variables that hold the Linux kernel's crash dumps.      *)
(*                                                                         *)
(* It enumerates the whole store first, noting the crash variables in a    *)
(* list of its own, and works that list off afterwards.                    *)
(***************************************************************************)
EXTENDS VariableStore, FiniteSets

CONSTANTS
    Variables,      \* all variables there may be
    Crash, Long,    \* those of LINUX_EFI_CRASH_GUID; those whose name
                    \* does not fit the BUFSIZE characters of Name
    CommandLines,   \* sequences of words
    FirmwareFails   \* subset of BOOLEAN: may a firmware service fail?

VARIABLES
    store,          \* the variables there are, in the order enumerated
    argv, at, mode,
    Name,           \* the variable enumerated last, or "start"
    CrashVarList,   \* a sequence of variables
    status,
    printed, failed, before     \* history: variables printed, not deleted
                                \* for an error, and the store at first
vars == <<store, argv, at, mode, Name, CrashVarList, status, printed, failed, before>>
history == <<printed, failed, before>>

Elements(s) == {s[i] : i \in DOMAIN s}

(* What GetNextVariableName answers to a caller that had `last': the next  *)
(* name, or EFI_NOT_FOUND behind the last one.  A name that is no longer   *)
(* in the store has no successor.                                          *)
NextName(last) ==
    IF last = "start" /\ store # <<>> THEN store[1]
    ELSE IF \E i \in 1 .. Len(store) - 1 : store[i] = last
    THEN store[1 + CHOOSE i \in 1 .. Len(store) - 1 : store[i] = last]
    ELSE "not_found"

(* The store once v, which is in it, has been deleted.                     *)
Without(v) ==
    LET k == CHOOSE i \in DOMAIN store : store[i] = v
    IN SubSeq(store, 1, k - 1) \o SubSeq(store, k + 1, Len(store))

Stores == {s \in UNION {[1 .. n -> Variables] : n \in 0 .. Cardinality(Variables)} :
             \A i, j \in DOMAIN s : i # j => s[i] # s[j]}

Init ==
    /\ store \in Stores /\ before = store
    /\ argv \in CommandLines
    /\ at = "args" /\ mode = 0 /\ Name = "start" /\ CrashVarList = <<>>
    /\ status = "none" /\ printed = {} /\ failed = {}

Return(s) == at' = "returned" /\ status' = s

(* --verbose is 1, --delete 2, both in either order 3.                     *)
ModeOf(line) ==
    CASE line = <<"verbose">> -> 1
      [] line = <<"delete">> -> 2
      [] line \in {<<"delete", "verbose">>, <<"verbose", "delete">>} -> 3
      [] OTHER -> 0

(* The shell gives no arguments: get_args fails.                           *)
GetArgsFails ==
    /\ at = "args" /\ TRUE \in FirmwareFails
    /\ Return("error")
    /\ UNCHANGED <<store, argv, mode, Name, CrashVarList, history>>

(* Usage is printed for no argument and for --help; other lines that give  *)
(* no mode return 1, those of three and more words success.                *)
ParseArgs ==
    /\ at = "args"
    /\ mode' = ModeOf(argv)
    /\ IF ModeOf(argv) # 0 THEN at' = "enumerate" /\ UNCHANGED status
       ELSE Return(IF argv \in {<<>>, <<"help">>} \/ Len(argv) > 2 THEN "success" ELSE "one")
    /\ UNCHANGED <<store, argv, Name, CrashVarList, history>>

(* Seeded bug: the GUID is not compared.                                   *)
IsCrashVar_any(v) == TRUE
IsCrashVar(v) == v \in Crash

(* Seeded bug: a crash variable is deleted as soon as it is enumerated.    *)
Enumerate_and_delete ==
    /\ at = "enumerate"
    /\ LET next == NextName(Name)
       IN IF next = "not_found"
          THEN at' = "list" /\ status' = "not_found" /\ UNCHANGED <<store, Name>>
          ELSE IF next \in Long
          THEN Return("buffer_too_small") /\ UNCHANGED <<store, Name>>
          ELSE /\ Name' = next /\ UNCHANGED <<at, status>>
               /\ store' = IF IsCrashVar(next) /\ mode # 1
                           THEN Without(next) ELSE store
    /\ UNCHANGED <<argv, mode, CrashVarList, history>>

Enumerate ==
    /\ at = "enumerate"
    /\ LET next == NextName(Name)
       IN \/ /\ next = "not_found"
             /\ at' = "list" /\ status' = "not_found"
             /\ UNCHANGED <<Name, CrashVarList>>
          \/ /\ next # "not_found" /\ next \notin Long
             /\ Name' = next
             /\ CrashVarList' = IF IsCrashVar(next) THEN Append(CrashVarList, next) ELSE CrashVarList
             /\ UNCHANGED <<at, status>>
          \/ /\ next # "not_found" /\ next \in Long
             /\ Return("buffer_too_small") /\ UNCHANGED <<Name, CrashVarList>>
    /\ UNCHANGED <<store, argv, mode, history>>

(* The enumeration, or the allocation of a list entry, fails.              *)
EnumerationFails ==
    /\ at = "enumerate" /\ TRUE \in FirmwareFails
    /\ \/ Return("error")
       \/ NextName(Name) \in Variables \ Long /\ IsCrashVar(NextName(Name))
          /\ Return("out_of_resources")
    /\ UNCHANGED <<store, argv, mode, Name, CrashVarList, history>>

(* Seeded bug: an entry leaves the list only with its variable.            *)
RemoveFirst_deleted(list) == IF mode = 1 THEN list ELSE Tail(list)
RemoveFirst(list) == Tail(list)

(* One turn of the second loop.  The status is that of the last deletion,  *)
(* and where nothing is deleted that of the enumeration.                   *)
WorkOff ==
    /\ at = "list" /\ CrashVarList # <<>>
    /\ LET v == CrashVarList[1]
       IN /\ printed' = IF mode \in {1, 3} THEN printed \cup {v} ELSE printed
          /\ IF mode \in {2, 3}
             THEN \E fails \in FirmwareFails :
                    IF fails
                    THEN status' = "error" /\ failed' = failed \cup {v} /\ UNCHANGED store
                    ELSE /\ status' = "success" /\ UNCHANGED failed
                         /\ store' = Without(v)
             ELSE UNCHANGED <<store, status, failed>>
    /\ CrashVarList' = RemoveFirst(CrashVarList)
    /\ UNCHANGED <<argv, at, mode, Name, before>>

Finish ==
    /\ at = "list" /\ CrashVarList = <<>>
    /\ Return(status)
    /\ UNCHANGED <<store, argv, mode, Name, CrashVarList, history>>

Next == GetArgsFails \/ ParseArgs \/ Enumerate \/ EnumerationFails \/ WorkOff \/ Finish

----------------------------------------------------------------------------
(* Of the store only crash variables ever go, what stays is there once and *)
(* in its order, and nothing goes unless deletion was asked for.           *)
Ahead(s, u, v) == \E i, j \in DOMAIN s : i < j /\ s[i] = u /\ s[j] = v
OnlyCrashDeleted ==
    /\ Elements(store) \subseteq Elements(before)
    /\ Elements(before) \ Elements(store) \subseteq Crash
    /\ \A u, v \in Elements(store) : Ahead(store, u, v) <=> Ahead(before, u, v)
    /\ mode \notin {2, 3} => store = before

(* Once the store has been read, each crash variable that was in it is on  *)
(* the list until it is printed, deleted or both: at the end of the list   *)
(* those still there are the ones that the firmware would not delete.      *)
AllWorkedOff ==
    at = "list" =>
       LET done == (Elements(before) \cap Crash) \ Elements(CrashVarList)
       IN /\ mode \in {1, 3} => printed = done
          /\ mode \in {2, 3} => Elements(store) \cap done = failed

(* If the enumeration breaks off, nothing has been deleted.                *)
BrokenOffKeeps ==
    at = "enumerate" \/ status \in {"buffer_too_small", "out_of_resources"} => store = before
=============================================================================
