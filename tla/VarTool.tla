------------------------------ MODULE VarTool ------------------------------
(***************************************************************************)
(* The program var/var.c: create, delete, modify or show a variable of the *)
(* DEMO_GUID.  The shell runs it with one command line after the other;    *)
(* the store is what lasts from one run to the next.                       *)
(***************************************************************************)
EXTENDS VariableStore

CONSTANTS
    Names,          \* of variables
    Texts,          \* the values a user may give: sequences of characters
    Junk,           \* what memory may hold behind a text that has no end
    FirmwareFails,  \* subset of BOOLEAN: may a variable service fail?
    BUFSIZE         \* 2048 in the code

VARIABLES
    store,      \* the variables of the DEMO_GUID
    argv,       \* the arguments: the option, a name, a value
    at,         \* "shell", where efi_main has got to, or "overrun"
    status,     \* what the last run returned
    shown,      \* the value the last run printed, if any
    before      \* history: the store when the last run began

vars == <<store, argv, at, status, shown, before>>

CommandLines ==
    {<<>>, <<"help">>, <<"other">>}
    \cup {<<option, n>> : option \in {"delete", "show", "create"}, n \in Names}
    \cup {<<option, n, t>> : option \in {"create", "modify", "delete"}, n \in Names, t \in Texts}

Name  == argv[2]
Value == argv[3]
Given(option, count) == Len(argv) = count /\ argv[1] = option

Init ==
    /\ store = [n \in Names |-> Absent] /\ before = store
    /\ argv = <<>> /\ at = "shell" /\ status = "none" /\ shown = <<>>

Run(line) ==
    /\ at = "shell"
    /\ at' = "run" /\ argv' = line /\ shown' = <<>> /\ status' = "none"
    /\ before' = store
    /\ UNCHANGED store

Return(s) == at' = "shell" /\ status' = s

(* The shell gives no arguments: get_args fails.                           *)
GetArgsFails ==
    /\ at = "run" /\ TRUE \in FirmwareFails
    /\ Return("error")
    /\ UNCHANGED <<store, argv, shown, before>>

(* --help, and every line that fits no operation.                          *)
Usage ==
    /\ at = "run"
    /\ ~\E option \in {"delete", "show"} : Given(option, 2)
    /\ ~\E option \in {"create", "modify"} : Given(option, 3)
    /\ Return("success")
    /\ UNCHANGED <<store, argv, shown, before>>

(* Seeded bug: the terminator is stored with the text.                     *)
Set_terminated(data) ==
    /\ Return(SetVariable(store[Name], data))
    /\ store' = [store EXCEPT ![Name] = data \o <<"end">>]
    /\ UNCHANGED <<argv, shown, before>>

(* SetVariable(Name, data); the run ends with its status.                  *)
Set(data) ==
    /\ \E fails \in FirmwareFails :
         IF fails THEN Return("error") /\ UNCHANGED store
         ELSE /\ Return(SetVariable(store[Name], data))
              /\ store' = [store EXCEPT ![Name] = data]
    /\ UNCHANGED <<argv, shown, before>>

Delete == at = "run" /\ Given("delete", 2) /\ Set(Absent)

(* Data has room for the value and its terminator.                         *)
FitsData(text) == Len(text) < BUFSIZE

Create == at = "run" /\ Given("create", 3) /\ FitsData(Value) /\ Set(Value)

(* Two bytes a character.                                                  *)
Room == BUFSIZE \div 2

(* Data has BUFSIZE characters of which ZeroMem clears BUFSIZE bytes: a    *)
(* value that fills these has no end.                                      *)
Printed(data) == IF Len(data) = Room THEN {data \o j : j \in Junk} ELSE {data}

Show ==
    /\ at = "run" /\ Given("show", 2)
    /\ \E fails \in FirmwareFails :
         LET s == IF fails THEN "error" ELSE GetVariable(store[Name], Room)
         IN /\ Return(s)
            /\ IF s = "success" THEN shown' \in Printed(store[Name]) ELSE UNCHANGED shown
    /\ UNCHANGED <<store, argv, before>>

ModifyRead ==
    /\ at = "run" /\ Given("modify", 3)
    /\ \E fails \in FirmwareFails :
         LET s == IF fails THEN "error" ELSE GetVariable(store[Name], Room)
         IN IF s # "success" THEN Return(s) ELSE at' = "modify" /\ UNCHANGED status
    /\ UNCHANGED <<store, argv, shown, before>>

ModifyWrite == at = "modify" /\ FitsData(Value) /\ Set(Value)

(* StrCpy writes a longer value over what lies behind Data; what becomes   *)
(* of the run is not followed.                                             *)
Overrun ==
    /\ (at = "run" /\ Given("create", 3)) \/ at = "modify"
    /\ ~FitsData(Value)
    /\ at' = "overrun"
    /\ UNCHANGED <<store, argv, status, shown, before>>

Main == GetArgsFails \/ Usage \/ Delete \/ Create \/ Show \/ ModifyRead \/ ModifyWrite
        \/ Overrun

Next == (\E line \in CommandLines : Run(line)) \/ Main

----------------------------------------------------------------------------
(* A successful run did what the usage text promises of it (var.c:74-77).  *)
(* An empty value is none: create and modify delete the variable then.     *)
(* Nothing is asked of show when the text has as many characters as        *)
(* ZeroMem has cleared, since it prints what lies behind them too.         *)
SuccessMeansDone ==
    at = "shell" /\ status = "success" =>
       /\ Given("delete", 2) => store[Name] = Absent
       /\ Given("create", 3) \/ Given("modify", 3) => store[Name] = Value
       /\ Given("show", 2) /\ Len(store[Name]) < Room => shown = store[Name]
=============================================================================
