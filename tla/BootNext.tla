------------------------------ MODULE BootNext ------------------------------
(***************************************************************************)
(* The program bootnext/bootnext.c: show, set or delete BootNext, the      *)
(* number of the boot option to be tried next.                             *)
(*                                                                         *)
(* An argument is a sequence of CHAR16 codes.                              *)
(***************************************************************************)
EXTENDS VariableStore

CONSTANTS
    Arguments,      \* what the user may type as the one argument
    Initial,        \* what BootNext may hold beforehand
    Junk,           \* the upper 16 bits of a BootValue never assigned
    FirmwareFails   \* subset of BOOLEAN: may a variable service fail?

VARIABLES
    store,      \* BootNext: <<>> or its one 16-bit value
    argv,       \* the command line: what it asks for, and the text of "set"
    at,         \* "shell", or "run" while efi_main runs
    status,     \* what the last run returned
    shown,      \* history: the numbers the last run printed, at most one
    before      \* history: the store when the last run began

vars == <<store, argv, at, status, shown, before>>

(* No argument shows, one that is no option sets; "many" are not looked at.*)
CommandLines == [ask : {"show", "help", "delete", "many"}, text : {<<>>}]
                \cup [ask : {"set"}, text : Arguments]
Asked(what) == argv.ask \in what

(* The ranges '0' .. '9', 'A' .. 'F' and 'a' .. 'f'.                       *)
IsHexDigit(c) == c \in 48 .. 57 \cup 65 .. 70 \cup 97 .. 102

(* The argument passes: four characters, each a hexadecimal digit once it  *)
(* is cut to a char.                                                       *)
check_arg(str) ==
    Len(str) = 4 /\ \A i \in DOMAIN str : IsHexDigit(str[i] % 256)

DigitValue(c) == IF c <= 57 THEN c - 48 ELSE IF c <= 70 THEN c - 55 ELSE c - 87

(* What the first n characters spell.                                      *)
Spelled(base, str, n) ==
    LET value[k \in 0 .. n] ==
          IF k = 0 THEN 0 ELSE base * value[k - 1] + DigitValue(str[k])
    IN value[n]

(* The number that the leading hexadecimal digits spell.                   *)
(* Seeded bug: the number is taken to be decimal.                          *)
xtoi_decimal(str) == Spelled(10, str, Len(str))

xtoi(str) ==
    LET stop == CHOOSE k \in 0 .. Len(str) :
                  /\ k = Len(str) \/ ~IsHexDigit(str[k + 1])
                  /\ \A i \in 1 .. k : IsHexDigit(str[i])
    IN Spelled(16, str, stop)

Init ==
    /\ store \in Initial /\ before = store
    /\ argv = [ask |-> "many", text |-> <<>>] /\ at = "shell" /\ status = "none" /\ shown = <<>>

Run(line) ==
    /\ at = "shell"
    /\ at' = "run" /\ argv' = line /\ shown' = <<>> /\ status' = "none"
    /\ before' = store
    /\ UNCHANGED store

Return(s) == at' = "shell" /\ status' = s /\ UNCHANGED <<argv, before>>

(* The shell gives no arguments: get_args fails.                           *)
GetArgsFails ==
    /\ at = "run" /\ TRUE \in FirmwareFails
    /\ Return("error")
    /\ UNCHANGED <<store, shown>>

(* BootValue has the width of a pointer, GetVariable fills two bytes of it *)
(* and "%04x" prints four.                                                 *)
(* Seeded bug: BootValue is printed whatever GetVariable said.             *)
Show_always ==
    /\ at = "run" /\ Asked({"show"})
    /\ \E fails \in FirmwareFails, j \in Junk :
         /\ Return(IF fails THEN "error" ELSE GetVariable(store, 1))
         /\ shown' = <<j>>
    /\ UNCHANGED store

Show ==
    /\ at = "run" /\ Asked({"show"})
    /\ \E fails \in FirmwareFails :
         LET s == IF fails THEN "error" ELSE GetVariable(store, 1)
         IN /\ Return(s)
            /\ IF s = "success" THEN \E j \in Junk : shown' = <<2^16 * j + store[1]>>
               ELSE UNCHANGED shown
    /\ UNCHANGED store

(* Help, or more arguments than one: nothing is done.                      *)
Nothing ==
    /\ at = "run" /\ Asked({"help", "many"})
    /\ Return("success")
    /\ UNCHANGED <<store, shown>>

Set(data) ==
    /\ \E fails \in FirmwareFails :
         IF fails THEN Return("error") /\ UNCHANGED store
         ELSE Return(SetVariable(store, data)) /\ store' = data
    /\ UNCHANGED shown

Delete == at = "run" /\ Asked({"delete"}) /\ Set(Absent)

(* Seeded bug: the return is missing, the message all that happens.        *)
Refuse_goes_on ==
    /\ at = "run" /\ Asked({"set"}) /\ ~check_arg(argv.text)
    /\ Return("invalid")
    /\ store' = <<xtoi(argv.text)>> /\ UNCHANGED shown

Refuse ==
    /\ at = "run" /\ Asked({"set"}) /\ ~check_arg(argv.text)
    /\ Return("invalid")
    /\ UNCHANGED <<store, shown>>

(* Two bytes of BootValue are stored.                                      *)
SetNext == at = "run" /\ Asked({"set"}) /\ check_arg(argv.text) /\ Set(<<xtoi(argv.text) % 2^16>>)

Main == GetArgsFails \/ Show \/ Nothing \/ Delete \/ Refuse \/ SetNext

Next == (\E line \in CommandLines : Run(line)) \/ Main

----------------------------------------------------------------------------
(* The hexadecimal digits that str begins with are its first k characters. *)
Leading(str, k) ==
    /\ k <= Len(str) /\ \A i \in 1 .. k : IsHexDigit(str[i])
    /\ k < Len(str) => ~IsHexDigit(str[k + 1])

(* A boot option number the user typed, four hexadecimal digits, is the    *)
(* one that the firmware finds, digit by digit.  Of the other arguments    *)
(* check_arg takes those of four characters in which the others are beyond *)
(* 255: of them the number stored is what they begin with, digit by digit  *)
(* and no more.  A run that refuses its argument or fails leaves BootNext  *)
(* as it was.                                                              *)
NumberStored ==
    at = "shell" /\ Asked({"set"}) =>
       IF status = "success"
       THEN /\ Len(argv.text) = 4
            /\ \A i \in 1 .. 4 : IsHexDigit(argv.text[i]) \/ argv.text[i] > 255
            /\ \A k \in 0 .. 4 : Leading(argv.text, k) =>
                 /\ store[1] < 16 ^ k
                 /\ \A i \in 1 .. k : (store[1] \div 16 ^ (k - i)) % 16 = DigitValue(argv.text[i])
       ELSE store = before

(* BootNext changes only in a run that succeeds, to one value or to none.  *)
FailureKeeps == at = "shell" /\ store # before => status = "success" /\ Asked({"set", "delete"})

(* The low 16 bits of what is shown are the stored number.                 *)
ShowsStored == shown # <<>> => store = <<shown[1] % 2^16>>
=============================================================================
