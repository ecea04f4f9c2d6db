------------------------------ MODULE ShellOpt ------------------------------
(***************************************************************************)
(* The program shellopt/shellopt.c: set or clear the ShellOpt variable,    *)
(* the options that the UEFI shell starts with.                            *)
(*                                                                         *)
(* A word of the command line is what StrLwr makes of it; both spellings   *)
(* of an option that says what to do are one word.  ShellOpt is the        *)
(* sequence of the words in it, each with the blank behind it.             *)
(***************************************************************************)
EXTENDS VariableStore

CONSTANTS
    Lines,          \* the command lines: sequences of words
    Numbers,        \* the words of digits alone, the empty word among them
    Beyond,         \* the words that argv[argc] may be taken for
    Length,         \* how many characters an option or a number has
    BUFSIZE,        \* the characters that buffer has room for, 2048 in the code
    Initial,        \* what ShellOpt may hold beforehand
    FirmwareFails   \* subset of BOOLEAN: may SetVariable fail?

VARIABLES
    store,      \* ShellOpt
    argv,       \* the words behind the program's name
    at,         \* "shell", where efi_main has got to, or "overrun"
    i, buffer,  \* the locals of those names
    status,     \* what the last run returned
    before      \* history: the store when the last run began

vars == <<store, argv, at, i, buffer, status, before>>

shellopts == {"-nomap", "-nostartup", "-startup", "-noversion", "-noconsolein",
              "-noconsoleout", "-nointerrupt", "-delay"}

is_number(str) == str \in Numbers

Init ==
    /\ store \in Initial /\ before = store
    /\ argv = <<>> /\ at = "shell" /\ i = 0 /\ buffer = <<>> /\ status = "none"

Run(line) ==
    /\ at = "shell"
    /\ at' = "run" /\ argv' = line /\ status' = "none" /\ before' = store
    /\ i' = 0 /\ buffer' = <<>>
    /\ UNCHANGED store

Return(s) == at' = "shell" /\ status' = s

(* The shell gives no arguments: get_args fails.                           *)
GetArgsFails ==
    /\ at = "run" /\ TRUE \in FirmwareFails
    /\ Return("error")
    /\ UNCHANGED <<store, argv, i, buffer, before>>

Help ==
    /\ at = "run" /\ (argv = <<>> \/ argv = <<"--help">>)
    /\ Return("success")
    /\ UNCHANGED <<store, argv, i, buffer, before>>

SetVariableTo(words) ==
    \E fails \in FirmwareFails :
      IF fails THEN Return("error") /\ UNCHANGED store
      ELSE Return(SetVariable(store, words)) /\ store' = words

(* One word that does not ask for help: --clear, and any other, too.       *)
Clear ==
    /\ at = "run" /\ Len(argv) = 1 /\ argv # <<"--help">>
    /\ SetVariableTo(Absent)
    /\ UNCHANGED <<argv, i, buffer, before>>

Refuse ==
    /\ at = "run" /\ Len(argv) > 1 /\ argv[1] # "--set"
    /\ Return("invalid")
    /\ UNCHANGED <<store, argv, i, buffer, before>>

Begin ==
    /\ at = "run" /\ Len(argv) > 1 /\ argv[1] = "--set"
    /\ at' = "options" /\ i' = 2 /\ buffer' = <<>>
    /\ UNCHANGED <<store, argv, status, before>>

(* argv[i + 1], looked at although i may be the last (the "i < argc" of    *)
(* the code always holds).                                                 *)
Following == IF i < Len(argv) THEN {argv[i + 1]} ELSE Beyond

(* The characters of the words and of the blanks behind them.              *)
StrLen(words) ==
    LET upTo[n \in 0 .. Len(words)] ==
          IF n = 0 THEN 0 ELSE upTo[n - 1] + Length[words[n]] + 1
    IN upTo[Len(words)]

(* StrCat does not ask for room.  What it writes behind buffer is not      *)
(* followed.                                                               *)
FitsBuffer(words) == StrLen(words) < BUFSIZE
Take(words, next) ==
    \/ /\ FitsBuffer(words)
       /\ buffer' = words /\ i' = next /\ UNCHANGED at
    \/ /\ ~FitsBuffer(words)
       /\ at' = "overrun" /\ UNCHANGED <<i, buffer>>

(* Seeded bug: a known option takes the next word along in any case.       *)
Option_steps_twice ==
    /\ at = "options" /\ i <= Len(argv) /\ argv[i] \in shellopts
    /\ Take(Append(buffer, argv[i]), IF argv[i] = "-delay" THEN i + 3 ELSE i + 2)
    /\ UNCHANGED <<store, argv, status, before>>

Option ==
    /\ at = "options" /\ i <= Len(argv) /\ argv[i] \in shellopts
    /\ \E word \in Following :
         IF argv[i] = "-delay" /\ is_number(word)
         THEN Take(buffer \o <<argv[i], word>>, i + 2)
         ELSE Take(Append(buffer, argv[i]), i + 1)
    /\ UNCHANGED <<store, argv, status, before>>

(* Seeded bug: the options before the bad one are stored.                  *)
BadOption_stores ==
    /\ at = "options" /\ i <= Len(argv) /\ argv[i] \notin shellopts
    /\ Return("invalid") /\ store' = buffer
    /\ UNCHANGED <<argv, i, buffer, before>>

BadOption ==
    /\ at = "options" /\ i <= Len(argv) /\ argv[i] \notin shellopts
    /\ Return("invalid")
    /\ UNCHANGED <<store, argv, i, buffer, before>>

Set ==
    /\ at = "options" /\ i > Len(argv)
    /\ SetVariableTo(buffer)
    /\ UNCHANGED <<argv, i, buffer, before>>

Main == GetArgsFails \/ Help \/ Clear \/ Refuse \/ Begin \/ Option \/ BadOption \/ Set

Next == (\E line \in Lines : Run(line)) \/ Main

----------------------------------------------------------------------------
SetRun == Len(argv) > 1 /\ argv[1] = "--set"

(* What --set stores is each of the words behind it, in their order: the   *)
(* loop steps over a number behind -delay, yet passes over no word.  Only  *)
(* where -delay is the last word may one number follow that is not the     *)
(* user's: the guard that looks for it is i < argc (shellopt.c:162).       *)
StoredAsGiven ==
    at = "shell" /\ status = "success" /\ SetRun =>
       LET given == SubSeq(argv, 2, Len(argv))
       IN \/ store = given
          \/ /\ argv[Len(argv)] = "-delay"
             /\ \E n \in Numbers : store = Append(given, n)

(* A run that does not succeed leaves ShellOpt as it was, also when some   *)
(* options were taken before the one that is refused.                      *)
AllOrNothing == at = "shell" /\ status # "success" => store = before
=============================================================================
