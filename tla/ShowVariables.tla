--------------------------- MODULE ShowVariables ---------------------------
(***************************************************************************)
(* The programs showsb/showsb.c and showlenovo/showlenovo.c: read a few    *)
(* variables one after the other and print each.                           *)
(*                                                                         *)
(* A variable is a sequence of octets.  A call reads into Data, of BUFSIZE *)
(* octets, or into one octet; DataSize, which GetVariable takes for the    *)
(* room and sets to the size of the variable, is set anew for some of the  *)
(* calls and is what the call before has left for the others.              *)
(***************************************************************************)
EXTENDS VariableStore

CONSTANTS
    Stores,         \* functions from the names to sequences of octets, or Absent
    BUFSIZE,        \* 64
    FirmwareFails   \* subset of BOOLEAN: may a firmware call fail?

Kept == 0           \* no DataSize of the call's own
Null == <<256>>     \* no octets: what Print shows where there was no memory for a text

(* The calls of GetVariable: the name, the DataSize set for the call, and  *)
(* how what has been read is printed.                                      *)
showlenovo ==
    <<[name |-> "BuildDate", size |-> BUFSIZE, as |-> "text"],
      [name |-> "BuildTime", size |-> BUFSIZE, as |-> "text"],
      [name |-> "SimpleBootFlag", size |-> Kept, as |-> "number"],
      [name |-> "SecureBoot", size |-> Kept, as |-> "switch"],
      [name |-> "SetupMode", size |-> Kept, as |-> "switch"]>>
showsb ==
    <<[name |-> "SecureBoot", size |-> 1, as |-> "switch"],
      [name |-> "SetupMode", size |-> Kept, as |-> "switch"]>>

Names == {showlenovo[n].name : n \in DOMAIN showlenovo}
CommandLines == {<<>>, <<"help">>, <<"verbose">>, <<"other">>, <<"verbose", "other">>}

VARIABLES
    reads,      \* the calls of the program in use
    store, argv, at, Verbose,
    DataSize,
    printed,    \* what has been printed, a line for each variable
    status

vars == <<reads, store, argv, at, Verbose, DataSize, printed, status>>

Init ==
    /\ reads \in {showsb, showlenovo} /\ store \in Stores /\ argv \in CommandLines
    /\ at = "args" /\ Verbose = FALSE /\ DataSize = 0
    /\ printed = <<>> /\ status = "none"

Return(s) == at' = "returned" /\ status' = s

GetArgsFails ==
    /\ at = "args" /\ TRUE \in FirmwareFails
    /\ Return("error")
    /\ UNCHANGED <<reads, store, argv, Verbose, DataSize, printed>>

(* --help, -h, -?; --verbose, -v; anything else is refused.                *)
ParseArgs ==
    /\ at = "args"
    /\ \/ argv = <<"help">> /\ Return("success") /\ UNCHANGED Verbose
       \/ /\ Len(argv) > 1 \/ argv = <<"other">>
          /\ Return("invalid_parameter") /\ UNCHANGED Verbose
       \/ /\ argv \in {<<>>, <<"verbose">>}
          /\ at' = "read" /\ Verbose' = (argv = <<"verbose">>) /\ UNCHANGED status
    /\ UNCHANGED <<reads, store, argv, DataSize, printed>>

Reading == reads[Len(printed) + 1]
Value == store[Reading.name]

(* Seeded bug: DataSize is set for the first call only.                    *)
Size_once == IF printed = <<>> THEN Reading.size ELSE DataSize
Size == IF Reading.size = Kept THEN DataSize ELSE Reading.size

(* A value that is longer than the one octet it is read into.              *)
Overruns == GetVariable(Value, Size) = "success" /\ Reading.as # "text" /\ Len(Value) > 1

(* An octet is printed as a number, a switch with Verbose as a word; there *)
(* may be no memory for a text.                                            *)
Printed ==
    CASE Reading.as = "text" -> {Value} \cup (IF TRUE \in FirmwareFails THEN {Null} ELSE {})
      [] Reading.as = "switch" /\ Verbose -> {IF Value[1] # 0 THEN "Enabled" ELSE "Disabled"}
      [] OTHER -> {Value[1]}

Read ==
    /\ at = "read" /\ Len(printed) < Len(reads)
    /\ \E fails \in FirmwareFails :
         LET s == IF fails THEN "error" ELSE GetVariable(Value, Size)
         IN IF s # "success" THEN Return(s) /\ UNCHANGED <<DataSize, printed>>
            ELSE /\ ~Overruns
                 /\ \E line \in Printed : printed' = Append(printed, line)
                 /\ DataSize' = Len(Value)
                 /\ UNCHANGED <<at, status>>
    /\ UNCHANGED <<reads, store, argv, Verbose>>

(* What the rest of the value overwrites, and what comes of that, depends  *)
(* on the compiler's layout of efi_main's variables.                       *)
Overrun ==
    /\ at = "read" /\ Len(printed) < Len(reads) /\ Overruns
    /\ at' = "overrun"
    /\ UNCHANGED <<reads, store, argv, Verbose, DataSize, printed, status>>

Finish ==
    /\ at = "read" /\ Len(printed) = Len(reads)
    /\ Return("success")
    /\ UNCHANGED <<reads, store, argv, Verbose, DataSize, printed>>

Next == GetArgsFails \/ ParseArgs \/ Read \/ Overrun \/ Finish

(* A program of one thread: it goes on until it returns.                   *)
Spec == Init /\ [][Next]_vars /\ WF_vars(Next)

----------------------------------------------------------------------------
(* Variables as the UEFI specification has them: switches of one octet.    *)
Fits(read) == /\ store[read.name] # Absent
              /\ Len(store[read.name]) <= (IF read.as = "text" THEN BUFSIZE ELSE 1)

Shows(line, read) ==
    CASE read.as = "text" -> line \in {store[read.name], Null}
      [] read.as = "switch" /\ Verbose -> line = "Enabled" <=> store[read.name] # <<0>>
      [] OTHER -> <<line>> = store[read.name]

(* Each line shows the variable it names, although one DataSize is handed  *)
(* on from call to call; where all the variables fit, whatever their       *)
(* sizes, all are shown unless firmware fails, and nothing is overrun; and *)
(* a run that succeeds has shown all.                                      *)
ShowsOwn ==
    /\ \A n \in DOMAIN printed : Shows(printed[n], reads[n])
    /\ (\A n \in DOMAIN reads : Fits(reads[n])) =>
          status \in {"none", "success", "error", "invalid_parameter"} /\ at # "overrun"
    /\ status = "success" /\ argv # <<"help">> => Len(printed) = Len(reads)
=============================================================================
