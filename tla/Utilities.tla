----------------------------- MODULE Utilities -----------------------------
(***************************************************************************)
(* The programs that write firmware variables, started from the shell: var,*)
(* bootnext, shellopt and clearcrashvars.                                  *)
(*                                                                         *)
(* Each keeps to variables of a vendor GUID of its own (DEMO_GUID, the     *)
(* global BootNext, SHELL_VARIABLE_GUID, LINUX_EFI_CRASH_GUID), and the    *)
(* shell waits for one before it starts another: runs of two programs do   *)
(* not meet.  A behaviour is therefore one program run again and again on  *)
(* its part of the store, and the programs share the variables here.       *)
(***************************************************************************)
EXTENDS VariableStore, FiniteSets

CONSTANTS
    FirmwareFails,                          \* may a firmware service fail?
    Names, Texts, TextJunk, BUFSIZE,        \* of VarTool
    Arguments, BootNextInitial, NumberJunk, \* of BootNext
    Lines, Numbers, Beyond, Length, OptionRoom, ShellOptInitial,    \* of ShellOpt
    Variables, Crash, Long, CrashLines      \* of ClearCrashVars

TwoBytes == 0 .. 2^16 - 1

ASSUME ProgramsAssumption ==
    /\ FirmwareFails \subseteq BOOLEAN
    /\ Names # {} /\ <<>> \in Texts /\ BUFSIZE \in Nat
    /\ <<>> \in Lines /\ Absent \in ShellOptInitial /\ OptionRoom \in Nat
    /\ Lines \subseteq Seq(STRING)
    /\ IsFiniteSet(Variables) /\ Crash \subseteq Variables /\ Long \subseteq Variables
    /\ "start" \notin Variables /\ "not_found" \notin Variables

ASSUME NumbersAssumption ==
    /\ Arguments \subseteq Seq(TwoBytes) /\ NumberJunk \subseteq TwoBytes
    /\ BootNextInitial \subseteq {Absent} \cup {<<v>> : v \in TwoBytes}

VARIABLES
    program,                            \* the one in use
    store, argv, at, status, before,    \* of each program
    shown,                              \* of var and bootnext
    i, buffer,                          \* of shellopt
    mode, Name, CrashVarList, printed, failed   \* of clearcrashvars

ofShellOpt == <<i, buffer>>
ofClear == <<mode, Name, CrashVarList, printed, failed>>
vars == <<program, store, argv, at, status, before, shown, ofShellOpt, ofClear>>

var == INSTANCE VarTool WITH Junk <- TextJunk
bootnext == INSTANCE BootNext WITH Junk <- NumberJunk, Initial <- BootNextInitial
shellopt == INSTANCE ShellOpt WITH Initial <- ShellOptInitial, BUFSIZE <- OptionRoom
clearcrashvars == INSTANCE ClearCrashVars WITH CommandLines <- CrashLines

ASSUME LengthAssumption == Length \in [shellopt!shellopts \cup Numbers -> Nat]

UnusedShellOpt == i = 0 /\ buffer = <<>>
UnusedClear ==
    mode = 0 /\ Name = "start" /\ CrashVarList = <<>> /\ printed = {} /\ failed = {}

Init ==
    \/ program = "var" /\ var!Init /\ UnusedShellOpt /\ UnusedClear
    \/ program = "bootnext" /\ bootnext!Init /\ UnusedShellOpt /\ UnusedClear
    \/ program = "shellopt" /\ shellopt!Init /\ UnusedClear /\ shown = <<>>
    \/ program = "clearcrashvars" /\ clearcrashvars!Init /\ UnusedShellOpt /\ shown = <<>>

OfVar(A) == program = "var" /\ A /\ UNCHANGED <<program, ofShellOpt, ofClear>>
OfBootNext(A) == program = "bootnext" /\ A /\ UNCHANGED <<program, ofShellOpt, ofClear>>
OfShellOpt(A) == program = "shellopt" /\ A /\ UNCHANGED <<program, shown, ofClear>>
OfClear(A) == program = "clearcrashvars" /\ A /\ UNCHANGED <<program, shown, ofShellOpt>>

Start == \/ OfVar(\E line \in var!CommandLines : var!Run(line))
         \/ OfBootNext(\E line \in bootnext!CommandLines : bootnext!Run(line))
         \/ OfShellOpt(\E line \in Lines : shellopt!Run(line))

Main == OfVar(var!Main) \/ OfBootNext(bootnext!Main)
        \/ OfShellOpt(shellopt!Main) \/ OfClear(clearcrashvars!Next)

Next == Start \/ Main

(* A program has one thread and goes on until it returns to the shell;     *)
(* that the user starts it again is not promised.                          *)
Spec == Init /\ [][Next]_vars /\ WF_vars(Main)

----------------------------------------------------------------------------
(* var: a run that reports success has done what the usage text promises.  *)
SuccessMeansDone == program = "var" => var!SuccessMeansDone

(* bootnext: the hexadecimal digits that are typed are stored digit by     *)
(* digit, four or those before a character beyond 255; a run that fails or *)
(* refuses stores nothing, and the low 16 bits of what is shown are the    *)
(* number stored.                                                          *)
NumberStored == program = "bootnext" => bootnext!NumberStored /\ bootnext!ShowsStored
FailureKeeps == program = "bootnext" => bootnext!FailureKeeps

(* shellopt: the options given are stored in their order, all or none.     *)
StoredAsGiven == program = "shellopt" => shellopt!StoredAsGiven /\ shellopt!AllOrNothing

(* clearcrashvars: only crash variables are deleted, none before all have  *)
(* been enumerated, and each of them is.                                   *)
OnlyCrashDeleted ==
    program = "clearcrashvars" =>
       clearcrashvars!OnlyCrashDeleted /\ clearcrashvars!BrokenOffKeeps
AllWorkedOff == program = "clearcrashvars" => clearcrashvars!AllWorkedOff

(* Each run of a program ends, if only in writing over what lies behind a  *)
(* buffer: shellopt's loop over its words, which now and then takes two,   *)
(* and clearcrashvars' loops over firmware's names and over its own list   *)
(* among them.                                                             *)
Ended == at \in {"shell", "returned", "overrun"}
RunsEnd == ~Ended ~> Ended
=============================================================================
