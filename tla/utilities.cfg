SPECIFICATION Spec
CONSTANTS
    FirmwareFails = {FALSE, TRUE}
    Names = {n1, n2}
    Texts <- SmallTexts
    TextJunk <- SomeJunk
    BUFSIZE = 4
    Arguments <- SomeArguments
    BootNextInitial <- SomeNumbersSet
    NumberJunk = {0, 1}
    Lines <- SomeLines
    Numbers <- SomeNumbers
    Beyond <- SomeWords
    Length <- Lengths
    OptionRoom = 22
    ShellOptInitial <- SomeOptions
    Variables = {"dump1", "dump2", "dump3", "long", "lang"}
    Crash = {"dump1", "dump2", "dump3"}
    Long = {"long"}
    CrashLines <- SomeCrashLines
INVARIANTS
    SuccessMeansDone
    NumberStored
    FailureKeeps
    StoredAsGiven
    OnlyCrashDeleted
    AllWorkedOff
PROPERTIES
    RunsEnd
\* clearcrashvars returns: nothing follows
CHECK_DEADLOCK FALSE
