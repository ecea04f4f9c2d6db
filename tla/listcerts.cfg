SPECIFICATION Spec
CONSTANTS
    Stores <- AllStores
    CommandLines <- AnyCommandLine
    FirmwareFails = {FALSE, TRUE}
INVARIANTS
    EachCertificate
    OnlyUnnamedCarry
PROPERTIES
    Terminates
\* the program returns: nothing follows
CHECK_DEADLOCK FALSE
