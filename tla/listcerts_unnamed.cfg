SPECIFICATION Spec
CONSTANTS
    Stores <- UnnamedStores
    CommandLines <- AnyCommandLine
    FirmwareFails = {FALSE}
INVARIANTS
    OwnText
\* the program returns: nothing follows
CHECK_DEADLOCK FALSE
