SPECIFICATION Spec
CONSTANTS
    Catalogues <- AnyStore
    CommandLines <- AnyCommandLine
    SupportValues = {0, 1}
    FirmwareFails = {FALSE, TRUE}
    BUFSIZE = 8
    MaxNames = 4
INVARIANTS
    TypeOK
    ListSorted
    EachOnce
    PrintedAll
PROPERTIES
    ListOperations
    Terminates
CHECK_DEADLOCK FALSE
