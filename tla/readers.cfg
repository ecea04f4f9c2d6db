SPECIFICATION Spec
CONSTANTS
    FirmwareFails = {FALSE, TRUE}
    SIZEOF_DESC = 40
    DescSizes = {40, 48}
    FIRST_COUNT = 2
    Types = {13, 14, 15}
    MaxRegions = 6
    Tables <- SomeTables
    Counts <- CountsOf
    INVALID_HANDLE <- NoHandle
    Screens <- SomeScreens
    Stores <- SomeStores
    BUFSIZE = 2
    Identifiers <- SomeIdentifiers
    UINT64 = 2097152
    OID__NR = 52
    octets_of <- RegisteredOctets
    oid_search_table <- RegisteredTable
INVARIANTS
    OneRetry
    WholeMapPrinted
    BiosStrings
    EdidsShown
    ShowsOwn
    FindsRegistered
    SpelledOut
PROPERTIES
    RunsEnd
\* the programs return: nothing follows
CHECK_DEADLOCK FALSE
