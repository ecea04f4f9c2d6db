SPECIFICATION Spec
CONSTANTS
    SIZEOF_DESC = 40
    DescSizes = {40, 48}
    FIRST_COUNT = 2
    Types = {13, 14, 15}
    MaxRegions = 6
    FirmwareFails = {FALSE, TRUE}
INVARIANTS
    UnknownTypes
CHECK_DEADLOCK FALSE
