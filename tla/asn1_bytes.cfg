SPECIFICATION Spec
CONSTANTS
    Jobs <- ByteJobs
    Beyond = {0}
    MAPPED = 3
    ActionFails = {FALSE, TRUE}
    MAX_DATALEN = 6
    NR_CONS_STACK = 2
    NR_JUMP_STACK = 2
INVARIANTS TypeOK Nested PcAtInstruction
PROPERTIES CursorMonotone Terminates
\* the call returns: nothing follows
CHECK_DEADLOCK FALSE
