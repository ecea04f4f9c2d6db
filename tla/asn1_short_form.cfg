SPECIFICATION Spec
CONSTANTS
    Jobs <- ShortFormJobs
    Beyond = {0}
    MAPPED = 3
    ActionFails = {FALSE}
    MAX_DATALEN = 65535
    NR_CONS_STACK = 10
    NR_JUMP_STACK = 10
INVARIANTS AcceptedInside
\* the call returns: nothing follows
CHECK_DEADLOCK FALSE
