SPECIFICATION PipelineSpec
CONSTANTS
    Jobs <- Idle
    Beyond = {0, 2}
    MAPPED = 3
    ActionFails = {FALSE}
    MAX_DATALEN = 65535
    NR_CONS_STACK = 10
    NR_JUMP_STACK = 10
    Grammars <- LostOptional
    Text <- AllTexts
    Lowercase <- Names
    NumberOf <- Numerals
    DocumentsFor <- DocumentsOf
    WellFormed <- SoundName
INVARIANTS
    CallbacksMatch
\* a document has been decoded, or a text refused: nothing follows
CHECK_DEADLOCK FALSE
