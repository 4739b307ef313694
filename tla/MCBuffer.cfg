SPECIFICATION Spec
CONSTANTS
    Buffers = {"input", "output"}
    Chunks <- MCChunks
    SuggestSize = 2
    Junk = Junk
    MaxSize = 4
    MaxCap = 8
INVARIANTS
    ReadHasRoom
PROPERTIES
    ImplementsByteQueue
CHECK_DEADLOCK FALSE
