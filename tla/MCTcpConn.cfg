SPECIFICATION ConnSpec
CONSTANTS
    SndBuf = 2
    MaxBytes = 5
INVARIANTS
    EchoInOrder
    ClosedAfterAllData
PROPERTIES
    EveryByteComesBack
CHECK_DEADLOCK FALSE
