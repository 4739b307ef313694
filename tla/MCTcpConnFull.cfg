SPECIFICATION ConnSafeSpec
CONSTANTS
    SndBuf = 2
    MaxBytes = 4
INVARIANTS
    JustFull
CHECK_DEADLOCK FALSE
