SPECIFICATION DaemonSafeSpec
CONSTANTS
    Pids = {p1, p2, p3}
    Commands = {"start", "restart"}
    Serial = TRUE
    Polls = 2
    NoPid = NoPid
PROPERTIES
    RefusedOnlyIfExists
CHECK_DEADLOCK FALSE
