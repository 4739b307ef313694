SPECIFICATION DaemonSpec
CONSTANTS
    Pids = {p1, p2, p3}
    Commands = {"start", "stop", "restart"}
    Serial = TRUE
    Polls = 2
    NoPid = NoPid
INVARIANTS
    AtMostOneDaemon
    FileNamesDaemon
PROPERTIES
    CommandsEnd
CHECK_DEADLOCK FALSE
