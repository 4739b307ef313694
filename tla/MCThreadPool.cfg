SPECIFICATION Spec
CONSTANTS
    Workers = {w1, w2}
    Owner = Owner
    Tasks = {v1, v2, v3}
    Capacity = 2
    MaxSpurious = 1
    NoThread = NoThread
    NoTask = NoTask
INVARIANTS
    JoinedMeansQuiet
PROPERTIES
    ImplementsExecutor
    AcceptedIsRun
    ExitEndsJoin
CHECK_DEADLOCK FALSE
