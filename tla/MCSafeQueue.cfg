SPECIFICATION Spec
CONSTANTS
    t1 = t1
    t2 = t2
    t3 = t3
    v1 = v1
    v2 = v2
    v3 = v3
    Threads = {t1, t2, t3}
    Tasks = {v1, v2, v3}
    Capacity = 2
    WaitModes = {"infinite", "timed", "zero"}
    MaxSpurious = 1
    NoThread = NoThread
    NoTask = NoTask
SYMMETRY Symmetry
INVARIANTS
    TypeOK
    NoLostWakeup
    ExitReleasesAll
    EmptyHandedOnlyAfterExit
CHECK_DEADLOCK FALSE
