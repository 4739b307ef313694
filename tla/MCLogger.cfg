SPECIFICATION Spec
CONSTANTS
    t1 = t1
    t2 = t2
    t3 = t3
    Threads = {t1, t2, t3}
    Interval = 4
    MinuteLength = 2
    MaxTime = 9
    None = None
CONSTRAINT Timely
SYMMETRY Symmetry
INVARIANTS
    NoLineLost
    OneRotationPerPeriod
    FdIsCurrent
CHECK_DEADLOCK FALSE
