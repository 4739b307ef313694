SPECIFICATION Spec
CONSTANTS
    Ats = {1, 2, 12}
    Intervals = {0, 2}
    MaxWait = 3
    IntMod = 16
    MaxTime = 4
    MaxNum = 3
INVARIANTS
    RepeatsArmedOnce
    NoTimerAfterLoop
    AllDueFired
    SleepsNoLonger
PROPERTIES
    ImplementsTimerService
    DueFires
CHECK_DEADLOCK FALSE
