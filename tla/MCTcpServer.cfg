SPECIFICATION ServerSpec
CONSTANTS
    Self = Self
    Posters = {p1}
    Tasks = {"c1", "c2", "c3", v1}
    Capacity = 2
    PipeCap = 3
    ReadMax = 2
    MaxExits = 1
    NoTask = NoTask
    Arrivals <- MCArrivals
    FdLimit = 2
    MaxCalls = 2
INVARIANTS
    NoStrandedTask
    ExitKeepsPosted
    ConnsInOrder
    CallbacksInOrder
PROPERTIES
    ImplementsExecutor
    PostedIsRun
    ExitEndsLoop
    Served
CHECK_DEADLOCK FALSE
