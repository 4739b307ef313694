SPECIFICATION Spec
CONSTANTS
    a1 = a1
    a2 = a2
    f1 = f1
    f2 = f2
    Addrs = {a1, a2}
    Fds = {f1, f2}
    MaxEvent = 2
    MaxDepth = 3
    None = None
SYMMETRY Symmetry
INVARIANTS
    NoStaleEvent
    InterestIsLive
    EofOnce
    NothingAfterDestroy
CHECK_DEADLOCK FALSE
