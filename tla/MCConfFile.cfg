SPECIFICATION Spec
CONSTANTS
    s1 = s1
    s2 = s2
    t1 = t1
    t2 = t2
    Savers = {s1, s2}
    Target = Target
    Temporary <- MCTemporary
    NoFile = NoFile
    MaxSaves = 2
    MaxFaults = 2
    MAXSIZE = 16
    Junk = {"x", "nul"}
    Words <- MCWords
    Blanks <- MCBlanks
    Files <- MCFiles
    Updates <- MCUpdates
    Contents <- MCContents
    MaxParses = 2
CONSTRAINT Bound
SYMMETRY Symmetry
INVARIANTS
    ParsesAsWritten
    GoneOnlyInSave
    OneFaultLosesNothing
CHECK_DEADLOCK FALSE
