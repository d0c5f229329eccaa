CONSTANTS
    Nicks = {n1, n2}
    Absent = Absent
    MaxCrashes = 2
    MayWriteFail = TRUE
SPECIFICATION Spec
INVARIANT TypeOK
INVARIANT FileWhole
INVARIANT NoStrayTempFiles
PROPERTY NoResurrection
PROPERTY PruneEnds
CHECK_DEADLOCK FALSE
