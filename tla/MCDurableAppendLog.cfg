\* Three writers, one of which may die in the middle of a write.
SPECIFICATION FairAppendSpec
CONSTANTS
    Process = {p1, p2, p3}
    NoFile = noFile
    Garbage = garbage
    Attempts = 2
    MaxCrashes = 1
    WritesFail = TRUE
    MaxLines = 2
    MaxVersions = 3
INVARIANTS
    OnlyTornTailsBreakChain
PROPERTIES
    CompareAndAppend
    AppendEnds
    LeaseAlwaysFreedAgain
CHECK_DEADLOCK FALSE
