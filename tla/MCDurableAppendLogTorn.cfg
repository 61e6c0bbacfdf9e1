\* One crash in the middle of a write, then another append.
SPECIFICATION AppendSpec
CONSTANTS
    Process = {p1, p2}
    NoFile = noFile
    Garbage = garbage
    Attempts = 2
    MaxCrashes = 1
    WritesFail = FALSE
    MaxLines = 3
    MaxVersions = 3
INVARIANTS CommittedStaysReadable
CHECK_DEADLOCK FALSE
