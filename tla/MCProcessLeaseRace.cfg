\* One crash, two recoveries at once.
SPECIFICATION Spec
CONSTANTS
    Process = {p1, p2, p3}
    NoFile = noFile
    Attempts = 4
    MaxCrashes = 1
    WritesFail = FALSE
INVARIANTS MutualExclusion
