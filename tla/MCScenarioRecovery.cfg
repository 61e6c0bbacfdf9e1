CONSTANTS
    Scripts = {"best-execution-feasibility"}
    MaxMishaps <- MCMaxMishaps
    NoEvidence = {}
    OpensFirst = {}
    Unowed = {"best-execution-feasibility"}
    Wedges = {}
    NoRecovery = {}
SPECIFICATION FairSpec
PROPERTIES RecoveryCompletes
CHECK_DEADLOCK FALSE
