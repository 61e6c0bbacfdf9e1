CONSTANTS
    Scripts = {"launchpad", "configured-launchpad", "best-execution", "configured-compatibility",
               "fee-collection", "best-execution-feasibility", "position-read",
               "private-lp-accounting-probe", "private-it-packing-probe", "quote-call-probe",
               "observable-price-probe", "observable-confidential", "deployment",
               "public-deployment-testnet", "public-deployment-mainnet",
               "observable-confidential-deployment"}
    MaxMishaps <- MCMaxMishaps
    NoEvidence = {"configured-compatibility"}
    OpensFirst = {"best-execution", "configured-launchpad", "public-deployment-testnet"}
    Unowed = {"best-execution-feasibility", "public-deployment-testnet"}
    Wedges = {"launchpad", "private-lp-accounting-probe", "quote-call-probe"}
    NoRecovery = {"observable-confidential", "best-execution-feasibility"}
SPECIFICATION FairSpec
INVARIANTS JournalCoversFunds UndisturbedRunPasses PassedMeansClean
PROPERTIES RecoveryCompletes
CHECK_DEADLOCK FALSE
