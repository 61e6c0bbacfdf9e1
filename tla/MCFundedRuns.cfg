\* The deployment and the harness to the end: one mishap, and what older commits left.
SPECIFICATION FairSpec
CONSTANTS
    Labels <- MCLabels
    RunOf <- MCRunOf
    Deployments <- MCDeployments
    Runs = {"deploy", "harness", "older"}
    Deploy = "deploy"
    Harness = "harness"
    Canonical = {"deploy"}
    Recoverable = {"deploy", "older"}
    Marking = {"harness"}
    Historical = {"vault"}
    MaxNonce = 2
    MaxMishaps = 1
INVARIANTS
    SentIsRecorded
    AtMostOneInDoubt
    AllowanceIsOwed
    GivenUpIsUnsent
PROPERTIES
    DeploymentSettles
    SubmitsOnce
CHECK_DEADLOCK FALSE
