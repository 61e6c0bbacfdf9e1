------------------------------ MODULE MCFundedRuns ------------------------------
\* An instance of FundedRuns for TLC: a deployment of one contract and the direct
\* harness on one signer, and the label of an older commit's deployment.
EXTENDS FundedRuns, TLC

MCLabels == HarnessLabels \cup {"vault", "old"}
MCRunOf == [l \in MCLabels |->
    CASE l = "vault" -> "deploy" [] l = "old" -> "older" [] OTHER -> "harness"]
MCDeployments == <<"vault">>
================================================================================
