------------------------------- MODULE FeeScenario -------------------------------
(***************************************************************************)
(* testnet-fee-collection: eight swaps in each direction, a collection     *)
(* that must fail before the fees mature and pass after, and a last fee    *)
(* that leaves with the full exit.  The run waits for maturity between two *)
(* launches, so it can go on in the middle.                                *)
(***************************************************************************)
EXTENDS FundedSteps

FeePool == "disposable confidential fee pool"
CreateFeePool == "create disposable 100 bps fee pool"
FeeTargetSwapCount == 8
\* the steps another launch goes on from
AtApprovals == Do("approvals")
AtMaturity == Do("maturity")

CreateDisposableStack == <<
    Deploy("CipherDEXFeeVault disposable deployment", "disposable fee vault"),
    Deploy("PrivateLPTokenFactory disposable deployment", "disposable private LP factory"),
    Deploy("ConfidentialInitializationStrategyRegistry disposable deployment",
           "disposable initialization strategy registry"),
    Deploy("ConfidentialCPMMDeployer disposable deployment", "disposable confidential pool deployer"),
    Deploy("ConfidentialCPMMFactory disposable deployment", "disposable confidential factory"),
    Call("bind disposable fee vault", "disposable fee vault"),
    Call("bind disposable pool deployer", "disposable confidential pool deployer"),
    Call("bind disposable strategy registry", "disposable initialization strategy registry"),
    Call(CreateFeePool, "disposable confidential factory"),
    Record("fee-pool") >>

FeeApprovals ==
    Approve("fee token0 approval", <<"token0", FeePool>>)
    \o Approve("fee token1 approval", <<"token1", FeePool>>)
\* The same with nothing left to swap
NoApprovals ==
    Revoke("fee token0 approval", <<"token0", FeePool>>)
    \o Revoke("fee token1 approval", <<"token1", FeePool>>)

\* The last swap of a direction uses up its allowance
SwapRound(i) ==
    LET nth == ToString(i) \o "/" \o ToString(FeeTargetSwapCount)
        round(token) == <<
            Call("fee " \o token \o " quote " \o nth, FeePool),
            Spend("fee " \o token \o " swap " \o nth, FeePool,
                  IF i = FeeTargetSwapCount THEN {<<token, FeePool>>} ELSE {}) >> IN
    round("token0") \o round("token1")
SwapBatch == FlattenSeq([i \in 1..FeeTargetSwapCount |-> SwapRound(i)])
LastSwap == "fee token1 swap 8/8"

PrematureLabel == "premature confidential protocol fee collection"
MatureLabel == "mature confidential protocol fee collection"
\* Expected to fail once; a launch that comes back later must not fail it again
Collect == <<
    AtMaturity, Unproven(Refused(PrematureLabel, FeePool)), Do("wait"), Call(MatureLabel, FeePool) >>

TerminalFee ==
    Approve("terminal fee token0 approval", <<"token0", FeePool>>)
    \o << Call("terminal sub-threshold fee quote", FeePool),
          Spend("terminal sub-threshold fee swap", FeePool, {<<"token0", FeePool>>}) >>
FeeExit == << ExitAll("full disposable fee-pool exit", FeePool, "fee-pool"), Bare(FeePool) >>
FeeCleanup == RevokeBoth("fee", "final cleanup approval", FeePool) \o << Recovered("fee-pool") >>

FeeCreated == {
    <<"disposable fee vault", "CipherDEXFeeVault">>,
    <<"disposable private LP factory", "PrivateLPTokenFactory">>,
    <<"disposable confidential factory", "ConfidentialCPMMFactory">>,
    <<"disposable confidential pool deployer", "ConfidentialCPMMDeployer">>,
    <<"disposable initialization strategy registry", "ConfidentialInitializationStrategyRegistry">>}
FeeFound == {<<FeePool, "ConfidentialCPMM", CreateFeePool>>,
             <<"disposable private LP token", "PrivateLPToken", CreateFeePool>>}

FeeOpening == << Do("resolve"), Do("clear"), Do("pending"), Do("resume") >>
FeeMain ==
    << AtApprovals >> \o FeeApprovals
    \o << Fund("initialize disposable fee pool", FeePool, "fee-pool", {}) >> \o SwapBatch
    \o Collect \o TerminalFee \o FeeExit \o FeeCleanup \o << Do("plan"), Do("write") >>

\* recoverDisposablePool
RecoverFeePool(active) ==
    IF "fee-pool" \in active THEN FeeExit \o << Recovered("fee-pool") >> ELSE << >>
================================================================================
