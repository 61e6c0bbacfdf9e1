--------------------------- MODULE DeploymentScenarios ---------------------------
(***************************************************************************)
(* The deployment programs: the whole protocol, the public stack alone and *)
(* the observable confidential stack.  Each contract and each one-time     *)
(* binding is a journalled transaction, listed in the deployment record    *)
(* before the next one is sent.                                            *)
(***************************************************************************)
EXTENDS FundedSteps

\* recordTransaction: the record in the private runtime names the transaction
Listed(label) == [Do("list") EXCEPT !.label = label]
\* An operator named for a slip (BoundUnlisted) is the definition after it
\* with that slip made: the mutant a property must catch. No behaviour of Spec uses it.
BoundUnlisted(label, target) == << Call(label, target) >>
Bound(label, target) == << Call(label, target), Listed(label) >>
\* deployAndReport, recordDeployment
Deployed(contract) ==
    << Deploy(contract \o " deployment", contract), Listed(contract \o " deployment") >>
AllDeployed(contracts) == FlattenSeq([i \in DOMAIN contracts |-> Deployed(contracts[i])])

--------------------------------------------------------------------------------
\* deployProtocol: the record is reserved before the journal is opened
RecordOpening == << Do("reserve") >>
ProtocolContracts == AllDeployed(<<
    "CipherDEXFeeVault", "PrivateLPTokenFactory", "ConfidentialInitializationStrategyRegistry",
    "ConfidentialCPMMDeployer", "ConfidentialCPMMFactory" >>)
ProtocolBindings ==
    Bound("confidential fee-vault factory binding", "CipherDEXFeeVault")
    \o Bound("confidential pool-deployer factory binding", "ConfidentialCPMMDeployer")
    \o Bound("confidential strategy-registry factory binding",
             "ConfidentialInitializationStrategyRegistry")
LaunchStrategy ==
    Deployed("ConfidentialLaunchInitializationStrategy")
    \o Bound("confidential initialization-strategy registration",
             "ConfidentialInitializationStrategyRegistry")
    \o Bound("confidential strategy-registry finalization",
             "ConfidentialInitializationStrategyRegistry")
BestRouter ==
    Deployed("ConfidentialBestExecutionRouter")
    \o Bound("confidential best-execution router binding", "ConfidentialCPMMFactory")
PublicFactory ==
    Deployed("PublicCPMMFactory")
    \o Bound("public fee-vault factory binding", "CipherDEXFeeVault")
PublicPeriphery == AllDeployed(<<
    "PublicCPMMQuoter", "PublicCPMMRouter", "PublicCPMMLiquidityRouter",
    "WrappedNativeToken", "PublicCPMMNativeRouter" >>)
ProtocolMain ==
    << Do("resolve") >> \o ProtocolContracts \o ProtocolBindings \o LaunchStrategy \o BestRouter
    \o PublicFactory \o PublicPeriphery \o << Do("publish") >>

--------------------------------------------------------------------------------
\* deployPublicStack: production reuses a wrapped native token, and only the testnet
\* tries the stack on a disposable pool
PublicVault ==
    Deployed("CipherDEXFeeVault") \o Deployed("PublicCPMMFactory")
    \o Bound("public fee-vault factory binding", "CipherDEXFeeVault")
PublicRouters(production) ==
    AllDeployed(<< "PublicCPMMQuoter", "PublicCPMMRouter", "PublicCPMMLiquidityRouter" >>)
    \o (IF production THEN << >> ELSE Deployed("WrappedNativeToken"))
    \o Deployed("PublicCPMMNativeRouter")

\* submitSmoke: public approvals are exact, and each is spent by the step it is for
Smoke(step) == << step, Listed(step.label) >>
SmokeApprove(label, token, spender) == Smoke(AllowanceOf("approve", label, <<token, spender>>))
NativeRouter == "PublicCPMMNativeRouter"
LiquidityRouter == "PublicCPMMLiquidityRouter"
SmokeSeed ==
    Deployed("MockERC20") \o Smoke(Call("focused public token mint", "MockERC20"))
    \o SmokeApprove("focused native liquidity token approval", "token", NativeRouter)
    \o Smoke(Fund("focused native pool creation and seed", NativeRouter, "focused pool",
                  {<<"token", NativeRouter>>}))
SmokeSurplus ==
    Smoke(Call("focused one-sided pool donation", "MockERC20"))
    \o Smoke(Call("focused surplus sweep", "focused pool"))
SmokeAdd ==
    Smoke(Call("focused wrapped-native funding", "WrappedNativeToken"))
    \o SmokeApprove("focused wrapped liquidity approval", "wrapped", LiquidityRouter)
    \o SmokeApprove("focused proportional token approval", "token", LiquidityRouter)
    \o Smoke(Fund("focused proportional liquidity add", LiquidityRouter, "focused pool",
                  {<<"wrapped", LiquidityRouter>>, <<"token", LiquidityRouter>>}))
SmokeSwaps ==
    Smoke(Call("focused native-to-token swap", NativeRouter))
    \o SmokeApprove("focused token-to-native approval", "token", NativeRouter)
    \o Smoke(Spend("focused token-to-native swap", NativeRouter, {<<"token", NativeRouter>>}))
    \o Smoke(Call("focused public protocol fee collection", "focused pool"))
SmokeExit ==
    SmokeApprove("focused native removal LP approval", "lp", NativeRouter)
    \o Smoke([Drain("focused native full liquidity cleanup", NativeRouter, "focused pool")
              EXCEPT !.spends = {<<"lp", NativeRouter>>}])
PublicMain(production) ==
    << Do("resolve") >> \o PublicVault \o PublicRouters(production)
    \o (IF production THEN << >>
        ELSE SmokeSeed \o SmokeSurplus \o SmokeAdd \o SmokeSwaps \o SmokeExit)
    \o << Do("publish") >>

--------------------------------------------------------------------------------
\* deploy-observable-confidential-mainnet: only into a journal that never signed
ObservableOpening == << Do("resolve"), Do("fresh"), Do("reserve") >>
Observable(contract) == "ObservableConfidential" \o contract
ObservableContracts ==
    AllDeployed(<< "CipherDEXConfidentialFeeVault", Observable("CPMMDeployer"),
                   Observable("InitializationStrategyRegistry"), Observable("CPMMFactory") >>)
ObservableBindings ==
    Bound("observable fee vault binding", "CipherDEXConfidentialFeeVault")
    \o Bound("observable pool deployer binding", Observable("CPMMDeployer"))
    \o Bound("observable strategy registry binding", Observable("InitializationStrategyRegistry"))
ObservableLaunch ==
    Deployed(Observable("LaunchInitializationStrategy"))
    \o Bound("observable strategy registration", Observable("InitializationStrategyRegistry"))
    \o Bound("observable strategy registry finalization",
             Observable("InitializationStrategyRegistry"))
    \o Deployed(Observable("BestExecutionRouter"))
    \o Bound("observable best-execution router binding", Observable("CPMMFactory"))
ObservableMain ==
    ObservableContracts \o ObservableBindings \o ObservableLaunch
    \o << Do("mark passed"), Do("publish") >>
================================================================================
