------------------------- MODULE BestExecutionScenario -------------------------
(***************************************************************************)
(* testnet-best-execution: nine pools of one pair on a disposable stack,   *)
(* quoted and swapped through the router; or, against the configured       *)
(* deployment, one quote and one swap.                                     *)
(***************************************************************************)
EXTENDS FundedSteps

Router == "disposable best execution router"
MigratorOf(class) ==
    IF class = "a" THEN "disposable launchpad migrator" ELSE "disposable second launchpad migrator"

\* A pool is known by its recovery resource and by the label of its evidence, and born
\* of the transaction of that label
Canonical(tier) == "create canonical " \o tier \o " bps pool"
Standard(tier) == [id |-> "pool-standard-" \o tier, tier |-> tier, migrator |-> "",
                   born |-> Canonical(tier), name |-> tier \o " bps standard canonical pool"]
Protected(class, tier) ==
    [id |-> "pool-protected-" \o class \o "-" \o tier, tier |-> tier, migrator |-> MigratorOf(class),
     born |-> "initialize protected " \o (IF <<class, tier>> = <<"a", "30">> THEN "" ELSE class \o " ")
              \o tier \o " bps pool",
     name |-> tier \o " bps launch-protected " \o class \o " canonical pool"]
Reference == [id |-> "pool-100", tier |-> "100", migrator |-> "", born |-> Canonical("100"),
              name |-> "configured reference pool"]
Compatibility == [id |-> "pool-30", tier |-> "30", migrator |-> "", born |-> Canonical("30"),
                  name |-> "configured compatibility pool"]
\* The order of quotePools, which is that of the cleanup
QuotePools == <<
    Standard("5"), Protected("a", "5"), Protected("b", "5"),
    Standard("30"), Protected("a", "30"), Protected("b", "30"),
    Standard("100"), Protected("a", "100"), Protected("b", "100") >>

--------------------------------------------------------------------------------
CreatePool(p, factory) ==
    << Call(p.born, factory), Record(p.id) >>
InitializePool(p) ==
    ApproveBoth(p.tier \o " bps", "liquidity approval", p.name)
    \o << Fund("initialize canonical " \o p.tier \o " bps pool", p.name, p.id, Both(p.name)) >>
    \o RevokeBoth(p.tier \o " bps", "post-liquidity cleanup", p.name)
\* The migrator opens the pool, and only then the journal can name it
InitializeProtectedPool(p) ==
    ApproveBoth(p.id \o " protected", "approval", p.migrator)
    \o << Fund(p.born, p.migrator, p.id, Both(p.migrator)), Record(p.id) >>
    \o RevokeBoth(p.id \o " protected", "post-migration cleanup", p.migrator)

\* The exit, after which the pool must hold no allowance, and its record
CleanUp(p) == <<
    ExitAll("full cleanup exit for pool " \o p.id, p.name, p.id), Bare(p.name), Recovered(p.id) >>

\* The form of a quote or a swap is its candidate bitmap
Quote(label, bitmap) == Saying(Call(label, Router), bitmap)
\* An operator named for a slip (OtherCandidates) is the definition after it with
\* that slip made: the mutant a property must catch. No behaviour of Spec uses it.
QuoteGuardsOtherCandidates(bitmap) == <<
    Saying(Refused("best quote request-id replay", Router), "mixed two"),
    Saying(Refused("best quote ciphertext replay", Router), "mixed two"),
    Saying(Refused("best quote expired deadline", Router), bitmap),
    Saying(Refused("caller-bound ciphertext isolation", Router), bitmap),
    Quote("caller-bound ciphertext primary control", bitmap) >>
QuoteGuards(bitmap) == <<
    Saying(Refused("best quote request-id replay", Router), bitmap),
    Saying(Refused("best quote ciphertext replay", Router), bitmap),
    Saying(Refused("best quote expired deadline", Router), bitmap),
    Saying(Refused("caller-bound ciphertext isolation", Router), bitmap),
    Quote("caller-bound ciphertext primary control", bitmap) >>
\* First with a minimum nobody can meet, then for real, with the same approval
SwapWithRollbackProof(label, token, router, bitmap) ==
    Approve(label \o " router approval", <<token, router>>)
    \o << Saying(Refused(label \o " encrypted slippage rollback", router), bitmap),
          Saying(Spend(label, router, {<<token, router>>}), bitmap) >>
    \o Revoke(label \o " router post-swap cleanup", <<token, router>>)
AddPreviewedLiquidity(p, label) ==
    ApproveBoth(label, "approval", p.name)
    \o << Spend(label, p.name, Both(p.name)) >> \o RevokeBoth(label, "cleanup", p.name)

--------------------------------------------------------------------------------
DeployDisposable == <<
    Deploy("CipherDEXFeeVault deployment", "disposable fee vault"),
    Deploy("PrivateLPTokenFactory deployment", "disposable private LP factory"),
    Deploy("ConfidentialInitializationStrategyRegistry deployment",
           "disposable initialization strategy registry"),
    Deploy("ConfidentialCPMMDeployer deployment", "disposable confidential pool deployer"),
    Deploy("ConfidentialCPMMFactory deployment", "disposable confidential factory"),
    Call("bind disposable confidential fee vault", "disposable fee vault"),
    Call("bind disposable confidential pool deployer", "disposable confidential pool deployer"),
    Call("bind disposable initialization strategy registry",
         "disposable initialization strategy registry") >>
DeployStrategies == <<
    Deploy("first disposable launch strategy deployment",
           "disposable launch initialization strategy"),
    Deploy("second disposable launch strategy deployment",
           "disposable second launch initialization strategy"),
    Call("register disposable initialization strategy",
         "disposable initialization strategy registry"),
    Call("register second disposable initialization strategy",
         "disposable initialization strategy registry"),
    Call("finalize disposable initialization strategy registry",
         "disposable initialization strategy registry"),
    Deploy("ConfidentialBestExecutionRouter deployment", Router),
    Call("bind disposable best-execution router", "disposable confidential factory") >>

\* An absent, an uninitialized and a tied tier; then both directions
QuoteAndSwapThree ==
    InitializeProtectedPool(Protected("a", "30"))
    \o CreatePool(Standard("100"), "disposable confidential factory")
    \o InitializePool(Standard("100"))
    \o << Quote("two-candidate quote with absent tier", "mixed two") >>
    \o CreatePool(Standard("5"), "disposable confidential factory")
    \o << Quote("two-candidate quote with uninitialized tier", "mixed three") >>
    \o QuoteGuards("mixed three")
    \o SwapWithRollbackProof("two-candidate quote-plus-swap", "token1", Router, "mixed three")
    \o InitializePool(Standard("5"))
    \o << Quote("three-candidate quote", "mixed three") >>
    \o SwapWithRollbackProof("three-candidate quote-plus-swap", "token1", Router, "mixed three")
    \o << Quote("post-tie 30 bps selection quote", "mixed three") >>
    \o SwapWithRollbackProof("post-tie 30 bps quote-plus-swap", "token1", Router, "mixed three")
    \o << Quote("encrypted-invalid candidate isolation quote", "mixed three"),
          Quote("reverse three-candidate quote", "mixed three") >>
    \o SwapWithRollbackProof("reverse three-candidate quote-plus-swap", "token0", Router,
                             "mixed three")
QuoteNine ==
    CreatePool(Standard("30"), "disposable confidential factory")
    \o InitializePool(Standard("30"))
    \o InitializeProtectedPool(Protected("a", "5"))
    \o InitializeProtectedPool(Protected("a", "100"))
    \o InitializeProtectedPool(Protected("b", "5"))
    \o InitializeProtectedPool(Protected("b", "30"))
    \o InitializeProtectedPool(Protected("b", "100"))
    \o << Quote("four-candidate populated quote", "four"),
          Quote("six-candidate populated quote", "six"),
          Quote("nine-candidate populated quote", "nine") >>
AddByPreview ==
    << Call("confidential token0 proportional-liquidity preview", Protected("b", "30").name),
       Call("confidential token1 proportional-liquidity preview", Protected("b", "30").name) >>
    \o AddPreviewedLiquidity(Protected("b", "30"), "preview-bound proportional-liquidity add")

\* Its tokens are worthless mocks: nothing of it is a resource or an obligation
RunPublicLiquidityScenario == <<
    Deploy("PublicCPMMFactory deployment", "disposable public factory"),
    Call("bind disposable public factory", "disposable fee vault"),
    Deploy("PublicCPMMLiquidityRouter deployment", "disposable public liquidity router"),
    Deploy("funded public token A deployment", "disposable public token A"),
    Deploy("funded public token B deployment", "disposable public token B"),
    Call("mint disposable public token A", "disposable public token A"),
    Call("mint disposable public token B", "disposable public token B"),
    Call("approve public liquidity token A", "disposable public token A"),
    Call("approve public liquidity token B", "disposable public token B"),
    Refused("public atomic create rollback", "disposable public liquidity router"),
    Call("public atomic create and seed", "disposable public liquidity router"),
    Call("public proportional add and refund", "disposable public liquidity router"),
    Call("public full liquidity cleanup", "disposable public pool") >>

CleanUpAll == FlattenSeq([i \in DOMAIN QuotePools |-> CleanUp(QuotePools[i])])
\* prepareEvidence: each artifact with the contract it is an instance of
PoolArtifacts(pools) ==
    {<<pools[i].name, "ConfidentialCPMM", pools[i].born>> : i \in DOMAIN pools}
    \cup {<<pools[i].name \o " private LP token", "PrivateLPToken", pools[i].born>> : i \in DOMAIN pools}
BestExecutionCreated == {
    <<"disposable fee vault", "CipherDEXFeeVault">>,
    <<"disposable private LP factory", "PrivateLPTokenFactory">>,
    <<"disposable confidential factory", "ConfidentialCPMMFactory">>,
    <<"disposable confidential pool deployer", "ConfidentialCPMMDeployer">>,
    <<"disposable initialization strategy registry", "ConfidentialInitializationStrategyRegistry">>,
    <<"disposable launch initialization strategy", "ConfidentialLaunchInitializationStrategy">>,
    <<"disposable second launch initialization strategy",
      "ConfidentialLaunchInitializationStrategy">>,
    <<Router, "ConfidentialBestExecutionRouter">>,
    <<"disposable public factory", "PublicCPMMFactory">>,
    <<"disposable public liquidity router", "PublicCPMMLiquidityRouter">>,
    <<"disposable public token A", "MockERC20">>, <<"disposable public token B", "MockERC20">>}
BestExecutionFound ==
    {<<MigratorOf("a"), "ConfidentialLaunchpadMigrator", "first disposable launch strategy deployment">>,
     <<MigratorOf("b"), "ConfidentialLaunchpadMigrator", "second disposable launch strategy deployment">>,
     <<"disposable public pool", "PublicCPMM", "public atomic create and seed">>}
    \cup PoolArtifacts(QuotePools)

BestExecutionMain ==
    DeployDisposable \o DeployStrategies \o QuoteAndSwapThree \o QuoteNine \o AddByPreview
    \o RunPublicLiquidityScenario \o CleanUpAll \o << Do("plan"), Do("write") >>

--------------------------------------------------------------------------------
\* The same script against the configured deployment
ConfiguredRouter == "configured best-execution router"
ConfiguredFactory == "configured confidential factory"
CompatibilityCreated == {
    <<"configured private LP factory", "PrivateLPTokenFactory">>,
    <<ConfiguredFactory, "ConfidentialCPMMFactory">>,
    <<ConfiguredRouter, "ConfidentialBestExecutionRouter">>}
CompatibilityFound == {
    <<Reference.name, "ConfidentialCPMM", Reference.born>>,
    <<"configured reference private LP token", "PrivateLPToken", Reference.born>>,
    <<Compatibility.name, "ConfidentialCPMM", Compatibility.born>>,
    <<"configured compatibility private LP token", "PrivateLPToken", Compatibility.born>>}
CompatibilityMain ==
    CreatePool(Reference, ConfiguredFactory)
    \o << Refused("duplicate canonical reference pool", ConfiguredFactory), Do("recover") >>
    \o CreatePool(Compatibility, ConfiguredFactory) \o InitializePool(Compatibility)
    \o << Call("configured compatibility best quote", ConfiguredRouter) >>
    \o SwapWithRollbackProof("configured compatibility best swap", "token0", ConfiguredRouter, "")
    \o CleanUp(Compatibility)
    \o << Observe("configured LP factory deployment provenance", "configured private LP factory"),
          Observe("configured confidential factory deployment provenance", ConfiguredFactory),
          Observe("configured router deployment provenance", ConfiguredRouter),
          Do("plan"), Do("write") >>

--------------------------------------------------------------------------------
\* Allowances to the migrator first, then whatever the pool still holds
RecoverJournalPool(p, holders) ==
    (IF p.migrator = "" THEN << >>
     ELSE RevokeBoth(p.id \o " protected recovery", "approval", p.migrator))
    \o (IF p.id \in holders THEN CleanUp(p) ELSE << Recovered(p.id) >>)
PoolsOf(configured) ==
    IF configured THEN << Reference, Compatibility >> ELSE QuotePools
RecoverJournalPools(configured, active, holders) ==
    LET left == SelectSeq(PoolsOf(configured), LAMBDA p : p.id \in active) IN
    FlattenSeq([i \in DOMAIN left |-> RecoverJournalPool(left[i], holders)])
BestExecutionOpening == << Do("resolve"), Do("clear"), Do("recover"), Do("pending") >>
\* With a recovery source commit: only what a run of that commit left
RecoverySource == << Do("resolve"), Do("clear"), Do("recover"), Do("mark failed") >>
================================================================================
