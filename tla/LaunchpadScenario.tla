--------------------------- MODULE LaunchpadScenario ---------------------------
(***************************************************************************)
(* testnet-launchpad: one protected pool, opened and seeded by a migrator  *)
(* in one transaction, on a disposable stack or on the configured one.     *)
(***************************************************************************)
EXTENDS FundedSteps

\* The contracts carry the label the evidence gives them
Name(configured, what) == IF configured THEN "configured " \o what ELSE "disposable " \o what
LaunchPool(c) == Name(c, "launchpad pool")
Migrator(c) == Name(c, "launchpad migrator")
DirectSwap(c) == <<"token0", LaunchPool(c)>>

DeployStack == <<
    Deploy("fee vault deployment", "disposable launchpad fee vault"),
    Deploy("private LP token factory deployment", "disposable launchpad LP factory"),
    Deploy("initialization strategy registry deployment", "disposable launch strategy registry"),
    Deploy("confidential pool deployer deployment", "disposable launchpad pool deployer"),
    Deploy("confidential factory deployment", "disposable launchpad confidential factory"),
    Call("confidential fee-vault factory binding", "disposable launchpad fee vault"),
    Call("pool deployer factory binding", "disposable launchpad pool deployer"),
    Call("strategy registry factory binding", "disposable launch strategy registry") >>

StrategyDeployment == "launch initialization strategy deployment"
RegisterStrategy == <<
    Deploy(StrategyDeployment, "disposable launch initialization strategy"),
    Call("initialization strategy registration", "disposable launch strategy registry"),
    Call("initialization strategy registry finalization", "disposable launch strategy registry"),
    Record("launchpad-stack") >>

\* One signed launch: refused within an impossible price interval, then mined, then replayed
RejectedLaunch(c) ==
    Saying(Refused("rejected launchpad price-bound probe", Migrator(c)), "impossible interval")
AtomicMigration == "atomic launchpad migration"
Migration(c) ==
    Saying(Fund(AtomicMigration, Migrator(c), "launchpad-pool", Both(Migrator(c))), "launch")

\* An operator named for a slip (AnySlot, KnownOnly) is the definition after it with
\* that slip made: the mutant a property must catch. No behaviour of Spec uses it.
MigrateAnySlot(c) ==
    Approve("token0 launchpad approval", <<"token0", Migrator(c)>>)
    \o Approve("token1 launchpad approval", <<"token1", Migrator(c)>>)
    \o << RejectedLaunch(c), Migration(c) >>
\* Only into a free slot: an impossible price interval first, then the migration with the same approvals
Migrate(c) ==
    << Do("empty slot") >>
    \o Approve("token0 launchpad approval", <<"token0", Migrator(c)>>)
    \o Approve("token1 launchpad approval", <<"token1", Migrator(c)>>)
    \o << RejectedLaunch(c), Migration(c) >>
RecordMigration(c) == <<
    Record("launchpad-pool"),
    Saying(Refused("launchpad replay probe", Migrator(c)), "launch") >>

QuoteAndSwap(c) ==
    << Call("launchpad pool direct paid quote", LaunchPool(c)) >>
    \o Approve("launchpad pool direct-swap allowance", DirectSwap(c))
    \o << Spend("launchpad pool direct private swap", LaunchPool(c), {DirectSwap(c)}) >>
    \o Revoke("launchpad pool direct-swap allowance cleanup", DirectSwap(c))

ExitTwice(c) == <<
    Call("protected launchpad pool partial exit", LaunchPool(c)),
    ExitAll("protected launchpad pool first full exit", LaunchPool(c), "launchpad-pool") >>

TokenRevoke(c, suffix) ==
    Revoke("token0 protected-pool " \o suffix, <<"token0", LaunchPool(c)>>)
    \o Revoke("token1 protected-pool " \o suffix, <<"token1", LaunchPool(c)>>)
Reseed(c) ==
    TokenRevoke(c, "allowance reset")
    \o Approve("token0 protected-pool re-seed approval", <<"token0", LaunchPool(c)>>)
    \o Approve("token1 protected-pool re-seed approval", <<"token1", LaunchPool(c)>>)
    \o << Fund("protected pool ordinary re-seed", LaunchPool(c), "launchpad-pool",
               Both(LaunchPool(c))) >>
    \o TokenRevoke(c, "post-seed cleanup")

ObserveConfigured == <<
    Observe("configured fee vault deployment provenance", "configured launchpad fee vault"),
    Observe("configured LP factory deployment provenance", "configured launchpad LP factory"),
    Observe("configured confidential factory deployment provenance",
            "configured launchpad confidential factory"),
    Observe("configured launch strategy deployment provenance",
            "configured launch initialization strategy") >>

\* prepareEvidence: each artifact with the contract it is an instance of
LaunchpadCreated(c) ==
    IF c THEN {
        <<"configured launchpad fee vault", "CipherDEXFeeVault">>,
        <<"configured launchpad LP factory", "PrivateLPTokenFactory">>,
        <<"configured launchpad confidential factory", "ConfidentialCPMMFactory">>,
        <<"configured launch initialization strategy", "ConfidentialLaunchInitializationStrategy">>}
    ELSE {
        <<"disposable launchpad fee vault", "CipherDEXFeeVault">>,
        <<"disposable launchpad LP factory", "PrivateLPTokenFactory">>,
        <<"disposable launchpad confidential factory", "ConfidentialCPMMFactory">>,
        <<"disposable launchpad pool deployer", "ConfidentialCPMMDeployer">>,
        <<"disposable launch strategy registry", "ConfidentialInitializationStrategyRegistry">>,
        <<"disposable launch initialization strategy", "ConfidentialLaunchInitializationStrategy">>}
LaunchpadFound(c) == {
    <<Migrator(c), "ConfidentialLaunchpadMigrator",
      IF c THEN "configured launch strategy deployment provenance" ELSE StrategyDeployment>>,
    <<LaunchPool(c), "ConfidentialCPMM", AtomicMigration>>,
    <<Name(c, "launchpad private LP token"), "PrivateLPToken", AtomicMigration>>}

LaunchpadOpening ==
    << Do("resolve"), Do("clear"), Do("pending"), Do("closing") >>
LaunchpadMain(c) ==
    (IF c THEN << >> ELSE DeployStack \o RegisterStrategy)
    \o Migrate(c) \o RecordMigration(c) \o QuoteAndSwap(c) \o ExitTwice(c) \o Reseed(c)
    \o << Do("clear"), Do("recover") >>
    \o (IF c THEN ObserveConfigured ELSE << >>) \o << Do("plan"), Do("write") >>

\* recoverLaunchpadResources: a pool the journal does not name is found again from
\* the stack's factory; the pool is emptied, then the migrator's allowances cleared.
RecoverPool(c) == <<
    ExitAll(IF c THEN "full configured launchpad-pool exit"
            ELSE "full disposable launchpad-pool exit", LaunchPool(c), "launchpad-pool"),
    Recovered("launchpad-pool") >>
RecoverStack(c) ==
    Revoke("launchpad token0 allowance recovery", <<"token0", Migrator(c)>>)
    \o Revoke("launchpad token1 allowance recovery", <<"token1", Migrator(c)>>)
    \o << Recovered("launchpad-stack") >>
LaunchpadRescueKnownOnly(c, active, migrated) ==
    (IF "launchpad-pool" \in active THEN RecoverPool(c) ELSE << >>)
    \o (IF "launchpad-stack" \in active THEN RecoverStack(c) ELSE << >>)
LaunchpadRescue(c, active, migrated) ==
    LET rebuilt == migrated /\ "launchpad-stack" \in active /\ "launchpad-pool" \notin active IN
    (IF rebuilt THEN << Rebuild("launchpad-pool") >> ELSE << >>)
    \o (IF rebuilt \/ "launchpad-pool" \in active THEN RecoverPool(c) ELSE << >>)
    \o (IF "launchpad-stack" \in active THEN RecoverStack(c) ELSE << >>)
================================================================================
