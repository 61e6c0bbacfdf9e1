------------------------------ MODULE EvidencePolicy ------------------------------
(***************************************************************************)
(* What the evidence of a funded run must contain before it may be         *)
(* published: the contracts of its runner, each with its own creation, the *)
(* transactions of its policy aimed at the contracts they are about, the   *)
(* order of those that depend on each other, and none to an unknown        *)
(* address.  A log entry is [label, ok, target, form], an artifact a pair  *)
(* <<label, contract>>; only the constructors of the "created" ones are in *)
(* the log, the "found" ones were created by another contract and name as  *)
(* a third component the transaction they were born of.                    *)
(***************************************************************************)
EXTENDS Sequences, FiniteSets, Integers, TLC

Requires(labels, count, ok, target) ==
    [labels |-> labels, count |-> count, ok |-> ok, target |-> target]
Mined(labels, target) == {Requires({l}, 1, TRUE, target) : l \in labels}
Reverted(labels, target) == {Requires({l}, 1, FALSE, target) : l \in labels}
Chained(labels) == {<<labels[i], labels[i + 1]>> : i \in 1..(Len(labels) - 1)}

Tokens == {"token0", "token1"}
Policy(contracts, required, orders, configured) ==
    [contracts |-> contracts, required |-> required, orders |-> orders, says |-> << >>,
     configured |-> configured]
\* requireLaunchpadMigrationBinding: mined at the migrator whose strategy opened the pool
Migrations(labels, count, migrator) == Requires(labels, count, TRUE, migrator)

--------------------------------------------------------------------------------
\* RUNNER_POLICIES, and the orders of requireOnchainSemanticBindings

StackContracts == [
    CipherDEXFeeVault |-> 1, PrivateLPTokenFactory |-> 1, ConfidentialCPMMDeployer |-> 1,
    ConfidentialInitializationStrategyRegistry |-> 1, ConfidentialCPMMFactory |-> 1]
OnePool == [ConfidentialCPMM |-> 1, PrivateLPToken |-> 1]
LaunchContracts ==
    [ConfidentialLaunchInitializationStrategy |-> 1, ConfidentialLaunchpadMigrator |-> 1] @@ OnePool

LaunchLifecycle(finalExit) == <<
    "rejected launchpad price-bound probe", "atomic launchpad migration",
    "launchpad replay probe", "launchpad pool direct paid quote",
    "launchpad pool direct private swap", "protected launchpad pool partial exit",
    "protected launchpad pool first full exit", "protected pool ordinary re-seed", finalExit >>
LaunchRequired(kind, finalExit) ==
    LET migrator == kind \o " launchpad migrator" pool == kind \o " launchpad pool"
        labels == LaunchLifecycle(finalExit) IN
    Reverted({labels[1], labels[3]}, migrator) \cup {Migrations({labels[2]}, 1, migrator)}
    \cup Mined({labels[i] : i \in 4..9}, pool)
\* The refused launch has the migration's envelope and another price interval, the
\* replayed one is the migration's call again.
LaunchCalls ==
    "rejected launchpad price-bound probe" :> "impossible interval"
    @@ [l \in {"atomic launchpad migration", "launchpad replay probe"} |-> "launch"]
LaunchPolicy(kind, contracts) ==
    LET finalExit == "full " \o kind \o " launchpad-pool exit" IN
    [Policy(contracts @@ LaunchContracts, LaunchRequired(kind, finalExit),
            Chained(LaunchLifecycle(finalExit)), Tokens) EXCEPT !.says = LaunchCalls]

FeasibilityClosures == {
    "pool probe 0 closure and recovery", "pool probe 1 closure and recovery",
    "router probe closure and recovery"}
FeasibilityPolicy == Policy(
    [MpcBestExecutionPoolProbe |-> 2, MpcBestExecutionRouterProbe |-> 1],
    Mined({"pool probe 0 router binding", "pool probe 0 closure and recovery"}, "GT pool probe 0")
    \cup Mined({"pool probe 1 router binding", "pool probe 1 closure and recovery"},
               "GT pool probe 1")
    \cup Mined({"cross-contract GT quote and private selection", "atomic selected-pool settlement",
                "router probe closure and recovery"}, "GT router probe"),
    {<<"pool probe 0 router binding", "cross-contract GT quote and private selection">>,
     <<"pool probe 1 router binding", "cross-contract GT quote and private selection">>,
     <<"cross-contract GT quote and private selection", "atomic selected-pool settlement">>}
    \cup {<<"atomic selected-pool settlement", l>> : l \in FeasibilityClosures}, Tokens)

FeePolicy ==
    LET lifecycle == << "premature confidential protocol fee collection",
                        "mature confidential protocol fee collection",
                        "terminal sub-threshold fee swap", "full disposable fee-pool exit" >>
        pool == "disposable confidential fee pool" IN
    Policy(StackContracts @@ OnePool,
           Reverted({lifecycle[1]}, pool) \cup Mined({lifecycle[i] : i \in 2..4}, pool),
           Chained(lifecycle), Tokens)

CompatibilityPolicy ==
    LET factory == "configured confidential factory" router == "configured best-execution router"
        pool == "configured compatibility pool" IN
    Policy([PrivateLPTokenFactory |-> 1, ConfidentialCPMMFactory |-> 1,
            ConfidentialBestExecutionRouter |-> 1, ConfidentialCPMM |-> 2, PrivateLPToken |-> 2],
           Mined({"create canonical 100 bps pool", "create canonical 30 bps pool"}, factory)
           \cup Reverted({"duplicate canonical reference pool"}, factory)
           \cup Mined({"initialize canonical 30 bps pool", "full cleanup exit for 30 bps pool"}, pool)
           \cup Mined({"configured compatibility best quote", "configured compatibility best swap"},
                      router),
           {}, Tokens)

\* The bitmap of candidates each quote and swap must name; a replay, an isolation
\* and a rollback are compared with the call they imitate.
BitmapOf ==
    [l \in {"best quote request-id replay", "best quote ciphertext replay",
            "best quote expired deadline", "two-candidate quote with uninitialized tier",
            "two-candidate quote-plus-swap", "three-candidate quote",
            "three-candidate quote-plus-swap", "post-tie 30 bps selection quote",
            "post-tie 30 bps quote-plus-swap", "reverse three-candidate quote",
            "reverse three-candidate quote-plus-swap"} |-> "mixed three"]
    @@ [l \in {"two-candidate quote with absent tier"} |-> "mixed two"]
    @@ ("four-candidate populated quote" :> "four") @@ ("six-candidate populated quote" :> "six")
    @@ ("nine-candidate populated quote" :> "nine")
BestSwaps == {
    "two-candidate quote-plus-swap", "three-candidate quote-plus-swap",
    "post-tie 30 bps quote-plus-swap", "reverse three-candidate quote-plus-swap"}
Rollback(swap) == swap \o " encrypted slippage rollback"
BestQuotes == {
    "caller-bound ciphertext primary control", "encrypted-invalid candidate isolation quote",
    "two-candidate quote with absent tier", "two-candidate quote with uninitialized tier",
    "three-candidate quote", "post-tie 30 bps selection quote", "reverse three-candidate quote",
    "four-candidate populated quote", "six-candidate populated quote",
    "nine-candidate populated quote"}
BestGuards == {
    "best quote request-id replay", "best quote ciphertext replay",
    "best quote expired deadline", "caller-bound ciphertext isolation"}
Previews == {
    "confidential token0 proportional-liquidity preview",
    "confidential token1 proportional-liquidity preview"}
PreviewedAdd == "preview-bound proportional-liquidity add"
PublicLifecycle == <<
    "public atomic create rollback", "public atomic create and seed",
    "public proportional add and refund", "public full liquidity cleanup" >>

BestExecutionRequired ==
    LET migrator == "disposable launchpad migrator"
        second == "disposable second launchpad migrator"
        router == "disposable best execution router"
        previewed == "30 bps launch-protected b canonical pool"
        periphery == "disposable public liquidity router"
        protected(class, tiers) == {"initialize protected " \o class \o t \o " bps pool" : t \in tiers} IN
    {Migrations(protected("", {"30"}), 1, migrator),
     Migrations(protected("a ", {"5", "100"}), 2, migrator),
     Migrations(protected("b ", {"5", "30", "100"}), 3, second)}
    \cup {Requires({Rollback(l) : l \in BestSwaps}, 1, FALSE, router),
          Requires(Previews, 2, TRUE, previewed)}
    \cup Reverted(BestGuards, router) \cup Mined(BestQuotes \cup BestSwaps, router)
    \cup Mined({PreviewedAdd}, previewed) \cup Reverted({PublicLifecycle[1]}, periphery)
    \cup Mined({PublicLifecycle[2], PublicLifecycle[3]}, periphery)
    \cup Mined({PublicLifecycle[4]}, "disposable public pool")
BestExecutionOrders ==
    {<<"two-candidate quote with uninitialized tier", l>> :
        l \in {"two-candidate quote-plus-swap", "best quote request-id replay",
               "best quote ciphertext replay"}}
    \cup {<<"three-candidate quote", "three-candidate quote-plus-swap">>,
          <<"post-tie 30 bps selection quote", "post-tie 30 bps quote-plus-swap">>,
          <<"reverse three-candidate quote", "reverse three-candidate quote-plus-swap">>,
          <<"caller-bound ciphertext isolation", "caller-bound ciphertext primary control">>}
    \cup {<<p, PreviewedAdd>> : p \in Previews} \cup {<<Rollback(l), l>> : l \in BestSwaps}
    \cup Chained(PublicLifecycle)
BestExecutionPolicy == [
    Policy([ConfidentialLaunchInitializationStrategy |-> 2, ConfidentialLaunchpadMigrator |-> 2,
            ConfidentialBestExecutionRouter |-> 1, ConfidentialCPMM |-> 9, PrivateLPToken |-> 9,
            PublicCPMMFactory |-> 1, PublicCPMM |-> 1, PublicCPMMLiquidityRouter |-> 1,
            MockERC20 |-> 2] @@ StackContracts,
           BestExecutionRequired, BestExecutionOrders, Tokens)
    EXCEPT !.says = BitmapOf @@ [l \in {Rollback(s) : s \in BestSwaps} |-> "mixed three"]]

PolicyOf(runner) ==
    CASE runner = "launchpad" -> LaunchPolicy("disposable", StackContracts)
      [] runner = "configured-launchpad" ->
            LaunchPolicy("configured", [CipherDEXFeeVault |-> 1, PrivateLPTokenFactory |-> 1,
                                        ConfidentialCPMMFactory |-> 1])
      [] runner = "best-execution" -> BestExecutionPolicy
      [] runner = "configured-compatibility" -> CompatibilityPolicy
      [] runner = "best-execution-feasibility" -> FeasibilityPolicy
      [] runner = "fee-collection" -> FeePolicy

--------------------------------------------------------------------------------
\* verifyFundedRunEvidence

ContractsAre(policy, artifacts) ==
    /\ {a[2] : a \in artifacts} = DOMAIN policy.contracts
    /\ \A c \in DOMAIN policy.contracts :
          Cardinality({a \in artifacts : a[2] = c}) = policy.contracts[c]
Meets(log, r) ==
    Cardinality({i \in DOMAIN log : log[i].label \in r.labels /\ log[i].ok = r.ok
                                    /\ log[i].target = r.target}) >= r.count
\* requireUniqueTransaction and isStrictlyAfter: a label is journalled at most once
Ordered(log, earlier, later) ==
    \E i, j \in DOMAIN log : log[i].label = earlier /\ log[j].label = later /\ i < j
CreatedOnce(log, contract) ==
    Cardinality({i \in DOMAIN log : log[i].form = "creation" /\ log[i].target = contract
                                    /\ log[i].ok}) = 1

Of(artifacts, contract) == {a \in artifacts : a[2] = contract}
\* A pool is born of one transaction of this run, which also issued its one LP token
FactoryChildren(log, found) ==
    LET pools == Of(found, "ConfidentialCPMM") tokens == Of(found, "PrivateLPToken") IN
    /\ Cardinality(pools) = Cardinality(tokens)
    /\ \A p \in pools :
          /\ Cardinality({i \in DOMAIN log : log[i].label = p[3] /\ log[i].ok}) = 1
          /\ Cardinality({t \in tokens : t[3] = p[3]}) = 1
\* Each launch strategy deployed its own migrator
MigratorChildren(log, created, found) ==
    LET strategies == Of(created, "ConfidentialLaunchInitializationStrategy")
        migrators == Of(found, "ConfidentialLaunchpadMigrator")
        born(m, s) == \E i \in DOMAIN log : /\ log[i].label = m[3] /\ log[i].form = "creation"
                                            /\ log[i].target = s[1] /\ log[i].ok IN
    migrators # {} =>
        /\ Cardinality(migrators) = Cardinality(strategies)
        /\ \A s \in strategies : Cardinality({m \in migrators : born(m, s)}) = 1

Accepts(policy, created, found, log) ==
    /\ ContractsAre(policy, created \cup found)
    /\ \A r \in policy.required : Meets(log, r)
    /\ \A o \in policy.orders : Ordered(log, o[1], o[2])
    /\ \A i \in DOMAIN log :
          log[i].label \in DOMAIN policy.says => log[i].form = policy.says[log[i].label]
    /\ \A a \in created : CreatedOnce(log, a[1])
    /\ FactoryChildren(log, found) /\ MigratorChildren(log, created, found)
    /\ \A i \in DOMAIN log : log[i].target \in {a[1] : a \in created \cup found} \cup policy.configured
================================================================================
