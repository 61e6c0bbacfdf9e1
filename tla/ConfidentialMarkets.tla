------------------------ MODULE ConfidentialMarkets ------------------------
(***************************************************************************)
(* All the confidential pools of one token pair: the strategy registry,    *)
(* the factory, the launch strategies with their migrators, and the        *)
(* best-execution router that chooses among the pools.  A pool's complete  *)
(* key is a fee tier and a class: the standard class, whose first          *)
(* liquidity anybody may add, or a registered launch strategy, whose       *)
(* migrator must add it.                                                   *)
(*                                                                         *)
(* One action per transaction; a transaction that reverts anywhere leaves  *)
(* nothing behind and is not enabled.  Each pool is a ConfidentialPool;    *)
(* its later additions, partial exits and collections are left to that     *)
(* module.  So are the limits a caller states (prices, minimums,           *)
(* deadlines), which only ever reject, the replay protection of inputs     *)
(* and requests, and who the creator of a launch is.  Strategies in        *)
(* Reviewed run reviewed code built for this registry and factory.         *)
(***************************************************************************)
EXTENDS SequencesExt, Integers

CONSTANTS
    Standard,               \* address(0), the class of ordinary pools
    Strategies,             \* the launch strategies anybody deployed
    Reviewed,               \* those of reviewed code, migrator and bindings
    MaxStrategies,          \* MAX_INITIALIZATION_STRATEGIES
    MaxCandidates,          \* MAX_CANDIDATES, of an atomic best swap
    LaunchIds,              \* bound: the launch ids creators choose
    NoLaunch,               \* bytes32(0) as a launch id
    Tiers,                  \* the approved fee tiers, lowest first
    FeeDenominator, FeeShareDenominator, MaxWord, Scale, PriceScale, MaxCount,
    Amounts, FirstOffers,        \* bounds: swap inputs, and first additions
    MaxOpenings, MaxTrades  \* bounds: how many of these in a behaviour

ASSUME ConfidentialMarketsAssumption ==
    /\ Standard \notin Strategies /\ NoLaunch \notin LaunchIds
    /\ Reviewed \subseteq Strategies
    /\ {MaxStrategies, MaxCandidates, MaxOpenings, MaxTrades, MaxWord, MaxCount} \subseteq Nat
    /\ {FeeDenominator, FeeShareDenominator, PriceScale} \subseteq Nat \ {0}
    /\ Scale \in [{0, 1} -> Nat \ {0}]
    /\ Tiers \in Seq(1 .. FeeDenominator)
    /\ Amounts \subseteq 0 .. MaxWord /\ FirstOffers \subseteq [{0, 1} -> 0 .. MaxWord]

Class == {Standard} \cup Strategies
Key == [tier : DOMAIN Tiers, class : Class]
Side == {0, 1}

VARIABLES
    wired,      \* what is bound to the factory: registry, deployer, fee vault
    strategies, \* the registry's initializationStrategies
    finalized,
    router,     \* whether bestExecutionRouter is configured
    market,     \* market[k]: getPool[k] and what is in the pool
    launched,   \* launched[s][l]: the tier whose launch l completed, or 0
    active,     \* active[s][t]: activeLaunchForPoolKey
    openings, trades

configVars == <<wired, strategies, finalized, router>>
launchVars == <<launched, active>>
marketVars == <<configVars, market, launchVars, openings, trades>>

None == [s \in Side |-> 0]
NoPool == [exists |-> FALSE, initialized |-> FALSE, completed |-> FALSE,
           exitable |-> TRUE, reserve |-> None, protocolFees |-> None,
           swapCount |-> None, totalShares |-> 0]

Pool(k) == INSTANCE ConfidentialPool WITH
    FeeBps <- Tiers[k.tier], Users <- {}, CollectionSwaps <- 1, MaxLocks <- 0,
    ProtectedLaunch <- k.class # Standard, locks <- <<>>, shares <- <<>>,
    balance <- None,
    initialized <- market[k].initialized, completed <- market[k].completed,
    reserve <- market[k].reserve, protocolFees <- market[k].protocolFees,
    swapCount <- market[k].swapCount, totalShares <- market[k].totalShares

MarketsInit ==
    /\ wired = {}
    /\ strategies = <<>>
    /\ finalized = FALSE
    /\ router = FALSE
    /\ market = [k \in Key |-> NoPool]
    /\ launched = [s \in Strategies |-> [l \in LaunchIds |-> 0]]
    /\ active = [s \in Strategies |-> [t \in DOMAIN Tiers |-> NoLaunch]]
    /\ openings = 0
    /\ trades = 0

(* PrepareRelaunch and TakeLatest are the definitions after them with a    *)
(* slip made: the mutants a property must catch.  No behaviour uses one.   *)
-----------------------------------------------------------------------------
(* Configuration, by the deployer of the contracts. *)

Bind(part) ==
    /\ part \notin wired
    /\ wired' = wired \cup {part}
    /\ UNCHANGED <<strategies, finalized, router>>

RegisterInitializationStrategy(s) ==
    /\ ~finalized
    /\ "registry" \in wired
    /\ Len(strategies) < MaxStrategies
    /\ s \notin Range(strategies)
    /\ s \in Reviewed
    /\ strategies' = Append(strategies, s)
    /\ UNCHANGED <<wired, finalized, router>>

Finalize ==
    /\ ~finalized
    /\ strategies # <<>>
    /\ finalized' = TRUE
    /\ UNCHANGED <<wired, strategies, router>>

SetBestExecutionRouter ==
    /\ "registry" \in wired /\ finalized
    /\ ~router
    /\ router' = TRUE
    /\ UNCHANGED <<wired, strategies, finalized>>

IsRegisteredStrategy(s) == finalized /\ s \in Range(strategies)

-----------------------------------------------------------------------------
(* The factory. *)

CanDeploy == {"deployer", "vault"} \subseteq wired

CreatePool(t) ==
    LET k == [tier |-> t, class |-> Standard]
    IN  /\ ~market[k].exists
        /\ CanDeploy
        /\ market' = [market EXCEPT ![k].exists = TRUE]
        /\ UNCHANGED <<configVars, launchVars, openings, trades>>

(* getOrCreatePoolForCommitment *)
ResolvePool(k) ==
    /\ IsRegisteredStrategy(k.class)
    /\ IF market[k].exists THEN ~market[k].initialized ELSE CanDeploy

(* Liquidity into an empty pool, to be held by somebody or locked for ever. *)
Open(k, offer, completed, exitable) ==
    /\ openings < MaxOpenings
    /\ openings' = openings + 1
    /\ Pool(k)!InitialAccepted(offer)
    /\ market' = [market EXCEPT ![k] =
           [@ EXCEPT !.exists = TRUE, !.initialized = TRUE,
                     !.completed = completed, !.exitable = exitable,
                     !.reserve = offer, !.totalShares = Pool(k)!InitialShares(offer)]]
    /\ UNCHANGED <<configVars, trades>>

-----------------------------------------------------------------------------
(* The launch strategies, and migrate of their migrators. *)

PrepareRelaunch(s, l, t) == launched[s][l] = 0 /\ ResolvePool([tier |-> t, class |-> s])

PrepareLaunch(s, l, t) ==
    /\ launched[s][l] = 0
    /\ active[s][t] = NoLaunch
    /\ ResolvePool([tier |-> t, class |-> s])

(* authorizeInitialization, which also marks the launch completed. *)
AuthorizeInitialization(s, l, t) ==
    /\ launched' = [launched EXCEPT ![s][l] = t]
    /\ active' = [active EXCEPT ![s][t] = l]

Migrate(s, l, t, offer, permanent) ==
    /\ PrepareLaunch(s, l, t)
    /\ AuthorizeInitialization(s, l, t)
    /\ Open([tier |-> t, class |-> s], offer, TRUE, ~permanent)

-----------------------------------------------------------------------------
(* The pools, used directly. *)

FirstLiquidity(k, offer) ==
    /\ market[k].exists
    /\ k.class # Standard => market[k].completed
    /\ Open(k, offer, market[k].completed, TRUE)
    /\ UNCHANGED launchVars

ExitPool(k) ==
    /\ market[k].initialized /\ market[k].exitable
    /\ market' = [market EXCEPT ![k] =
           [NoPool EXCEPT !.exists = TRUE, !.completed = market[k].completed]]
    /\ UNCHANGED <<configVars, launchVars, openings, trades>>

Settle(k, a, s) ==
    /\ trades < MaxTrades
    /\ trades' = trades + 1
    /\ Pool(k)!SwapAccepted(a, s)
    /\ market' = [market EXCEPT ![k] =
           [market[k] EXCEPT !.reserve = Pool(k)!NextReserve(a, s),
                             !.protocolFees[s] = @ + Pool(k)!ProtocolFee(a),
                             !.swapCount[s] = @ + 1]]
    /\ UNCHANGED <<configVars, launchVars, openings>>

-----------------------------------------------------------------------------
(* The best-execution router: a bit of its candidate bitmap is a slot, the  *)
(* pair of a tier and a class index, traversed in order.                   *)

MaxClasses == MaxStrategies + 1     (* MAX_POOL_CLASSES *)
BitmapBits == Len(Tiers) * MaxClasses
Slots == (DOMAIN Tiers) \X (0 .. MaxStrategies)
SlotAt(bitIndex) == <<bitIndex \div MaxClasses + 1, bitIndex % MaxClasses>>

InitializationStrategyAt(i) == IF i = 0 THEN Standard ELSE strategies[i]

BitmapAccepted(bits, max) ==
    /\ bits # {} /\ Cardinality(bits) <= max
    /\ \A b \in bits : b[2] <= Len(strategies)

KeyAt(slot) == [tier |-> slot[1], class |-> InitializationStrategyAt(slot[2])]

ResolveCandidates(bits) ==
    LET pools[n \in 0 .. BitmapBits] ==    \* the candidates among the first n bits
            IF n = 0 THEN <<>>
            ELSE LET slot == SlotAt(n - 1)
                 IN  IF slot \in bits /\ market[KeyAt(slot)].exists
                                     /\ market[KeyAt(slot)].initialized
                     THEN Append(pools[n - 1], KeyAt(slot)) ELSE pools[n - 1]
    IN  pools[BitmapBits]

Quotes(a, s) ==
    [k \in Key |-> [pool |-> k, output |-> Pool(k)!QuotedOutput(a, s),
                    valid |-> Pool(k)!QuoteValid(a, s)]]

TakeLatest(best, quote) ==
    IF quote.valid /\ (~best.valid \/ quote.output >= best.output) THEN quote ELSE best

TakeBetter(best, quote) ==
    IF quote.valid /\ (~best.valid \/ quote.output > best.output) THEN quote ELSE best

SelectBest(bits, a, s) ==
    LET pools == ResolveCandidates(bits)
        quotes == [i \in DOMAIN pools |-> Quotes(a, s)[pools[i]]]
        best[i \in DOMAIN pools] ==
            IF i = 1 THEN quotes[1] ELSE TakeBetter(best[i - 1], quotes[i])
    IN  best[Len(pools)]

SwapBest(bits, a, s) ==
    /\ router /\ trades < MaxTrades
    /\ BitmapAccepted(bits, MaxCandidates)
    /\ ResolveCandidates(bits) # <<>>
    /\ LET best == SelectBest(bits, a, s)
       IN  best.valid /\ \E k \in Key : k = best.pool /\ Settle(k, a, s)

-----------------------------------------------------------------------------
Configure ==
    /\ \/ \E part \in {"registry", "deployer", "vault"} : Bind(part)
       \/ \E s \in Strategies : RegisterInitializationStrategy(s)
       \/ Finalize
       \/ SetBestExecutionRouter
    /\ UNCHANGED <<market, launchVars, openings, trades>>

Start ==
    \/ \E t \in DOMAIN Tiers : CreatePool(t)
    \/ \E s \in Strategies, l \in LaunchIds, t \in DOMAIN Tiers, offer \in FirstOffers,
          permanent \in BOOLEAN : Migrate(s, l, t, offer, permanent)
    \/ \E k \in Key, offer \in FirstOffers : FirstLiquidity(k, offer)

Trade ==
    \/ \E k \in Key, a \in Amounts, s \in Side : Settle(k, a, s)
    \/ \E bits \in SUBSET Slots, a \in Amounts, s \in Side : SwapBest(bits, a, s)

MarketsNext == Configure \/ Start \/ Trade \/ \E k \in Key : ExitPool(k)

MarketsSpec == MarketsInit /\ [][MarketsNext]_marketVars
-----------------------------------------------------------------------------
(* Properties. *)

(* What strategies, factory and pools know of a launch agrees whatever      *)
(* exits and new seeds come later: a protected pool was created by exactly *)
(* one launch, the strategy remembers it under that key for ever, and no   *)
(* pool of a strategy exists that a launch did not fill.                   *)
LaunchRecordsAgree ==
    \A s \in Strategies, t \in DOMAIN Tiers :
        LET k == [tier |-> t, class |-> s]
        IN  /\ Cardinality({l \in LaunchIds : launched[s][l] = t})
                   = IF market[k].completed THEN 1 ELSE 0
            /\ \A l \in LaunchIds : launched[s][l] = t <=> active[s][t] = l
            /\ market[k].exists <=> market[k].completed

(* Whatever pools the bitmap selects, the router finds a route exactly when *)
(* one of them would accept the swap sent to it directly, and the pool it  *)
(* chooses blindly is the one that pays most: among equals the lowest fee, *)
(* then the standard class.  What it was quoted is what that pool pays, so *)
(* the comparison after the settlement never fails.                        *)
BestExecution ==
    router => \A bits \in SUBSET Slots, a \in Amounts, s \in Side :
        BitmapAccepted(bits, Cardinality(Slots)) =>
            LET pools == ResolveCandidates(bits)
                Usable == {i \in DOMAIN pools : \E k \in Key :
                               k = pools[i] /\ Pool(k)!SwapAccepted(a, s)}
                pays == [k \in Key |-> Pool(k)!SwapOutput(a, s)]
                Pays(i) == pays[pools[i]]
                Wins(i) == \A j \in Usable : IF j < i THEN Pays(j) < Pays(i)
                                                      ELSE Pays(j) <= Pays(i)
            IN  pools # <<>> =>
                    LET best == SelectBest(bits, a, s)
                    IN  /\ best.valid <=> Usable # {}
                        /\ best.valid => \E i \in Usable :
                               /\ Wins(i)
                               /\ best.pool = pools[i] /\ best.output = Pays(i)
=============================================================================
