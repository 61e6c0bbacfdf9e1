------------------------- MODULE ObservableMarkets -------------------------
(***************************************************************************)
(* The same markets of ObservableConfidentialCPMM pools.  Their contracts  *)
(* repeat those of ConfidentialMarkets and carry one value more: the       *)
(* public price reference the first liquidity of a pool names, which the   *)
(* creator of a launch signs and strategy and factory hand on.  What the   *)
(* pools publish from then on is ObservablePool's subject.                 *)
(***************************************************************************)
EXTENDS ConfidentialMarkets

CONSTANTS References    \* bound: the price references callers name

ASSUME ObservableMarketsAssumption == References \subseteq Nat

VARIABLE reference      \* reference[k]: initialPriceReferenceX18 of the pool

observableVars == <<marketVars, reference>>

Observed(k) == INSTANCE ObservablePool WITH
    FeeBps <- Tiers[k.tier], Users <- {}, CollectionSwaps <- 1, MaxLocks <- 0,
    ProtectedLaunch <- k.class # Standard, locks <- <<>>, shares <- <<>>,
    balance <- None, BucketBps <- 1, bucket <- 0, quantum <- 0, activity <- 0,
    initialized <- market[k].initialized, completed <- market[k].completed,
    reserve <- market[k].reserve, protocolFees <- market[k].protocolFees,
    swapCount <- market[k].swapCount, totalShares <- market[k].totalShares,
    reference <- reference[k]

ObservableInit ==
    /\ MarketsInit
    /\ reference = [k \in Key |-> 0]

(* ExitKeepingReference is ObservedExit with a slip made: a mutant.        *)
-----------------------------------------------------------------------------
Name(k, offer, named) ==
    /\ named # 0
    /\ Observed(k)!ReferenceLower(named) <= Observed(k)!Price(offer)
    /\ Observed(k)!Price(offer) <= Observed(k)!ReferenceUpper(named)
    /\ reference' = [reference EXCEPT ![k] = named]

ObservedMigrate(s, l, t, offer, permanent, named) ==
    LET k == [tier |-> t, class |-> s]
    IN  /\ reference[k] = 0
        /\ Migrate(s, l, t, offer, permanent)
        /\ Name(k, offer, named)

ObservedFirstLiquidity(k, offer, named) ==
    /\ FirstLiquidity(k, offer)
    /\ Name(k, offer, named)

ExitKeepingReference(k) == ExitPool(k) /\ UNCHANGED reference

ObservedExit(k) ==
    /\ ExitPool(k)
    /\ reference' = [reference EXCEPT ![k] = 0]

ObservedStart ==
    \E offer \in FirstOffers, named \in References :
        \/ \E s \in Strategies, l \in LaunchIds, t \in DOMAIN Tiers, permanent \in BOOLEAN :
               ObservedMigrate(s, l, t, offer, permanent, named)
        \/ \E k \in Key : ObservedFirstLiquidity(k, offer, named)

Unobserved ==
    /\ Configure \/ Trade \/ \E t \in DOMAIN Tiers : CreatePool(t)
    /\ UNCHANGED reference

ObservableNext == ObservedStart \/ Unobserved \/ \E k \in Key : ObservedExit(k)

ObservableSpec == ObservableInit /\ [][ObservableNext]_observableVars
-----------------------------------------------------------------------------
(* Properties. *)

(* A pool has a public reference exactly while it is open: every opening    *)
(* names one, and the exit of the last holder clears it, without which the *)
(* next price record or the next launch would be measured by a stale one.  *)
ReferenceFollowsPool == \A k \in Key : market[k].initialized <=> reference[k] # 0
=============================================================================
