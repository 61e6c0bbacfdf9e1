--------------------------- MODULE ObservablePool ---------------------------
(***************************************************************************)
(* ObservableConfidentialCPMM: ConfidentialPool that publishes a coarse    *)
(* price.  The first liquidity names a public reference; from then on each *)
(* swap compares the price with the bucket last published, moves it by at  *)
(* most a factor of two and publishes when the bucket changes.  Liquidity  *)
(* publishes nothing, and the exit of the last holder clears it.           *)
(* Sequence numbers and times of publication are left out.                 *)
(***************************************************************************)
EXTENDS ConfidentialPool

CONSTANTS
    BucketBps,      \* OBSERVATION_BUCKET_BPS, 50 of FEE_DENOMINATOR
    References      \* bound: the initial price references callers name

ASSUME ObservablePoolAssumption ==
    /\ BucketBps \in 1 .. FeeDenominator
    /\ 2 * BucketBps <= FeeDenominator
    /\ References \subseteq 1 .. MaxWord

VARIABLES
    reference,  \* initialPriceReferenceX18
    bucket,     \* publicPriceBucketX18
    quantum,    \* publicPriceQuantumX18
    activity    \* swapsSincePublicObservation

publicVars == <<reference, bucket, quantum, activity>>
observableVars == <<vars, publicVars>>

ObservableInit == Init /\ reference = 0 /\ bucket = 0 /\ quantum = 0 /\ activity = 0

(* LowerUnclamped is ReferenceLower with a slip made: a mutant.            *)
-----------------------------------------------------------------------------
Price(r) == (r[1] * Scale[1] * PriceScale) \div (r[0] * Scale[0])

PriceQuantum(p) ==
    LET q == (p \div FeeDenominator) * BucketBps
                 + ((p % FeeDenominator) * BucketBps) \div FeeDenominator
    IN  IF q = 0 THEN 1 ELSE q

LowerUnclamped(p) == p \div 2
ReferenceLower(p) == IF p \div 2 = 0 THEN 1 ELSE p \div 2
ReferenceUpper(p) == IF p > MaxWord \div 2 THEN MaxWord ELSE 2 * p

Quantized(p, q) == (p \div q) * q

Publish(b, q) == b # 0 /\ q # 0 /\ bucket' = b /\ quantum' = q /\ activity' = 0

(* _initializePublicObservation *)
InitializeObservation(named, offer) ==
    /\ ReferenceLower(named) <= Price(offer) /\ Price(offer) <= ReferenceUpper(named)
    /\ reference' = named
    /\ Publish(Quantized(Price(offer), PriceQuantum(named)), PriceQuantum(named))

(* _recordSwapObservation *)
Clamped(p) ==
    LET capped == Least(p, ReferenceUpper(bucket))
    IN  IF capped < ReferenceLower(bucket) THEN ReferenceLower(bucket) ELSE capped

NextBucket(r) == Quantized(Clamped(Price(r)), PriceQuantum(bucket))

RecordSwap(r) ==
    /\ UNCHANGED reference
    /\ IF NextBucket(r) = bucket
       THEN /\ activity' = Least(activity + 1, MaxCount)
            /\ UNCHANGED <<bucket, quantum>>
       ELSE Publish(NextBucket(r), PriceQuantum(bucket))

ClearObservation(k) ==
    IF k = totalShares
    THEN reference' = 0 /\ bucket' = 0 /\ quantum' = 0 /\ activity' = 0
    ELSE UNCHANGED publicVars

-----------------------------------------------------------------------------
ObservedSwap == \E a \in Amounts, s \in Side : Swap(a, s) /\ RecordSwap(NextReserve(a, s))

ObservedStart ==
    \E u \in Users, offer \in Offers, named \in References :
        /\ InitializeObservation(named, offer)
        /\ \/ InitializeLiquidity(u, offer)
           \/ \E d \in Dispositions : Bootstrap(u, offer, d)

ObservedRemoval ==
    \E u \in Users : \E k \in 1 .. shares[u] :
        RemoveLiquidity(u, k) /\ ClearObservation(k)

Unobserved ==
    /\ \/ \E u \in Users, offer \in Offers : IncreaseLiquidity(u, offer)
       \/ Hold
       \/ \E sides \in SUBSET Side : CollectProtocolFees(sides)
       \/ \E i \in DOMAIN locks : UnlockShares(i)
    /\ UNCHANGED publicVars

ObservableNext == ObservedSwap \/ ObservedStart \/ ObservedRemoval \/ Unobserved

ObservableSpec == ObservableInit /\ [][ObservableNext]_observableVars
-----------------------------------------------------------------------------
(* Properties. *)

(* Publishing never stands in the way: in an open pool there is a bucket to *)
(* compare with, and every swap the router's quote calls valid, which knows *)
(* nothing of observations, has a bucket that can be published.            *)
PublishingNeverBlocks ==
    /\ initialized <=> bucket # 0
    /\ initialized <=> reference # 0
    /\ \A a \in Amounts, s \in Side :
           QuoteValid(a, s) => NextBucket(NextReserve(a, s)) # 0
=============================================================================
