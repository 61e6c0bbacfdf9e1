-------------------------- MODULE ConfidentialFees --------------------------
(***************************************************************************)
(* The path of encrypted protocol fees: accrued by the swaps of several    *)
(* ConfidentialCPMM pools, deposited into the confidential side of         *)
(* CipherDEXFeeVault by collections and by the exit of a pool's last LP,   *)
(* queued there by epoch, swept by the beneficiary.                        *)
(*                                                                         *)
(* An encrypted amount is the set of swaps whose fees it sums: that is     *)
(* what a beneficiary who sees the sum can tell about them.  The public    *)
(* counters the contracts decide by are kept beside it, as in the code.    *)
(* Of a pool only its life cycle and its fees are here; the reserves and   *)
(* shares that make a swap or an exit possible are the callers' choice.    *)
(* Every pool trades both tokens, as pools of different fee tiers do.      *)
(***************************************************************************)
EXTENDS FiniteSetsExt, Sequences, Integers

CONSTANTS
    Pools,
    Token,
    EpochSeconds,           \* CONFIDENTIAL_EPOCH_SECONDS, 24 hours
    CollectionSwaps,        \* MIN_CONFIDENTIAL_COLLECTION_SWAPS, 8
    CollectionDelay,        \* MIN_CONFIDENTIAL_COLLECTION_DELAY, 1 hour
    AggregatedSwaps,        \* MIN_CONFIDENTIAL_AGGREGATED_SWAPS, 8
    SweepEpochs,            \* MAX_CONFIDENTIAL_SWEEP_EPOCHS, 32
    SweepDelay,             \* MIN_CONFIDENTIAL_SWEEP_DELAY, 24 hours
    MaxTime,                \* bound: the last block timestamp
    MaxSwaps                \* bound: swaps ever made

ASSUME ConfidentialFeesAssumption ==
    /\ EpochSeconds \in Nat \ {0}
    /\ CollectionSwaps \in Nat \ {0}
    /\ CollectionDelay \in Nat
    /\ AggregatedSwaps \in Nat \ {0}
    /\ SweepEpochs \in Nat
    /\ SweepEpochs >= AggregatedSwaps
    /\ SweepDelay = EpochSeconds
    /\ MaxTime \in Nat \ {0}
    /\ MaxSwaps \in Nat

SwapIds == 1 .. MaxSwaps
Epochs == 0 .. MaxTime \div EpochSeconds

VARIABLES
    initialized,        \* initialized[p] of each pool
    protocolFees,       \* protocolFees[p][t], protocolFees0State / 1State
    swapCount,          \* protocolFeeSwapCount0 / 1
    windowStart,        \* protocolFeeWindowStart0 / 1
    epochs,             \* confidentialEpochs[t]
    nextIndex,          \* nextConfidentialEpochIndex[t], from 0
    countByEpoch,       \* confidentialSwapCountByEpoch[t][e]
    feesByEpoch,        \* confidentialFeesByEpoch[t][e]
    now,                \* block.timestamp, never 0
    nextSwap,           \* auxiliary: names the swaps
    madeAt,             \* auxiliary: when each swap was made
    swept               \* auxiliary: swept[t], the fees paid to the beneficiary

poolVars == <<initialized, protocolFees, swapCount, windowStart>>
vaultVars == <<epochs, nextIndex, countByEpoch, feesByEpoch>>
vars == <<poolVars, vaultVars, now, nextSwap, madeAt, swept>>

PerSide(value) == [p \in Pools |-> [t \in Token |-> value]]
PerEpoch(value) == [t \in Token |-> [e \in Epochs |-> value]]

Init ==
    /\ initialized = [p \in Pools |-> FALSE]
    /\ protocolFees = PerSide({})
    /\ swapCount = PerSide(0)
    /\ windowStart = PerSide(0)
    /\ epochs = [t \in Token |-> <<>>]
    /\ nextIndex = [t \in Token |-> 0]
    /\ countByEpoch = PerEpoch(0)
    /\ feesByEpoch = PerEpoch({})
    /\ now = 1
    /\ nextSwap = 1
    /\ madeAt = [s \in SwapIds |-> 0]
    /\ swept = [t \in Token |-> {}]

CurrentEpoch == now \div EpochSeconds

(* An operator named for a slip (CountedOn, IndexKept...) is the           *)
(* definition after it with that slip made: the mutant a property must     *)
(* catch.  No behaviour of Spec uses one.                                  *)
-----------------------------------------------------------------------------
(* The pools. *)

(* The first liquidity, or the first after a full exit. *)
Initialize(p) ==
    /\ ~initialized[p]
    /\ initialized' = [initialized EXCEPT ![p] = TRUE]
    /\ UNCHANGED <<protocolFees, swapCount, windowStart, vaultVars, now,
                   nextSwap, madeAt, swept>>

(* A swap with input token t: its protocol fee, never zero, is in t, and    *)
(* _recordProtocolFeeAccrual counts it.                                    *)
SwapExactInput(p, t) ==
    /\ initialized[p]
    /\ nextSwap \in SwapIds
    /\ protocolFees' = [protocolFees EXCEPT ![p][t] = @ \cup {nextSwap}]
    /\ swapCount' = [swapCount EXCEPT ![p][t] = @ + 1]
    /\ windowStart' =
           [windowStart EXCEPT ![p][t] = IF swapCount[p][t] = 0 THEN now ELSE @]
    /\ nextSwap' = nextSwap + 1
    /\ madeAt' = [madeAt EXCEPT ![nextSwap] = now]
    /\ UNCHANGED <<initialized, vaultVars, now, swept>>

(* _requireConfidentialCollectionReady *)
CollectionReady(p, t) ==
    /\ swapCount[p][t] >= CollectionSwaps
    /\ windowStart[p][t] # 0
    /\ now >= windowStart[p][t] + CollectionDelay

(* depositConfidentialFees for each of the tokens: the pool's count must be *)
(* the vault's, and an epoch is queued by its first deposit.               *)
Queued(t) ==
    IF countByEpoch[t][CurrentEpoch] = 0
    THEN Append(epochs[t], CurrentEpoch) ELSE epochs[t]

DepositConfidentialFees(p, tokens) ==
    /\ \A t \in tokens : swapCount[p][t] # 0
    /\ epochs' = [t \in Token |-> IF t \in tokens THEN Queued(t) ELSE epochs[t]]
    /\ countByEpoch' = [t \in Token |->
           IF t \in tokens
           THEN [countByEpoch[t] EXCEPT ![CurrentEpoch] = @ + swapCount[p][t]]
           ELSE countByEpoch[t]]
    /\ feesByEpoch' = [t \in Token |->
           IF t \in tokens
           THEN [feesByEpoch[t] EXCEPT ![CurrentEpoch] = @ \cup protocolFees[p][t]]
           ELSE feesByEpoch[t]]
    /\ UNCHANGED nextIndex

(* What follows a deposit in the pool. *)
CountedOn(p, tokens) ==
    /\ protocolFees' = [protocolFees EXCEPT ![p] =
           [t \in Token |-> IF t \in tokens THEN {} ELSE @[t]]]
    /\ UNCHANGED <<swapCount, windowStart>>

StartWindow(p, tokens) ==
    /\ protocolFees' = [protocolFees EXCEPT ![p] =
           [t \in Token |-> IF t \in tokens THEN {} ELSE @[t]]]
    /\ swapCount' = [swapCount EXCEPT ![p] =
           [t \in Token |-> IF t \in tokens THEN 0 ELSE @[t]]]
    /\ windowStart' = [windowStart EXCEPT ![p] =
           [t \in Token |-> IF t \in tokens THEN 0 ELSE @[t]]]

CollectProtocolFees(p, tokens) ==
    /\ tokens # {}
    /\ \A t \in tokens : CollectionReady(p, t)
    /\ DepositConfidentialFees(p, tokens)
    /\ StartWindow(p, tokens)
    /\ UNCHANGED <<initialized, now, nextSwap, madeAt, swept>>

(* removeLiquidity of the last shares: _depositTerminalProtocolFees gives   *)
(* the vault whatever there is, without the threshold of a collection.     *)
TerminalTokens(p) == {t \in Token : swapCount[p][t] # 0}

FullExit(p) ==
    /\ initialized[p]
    /\ initialized' = [initialized EXCEPT ![p] = FALSE]
    /\ DepositConfidentialFees(p, TerminalTokens(p))
    /\ StartWindow(p, TerminalTokens(p))
    /\ UNCHANGED <<now, nextSwap, madeAt, swept>>

-----------------------------------------------------------------------------
(* The vault. *)

(* _matureEpochEnd: the queue is in the order of time, so the mature epochs *)
(* at its head end at the first that is not.  Positions count from 0.      *)
MatureNextEpoch(e) == e + 1 <= CurrentEpoch
Mature(e) == e + 2 <= CurrentEpoch

InWindow(t, i) == nextIndex[t] < i /\ i <= nextIndex[t] + SweepEpochs

SweptPositions(t) ==
    {i \in DOMAIN epochs[t] :
        InWindow(t, i) /\ \A j \in nextIndex[t] + 1 .. i : Mature(epochs[t][j])}

EpochsAt(t, positions) == {epochs[t][i] : i \in positions}

(* The counts are added position by position, the fees too. *)
AggregatedCount(t, positions) ==
    SumFunction([i \in positions |-> countByEpoch[t][epochs[t][i]]])

AggregatedFees(t, positions) ==
    UNION {feesByEpoch[t][e] : e \in EpochsAt(t, positions)}

IndexKept(t) == nextIndex[t]
IndexAfter(t) == nextIndex[t] + Cardinality(SweptPositions(t))

Sweepable(t) == AggregatedCount(t, SweptPositions(t)) >= AggregatedSwaps

SweepConfidentialToken(t) ==
    LET positions == SweptPositions(t)
        done == EpochsAt(t, positions)
    IN  /\ Sweepable(t)
        /\ feesByEpoch' = [feesByEpoch EXCEPT ![t] =
               [e \in Epochs |-> IF e \in done THEN {} ELSE @[e]]]
        /\ countByEpoch' = [countByEpoch EXCEPT ![t] =
               [e \in Epochs |-> IF e \in done THEN 0 ELSE @[e]]]
        /\ nextIndex' = [nextIndex EXCEPT ![t] = IndexAfter(t)]
        /\ swept' = [swept EXCEPT ![t] = @ \cup AggregatedFees(t, positions)]
        /\ UNCHANGED <<poolVars, epochs, now, nextSwap, madeAt>>

Tick ==
    /\ now < MaxTime
    /\ now' = now + 1
    /\ UNCHANGED <<poolVars, vaultVars, nextSwap, madeAt, swept>>

Next ==
    \/ \E p \in Pools : Initialize(p) \/ FullExit(p)
    \/ \E p \in Pools, t \in Token : SwapExactInput(p, t)
    \/ \E p \in Pools, tokens \in SUBSET Token : CollectProtocolFees(p, tokens)
    \/ \E t \in Token : SweepConfidentialToken(t)
    \/ Tick

Spec == Init /\ [][Next]_vars
-----------------------------------------------------------------------------
(* Properties. *)

(* Every variable has its type. *)
TypeOK ==
    /\ initialized \in [Pools -> BOOLEAN]
    /\ protocolFees \in [Pools -> [Token -> SUBSET SwapIds]]
    /\ swapCount \in [Pools -> [Token -> Nat]]
    /\ windowStart \in [Pools -> [Token -> 0 .. MaxTime]]
    /\ epochs \in [Token -> Seq(Epochs)]
    /\ nextIndex \in [Token -> Nat]
    /\ \A t \in Token : nextIndex[t] <= Len(epochs[t])
    /\ countByEpoch \in [Token -> [Epochs -> Nat]]
    /\ feesByEpoch \in [Token -> [Epochs -> SUBSET SwapIds]]
    /\ now \in 1 .. MaxTime
    /\ nextSwap \in 1 .. MaxSwaps + 1
    /\ madeAt \in [SwapIds -> 0 .. MaxTime]
    /\ swept \in [Token -> SUBSET SwapIds]

(* The fees of one token inside the protocol. *)
Pending(t) ==
    (UNION {protocolFees[p][t] : p \in Pools})
        \cup UNION {feesByEpoch[t][e] : e \in Epochs}

(* Collections, terminal deposits, epochs and sweeps together implement    *)
(* AggregateRelease: no path hands the beneficiary a sum over fewer swaps  *)
(* than the threshold, although the code decides by counters alone.        *)
Promise == INSTANCE AggregateRelease WITH
               Swaps <- SwapIds, Minimum <- AggregatedSwaps,
               pending <- [t \in Token |-> Pending(t)], released <- swept

FeesLeaveInAggregates == Promise!Spec

(* A swap's fee is paid out more than MIN_CONFIDENTIAL_SWEEP_DELAY after    *)
(* the swap was made, although no code compares anything with that delay.  *)
ReleaseIsLate ==
    \A t \in Token : \A s \in swept'[t] \ swept[t] : now > madeAt[s] + SweepDelay

ReleasesDelayed == [][ReleaseIsLate]_vars

(* The queue of each token names every epoch once and in the order of time, *)
(* and the epochs still to be swept are exactly those with fees in them;   *)
(* and thin epochs never block it: as soon as enough swaps are mature,     *)
(* wherever they are in the queue, the beneficiary can sweep.              *)
QueueNamesPendingFees(t) ==
    /\ \A i, j \in DOMAIN epochs[t] : i < j => epochs[t][i] < epochs[t][j]
    /\ {e \in Epochs : feesByEpoch[t][e] # {}}
           = EpochsAt(t, nextIndex[t] + 1 .. Len(epochs[t]))

MatureFees(t) == UNION {feesByEpoch[t][e] : e \in {x \in Epochs : Mature(x)}}

NothingStranded ==
    \A t \in Token :
        /\ QueueNamesPendingFees(t)
        /\ Cardinality(MatureFees(t)) >= AggregatedSwaps
               => ENABLED SweepConfidentialToken(t)
=============================================================================
