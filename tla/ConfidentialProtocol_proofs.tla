---------------------- MODULE ConfidentialProtocol_proofs ----------------------
(***************************************************************************)
(* Proofs about the fee vault's confidential side and about the launch and *)
(* the markets of confidential pools, two parts of one deployment that     *)
(* share no variable.                                                      *)
(*                                                                         *)
(* ConfidentialFees, for any pools, tokens, epoch length, thresholds and   *)
(* bounds: its typing, and that no swap's fee is paid out within the sweep *)
(* delay.  The delay is nowhere in the code's guards, so Inv carries the   *)
(* age of every fee through its stations: in a pool it was made by now, in *)
(* an epoch of the vault before the epoch ended.  Flow adds where the fees *)
(* are, for what the counters guard: every counter is the number of fees   *)
(* beside it, no fee is in two places, and the queue holds the epochs with *)
(* fees in the order of time.                                              *)
(*                                                                         *)
(* ObservableMarkets, for any strategies, launches and fee tiers: the      *)
(* records of a launch agree, the router's blind choice is the best route, *)
(* and a pool's reference lives as long as its liquidity.                  *)
(***************************************************************************)
EXTENDS ConfidentialFees, ObservableMarkets, NumberFacts, FiniteSetTheorems

MadeBeforeEpochEnds ==
    \A t \in Token, e \in Epochs : \A s \in feesByEpoch[t][e] :
        madeAt[s] < EpochSeconds * e + EpochSeconds

(* Named swaps were made in the past, and no fee is of a swap to come. *)
SwapsPast ==
    /\ \A s \in SwapIds : madeAt[s] <= now
    /\ \A p \in Pools, t \in Token : \A s \in protocolFees[p][t] : s < nextSwap
    /\ \A t \in Token, e \in Epochs : \A s \in feesByEpoch[t][e] : s < nextSwap

Inv == TypeOK /\ MadeBeforeEpochEnds /\ SwapsPast

-----------------------------------------------------------------------------
(* Division is monotonic. *)
LEMMA DivMonotonic ==
    ASSUME NEW m \in Nat, NEW n \in Nat, m <= n, NEW d \in Nat \ {0}
    PROVE  m \div d <= n \div d
<1> DEFINE a == m \div d
           b == n \div d
<1>1. /\ a \in Nat /\ b \in Nat
      /\ d * a <= m /\ n < d * b + d
    BY DivBounds
<1> HIDE DEF a, b
<1>2. SUFFICES ASSUME a >= b + 1 PROVE FALSE
    BY <1>1 DEF a, b
<1>3. d * a >= d * (b + 1)
    BY <1>1, <1>2, SMTT(30)
<1>4. d * (b + 1) = d * b + d
    BY <1>1, SMTT(30)
<1> QED
    BY <1>1, <1>3, <1>4, SMT

(* The vault's epoch is one it has room for, and now is not past its end.  *)
LEMMA EpochNow ==
    ASSUME TypeOK
    PROVE  /\ CurrentEpoch \in Epochs
           /\ EpochSeconds * CurrentEpoch <= now
           /\ now < EpochSeconds * CurrentEpoch + EpochSeconds
<1>1. /\ now \in Nat /\ MaxTime \in Nat /\ now <= MaxTime
      /\ EpochSeconds \in Nat \ {0}
    BY ConfidentialFeesAssumption DEF TypeOK
<1>2. /\ CurrentEpoch \in Nat /\ MaxTime \div EpochSeconds \in Nat
      /\ EpochSeconds * CurrentEpoch <= now
      /\ now < EpochSeconds * CurrentEpoch + EpochSeconds
    BY <1>1, DivBounds DEF CurrentEpoch
<1>3. CurrentEpoch <= MaxTime \div EpochSeconds
    BY <1>1, DivMonotonic DEF CurrentEpoch
<1> QED
    BY <1>2, <1>3 DEF Epochs

(* A mature epoch ended more than the sweep delay ago. *)
LEMMA MatureIsOld ==
    ASSUME TypeOK, NEW e \in Epochs, Mature(e), NEW made \in Nat,
           made < EpochSeconds * e + EpochSeconds
    PROVE  now > made + SweepDelay
<1>1. /\ EpochSeconds \in Nat \ {0} /\ SweepDelay = EpochSeconds
      /\ MaxTime \in Nat
    BY ConfidentialFeesAssumption
<1>2. /\ e \in Nat /\ CurrentEpoch \in Nat /\ now \in Nat
      /\ EpochSeconds * CurrentEpoch <= now
      /\ e + 2 <= CurrentEpoch
    BY <1>1, EpochNow, DivBounds DEF Epochs, Mature, TypeOK
<1>3. EpochSeconds * (e + 2) <= EpochSeconds * CurrentEpoch
    BY <1>1, <1>2, SMTT(30)
<1>4. EpochSeconds * (e + 2) = EpochSeconds * e + EpochSeconds + EpochSeconds
    BY <1>1, <1>2, SMTT(30)
<1>5. EpochSeconds * e \in Nat /\ EpochSeconds * CurrentEpoch \in Nat
    BY <1>1, <1>2, SMT
<1> QED
    BY <1>1, <1>2, <1>3, <1>4, <1>5, SMT

-----------------------------------------------------------------------------
(* The initial state of the contracts satisfies the invariant. *)
LEMMA InitInv == Init => Inv
<1> SUFFICES ASSUME Init PROVE Inv
    OBVIOUS
<1>0. /\ MaxTime \in Nat \ {0} /\ MaxSwaps \in Nat
      /\ EpochSeconds \in Nat \ {0}
    BY ConfidentialFeesAssumption
<1>1. TypeOK
  <2>1. /\ initialized \in [Pools -> BOOLEAN]
        /\ protocolFees \in [Pools -> [Token -> SUBSET SwapIds]]
        /\ swapCount \in [Pools -> [Token -> Nat]]
    BY DEF Init, PerSide
  <2>2. windowStart \in [Pools -> [Token -> 0 .. MaxTime]]
    BY <1>0 DEF Init, PerSide
  <2>3. /\ epochs \in [Token -> Seq(Epochs)]
        /\ nextIndex \in [Token -> Nat]
        /\ \A t \in Token : nextIndex[t] <= Len(epochs[t])
    BY DEF Init
  <2>4. /\ countByEpoch \in [Token -> [Epochs -> Nat]]
        /\ feesByEpoch \in [Token -> [Epochs -> SUBSET SwapIds]]
        /\ swept \in [Token -> SUBSET SwapIds]
    BY DEF Init, PerEpoch
  <2>5. /\ now \in 1 .. MaxTime /\ nextSwap \in 1 .. MaxSwaps + 1
        /\ madeAt \in [SwapIds -> 0 .. MaxTime]
    BY <1>0 DEF Init
  <2> QED
    BY <2>1, <2>2, <2>3, <2>4, <2>5 DEF TypeOK
<1>2. MadeBeforeEpochEnds
    BY DEF Init, MadeBeforeEpochEnds, PerEpoch
<1>3. SwapsPast
    BY <1>0 DEF Init, SwapsPast, PerEpoch, PerSide, SwapIds
<1> QED
    BY <1>1, <1>2, <1>3 DEF Inv

(* A new life of a pool moves no fee. *)
LEMMA InitializeInv ==
    ASSUME Inv, NEW p \in Pools, Initialize(p)
    PROVE  Inv'
<1>1. TypeOK'
    BY DEF Inv, TypeOK, Initialize, vaultVars
<1>2. MadeBeforeEpochEnds' /\ SwapsPast'
    BY DEF Inv, MadeBeforeEpochEnds, SwapsPast, Initialize, vaultVars
<1> QED
    BY <1>1, <1>2 DEF Inv

(* Time only moves away from the swaps that were made. *)
LEMMA TickInv ==
    ASSUME Inv, Tick
    PROVE  Inv'
<1>0. MaxTime \in Nat /\ now \in 1 .. MaxTime /\ now < MaxTime /\ now' = now + 1
    BY ConfidentialFeesAssumption DEF Inv, TypeOK, Tick
<1>1. TypeOK'
    BY <1>0 DEF Inv, TypeOK, Tick, poolVars, vaultVars
<1>2. MadeBeforeEpochEnds'
    BY DEF Inv, MadeBeforeEpochEnds, Tick, vaultVars
<1>3. SwapsPast'
  <2>1. \A s \in SwapIds : madeAt[s] \in Int /\ madeAt[s] <= now
    BY <1>0 DEF Inv, TypeOK, SwapsPast
  <2>2. \A s \in SwapIds : madeAt'[s] <= now'
    BY <1>0, <2>1 DEF Tick
  <2> QED
    BY <2>2 DEF Inv, SwapsPast, Tick, poolVars, vaultVars
<1> QED
    BY <1>1, <1>2, <1>3 DEF Inv

(* A swap takes the next name, which no fee bears yet, and is made now. *)
LEMMA SwapInv ==
    ASSUME Inv, NEW p \in Pools, NEW t \in Token, SwapExactInput(p, t)
    PROVE  Inv'
<1>0. /\ MaxTime \in Nat /\ MaxSwaps \in Nat
      /\ now \in 1 .. MaxTime /\ nextSwap \in SwapIds /\ nextSwap' = nextSwap + 1
      /\ now' = now /\ madeAt' = [madeAt EXCEPT ![nextSwap] = now]
      /\ feesByEpoch' = feesByEpoch
    BY ConfidentialFeesAssumption DEF Inv, TypeOK, SwapExactInput, vaultVars
<1>1. TypeOK'
  <2>1. protocolFees' \in [Pools -> [Token -> SUBSET SwapIds]]
    BY <1>0 DEF Inv, TypeOK, SwapExactInput
  <2>2. swapCount' \in [Pools -> [Token -> Nat]]
    BY DEF Inv, TypeOK, SwapExactInput
  <2>3. windowStart' \in [Pools -> [Token -> 0 .. MaxTime]]
    BY <1>0 DEF Inv, TypeOK, SwapExactInput
  <2>4. /\ nextSwap' \in 1 .. MaxSwaps + 1
        /\ madeAt' \in [SwapIds -> 0 .. MaxTime]
    BY <1>0 DEF Inv, TypeOK, SwapIds
  <2> QED
    BY <2>1, <2>2, <2>3, <2>4 DEF Inv, TypeOK, SwapExactInput, vaultVars
<1>2. \A u \in Token, e \in Epochs : \A s \in feesByEpoch[u][e] :
          /\ s \in SwapIds /\ s # nextSwap /\ s < nextSwap'
          /\ madeAt'[s] = madeAt[s]
  <2> SUFFICES ASSUME NEW u \in Token, NEW e \in Epochs, NEW s \in feesByEpoch[u][e]
               PROVE  /\ s \in SwapIds /\ s # nextSwap /\ s < nextSwap'
                      /\ madeAt'[s] = madeAt[s]
    OBVIOUS
  <2>1. s \in SwapIds
    BY DEF Inv, TypeOK
  <2>2. s < nextSwap
    BY DEF Inv, SwapsPast
  <2>3. s # nextSwap /\ s < nextSwap'
    BY <1>0, <2>1, <2>2 DEF SwapIds
  <2> QED
    BY <1>0, <2>1, <2>3 DEF Inv, TypeOK
<1>3. MadeBeforeEpochEnds'
    BY <1>0, <1>2 DEF Inv, MadeBeforeEpochEnds
<1>4. SwapsPast'
  <2>1. \A s \in SwapIds : madeAt'[s] <= now'
    BY <1>0 DEF Inv, TypeOK, SwapsPast
  <2>2. \A q \in Pools, u \in Token : \A s \in protocolFees'[q][u] : s < nextSwap'
    <3> SUFFICES ASSUME NEW q \in Pools, NEW u \in Token, NEW s \in protocolFees'[q][u]
                 PROVE  s < nextSwap'
      OBVIOUS
    <3>1. s \in protocolFees[q][u] \/ s = nextSwap
      BY DEF Inv, TypeOK, SwapExactInput
    <3>2. CASE s \in protocolFees[q][u]
      <4>1. s \in SwapIds
        BY <3>2 DEF Inv, TypeOK
      <4>2. s < nextSwap
        BY <3>2 DEF Inv, SwapsPast
      <4> QED
        BY <1>0, <4>1, <4>2 DEF SwapIds
    <3> QED
      BY <1>0, <3>1, <3>2 DEF SwapIds
  <2> QED
    BY <1>0, <1>2, <2>1, <2>2 DEF SwapsPast
<1> QED
    BY <1>1, <1>3, <1>4 DEF Inv

(* A deposit puts the pool's fees, all of swaps made by now, in the epoch   *)
(* of now, which is not over.                                              *)
LEMMA DepositInv ==
    ASSUME Inv, NEW p \in Pools, NEW tokens \in SUBSET Token,
           DepositConfidentialFees(p, tokens), StartWindow(p, tokens),
           initialized' \in [Pools -> BOOLEAN],
           UNCHANGED <<now, nextSwap, madeAt, swept>>
    PROVE  Inv'
<1>0. /\ CurrentEpoch \in Epochs /\ now \in Nat /\ MaxTime \in Nat
      /\ now < EpochSeconds * CurrentEpoch + EpochSeconds
      /\ EpochSeconds * CurrentEpoch + EpochSeconds \in Nat
    BY EpochNow, DivBounds, ConfidentialFeesAssumption
    DEF Inv, TypeOK, Epochs, CurrentEpoch
<1>1. /\ protocolFees' \in [Pools -> [Token -> SUBSET SwapIds]]
      /\ \A q \in Pools, u \in Token : protocolFees'[q][u] \subseteq protocolFees[q][u]
    BY DEF Inv, TypeOK, StartWindow
<1>2. /\ feesByEpoch' \in [Token -> [Epochs -> SUBSET SwapIds]]
      /\ \A u \in Token, e \in Epochs : \A s \in feesByEpoch'[u][e] :
             s \in feesByEpoch[u][e] \/ (e = CurrentEpoch /\ s \in protocolFees[p][u])
    BY <1>0 DEF Inv, TypeOK, DepositConfidentialFees
<1>3. TypeOK'
  <2>1. swapCount' \in [Pools -> [Token -> Nat]]
    BY DEF Inv, TypeOK, StartWindow
  <2>2. windowStart' \in [Pools -> [Token -> 0 .. MaxTime]]
    BY <1>0 DEF Inv, TypeOK, StartWindow
  <2>3. countByEpoch' \in [Token -> [Epochs -> Nat]]
    BY <1>0 DEF Inv, TypeOK, DepositConfidentialFees
  <2>4. \A u \in Token : /\ Queued(u) \in Seq(Epochs)
                         /\ Len(Queued(u)) >= Len(epochs[u])
    BY <1>0 DEF Inv, TypeOK, Queued
  <2>5. /\ epochs' \in [Token -> Seq(Epochs)]
        /\ \A u \in Token : Len(epochs'[u]) >= Len(epochs[u])
    BY <2>4 DEF Inv, TypeOK, DepositConfidentialFees
  <2>6. /\ nextIndex' \in [Token -> Nat]
        /\ \A u \in Token : nextIndex'[u] <= Len(epochs'[u])
    BY <2>5 DEF Inv, TypeOK, DepositConfidentialFees
  <2> QED
    BY <1>1, <1>2, <2>1, <2>2, <2>3, <2>5, <2>6 DEF Inv, TypeOK
<1>4. MadeBeforeEpochEnds'
  <2> SUFFICES ASSUME NEW u \in Token, NEW e \in Epochs, NEW s \in feesByEpoch'[u][e]
               PROVE  madeAt[s] < EpochSeconds * e + EpochSeconds
    BY DEF MadeBeforeEpochEnds
  <2>1. CASE s \in feesByEpoch[u][e]
    BY <2>1 DEF Inv, MadeBeforeEpochEnds
  <2>2. CASE e = CurrentEpoch /\ s \in protocolFees[p][u]
    <3>1. s \in SwapIds
      BY <2>2 DEF Inv, TypeOK
    <3>2. madeAt[s] \in 0 .. MaxTime
      BY <3>1 DEF Inv, TypeOK
    <3>3. madeAt[s] <= now
      BY <3>1 DEF Inv, SwapsPast
    <3> QED
      BY <1>0, <2>2, <3>2, <3>3
  <2> QED
    BY <1>2, <2>1, <2>2
<1>5. SwapsPast'
    BY <1>1, <1>2 DEF Inv, SwapsPast
<1> QED
    BY <1>3, <1>4, <1>5 DEF Inv

(* A sweep's positions are queued ones after nextIndex, and their epochs    *)
(* are mature.                                                             *)
LEMMA SweptPositionsAreMature ==
    ASSUME TypeOK, NEW t \in Token
    PROVE  /\ SweptPositions(t) \subseteq nextIndex[t] + 1 .. Len(epochs[t])
           /\ \A i \in SweptPositions(t) :
                  epochs[t][i] \in Epochs /\ Mature(epochs[t][i])
<1>1. nextIndex[t] \in Nat /\ epochs[t] \in Seq(Epochs)
    BY DEF TypeOK
<1>2. ASSUME NEW i \in SweptPositions(t)
      PROVE  /\ i \in nextIndex[t] + 1 .. Len(epochs[t])
             /\ epochs[t][i] \in Epochs /\ Mature(epochs[t][i])
  <2>1. /\ i \in 1 .. Len(epochs[t]) /\ nextIndex[t] < i
        /\ \A j \in nextIndex[t] + 1 .. i : Mature(epochs[t][j])
    BY <1>1, <1>2 DEF SweptPositions, InWindow
  <2>2. i \in nextIndex[t] + 1 .. i
    BY <1>1, <2>1
  <2> QED
    BY <1>1, <2>1, <2>2
<1> QED
    BY <1>2

(* nextConfidentialEpochIndex never passes the end of the queue. *)
LEMMA IndexStaysInQueue ==
    ASSUME TypeOK, NEW t \in Token
    PROVE  IndexAfter(t) \in Nat /\ IndexAfter(t) <= Len(epochs[t])
<1> DEFINE rest == nextIndex[t] + 1 .. Len(epochs[t])
<1>1. /\ nextIndex[t] \in Nat /\ Len(epochs[t]) \in Nat
      /\ nextIndex[t] <= Len(epochs[t])
    BY DEF TypeOK
<1>2. IsFiniteSet(rest) /\ Cardinality(rest) = Len(epochs[t]) - nextIndex[t]
  <2>1. /\ IsFiniteSet(rest)
        /\ Cardinality(rest) = IF nextIndex[t] + 1 > Len(epochs[t]) THEN 0
                               ELSE Len(epochs[t]) - (nextIndex[t] + 1) + 1
    <3>1. nextIndex[t] + 1 \in Int /\ Len(epochs[t]) \in Int
      BY <1>1
    <3> QED
      BY <3>1, FS_Interval, Zenon
  <2> QED
    BY <1>1, <2>1
<1>3. /\ Cardinality(SweptPositions(t)) \in Nat
      /\ Cardinality(SweptPositions(t)) <= Cardinality(rest)
  <2>1. SweptPositions(t) \subseteq rest
    BY SweptPositionsAreMature
  <2> QED
    BY <1>2, <2>1, FS_Subset, FS_CardinalityType
<1> QED
    BY <1>1, <1>2, <1>3 DEF IndexAfter

(* A sweep empties epochs and pays out what was in them. *)
LEMMA SweepInv ==
    ASSUME Inv, NEW t \in Token, SweepConfidentialToken(t)
    PROVE  Inv'
<1>1. /\ feesByEpoch' \in [Token -> [Epochs -> SUBSET SwapIds]]
      /\ \A u \in Token, e \in Epochs : feesByEpoch'[u][e] \subseteq feesByEpoch[u][e]
    BY DEF Inv, TypeOK, SweepConfidentialToken
<1>2. countByEpoch' \in [Token -> [Epochs -> Nat]]
    BY DEF Inv, TypeOK, SweepConfidentialToken
<1>3. /\ nextIndex' \in [Token -> Nat]
      /\ \A u \in Token : nextIndex'[u] <= Len(epochs[u])
  <2>1. IndexAfter(t) \in Nat /\ IndexAfter(t) <= Len(epochs[t])
    BY IndexStaysInQueue DEF Inv
  <2>2. nextIndex' = [nextIndex EXCEPT ![t] = IndexAfter(t)]
    BY DEF SweepConfidentialToken
  <2> QED
    BY <2>1, <2>2 DEF Inv, TypeOK
<1>4. swept' \in [Token -> SUBSET SwapIds]
  <2>1. AggregatedFees(t, SweptPositions(t)) \subseteq SwapIds
    BY SweptPositionsAreMature DEF Inv, TypeOK, AggregatedFees, EpochsAt
  <2>2. swept' = [swept EXCEPT ![t] = @ \cup AggregatedFees(t, SweptPositions(t))]
    BY DEF SweepConfidentialToken
  <2> QED
    BY <2>1, <2>2 DEF Inv, TypeOK
<1>5. UNCHANGED <<poolVars, epochs, now, nextSwap, madeAt>>
    BY DEF SweepConfidentialToken
<1>6. TypeOK'
    BY <1>1, <1>2, <1>3, <1>4, <1>5 DEF Inv, TypeOK, poolVars
<1>7. MadeBeforeEpochEnds'
    BY <1>1, <1>5 DEF Inv, MadeBeforeEpochEnds
<1>8. SwapsPast'
    BY <1>1, <1>5 DEF Inv, SwapsPast, poolVars
<1> QED
    BY <1>6, <1>7, <1>8 DEF Inv

(* Every step keeps the invariant. *)
LEMMA NextInv == Inv /\ [Next]_vars => Inv'
<1> SUFFICES ASSUME Inv, [Next]_vars PROVE Inv'
    OBVIOUS
<1>1. ASSUME NEW p \in Pools, Initialize(p) PROVE Inv'
    BY <1>1, InitializeInv
<1>2. ASSUME NEW p \in Pools, FullExit(p) PROVE Inv'
  <2>1. TerminalTokens(p) \in SUBSET Token
    BY DEF TerminalTokens
  <2>2. initialized' \in [Pools -> BOOLEAN]
    BY <1>2 DEF FullExit, Inv, TypeOK
  <2> QED
    BY <1>2, <2>1, <2>2, DepositInv DEF FullExit
<1>3. ASSUME NEW p \in Pools, NEW t \in Token, SwapExactInput(p, t) PROVE Inv'
    BY <1>3, SwapInv
<1>4. ASSUME NEW p \in Pools, NEW tokens \in SUBSET Token,
             CollectProtocolFees(p, tokens)
      PROVE  Inv'
  <2>1. initialized' \in [Pools -> BOOLEAN]
    BY <1>4 DEF CollectProtocolFees, Inv, TypeOK
  <2> QED
    BY <1>4, <2>1, DepositInv DEF CollectProtocolFees
<1>5. ASSUME NEW t \in Token, SweepConfidentialToken(t) PROVE Inv'
    BY <1>5, SweepInv
<1>6. ASSUME Tick PROVE Inv'
    BY <1>6, TickInv
<1>7. CASE UNCHANGED vars
  <2>1. UNCHANGED <<poolVars, vaultVars, now, nextSwap, madeAt, swept>>
    BY <1>7 DEF vars
  <2>2. TypeOK'
    BY <2>1 DEF Inv, TypeOK, poolVars, vaultVars
  <2>3. MadeBeforeEpochEnds' /\ SwapsPast'
    BY <2>1 DEF Inv, MadeBeforeEpochEnds, SwapsPast, poolVars, vaultVars
  <2> QED
    BY <2>2, <2>3 DEF Inv
<1> QED
    BY <1>1, <1>2, <1>3, <1>4, <1>5, <1>6, <1>7 DEF Next

-----------------------------------------------------------------------------
(* Of the variables, only a sweep changes what the beneficiary has.  It     *)
(* pays fees out of mature epochs, whose swaps are older than the delay.   *)
LEMMA StepReleasesLate == Inv /\ [Next]_vars => ReleaseIsLate
<1> SUFFICES ASSUME Inv, [Next]_vars,
                    NEW t \in Token, NEW s \in swept'[t] \ swept[t]
             PROVE  now > madeAt[s] + SweepDelay
    BY DEF ReleaseIsLate
<1>1. PICK u \in Token : SweepConfidentialToken(u)
  <2>1. swept' # swept
    OBVIOUS
  <2> QED
    BY <2>1 DEF Next, vars, Initialize, FullExit, SwapExactInput,
        CollectProtocolFees, Tick
<1>2. swept' = [swept EXCEPT ![u] = @ \cup AggregatedFees(u, SweptPositions(u))]
    BY <1>1 DEF SweepConfidentialToken
<1>3. u = t /\ s \in AggregatedFees(t, SweptPositions(t))
    BY <1>2 DEF Inv, TypeOK
<1>4. PICK i \in SweptPositions(t) : s \in feesByEpoch[t][epochs[t][i]]
    BY <1>3 DEF AggregatedFees, EpochsAt
<1>5. epochs[t][i] \in Epochs /\ Mature(epochs[t][i])
    BY SweptPositionsAreMature DEF Inv
<1>6. /\ madeAt[s] < EpochSeconds * epochs[t][i] + EpochSeconds
      /\ s \in SwapIds
    BY <1>4, <1>5 DEF Inv, MadeBeforeEpochEnds, TypeOK
<1>7. madeAt[s] \in Nat
    BY <1>6, ConfidentialFeesAssumption DEF Inv, TypeOK
<1> QED
    BY <1>5, <1>6, <1>7, MatureIsOld DEF Inv

(* Every variable of the encrypted fees' path keeps its type; in particular *)
(* the index of the next epoch to sweep never passes the end of the queue. *)
THEOREM ConfidentialTypeCorrect == Spec => []TypeOK
<1>1. Inv => TypeOK
    BY DEF Inv
<1> QED
    BY <1>1, InitInv, NextInv, PTL DEF Spec

(* No fee reaches the beneficiary until its swap is older than              *)
(* MIN_CONFIDENTIAL_SWEEP_DELAY, whatever the pools, the epoch length, the *)
(* thresholds and the order of collections, exits and sweeps.              *)
THEOREM ReleasesDelayedAlways == Spec => ReleasesDelayed
<1>1. Inv /\ [Next]_vars => [ReleaseIsLate]_vars
    BY StepReleasesLate
<1> QED
    BY <1>1, InitInv, NextInv, PTL DEF Spec, ReleasesDelayed
-----------------------------------------------------------------------------
(* Where every fee is.  The code decides by counters what the promise of    *)
(* AggregateRelease says of sets of swaps, so the invariant ties the two:  *)
(* each counter is the number of the fees beside it, no fee is in two      *)
(* places, and the queue holds the epochs with fees in the order of time.  *)

CountsAreFees ==
    /\ \A p \in Pools, t \in Token :
           swapCount[p][t] = Cardinality(protocolFees[p][t])
    /\ \A t \in Token, e \in Epochs :
           countByEpoch[t][e] = Cardinality(feesByEpoch[t][e])

FeesApart ==
    \A t \in Token :
        /\ \A p, q \in Pools : p # q => protocolFees[p][t] \cap protocolFees[q][t] = {}
        /\ \A p \in Pools, e \in Epochs : protocolFees[p][t] \cap feesByEpoch[t][e] = {}
        /\ \A d, e \in Epochs : d # e => feesByEpoch[t][d] \cap feesByEpoch[t][e] = {}

SweptPast == \A t \in Token : \A s \in swept[t] : s < nextSwap

(* Nothing is queued ahead of time, and what is swept was mature. *)
QueueInOrder(t) ==
    /\ QueueNamesPendingFees(t)
    /\ \A i \in DOMAIN epochs[t] : epochs[t][i] <= CurrentEpoch
    /\ \A i \in 1 .. nextIndex[t] : Mature(epochs[t][i])

Flow == CountsAreFees /\ FeesApart /\ SweptPast /\ \A t \in Token : QueueInOrder(t)

(* Every set of fees is finite. *)
LEMMA FeesAreFinite ==
    ASSUME NEW S \in SUBSET SwapIds
    PROVE  IsFiniteSet(S) /\ Cardinality(S) \in Nat
<1>1. IsFiniteSet(SwapIds)
    <2>1. 1 \in Int /\ MaxSwaps \in Int
        BY ConfidentialFeesAssumption
    <2> QED
        BY <2>1, FS_Interval, Zenon DEF SwapIds
<1> QED
    BY <1>1, FS_Subset, FS_CardinalityType

LEMMA InitFlow == Init => Flow
<1> SUFFICES ASSUME Init PROVE Flow
    OBVIOUS
<1>0. Cardinality({}) = 0
    BY FS_EmptySet
<1>1. CountsAreFees
    BY <1>0 DEF Init, CountsAreFees, PerSide, PerEpoch
<1>2. FeesApart
    BY DEF Init, FeesApart, PerSide, PerEpoch
<1>3. SweptPast
    BY DEF Init, SweptPast
<1>4. ASSUME NEW t \in Token PROVE QueueInOrder(t)
    <2>1. epochs[t] = <<>> /\ nextIndex[t] = 0
        BY DEF Init
    <2>2. \A e \in Epochs : feesByEpoch[t][e] = {}
        BY DEF Init, PerEpoch
    <2>3. nextIndex[t] + 1 .. Len(epochs[t]) = {} /\ 1 .. nextIndex[t] = {}
        BY <2>1
    <2> QED
        BY <2>1, <2>2, <2>3 DEF QueueInOrder, QueueNamesPendingFees, EpochsAt
<1> QED
    BY <1>1, <1>2, <1>3, <1>4 DEF Flow

(* What leaves the fees alone keeps the rest in place while time moves on. *)
LEMMA NoFeeMoves ==
    ASSUME Inv, Flow, Inv', now' >= now, nextSwap' >= nextSwap,
           UNCHANGED <<protocolFees, swapCount, vaultVars, swept>>
    PROVE  Flow'
<1>1. CountsAreFees' /\ FeesApart'
    BY DEF Flow, CountsAreFees, FeesApart, vaultVars
<1>2. SweptPast'
    <2>1. /\ nextSwap \in Nat /\ nextSwap' \in Nat
          /\ \A t \in Token : swept[t] \subseteq Nat
        BY DEF Inv, TypeOK, SwapIds
    <2> QED
        BY <2>1 DEF Flow, SweptPast
<1>3. CurrentEpoch \in Nat /\ CurrentEpoch' \in Nat /\ CurrentEpoch <= CurrentEpoch'
    <2>1. now \in Nat /\ now' \in Nat /\ EpochSeconds \in Nat \ {0}
        BY ConfidentialFeesAssumption DEF Inv, TypeOK
    <2> QED
        BY <2>1, DivMonotonic, DivBounds DEF CurrentEpoch
<1>4. ASSUME NEW t \in Token PROVE QueueInOrder(t)'
    <2>1. QueueInOrder(t) /\ epochs[t] \in Seq(Epochs) /\ Epochs \subseteq Nat
          /\ nextIndex[t] \in Nat /\ nextIndex[t] <= Len(epochs[t])
        BY DEF Flow, Inv, TypeOK, Epochs
    <2>2. QueueNamesPendingFees(t)'
        BY <2>1 DEF QueueInOrder, QueueNamesPendingFees, EpochsAt, vaultVars
    <2>a. /\ \A i \in DOMAIN epochs[t] : epochs[t][i] \in Nat
          /\ 1 .. nextIndex[t] \subseteq DOMAIN epochs[t]
        <3>1. /\ DOMAIN epochs[t] = 1 .. Len(epochs[t]) /\ Len(epochs[t]) \in Nat
              /\ \A i \in 1 .. Len(epochs[t]) : epochs[t][i] \in Epochs
            BY <2>1
        <3>2. \A i \in 1 .. Len(epochs[t]) : epochs[t][i] \in Nat
            BY <3>1 DEF Epochs
        <3>3. 1 .. nextIndex[t] \subseteq 1 .. Len(epochs[t])
            <4>1. nextIndex[t] \in Nat /\ nextIndex[t] <= Len(epochs[t])
                BY <2>1
            <4> QED
                BY <3>1, <4>1
        <3> QED
            BY <3>1, <3>2, <3>3
    <2>3. \A i \in DOMAIN epochs[t] : epochs[t][i] <= CurrentEpoch'
        <3>1. \A i \in DOMAIN epochs[t] : epochs[t][i] <= CurrentEpoch
            BY <2>1 DEF QueueInOrder
        <3> HIDE DEF CurrentEpoch
        <3> QED
            BY <1>3, <2>a, <3>1
    <2>4. \A i \in 1 .. nextIndex[t] : epochs[t][i] + 2 <= CurrentEpoch'
        <3>1. \A i \in 1 .. nextIndex[t] : epochs[t][i] + 2 <= CurrentEpoch
            BY <2>1 DEF QueueInOrder, Mature
        <3> QED
            BY <1>3, <2>a, <3>1
    <2> QED
        BY <2>2, <2>3, <2>4 DEF QueueInOrder, Mature, vaultVars
<1> QED
    BY <1>1, <1>2, <1>4 DEF Flow

(* A swap adds one new fee to one pool and counts it there. *)
LEMMA SwapFlow ==
    ASSUME Inv, Flow, Inv', NEW p \in Pools, NEW t \in Token, SwapExactInput(p, t)
    PROVE  Flow'
<1>0. /\ nextSwap \in SwapIds /\ nextSwap' = nextSwap + 1 /\ nextSwap \in Nat
      /\ protocolFees' = [protocolFees EXCEPT ![p][t] = @ \cup {nextSwap}]
      /\ swapCount' = [swapCount EXCEPT ![p][t] = @ + 1]
      /\ UNCHANGED <<vaultVars, now, swept>>
    BY DEF SwapExactInput, SwapIds
<1>1. /\ \A q \in Pools, u \in Token : nextSwap \notin protocolFees[q][u]
      /\ \A u \in Token, e \in Epochs : nextSwap \notin feesByEpoch[u][e]
      /\ \A u \in Token : nextSwap \notin swept[u]
    BY <1>0 DEF Inv, SwapsPast, Flow, SweptPast
<1>2. CountsAreFees'
    <2>1. Cardinality(protocolFees[p][t] \cup {nextSwap}) = swapCount[p][t] + 1
        <3>1. protocolFees[p][t] \in SUBSET SwapIds
            BY DEF Inv, TypeOK
        <3>2. IsFiniteSet(protocolFees[p][t])
            BY <3>1, FeesAreFinite
        <3>3. nextSwap \notin protocolFees[p][t]
            BY <1>1
        <3>4. Cardinality(protocolFees[p][t]) = swapCount[p][t]
            BY DEF Flow, CountsAreFees
        <3> QED
            BY <3>2, <3>3, <3>4, FS_AddElement
    <2> QED
        BY <1>0, <2>1 DEF Flow, CountsAreFees, Inv, TypeOK, vaultVars
<1>3. FeesApart'
    <2>1. \A q \in Pools, u \in Token :
              /\ protocolFees[q][u] \subseteq protocolFees'[q][u]
              /\ protocolFees'[q][u] \subseteq protocolFees[q][u] \cup {nextSwap}
              /\ q # p => protocolFees'[q][u] = protocolFees[q][u]
        BY <1>0 DEF Inv, TypeOK
    <2>2. feesByEpoch' = feesByEpoch
        BY <1>0 DEF vaultVars
    <2> QED
        BY <1>1, <2>1, <2>2 DEF Flow, FeesApart
<1>4. SweptPast'
    <2>1. \A u \in Token : swept[u] \in SUBSET SwapIds
        BY DEF Inv, TypeOK
    <2> QED
        BY <1>0, <2>1 DEF Flow, SweptPast, SwapIds
<1>5. \A u \in Token : QueueInOrder(u)'
    <2>1. UNCHANGED <<epochs, nextIndex, feesByEpoch, now>>
        BY <1>0 DEF vaultVars
    <2> SUFFICES ASSUME NEW u \in Token PROVE QueueInOrder(u)'
        OBVIOUS
    <2>2. QueueInOrder(u)
        BY DEF Flow
    <2> QED
        BY <2>1, <2>2 DEF QueueInOrder, QueueNamesPendingFees, EpochsAt, Mature,
            CurrentEpoch
<1> QED
    BY <1>2, <1>3, <1>4, <1>5 DEF Flow

(* In a queue in order, an epoch is after nextIndex exactly when it has     *)
(* fees, so an epoch without a count and not yet mature is not queued.     *)
LEMMA QueueFacts ==
    ASSUME TypeOK, Flow, NEW t \in Token
    PROVE  /\ epochs[t] \in Seq(Epochs) /\ DOMAIN epochs[t] = 1 .. Len(epochs[t])
           /\ Len(epochs[t]) \in Nat /\ nextIndex[t] \in 0 .. Len(epochs[t])
           /\ \A i \in 1 .. Len(epochs[t]) :
                  epochs[t][i] \in Epochs /\ epochs[t][i] \in Nat
           /\ \A i, j \in 1 .. Len(epochs[t]) : i < j => epochs[t][i] < epochs[t][j]
           /\ \A i \in nextIndex[t] + 1 .. Len(epochs[t]) :
                  feesByEpoch[t][epochs[t][i]] # {}
           /\ \A e \in Epochs : feesByEpoch[t][e] # {} =>
                  \E i \in nextIndex[t] + 1 .. Len(epochs[t]) : epochs[t][i] = e
           /\ \A i \in 1 .. nextIndex[t] : Mature(epochs[t][i])
           /\ \A i \in 1 .. Len(epochs[t]) : epochs[t][i] <= CurrentEpoch
<1>1. /\ epochs[t] \in Seq(Epochs) /\ nextIndex[t] \in Nat
      /\ nextIndex[t] <= Len(epochs[t])
    BY DEF TypeOK
<1>2. /\ DOMAIN epochs[t] = 1 .. Len(epochs[t]) /\ Len(epochs[t]) \in Nat
      /\ \A i \in 1 .. Len(epochs[t]) : epochs[t][i] \in Epochs
    BY <1>1
<1>3. Epochs \subseteq Nat
    BY DEF Epochs
<1>4. QueueInOrder(t)
    BY DEF Flow
<1>5. \A i, j \in 1 .. Len(epochs[t]) : i < j => epochs[t][i] < epochs[t][j]
    BY <1>2, <1>4 DEF QueueInOrder, QueueNamesPendingFees
<1>6. {e \in Epochs : feesByEpoch[t][e] # {}}
          = {epochs[t][i] : i \in nextIndex[t] + 1 .. Len(epochs[t])}
    BY <1>4 DEF QueueInOrder, QueueNamesPendingFees, EpochsAt
<1>7. /\ \A i \in 1 .. nextIndex[t] : Mature(epochs[t][i])
      /\ \A i \in 1 .. Len(epochs[t]) : epochs[t][i] <= CurrentEpoch
    BY <1>2, <1>4 DEF QueueInOrder
<1>8. \A i \in nextIndex[t] + 1 .. Len(epochs[t]) : feesByEpoch[t][epochs[t][i]] # {}
    BY <1>6
<1>9. \A e \in Epochs : feesByEpoch[t][e] # {} =>
          \E i \in nextIndex[t] + 1 .. Len(epochs[t]) : epochs[t][i] = e
    BY <1>6
<1>10. nextIndex[t] \in 0 .. Len(epochs[t])
    BY <1>1, <1>2
<1>11. \A i \in 1 .. Len(epochs[t]) : epochs[t][i] \in Nat
    BY <1>2, <1>3
<1> QED
    BY <1>1, <1>2, <1>5, <1>7, <1>8, <1>9, <1>10, <1>11

(* A deposit empties the pool's side, and the vault's epoch of now gains    *)
(* just its fees and its count; the epoch is queued, at the end, if it was *)
(* without fees.                                                           *)
LEMMA DepositFlow ==
    ASSUME Inv, Flow, NEW p \in Pools, NEW tokens \in SUBSET Token,
           DepositConfidentialFees(p, tokens), StartWindow(p, tokens),
           UNCHANGED <<now, nextSwap, madeAt, swept>>
    PROVE  Flow'
<1> DEFINE c == CurrentEpoch
<1>0. c \in Epochs /\ c \in Nat
    BY EpochNow DEF Inv, Epochs
<1>1. \A q \in Pools, u \in Token :
          IF q = p /\ u \in tokens
          THEN protocolFees'[q][u] = {} /\ swapCount'[q][u] = 0
          ELSE /\ protocolFees'[q][u] = protocolFees[q][u]
               /\ swapCount'[q][u] = swapCount[q][u]
    BY DEF Inv, TypeOK, StartWindow
<1>2. \A u \in Token, e \in Epochs :
          IF u \in tokens /\ e = c
          THEN /\ feesByEpoch'[u][e] = feesByEpoch[u][e] \cup protocolFees[p][u]
               /\ countByEpoch'[u][e] = countByEpoch[u][e] + swapCount[p][u]
          ELSE /\ feesByEpoch'[u][e] = feesByEpoch[u][e]
               /\ countByEpoch'[u][e] = countByEpoch[u][e]
    BY <1>0 DEF Inv, TypeOK, DepositConfidentialFees
<1>3. /\ \A u \in Token : epochs'[u] = IF u \in tokens THEN Queued(u) ELSE epochs[u]
      /\ nextIndex' = nextIndex
      /\ \A u \in tokens : swapCount[p][u] # 0
    BY DEF DepositConfidentialFees
<1>4. CurrentEpoch' = c
    BY DEF CurrentEpoch
<1>5. /\ \A q \in Pools, u \in Token :
             protocolFees[q][u] \in SUBSET SwapIds
      /\ \A u \in Token, e \in Epochs : feesByEpoch[u][e] \in SUBSET SwapIds
    BY DEF Inv, TypeOK
<1> HIDE DEF c
<1>6. CountsAreFees'
    <2>1. \A q \in Pools, u \in Token :
              swapCount'[q][u] = Cardinality(protocolFees'[q][u])
        <3>1. Cardinality({}) = 0
            BY FS_EmptySet
        <3>2. \A q \in Pools, u \in Token :
                  swapCount[q][u] = Cardinality(protocolFees[q][u])
            BY DEF Flow, CountsAreFees
        <3> QED
            BY <1>1, <3>1, <3>2
    <2>2. ASSUME NEW u \in Token
          PROVE  Cardinality(feesByEpoch[u][c] \cup protocolFees[p][u])
                     = countByEpoch[u][c] + swapCount[p][u]
        <3> DEFINE A == feesByEpoch[u][c]
                   B == protocolFees[p][u]
        <3>1. /\ IsFiniteSet(A) /\ Cardinality(A) \in Nat
              /\ IsFiniteSet(B) /\ Cardinality(B) \in Nat
            BY <1>0, <1>5, FeesAreFinite
        <3>2. A \cap B = {}
            BY <1>0 DEF Flow, FeesApart
        <3>3. Cardinality(A \cup B)
                  = Cardinality(A) + Cardinality(B) - Cardinality(A \cap B)
            <4> HIDE DEF A, B
            <4> QED
                BY <3>1, FS_Union
        <3>4. Cardinality(A) = countByEpoch[u][c] /\ Cardinality(B) = swapCount[p][u]
            BY <1>0 DEF Flow, CountsAreFees
        <3>5. Cardinality(A \cap B) = 0
            BY <3>2, FS_EmptySet
        <3> HIDE DEF A, B
        <3>6. Cardinality(A \cup B) = countByEpoch[u][c] + swapCount[p][u]
            BY <3>1, <3>3, <3>4, <3>5
        <3> QED
            BY <3>6 DEF A, B
    <2>3. \A u \in Token, e \in Epochs :
              countByEpoch'[u][e] = Cardinality(feesByEpoch'[u][e])
        BY <1>2, <2>2 DEF Flow, CountsAreFees
    <2> QED
        BY <2>1, <2>3 DEF CountsAreFees
<1>7. FeesApart'
    <2> SUFFICES ASSUME NEW u \in Token
                 PROVE
        /\ \A q, r \in Pools : q # r => protocolFees'[q][u] \cap protocolFees'[r][u] = {}
        /\ \A q \in Pools, e \in Epochs : protocolFees'[q][u] \cap feesByEpoch'[u][e] = {}
        /\ \A d, e \in Epochs : d # e => feesByEpoch'[u][d] \cap feesByEpoch'[u][e] = {}
        BY DEF FeesApart
    <2>1. /\ \A q, r \in Pools : q # r => protocolFees[q][u] \cap protocolFees[r][u] = {}
          /\ \A q \in Pools, e \in Epochs : protocolFees[q][u] \cap feesByEpoch[u][e] = {}
          /\ \A d, e \in Epochs : d # e => feesByEpoch[u][d] \cap feesByEpoch[u][e] = {}
        BY DEF Flow, FeesApart
    <2>2. \A q \in Pools : protocolFees'[q][u] \subseteq protocolFees[q][u]
        BY <1>1
    <2>3. \A q \in Pools, e \in Epochs : protocolFees'[q][u] \cap feesByEpoch'[u][e] = {}
        <3> SUFFICES ASSUME NEW q \in Pools, NEW e \in Epochs
                     PROVE  protocolFees'[q][u] \cap feesByEpoch'[u][e] = {}
            OBVIOUS
        <3>1. CASE u \in tokens /\ e = c
            <4>1. CASE q = p
                BY <1>1, <3>1, <4>1
            <4>2. CASE q # p
                BY <1>1, <1>2, <2>1, <3>1, <4>2
            <4> QED
                BY <4>1, <4>2
        <3>2. CASE ~(u \in tokens /\ e = c)
            BY <1>2, <2>1, <2>2, <3>2
        <3> QED
            BY <3>1, <3>2
    <2>4. \A d, e \in Epochs : d # e => feesByEpoch'[u][d] \cap feesByEpoch'[u][e] = {}
        <3>1. \A e \in Epochs :
                  feesByEpoch'[u][e] \subseteq
                      feesByEpoch[u][e] \cup (IF e = c THEN protocolFees[p][u] ELSE {})
            BY <1>2
        <3> QED
            BY <2>1, <3>1
    <2> QED
        BY <2>1, <2>2, <2>3, <2>4
<1>8. SweptPast'
    BY DEF Flow, SweptPast
<1>9. ASSUME NEW u \in Token PROVE QueueInOrder(u)'
    <2> DEFINE n == Len(epochs[u])
               k == nextIndex[u]
    <2>0. QueueInOrder(u) /\ TypeOK
        BY DEF Flow, Inv
    <2>1. CASE u \notin tokens
        <3>1. /\ epochs'[u] = epochs[u] /\ nextIndex' = nextIndex
              /\ \A e \in Epochs : feesByEpoch'[u][e] = feesByEpoch[u][e]
            BY <1>2, <1>3, <2>1
        <3> QED
            BY <1>4, <2>0, <3>1 DEF QueueInOrder, QueueNamesPendingFees, EpochsAt,
                Mature, c
    <2>2. ASSUME u \in tokens PROVE feesByEpoch'[u][c] # {}
        <3>1. Cardinality(protocolFees[p][u]) # 0
            BY <1>3, <2>2 DEF Flow, CountsAreFees
        <3>2. protocolFees[p][u] # {}
            BY <3>1, FS_EmptySet
        <3> QED
            BY <1>0, <1>2, <2>2, <3>2
    <2>3. CASE u \in tokens /\ countByEpoch[u][c] # 0
        <3>1. epochs'[u] = epochs[u] /\ nextIndex' = nextIndex
            BY <1>3, <2>3 DEF Queued, c
        <3>2. feesByEpoch[u][c] # {}
            BY <1>0, <2>3, FS_EmptySet DEF Flow, CountsAreFees
        <3>3. \A e \in Epochs : feesByEpoch'[u][e] # {} <=> feesByEpoch[u][e] # {}
            BY <1>2, <2>2, <2>3, <3>2
        <3> QED
            BY <1>4, <2>0, <3>1, <3>3 DEF QueueInOrder, QueueNamesPendingFees,
                EpochsAt, Mature, c
    <2>4. CASE u \in tokens /\ countByEpoch[u][c] = 0
        <3>1. epochs'[u] = Append(epochs[u], c) /\ nextIndex' = nextIndex
            BY <1>3, <2>4 DEF Queued, c
        <3>2. feesByEpoch[u][c] = {}
            <4>1. Cardinality(feesByEpoch[u][c]) = 0
                BY <1>0, <2>4 DEF Flow, CountsAreFees
            <4> QED
                BY <1>0, <1>5, <4>1, FeesAreFinite, FS_EmptySet
        <3>q. /\ epochs[u] \in Seq(Epochs) /\ n \in Nat /\ k \in 0 .. n
              /\ DOMAIN epochs[u] = 1 .. n
              /\ \A i \in 1 .. n : epochs[u][i] \in Epochs /\ epochs[u][i] \in Nat
              /\ \A i, j \in 1 .. n : i < j => epochs[u][i] < epochs[u][j]
              /\ \A i \in k + 1 .. n : feesByEpoch[u][epochs[u][i]] # {}
              /\ \A e \in Epochs : feesByEpoch[u][e] # {} =>
                     \E i \in k + 1 .. n : epochs[u][i] = e
              /\ \A i \in 1 .. k : Mature(epochs[u][i])
              /\ \A i \in 1 .. n : epochs[u][i] <= c
            BY <2>0, QueueFacts, Zenon DEF c
        <3>h. /\ DOMAIN epochs'[u] = 1 .. n + 1 /\ Len(epochs'[u]) = n + 1
              /\ \A i \in 1 .. n : epochs'[u][i] = epochs[u][i]
              /\ epochs'[u][n + 1] = c
            BY <1>0, <3>1, <3>q
        <3> HIDE DEF n, k
        <3>m. n \in Nat /\ k \in Nat /\ k <= n
            BY <3>q
        <3>3. ASSUME NEW i \in 1 .. n PROVE epochs[u][i] < c
            <4>1. CASE i \in 1 .. k
                <5>1. epochs[u][i] + 2 <= c
                    BY <3>q, <4>1 DEF Mature, c
                <5> QED
                    BY <1>0, <3>q, <5>1
            <4>2. CASE i \in k + 1 .. n
                <5>1. epochs[u][i] # c
                    BY <3>2, <3>q, <4>2
                <5> QED
                    BY <1>0, <3>q, <5>1
            <4>3. i \in 1 .. k \/ i \in k + 1 .. n
                BY <3>m
            <4> QED
                BY <4>1, <4>2, <4>3
        <3>4. \A i, j \in 1 .. n + 1 : i < j => epochs'[u][i] < epochs'[u][j]
            <4> SUFFICES ASSUME NEW i \in 1 .. n + 1, NEW j \in 1 .. n + 1, i < j
                         PROVE  epochs'[u][i] < epochs'[u][j]
                OBVIOUS
            <4>1. i \in 1 .. n /\ (j \in 1 .. n \/ j = n + 1)
                BY <3>m
            <4>2. CASE j \in 1 .. n
                BY <3>h, <3>q, <4>1, <4>2
            <4>3. CASE j = n + 1
                BY <3>3, <3>h, <4>1, <4>3
            <4> QED
                BY <4>1, <4>2, <4>3
        <3>5. {e \in Epochs : feesByEpoch'[u][e] # {}}
                  = {epochs'[u][i] : i \in k + 1 .. n + 1}
            <4>1. \A e \in Epochs : feesByEpoch'[u][e] # {} <=>
                                    (e = c \/ feesByEpoch[u][e] # {})
                BY <1>2, <2>2, <2>4
            <4>2. \A i \in k + 1 .. n : i \in 1 .. n /\ i \in k + 1 .. n + 1
                BY <3>m
            <4>3. ASSUME NEW e \in Epochs, feesByEpoch'[u][e] # {}
                  PROVE  \E i \in k + 1 .. n + 1 : epochs'[u][i] = e
                <5>1. CASE e = c
                    <6>1. n + 1 \in k + 1 .. n + 1
                        BY <3>m
                    <6> QED
                        BY <3>h, <5>1, <6>1
                <5>2. CASE feesByEpoch[u][e] # {}
                    <6>1. PICK i \in k + 1 .. n : epochs[u][i] = e
                        BY <3>q, <5>2
                    <6> QED
                        BY <3>h, <4>2, <6>1
                <5> QED
                    BY <4>1, <4>3, <5>1, <5>2
            <4>4. ASSUME NEW i \in k + 1 .. n + 1
                  PROVE  epochs'[u][i] \in Epochs /\ feesByEpoch'[u][epochs'[u][i]] # {}
                <5>1. i \in k + 1 .. n \/ i = n + 1
                    BY <3>m
                <5>2. CASE i \in k + 1 .. n
                    <6>1. epochs'[u][i] = epochs[u][i] /\ epochs[u][i] \in Epochs
                        BY <3>h, <3>q, <4>2, <5>2
                    <6>2. feesByEpoch[u][epochs[u][i]] # {}
                        BY <3>q, <5>2
                    <6> QED
                        BY <4>1, <6>1, <6>2
                <5>3. CASE i = n + 1
                    BY <1>0, <2>2, <2>4, <3>h, <5>3
                <5> QED
                    BY <5>1, <5>2, <5>3
            <4> QED
                BY <4>3, <4>4
        <3>6. \A i \in 1 .. n + 1 : epochs'[u][i] <= c
            <4>1. \A i \in 1 .. n + 1 : i \in 1 .. n \/ i = n + 1
                BY <3>m
            <4>2. c <= c
                BY <1>0
            <4>3. \A i \in 1 .. n : epochs'[u][i] <= c
                BY <3>h, <3>q
            <4> QED
                BY <3>h, <4>1, <4>2, <4>3
        <3>7. \A i \in 1 .. k : epochs'[u][i] + 2 <= c
            <4>1. \A i \in 1 .. k : i \in 1 .. n
                BY <3>m
            <4>2. \A i \in 1 .. k : epochs[u][i] + 2 <= c
                BY <3>q DEF Mature, c
            <4> QED
                BY <3>h, <4>1, <4>2
        <3> QED
            BY <1>4, <3>1, <3>4, <3>5, <3>6, <3>7, <3>h
            DEF QueueInOrder, QueueNamesPendingFees, EpochsAt, Mature, k
    <2> QED
        BY <2>1, <2>3, <2>4
<1> QED
    BY <1>6, <1>7, <1>8, <1>9 DEF Flow

(* The epochs a sweep takes are the next ones of the queue, without a gap,  *)
(* up to one that is not mature, the limit of a sweep or the queue's end.  *)
LEMMA SweptAreNext ==
    ASSUME TypeOK, Flow, NEW t \in Token
    PROVE  \E k \in nextIndex[t] .. Len(epochs[t]) :
               /\ SweptPositions(t) = nextIndex[t] + 1 .. k
               /\ IsFiniteSet(SweptPositions(t))
               /\ Cardinality(SweptPositions(t)) = k - nextIndex[t]
               /\ IndexAfter(t) = k
               /\ \/ k = Len(epochs[t])
                  \/ k - nextIndex[t] >= SweepEpochs
                  \/ k < Len(epochs[t]) /\ ~Mature(epochs[t][k + 1])
<1> DEFINE n == nextIndex[t]
           L == Len(epochs[t])
           D == {j \in n + 1 .. L + 1 : j \notin SweptPositions(t)}
<1>1. /\ n \in Nat /\ L \in Nat /\ n <= L /\ SweepEpochs \in Nat
      /\ DOMAIN epochs[t] = 1 .. L
    <2>1. n \in 0 .. L /\ L \in Nat /\ DOMAIN epochs[t] = 1 .. L
        BY QueueFacts, Zenon
    <2> QED
        BY <2>1, ConfidentialFeesAssumption
<1>2. \A i : i \in SweptPositions(t) <=>
              /\ i \in n + 1 .. L /\ i <= n + SweepEpochs
              /\ \A j \in n + 1 .. i : Mature(epochs[t][j])
    BY <1>1 DEF SweptPositions, InWindow
<1> HIDE DEF n, L
<1>3. D \in SUBSET Nat /\ L + 1 \in D
    BY <1>1, <1>2
<1>4. PICK j \in D : \A m \in D : j <= m
    BY <1>3, LeastOf
<1> DEFINE k == j - 1
<1>5. /\ j \in n + 1 .. L + 1 /\ j \notin SweptPositions(t)
      /\ k \in n .. L /\ k + 1 = j
    BY <1>1, <1>4
<1>6. SweptPositions(t) = n + 1 .. k
    <2>1. ASSUME NEW i \in n + 1 .. k PROVE i \in SweptPositions(t)
        <3>1. i \in n + 1 .. L + 1 /\ ~(j <= i) /\ i \in Nat /\ j \in Nat
            BY <1>1, <1>5
        <3> QED
            BY <1>4, <3>1
    <2>2. ASSUME NEW i \in SweptPositions(t) PROVE i \in n + 1 .. k
        <3>1. /\ i \in n + 1 .. L /\ i <= n + SweepEpochs
              /\ \A m \in n + 1 .. i : Mature(epochs[t][m])
            BY <1>2
        <3>2. SUFFICES ASSUME i > k PROVE FALSE
            BY <1>1, <1>5, <3>1
        <3>3. j \in n + 1 .. i /\ j \in n + 1 .. L /\ j <= n + SweepEpochs
            BY <1>1, <1>5, <3>1, <3>2
        <3>4. \A m \in n + 1 .. j : m \in n + 1 .. i
            BY <1>1, <1>5, <3>1, <3>3
        <3>5. j \in SweptPositions(t)
            BY <1>2, <3>1, <3>3, <3>4
        <3> QED
            BY <1>5, <3>5
    <2> QED
        BY <2>1, <2>2
<1>7. /\ IsFiniteSet(SweptPositions(t))
      /\ Cardinality(SweptPositions(t)) = k - n
    <2>1. n + 1 \in Int /\ k \in Int
        BY <1>1, <1>5
    <2>2. /\ IsFiniteSet(n + 1 .. k)
          /\ Cardinality(n + 1 .. k) = IF n + 1 > k THEN 0 ELSE k - (n + 1) + 1
        <3> HIDE DEF k
        <3> QED
            BY <2>1, FS_Interval, Zenon
    <2> QED
        BY <1>1, <1>5, <1>6, <2>2
<1>8. IndexAfter(t) = k
    BY <1>1, <1>5, <1>7 DEF IndexAfter, n
<1>9. \/ k = L
      \/ k - n >= SweepEpochs
      \/ k < L /\ ~Mature(epochs[t][k + 1])
    <2>1. SUFFICES ASSUME k # L, ~(k - n >= SweepEpochs), Mature(epochs[t][k + 1])
                   PROVE  FALSE
        BY <1>1, <1>5
    <2>2. j \in n + 1 .. L /\ j <= n + SweepEpochs
        BY <1>1, <1>5, <2>1
    <2>3. ASSUME NEW m \in n + 1 .. j PROVE Mature(epochs[t][m])
        <3>1. m \in n + 1 .. k \/ m = j
            BY <1>1, <1>5
        <3>2. CASE m \in n + 1 .. k
            <4>1. m \in SweptPositions(t) /\ m \in n + 1 .. m
                BY <1>1, <1>6, <3>2
            <4> QED
                BY <1>2, <4>1
        <3>3. CASE m = j
            BY <1>5, <2>1, <3>3
        <3> QED
            BY <3>1, <3>2, <3>3
    <2> QED
        BY <1>2, <1>5, <2>2, <2>3
<1> QED
    BY <1>5, <1>6, <1>7, <1>8, <1>9 DEF n, L

(* Of any of the queue's epochs, the sum of the counts is the number of     *)
(* swaps whose fees are in them: no swap is counted twice.                 *)
LEMMA CountIsFees ==
    ASSUME TypeOK, Flow, NEW t \in Token,
           NEW P \in SUBSET (nextIndex[t] + 1 .. Len(epochs[t]))
    PROVE  /\ AggregatedFees(t, P) \in SUBSET SwapIds
           /\ AggregatedCount(t, P) = Cardinality(AggregatedFees(t, P))
<1> DEFINE f == [i \in P |-> countByEpoch[t][epochs[t][i]]]
           m == [T \in SUBSET P |-> Cardinality(AggregatedFees(t, T))]
<1>1. IsFiniteSet(P)
    <2>1. nextIndex[t] + 1 \in Int /\ Len(epochs[t]) \in Int
        BY DEF TypeOK
    <2>2. IsFiniteSet(nextIndex[t] + 1 .. Len(epochs[t]))
        BY <2>1, FS_Interval, Zenon
    <2> QED
        BY <2>2, FS_Subset
<1>2. \A i \in P : /\ epochs[t][i] \in Epochs
                   /\ feesByEpoch[t][epochs[t][i]] \in SUBSET SwapIds
                   /\ countByEpoch[t][epochs[t][i]] \in Nat
                   /\ countByEpoch[t][epochs[t][i]]
                          = Cardinality(feesByEpoch[t][epochs[t][i]])
    <2>1. \A i \in P : epochs[t][i] \in Epochs
        <3>1. \A i \in P : i \in 1 .. Len(epochs[t])
            BY DEF TypeOK
        <3> QED
            BY <3>1, QueueFacts
    <2> QED
        BY <2>1 DEF TypeOK, Flow, CountsAreFees
<1>3. \A T \in SUBSET P : AggregatedFees(t, T) \in SUBSET SwapIds
    BY <1>2 DEF AggregatedFees, EpochsAt
<1>4. \A T \in SUBSET P : /\ IsFiniteSet(AggregatedFees(t, T))
                          /\ Cardinality(AggregatedFees(t, T)) \in Nat
    BY <1>3, FeesAreFinite
<1>5. IsMeasure(m, f, P)
    <2>1. m \in [SUBSET P -> Nat]
        BY <1>4
    <2>2. m[{}] = 0
        <3>1. AggregatedFees(t, {}) = {}
            BY DEF AggregatedFees, EpochsAt
        <3> QED
            BY <3>1, FS_EmptySet
    <2>3. ASSUME NEW T \in SUBSET P, NEW x \in P, x \notin T
          PROVE  m[T \cup {x}] = m[T] + f[x]
        <3> DEFINE A == AggregatedFees(t, T)
                   B == feesByEpoch[t][epochs[t][x]]
        <3>1. AggregatedFees(t, T \cup {x}) = A \cup B
            BY DEF AggregatedFees, EpochsAt
        <3>2. A \cap B = {}
            <4>1. ASSUME NEW i \in T
                  PROVE  feesByEpoch[t][epochs[t][i]] \cap B = {}
                <5>1. /\ i \in 1 .. Len(epochs[t]) /\ x \in 1 .. Len(epochs[t])
                      /\ (i < x \/ x < i)
                    BY <2>3 DEF TypeOK
                <5>2. /\ epochs[t][i] \in Nat /\ epochs[t][x] \in Nat
                      /\ (epochs[t][i] < epochs[t][x] \/ epochs[t][x] < epochs[t][i])
                    BY <5>1, QueueFacts
                <5>3. epochs[t][i] # epochs[t][x]
                    BY <5>2
                <5> QED
                    BY <1>2, <5>3 DEF Flow, FeesApart
            <4> QED
                BY <4>1 DEF AggregatedFees, EpochsAt
        <3>3. /\ IsFiniteSet(A) /\ IsFiniteSet(B)
              /\ Cardinality(A) \in Nat /\ Cardinality(B) \in Nat
            BY <1>2, <1>4, FeesAreFinite
        <3>4. Cardinality(B) = f[x] /\ m[T] = Cardinality(A)
              /\ m[T \cup {x}] = Cardinality(A \cup B)
            BY <1>2, <3>1
        <3> HIDE DEF A, B, m, f
        <3>5. Cardinality(A \cup B)
                  = Cardinality(A) + Cardinality(B) - Cardinality(A \cap B)
            BY <3>3, FS_Union
        <3>6. Cardinality(A \cap B) = 0
            BY <3>2, FS_EmptySet
        <3> QED
            BY <3>3, <3>4, <3>5, <3>6
    <2>4. ASSUME NEW T \in SUBSET P, NEW U \in SUBSET P, T \subseteq U
          PROVE  m[T] <= m[U]
        <3>1. AggregatedFees(t, T) \subseteq AggregatedFees(t, U)
            BY <2>4 DEF AggregatedFees, EpochsAt
        <3>2. Cardinality(AggregatedFees(t, T)) <= Cardinality(AggregatedFees(t, U))
            BY <1>4, <3>1, FS_Subset
        <3> QED
            BY <3>2
    <2> HIDE DEF m, f
    <2> QED
        BY <2>1, <2>2, <2>3, <2>4 DEF IsMeasure
<1>6. f \in [P -> Nat] /\ m[P] = Cardinality(AggregatedFees(t, P))
    BY <1>2
<1> HIDE DEF f, m
<1>7. SumFunction(f) = m[P]
    BY <1>1, <1>5, <1>6, TotalIsSum DEF AddsUpTo
<1> QED
    BY <1>3, <1>6, <1>7 DEF AggregatedCount, f

(* A sweep empties the next epochs of the queue and pays their fees. *)
LEMMA SweepFlow ==
    ASSUME Inv, Flow, NEW t \in Token, SweepConfidentialToken(t)
    PROVE  Flow'
<1> DEFINE n == nextIndex[t]
           L == Len(epochs[t])
           done == EpochsAt(t, SweptPositions(t))
<1>1. /\ \A u \in Token, e \in Epochs :
             IF u = t /\ e \in done
             THEN feesByEpoch'[u][e] = {} /\ countByEpoch'[u][e] = 0
             ELSE /\ feesByEpoch'[u][e] = feesByEpoch[u][e]
                  /\ countByEpoch'[u][e] = countByEpoch[u][e]
      /\ nextIndex' = [nextIndex EXCEPT ![t] = IndexAfter(t)]
      /\ swept' = [swept EXCEPT ![t] = @ \cup AggregatedFees(t, SweptPositions(t))]
      /\ UNCHANGED <<protocolFees, swapCount, epochs, now, nextSwap>>
    BY DEF Inv, TypeOK, SweepConfidentialToken, poolVars
<1>2. PICK k \in n .. L : /\ SweptPositions(t) = n + 1 .. k
                          /\ IndexAfter(t) = k
    BY SweptAreNext DEF Inv
<1>3. CurrentEpoch' = CurrentEpoch
    BY <1>1 DEF CurrentEpoch
<1>4. CountsAreFees'
    <2>1. Cardinality({}) = 0
        BY FS_EmptySet
    <2>2. ASSUME NEW u \in Token, NEW e \in Epochs
          PROVE  countByEpoch'[u][e] = Cardinality(feesByEpoch'[u][e])
        <3>1. CASE u = t /\ e \in done
            <4>1. feesByEpoch'[u][e] = {} /\ countByEpoch'[u][e] = 0
                BY <1>1, <3>1
            <4> QED
                BY <2>1, <4>1
        <3>2. CASE ~(u = t /\ e \in done)
            <4>1. /\ feesByEpoch'[u][e] = feesByEpoch[u][e]
                  /\ countByEpoch'[u][e] = countByEpoch[u][e]
                BY <1>1, <3>2
            <4> QED
                BY <4>1 DEF Flow, CountsAreFees
        <3> QED
            BY <3>1, <3>2
    <2> QED
        BY <1>1, <2>2 DEF Flow, CountsAreFees
<1>5. FeesApart'
    <2>1. \A u \in Token, e \in Epochs : feesByEpoch'[u][e] \subseteq feesByEpoch[u][e]
        BY <1>1
    <2> QED
        BY <1>1, <2>1 DEF Flow, FeesApart
<1>6. SweptPast'
    <2>1. AggregatedFees(t, SweptPositions(t)) \subseteq
              UNION {feesByEpoch[t][e] : e \in Epochs}
        BY SweptPositionsAreMature DEF Inv, AggregatedFees, EpochsAt
    <2>2. \A s \in AggregatedFees(t, SweptPositions(t)) : s < nextSwap
        BY <2>1 DEF Inv, SwapsPast
    <2>3. \A u \in Token : \A s \in swept'[u] :
              s \in swept[u] \/ (u = t /\ s \in AggregatedFees(t, SweptPositions(t)))
        BY <1>1 DEF Inv, TypeOK
    <2> QED
        BY <1>1, <2>2, <2>3 DEF Flow, SweptPast
<1>7. ASSUME NEW u \in Token PROVE QueueInOrder(u)'
    <2>0. QueueInOrder(u) /\ TypeOK
        BY DEF Flow, Inv
    <2>1. CASE u # t
        <3>1. /\ UNCHANGED epochs /\ nextIndex'[u] = nextIndex[u]
              /\ \A e \in Epochs : feesByEpoch'[u][e] = feesByEpoch[u][e]
            BY <1>1, <2>1 DEF Inv, TypeOK
        <3> QED
            BY <1>3, <2>0, <3>1 DEF QueueInOrder, QueueNamesPendingFees, EpochsAt,
                Mature
    <2>2. CASE u = t
        <3>1. epochs' = epochs /\ nextIndex'[t] = k
            BY <1>1, <1>2 DEF Inv, TypeOK
        <3>q. /\ L \in Nat /\ n \in 0 .. L /\ DOMAIN epochs[t] = 1 .. L
              /\ \A i \in 1 .. L : epochs[t][i] \in Epochs /\ epochs[t][i] \in Nat
              /\ \A i, j \in 1 .. L : i < j => epochs[t][i] < epochs[t][j]
              /\ \A i \in n + 1 .. L : feesByEpoch[t][epochs[t][i]] # {}
              /\ \A e \in Epochs : feesByEpoch[t][e] # {} =>
                     \E i \in n + 1 .. L : epochs[t][i] = e
              /\ \A i \in 1 .. n : Mature(epochs[t][i])
              /\ \A i \in 1 .. L : epochs[t][i] <= CurrentEpoch
            BY <2>0, QueueFacts, Zenon
        <3>m. n \in Nat /\ k \in Nat /\ L \in Nat /\ n <= k /\ k <= L
            BY <1>2, <3>q
        <3>2. \A i \in 1 .. k : Mature(epochs[t][i])
            <4>1. \A i \in n + 1 .. k : Mature(epochs[t][i])
                BY <1>2, <2>0, SweptPositionsAreMature
            <4> HIDE DEF n, L
            <4>2. \A i \in 1 .. k : i \in 1 .. n \/ i \in n + 1 .. k
                BY <3>m
            <4> QED
                BY <3>q, <4>1, <4>2
        <3>3. done = {epochs[t][i] : i \in n + 1 .. k}
            BY <1>2 DEF EpochsAt
        <3> HIDE DEF n, L, done
        <3>4. ASSUME NEW i \in 1 .. L, NEW j \in 1 .. L, epochs[t][i] = epochs[t][j]
              PROVE  i = j
            <4>1. ~(i < j) /\ ~(j < i)
                BY <3>q, <3>4
            <4> QED
                BY <3>q, <4>1
        <3>5. {e \in Epochs : feesByEpoch'[t][e] # {}}
                  = {epochs[t][i] : i \in k + 1 .. L}
            <4>0. /\ \A i \in k + 1 .. L : i \in 1 .. L /\ i \in n + 1 .. L /\ i \notin n + 1 .. k
                  /\ \A i \in n + 1 .. k : i \in 1 .. L
                  /\ \A i \in n + 1 .. L : i \in n + 1 .. k \/ i \in k + 1 .. L
                BY <3>m
            <4>1. ASSUME NEW e \in Epochs, feesByEpoch'[t][e] # {}
                  PROVE  \E i \in k + 1 .. L : epochs[t][i] = e
                <5>1. e \notin done /\ feesByEpoch[t][e] # {}
                    BY <1>1, <4>1
                <5>2. PICK i \in n + 1 .. L : epochs[t][i] = e
                    BY <3>q, <5>1
                <5> QED
                    BY <3>3, <4>0, <5>1, <5>2
            <4>2. ASSUME NEW i \in k + 1 .. L
                  PROVE  epochs[t][i] \in Epochs /\ feesByEpoch'[t][epochs[t][i]] # {}
                <5>1. epochs[t][i] \notin done
                    BY <3>3, <3>4, <4>0
                <5>2. epochs[t][i] \in Epochs /\ feesByEpoch[t][epochs[t][i]] # {}
                    BY <3>q, <4>0
                <5> QED
                    BY <1>1, <5>1, <5>2
            <4> QED
                BY <4>1, <4>2
        <3>6. QueueNamesPendingFees(t)'
            BY <2>0, <2>2, <3>1, <3>5 DEF QueueInOrder, QueueNamesPendingFees, EpochsAt, L
        <3> QED
            BY <1>3, <2>0, <2>2, <3>1, <3>2, <3>6 DEF QueueInOrder, Mature
    <2> QED
        BY <2>1, <2>2
<1> QED
    BY <1>4, <1>5, <1>6, <1>7 DEF Flow

LEMMA NextFlow == Inv /\ Flow /\ [Next]_vars => Flow'
<1> SUFFICES ASSUME Inv, Flow, [Next]_vars PROVE Flow'
    OBVIOUS
<1>0. Inv' /\ now \in Int /\ nextSwap \in Int
    BY NextInv DEF Inv, TypeOK
<1>1. ASSUME NEW p \in Pools, Initialize(p) PROVE Flow'
    BY <1>0, <1>1, NoFeeMoves DEF Initialize
<1>2. ASSUME NEW p \in Pools, FullExit(p) PROVE Flow'
    <2>1. TerminalTokens(p) \in SUBSET Token
        BY DEF TerminalTokens
    <2> QED
        BY <1>2, <2>1, DepositFlow DEF FullExit
<1>3. ASSUME NEW p \in Pools, NEW t \in Token, SwapExactInput(p, t) PROVE Flow'
    BY <1>0, <1>3, SwapFlow
<1>4. ASSUME NEW p \in Pools, NEW tokens \in SUBSET Token,
             CollectProtocolFees(p, tokens)
      PROVE  Flow'
    BY <1>4, DepositFlow DEF CollectProtocolFees
<1>5. ASSUME NEW t \in Token, SweepConfidentialToken(t) PROVE Flow'
    BY <1>5, SweepFlow
<1>6. ASSUME Tick PROVE Flow'
    BY <1>0, <1>6, NoFeeMoves DEF Tick, poolVars
<1>7. CASE UNCHANGED vars
    BY <1>0, <1>7, NoFeeMoves DEF vars, poolVars
<1> QED
    BY <1>1, <1>2, <1>3, <1>4, <1>5, <1>6, <1>7 DEF Next

-----------------------------------------------------------------------------
(* The steps of AggregateRelease. *)

Fees == [t \in Token |-> Pending(t)]

LEMMA InitRelease == Init => Promise!Init
<1> SUFFICES ASSUME Init PROVE Promise!Init
    OBVIOUS
<1>1. \A t \in Token : Pending(t) = {}
    BY DEF Init, Pending, PerSide, PerEpoch
<1> QED
    BY <1>1 DEF Init, Promise!Init

(* A swap's fee is new, whatever the token. *)
LEMMA SwapAccrues ==
    ASSUME Inv, Flow, NEW p \in Pools, NEW t \in Token, SwapExactInput(p, t)
    PROVE  Promise!Accrue(t, nextSwap)
<1>1. /\ nextSwap \in SwapIds /\ nextSwap \in Nat
      /\ protocolFees' = [protocolFees EXCEPT ![p][t] = @ \cup {nextSwap}]
      /\ UNCHANGED <<feesByEpoch, swept>>
    BY DEF SwapExactInput, SwapIds, vaultVars
<1>2. /\ \A q \in Pools, u \in Token : nextSwap \notin protocolFees[q][u]
      /\ \A u \in Token, e \in Epochs : nextSwap \notin feesByEpoch[u][e]
      /\ \A u \in Token : nextSwap \notin swept[u]
    BY <1>1 DEF Inv, SwapsPast, Flow, SweptPast
<1>3. \A u \in Token : nextSwap \notin Fees[u] \cup swept[u]
    BY <1>2 DEF Fees, Pending
<1>4. ASSUME NEW u \in Token
      PROVE  Pending(u)' = IF u = t THEN Pending(u) \cup {nextSwap} ELSE Pending(u)
    <2>1. \A q \in Pools :
              protocolFees'[q][u] = IF q = p /\ u = t
                                    THEN protocolFees[q][u] \cup {nextSwap}
                                    ELSE protocolFees[q][u]
        BY <1>1 DEF Inv, TypeOK
    <2>2. UNION {protocolFees'[q][u] : q \in Pools}
              = IF u = t THEN (UNION {protocolFees[q][u] : q \in Pools}) \cup {nextSwap}
                ELSE UNION {protocolFees[q][u] : q \in Pools}
        <3>1. CASE u = t
            <4>1. nextSwap \in protocolFees'[p][u]
                BY <2>1, <3>1
            <4> QED
                BY <2>1, <3>1, <4>1
        <3>2. CASE u # t
            BY <2>1, <3>2
        <3> QED
            BY <3>1, <3>2
    <2> QED
        BY <1>1, <2>2 DEF Pending
<1>5. Fees' = [Fees EXCEPT ![t] = @ \cup {nextSwap}]
    BY <1>4 DEF Fees
<1> QED
    BY <1>1, <1>3, <1>5 DEF Promise!Accrue, Fees

(* A deposit only moves fees from a pool to the vault. *)
LEMMA DepositStutters ==
    ASSUME Inv, NEW p \in Pools, NEW tokens \in SUBSET Token,
           DepositConfidentialFees(p, tokens), StartWindow(p, tokens)
    PROVE  Fees' = Fees
<1> DEFINE c == CurrentEpoch
<1>0. c \in Epochs
    BY EpochNow DEF Inv
<1>1. \A q \in Pools, u \in Token :
          protocolFees'[q][u] = IF q = p /\ u \in tokens THEN {} ELSE protocolFees[q][u]
    BY DEF Inv, TypeOK, StartWindow
<1>2. \A u \in Token, e \in Epochs :
          feesByEpoch'[u][e] = IF u \in tokens /\ e = c
                               THEN feesByEpoch[u][e] \cup protocolFees[p][u]
                               ELSE feesByEpoch[u][e]
    BY <1>0 DEF Inv, TypeOK, DepositConfidentialFees
<1> HIDE DEF c
<1>3. ASSUME NEW u \in Token PROVE Pending(u)' = Pending(u)
    <2>1. CASE u \in tokens
        <3>1. ASSUME NEW s \in Pending(u) PROVE s \in Pending(u)'
            <4>1. CASE \E q \in Pools : s \in protocolFees[q][u]
                <5>1. PICK q \in Pools : s \in protocolFees[q][u]
                    BY <4>1
                <5>2. CASE q = p
                    <6>1. s \in feesByEpoch'[u][c]
                        BY <1>0, <1>2, <2>1, <5>1, <5>2
                    <6> QED
                        BY <1>0, <6>1 DEF Pending
                <5>3. CASE q # p
                    <6>1. s \in protocolFees'[q][u]
                        BY <1>1, <5>1, <5>3
                    <6> QED
                        BY <6>1 DEF Pending
                <5> QED
                    BY <5>2, <5>3
            <4>2. CASE \E e \in Epochs : s \in feesByEpoch[u][e]
                <5>1. PICK e \in Epochs : s \in feesByEpoch[u][e]
                    BY <4>2
                <5>2. s \in feesByEpoch'[u][e]
                    BY <1>2, <5>1
                <5> QED
                    BY <5>2 DEF Pending
            <4> QED
                BY <3>1, <4>1, <4>2 DEF Pending
        <3>2. ASSUME NEW s \in Pending(u)' PROVE s \in Pending(u)
            <4>1. CASE \E q \in Pools : s \in protocolFees'[q][u]
                <5>1. PICK q \in Pools : s \in protocolFees'[q][u]
                    BY <4>1
                <5>2. s \in protocolFees[q][u]
                    BY <1>1, <5>1
                <5> QED
                    BY <5>2 DEF Pending
            <4>2. CASE \E e \in Epochs : s \in feesByEpoch'[u][e]
                <5>1. PICK e \in Epochs : s \in feesByEpoch'[u][e]
                    BY <4>2
                <5>2. s \in feesByEpoch[u][e] \/ s \in protocolFees[p][u]
                    BY <1>2, <5>1
                <5> QED
                    BY <5>2 DEF Pending
            <4> QED
                BY <3>2, <4>1, <4>2 DEF Pending
        <3> QED
            BY <3>1, <3>2
    <2>2. CASE u \notin tokens
        <3>1. /\ \A q \in Pools : protocolFees'[q][u] = protocolFees[q][u]
              /\ \A e \in Epochs : feesByEpoch'[u][e] = feesByEpoch[u][e]
            BY <1>1, <1>2, <2>2
        <3>2. /\ {protocolFees'[q][u] : q \in Pools} = {protocolFees[q][u] : q \in Pools}
              /\ {feesByEpoch'[u][e] : e \in Epochs} = {feesByEpoch[u][e] : e \in Epochs}
            BY <3>1
        <3> QED
            BY <3>2 DEF Pending
    <2> QED
        BY <2>1, <2>2
<1> QED
    BY <1>3 DEF Fees

(* A sweep pays one sum, over as many swaps as its counters say. *)
LEMMA SweepReleases ==
    ASSUME Inv, Flow, NEW t \in Token, SweepConfidentialToken(t)
    PROVE  \E sum \in SUBSET Fees[t] : Promise!Release(t, sum)
<1> DEFINE P == SweptPositions(t)
           done == EpochsAt(t, P)
           sum == AggregatedFees(t, P)
<1>1. /\ P \in SUBSET (nextIndex[t] + 1 .. Len(epochs[t]))
      /\ \A i \in P : epochs[t][i] \in Epochs
    BY SweptPositionsAreMature DEF Inv
<1>2. /\ AggregatedCount(t, P) >= AggregatedSwaps
      /\ swept' = [swept EXCEPT ![t] = @ \cup sum]
      /\ UNCHANGED protocolFees
      /\ \A u \in Token, e \in Epochs :
             feesByEpoch'[u][e] = IF u = t /\ e \in done THEN {} ELSE feesByEpoch[u][e]
    BY DEF Inv, TypeOK, SweepConfidentialToken, Sweepable, poolVars
<1>3. Cardinality(sum) >= AggregatedSwaps
    <2>1. AggregatedCount(t, P) = Cardinality(sum)
        BY <1>1, CountIsFees DEF Inv
    <2> QED
        BY <1>2, <2>1
<1>4. done \subseteq Epochs /\ sum = UNION {feesByEpoch[t][e] : e \in done}
    BY <1>1 DEF AggregatedFees, EpochsAt
<1> HIDE DEF P, done, sum
<1>5. sum \subseteq Pending(t)
    BY <1>4 DEF Pending
<1>6. ASSUME NEW u \in Token
      PROVE  Pending(u)' = IF u = t THEN Pending(u) \ sum ELSE Pending(u)
    <2>1. CASE u # t
        BY <1>2, <2>1 DEF Pending
    <2>2. CASE u = t
        <3>1. ASSUME NEW s \in Pending(t) \ sum PROVE s \in Pending(t)'
            <4>1. CASE \E q \in Pools : s \in protocolFees[q][t]
                BY <1>2, <4>1 DEF Pending
            <4>2. CASE \E e \in Epochs : s \in feesByEpoch[t][e]
                <5>1. PICK e \in Epochs : s \in feesByEpoch[t][e]
                    BY <4>2
                <5>2. e \notin done
                    BY <1>4, <3>1, <5>1
                <5>3. s \in feesByEpoch'[t][e]
                    BY <1>2, <5>1, <5>2
                <5> QED
                    BY <5>3 DEF Pending
            <4> QED
                BY <3>1, <4>1, <4>2 DEF Pending
        <3>2. ASSUME NEW s \in Pending(t)' PROVE s \in Pending(t) \ sum
            <4>1. CASE \E q \in Pools : s \in protocolFees[q][t]
                <5>1. PICK q \in Pools : s \in protocolFees[q][t]
                    BY <4>1
                <5>2. \A e \in Epochs : s \notin feesByEpoch[t][e]
                    BY <5>1 DEF Flow, FeesApart
                <5> QED
                    BY <1>4, <5>1, <5>2 DEF Pending
            <4>2. CASE \E e \in Epochs : s \in feesByEpoch'[t][e]
                <5>1. PICK e \in Epochs : s \in feesByEpoch'[t][e]
                    BY <4>2
                <5>2. e \notin done /\ s \in feesByEpoch[t][e]
                    BY <1>2, <5>1
                <5>3. \A d \in done : s \notin feesByEpoch[t][d]
                    BY <1>4, <5>2 DEF Flow, FeesApart
                <5> QED
                    BY <1>4, <5>2, <5>3 DEF Pending
            <4> QED
                BY <1>2, <3>2, <4>1, <4>2 DEF Pending
        <3> QED
            BY <2>2, <3>1, <3>2
    <2> QED
        BY <2>1, <2>2
<1>7. Fees' = [Fees EXCEPT ![t] = @ \ sum]
    BY <1>6 DEF Fees
<1>8. Promise!Release(t, sum)
    <2>1. sum \subseteq Fees[t]
        BY <1>5 DEF Fees
    <2>2. swept' = [swept EXCEPT ![t] = @ \cup sum]
        BY <1>2
    <2>3. Promise!Cardinality(sum) = Cardinality(sum)
        BY DEF Cardinality, Promise!Cardinality
    <2> QED
        BY <1>3, <1>7, <2>1, <2>2, <2>3, Zenon DEF Promise!Release, Fees
<1> QED
    BY <1>5, <1>8 DEF Fees

LEMMA StepReleases ==
    Inv /\ Flow /\ [Next]_vars => [Promise!Next]_<<Fees, swept>>
<1> SUFFICES ASSUME Inv, Flow, [Next]_vars PROVE [Promise!Next]_<<Fees, swept>>
    OBVIOUS
<1>1. ASSUME UNCHANGED <<protocolFees, vaultVars, swept>>
      PROVE  UNCHANGED <<Fees, swept>>
    BY <1>1 DEF Fees, Pending, vaultVars
<1>2. ASSUME NEW p \in Pools, Initialize(p) PROVE UNCHANGED <<Fees, swept>>
    BY <1>1, <1>2 DEF Initialize
<1>3. ASSUME NEW p \in Pools, FullExit(p) PROVE UNCHANGED <<Fees, swept>>
    <2>1. TerminalTokens(p) \in SUBSET Token
        BY DEF TerminalTokens
    <2> QED
        BY <1>3, <2>1, DepositStutters DEF FullExit
<1>4. ASSUME NEW p \in Pools, NEW t \in Token, SwapExactInput(p, t)
      PROVE  Promise!Next
    <2>1. Promise!Accrue(t, nextSwap) /\ nextSwap \in SwapIds
        BY <1>4, SwapAccrues DEF SwapExactInput
    <2> QED
        BY <2>1 DEF Promise!Next
<1>5. ASSUME NEW p \in Pools, NEW tokens \in SUBSET Token,
             CollectProtocolFees(p, tokens)
      PROVE  UNCHANGED <<Fees, swept>>
    BY <1>5, DepositStutters DEF CollectProtocolFees
<1>6. ASSUME NEW t \in Token, SweepConfidentialToken(t) PROVE Promise!Next
    BY <1>6, SweepReleases DEF Promise!Next, Fees
<1>7. ASSUME Tick PROVE UNCHANGED <<Fees, swept>>
    BY <1>1, <1>7 DEF Tick, poolVars
<1>8. CASE UNCHANGED vars
    BY <1>1, <1>8 DEF vars, poolVars
<1> QED
    BY <1>2, <1>3, <1>4, <1>5, <1>6, <1>7, <1>8 DEF Next

(* Collections, terminal deposits, epochs and sweeps implement              *)
(* AggregateRelease, for any pools, tokens, thresholds and bounds: each    *)
(* swap's fee reaches the beneficiary at most once, and only in a sum over *)
(* at least MIN_CONFIDENTIAL_AGGREGATED_SWAPS swaps.                       *)
THEOREM FeesLeaveInAggregatesAlways == Spec => FeesLeaveInAggregates
<1>1. Init => Inv /\ Flow
    BY InitInv, InitFlow
<1>2. Inv /\ Flow /\ [Next]_vars => Inv' /\ Flow'
    BY NextInv, NextFlow
<1> QED
    BY <1>1, <1>2, InitRelease, StepReleases, PTL
    DEF Spec, FeesLeaveInAggregates, Promise!Spec, Fees

-----------------------------------------------------------------------------
(* Thin epochs never block the queue. *)

(* Every queued epoch after nextIndex adds at least one swap. *)
LEMMA EpochsAddSwaps ==
    ASSUME TypeOK, Flow, NEW t \in Token,
           NEW P \in SUBSET (nextIndex[t] + 1 .. Len(epochs[t]))
    PROVE  Cardinality(P) <= Cardinality(AggregatedFees(t, P))
<1> DEFINE one(i) == CHOOSE s \in feesByEpoch[t][epochs[t][i]] : TRUE
           f == [i \in P |-> one(i)]
           sum == AggregatedFees(t, P)
<1>1. IsFiniteSet(sum)
    BY CountIsFees, FeesAreFinite
<1>2. \A i \in P : /\ i \in 1 .. Len(epochs[t]) /\ i \in Nat
                   /\ epochs[t][i] \in Epochs /\ feesByEpoch[t][epochs[t][i]] # {}
    <2>1. \A i \in P : i \in 1 .. Len(epochs[t]) /\ i \in Nat
        BY DEF TypeOK
    <2> QED
        BY <2>1, QueueFacts
<1>3. \A i \in P : one(i) \in feesByEpoch[t][epochs[t][i]]
    BY <1>2
<1> HIDE DEF one
<1>4. f \in [P -> sum]
    BY <1>3 DEF AggregatedFees, EpochsAt
<1>5. ASSUME NEW i \in P, NEW j \in P, f[i] = f[j] PROVE i = j
    <2>1. epochs[t][i] = epochs[t][j]
        BY <1>2, <1>3, <1>5 DEF Flow, FeesApart
    <2>2. ~(epochs[t][i] < epochs[t][j]) /\ ~(epochs[t][j] < epochs[t][i])
        <3>1. epochs[t][i] \in Nat
            BY <1>2 DEF Epochs
        <3> QED
            BY <2>1, <3>1
    <2>3. ~(i < j) /\ ~(j < i)
        BY <1>2, <2>2, QueueFacts
    <2> QED
        BY <1>2, <2>3
<1> HIDE DEF f, sum
<1>6. f \in Injection(P, sum)
    BY <1>4, <1>5 DEF Injection, IsInjective
<1>7. Cardinality(P) <= Cardinality(sum)
    BY <1>1, <1>6, FS_Injection
<1> QED
    BY <1>7 DEF sum

(* As soon as enough swaps are in mature epochs, the counts of the epochs a *)
(* sweep takes pass MIN_CONFIDENTIAL_AGGREGATED_SWAPS.                     *)
LEMMA EnoughIsSweepable ==
    ASSUME Inv, Flow, NEW t \in Token,
           Cardinality(MatureFees(t)) >= AggregatedSwaps
    PROVE  Sweepable(t)
<1> DEFINE n == nextIndex[t]
           L == Len(epochs[t])
           P == SweptPositions(t)
           sum == AggregatedFees(t, P)
<1>1. PICK k \in n .. L : /\ P = n + 1 .. k /\ Cardinality(P) = k - n
                          /\ \/ k = L
                             \/ k - n >= SweepEpochs
                             \/ k < L /\ ~Mature(epochs[t][k + 1])
    BY SweptAreNext DEF Inv
<1>2. /\ L \in Nat /\ n \in 0 .. L
      /\ \A i \in 1 .. L : epochs[t][i] \in Epochs /\ epochs[t][i] \in Nat
      /\ \A i, j \in 1 .. L : i < j => epochs[t][i] < epochs[t][j]
      /\ \A e \in Epochs : feesByEpoch[t][e] # {} =>
             \E i \in n + 1 .. L : epochs[t][i] = e
    BY QueueFacts, Zenon DEF Inv
<1>3. P \in SUBSET (n + 1 .. L)
    BY SweptPositionsAreMature DEF Inv
<1>4. /\ sum \in SUBSET SwapIds /\ AggregatedCount(t, P) = Cardinality(sum)
      /\ IsFiniteSet(sum) /\ Cardinality(sum) \in Nat
    BY <1>3, CountIsFees, FeesAreFinite DEF Inv
<1>5. Cardinality(P) <= Cardinality(sum)
    BY <1>3, EpochsAddSwaps DEF Inv
<1>6. SweepEpochs \in Nat /\ AggregatedSwaps \in Nat /\ SweepEpochs >= AggregatedSwaps
    BY ConfidentialFeesAssumption
<1>7. CASE k - n >= SweepEpochs
    <2>1. Cardinality(sum) >= AggregatedSwaps
        <3> HIDE DEF sum, P, n, L
        <3> QED
            BY <1>1, <1>2, <1>4, <1>5, <1>6, <1>7
    <2> QED
        BY <1>4, <2>1 DEF Sweepable
<1>8. CASE k = L \/ (k < L /\ ~Mature(epochs[t][k + 1]))
    <2>1. ASSUME NEW e \in Epochs, Mature(e), feesByEpoch[t][e] # {}
          PROVE  \E i \in P : epochs[t][i] = e
        <3>1. PICK i \in n + 1 .. L : epochs[t][i] = e
            BY <1>2, <2>1
        <3> HIDE DEF n, L, P
        <3>2. SUFFICES ASSUME i \notin n + 1 .. k PROVE FALSE
            BY <1>1, <3>1
        <3>3. /\ i \in k + 1 .. L /\ k < L
              /\ k + 1 \in 1 .. L /\ i \in 1 .. L
            BY <1>1, <1>2, <3>1, <3>2
        <3>4. ~Mature(epochs[t][k + 1])
            BY <1>1, <1>2, <1>8, <3>3
        <3>5. epochs[t][k + 1] <= epochs[t][i]
            <4>1. CASE i = k + 1
                BY <1>2, <3>3, <4>1
            <4>2. CASE i # k + 1
                <5>1. k + 1 < i
                    BY <1>1, <1>2, <3>3, <4>2
                <5> QED
                    BY <1>2, <3>3, <5>1
            <4> QED
                BY <4>1, <4>2
        <3>6. CurrentEpoch \in Nat
            BY EpochNow DEF Inv, Epochs
        <3>7. /\ epochs[t][i] + 2 <= CurrentEpoch
              /\ ~(epochs[t][k + 1] + 2 <= CurrentEpoch)
            BY <2>1, <3>1, <3>4 DEF Mature
        <3>8. epochs[t][i] \in Nat /\ epochs[t][k + 1] \in Nat
            BY <1>2, <3>3
        <3> QED
            BY <3>5, <3>6, <3>7, <3>8
    <2>2. MatureFees(t) \subseteq sum
        <3>1. ASSUME NEW s \in MatureFees(t) PROVE s \in sum
            <4>1. PICK e \in Epochs : Mature(e) /\ s \in feesByEpoch[t][e]
                BY <3>1 DEF MatureFees
            <4>2. PICK i \in P : epochs[t][i] = e
                BY <2>1, <4>1
            <4> QED
                BY <4>1, <4>2 DEF AggregatedFees, EpochsAt
        <3> QED
            BY <3>1
    <2> HIDE DEF sum
    <2>3. Cardinality(MatureFees(t)) <= Cardinality(sum)
        BY <1>4, <2>2, FS_Subset
    <2>4. Cardinality(MatureFees(t)) \in Nat
        BY <1>4, <2>2, FS_Subset, FS_CardinalityType
    <2>5. Cardinality(sum) >= AggregatedSwaps
        BY <1>4, <1>6, <2>3, <2>4
    <2> QED
        BY <1>4, <2>5 DEF Sweepable
<1> QED
    BY <1>1, <1>7, <1>8

(* The queue of each token holds the epochs with fees in the order of time, *)
(* each once, and as soon as enough swaps are mature, wherever they are in *)
(* it, the guard of SweepConfidentialToken, its only one, is open: what    *)
(* NothingStranded says with ENABLED.                                      *)
THEOREM QueuesNeverBlock ==
    Spec => [](\A t \in Token :
                   /\ QueueNamesPendingFees(t)
                   /\ Cardinality(MatureFees(t)) >= AggregatedSwaps => Sweepable(t))
<1> DEFINE Ready == \A t \in Token :
                /\ QueueNamesPendingFees(t)
                /\ Cardinality(MatureFees(t)) >= AggregatedSwaps => Sweepable(t)
<1>1. Init => Inv /\ Flow
    BY InitInv, InitFlow
<1>2. Inv /\ Flow /\ [Next]_vars => Inv' /\ Flow'
    BY NextInv, NextFlow
<1>3. Inv /\ Flow => Ready
    BY EnoughIsSweepable DEF Flow, QueueInOrder
<1> HIDE DEF Ready
<1>4. Spec => []Ready
    BY <1>1, <1>2, <1>3, PTL DEF Spec
<1> QED
    BY <1>4 DEF Ready

-----------------------------------------------------------------------------
(* The markets.  The key of a launch's pool. *)

ProtectedKey(s, t) == [tier |-> t, class |-> s]

(* What is known of a launch, without counting. *)
RecordsMatch ==
    \A s \in Strategies, t \in DOMAIN Tiers :
        LET k == ProtectedKey(s, t)
        IN  /\ \A l \in LaunchIds : launched[s][l] = t <=> active[s][t] = l
            /\ market[k].completed = (active[s][t] # NoLaunch)
            /\ market[k].exists = market[k].completed
            /\ market[k].initialized => market[k].exists

(* The fields a pool has, and the types of the strategies' records. *)
Shapes ==
    /\ DOMAIN market = Key
    /\ \A k \in Key : DOMAIN market[k] = DOMAIN NoPool
    /\ launched \in [Strategies -> [LaunchIds -> Nat]]
    /\ active \in [Strategies -> [DOMAIN Tiers -> LaunchIds \cup {NoLaunch}]]

MarketInv == Shapes /\ RecordsMatch

(* The keys of launches' pools are the keys not of the standard class, one *)
(* for each strategy and tier.                                             *)
LEMMA ProtectedKeys ==
    /\ \A s \in Strategies, t \in DOMAIN Tiers :
           /\ ProtectedKey(s, t) \in Key
           /\ ProtectedKey(s, t).tier = t /\ ProtectedKey(s, t).class = s
           /\ s # Standard /\ t \in Nat \ {0}
    /\ \A s, u \in Strategies, t, v \in DOMAIN Tiers :
           ProtectedKey(s, t) = ProtectedKey(u, v) => s = u /\ t = v
    /\ \A k \in Key : k.class # Standard =>
           /\ k.class \in Strategies /\ k.tier \in DOMAIN Tiers
           /\ k = ProtectedKey(k.class, k.tier)
<1>1. Tiers \in Seq(1 .. FeeDenominator) /\ Standard \notin Strategies
    BY ConfidentialMarketsAssumption
<1>2. DOMAIN Tiers \subseteq Nat \ {0}
    BY <1>1
<1>3. ASSUME NEW s \in Strategies, NEW t \in DOMAIN Tiers
      PROVE  /\ ProtectedKey(s, t) \in Key
             /\ ProtectedKey(s, t).tier = t /\ ProtectedKey(s, t).class = s
             /\ s # Standard /\ t \in Nat \ {0}
    <2>1. s # Standard /\ t \in Nat \ {0}
        BY <1>1, <1>2
    <2> QED
        BY <2>1 DEF ProtectedKey, Key, Class
<1>4. ASSUME NEW s \in Strategies, NEW u \in Strategies,
             NEW t \in DOMAIN Tiers, NEW v \in DOMAIN Tiers,
             ProtectedKey(s, t) = ProtectedKey(u, v)
      PROVE  s = u /\ t = v
    BY <1>3, <1>4
<1>5. ASSUME NEW k \in Key, k.class # Standard
      PROVE  /\ k.class \in Strategies /\ k.tier \in DOMAIN Tiers
             /\ k = ProtectedKey(k.class, k.tier)
    BY <1>5 DEF ProtectedKey, Key, Class
<1> QED
    BY <1>3, <1>4, <1>5

(* What happens to one pool, as far as the records of launches see it: it   *)
(* is there, it may be open or not, and what its launch completed stays.   *)
LEMMA OnePoolChanges ==
    ASSUME MarketInv, NEW k \in Key, NEW pool,
           market' = [market EXCEPT ![k] = pool], UNCHANGED launchVars,
           DOMAIN pool = DOMAIN NoPool,
           k.class # Standard => /\ pool.exists = market[k].exists
                                 /\ pool.completed = market[k].completed
                                 /\ pool.initialized => market[k].exists
    PROVE  MarketInv'
<1>1. /\ DOMAIN market' = Key
      /\ \A q \in Key : market'[q] = IF q = k THEN pool ELSE market[q]
    BY DEF MarketInv, Shapes
<1>2. Shapes'
    BY <1>1 DEF MarketInv, Shapes, launchVars
<1>3. ASSUME NEW s \in Strategies, NEW t \in DOMAIN Tiers
      PROVE  LET q == ProtectedKey(s, t)
             IN  /\ market'[q].completed = market[q].completed
                 /\ market'[q].exists = market[q].exists
                 /\ market'[q].initialized => market'[q].exists
    <2> DEFINE q == ProtectedKey(s, t)
    <2>1. q \in Key /\ q.class # Standard
        BY ProtectedKeys
    <2>2. market[q].initialized => market[q].exists
        BY DEF MarketInv, RecordsMatch
    <2> HIDE DEF q
    <2>3. /\ market'[q].completed = market[q].completed
          /\ market'[q].exists = market[q].exists
          /\ market'[q].initialized => market'[q].exists
        BY <1>1, <2>1, <2>2
    <2> QED
        BY <2>3 DEF q
<1>4. RecordsMatch'
    <2> SUFFICES ASSUME NEW s \in Strategies, NEW t \in DOMAIN Tiers
                 PROVE
        /\ \A l \in LaunchIds : launched'[s][l] = t <=> active'[s][t] = l
        /\ market'[ProtectedKey(s, t)].completed = (active'[s][t] # NoLaunch)
        /\ market'[ProtectedKey(s, t)].exists = market'[ProtectedKey(s, t)].completed
        /\ market'[ProtectedKey(s, t)].initialized => market'[ProtectedKey(s, t)].exists
        BY DEF RecordsMatch
    <2> QED
        BY <1>3 DEF MarketInv, RecordsMatch, launchVars
<1> QED
    BY <1>2, <1>4 DEF MarketInv

(* A swap touches neither the records nor whether the pool is open. *)
LEMMA SettleRecords ==
    ASSUME MarketInv, NEW k \in Key, NEW a, NEW s, Settle(k, a, s)
    PROVE  MarketInv' /\ market'[k].initialized = market[k].initialized
           /\ \A q \in Key : q # k => market'[q] = market[q]
<1> DEFINE pool == [market[k] EXCEPT !.reserve = Pool(k)!NextReserve(a, s),
                     !.protocolFees[s] = @ + Pool(k)!ProtocolFee(a),
                     !.swapCount[s] = @ + 1]
<1>1. market' = [market EXCEPT ![k] = pool] /\ UNCHANGED launchVars
    BY DEF Settle
<1>2. DOMAIN market[k] = DOMAIN NoPool /\ DOMAIN market = Key
    BY DEF MarketInv, Shapes
<1>3. /\ DOMAIN pool = DOMAIN NoPool
      /\ pool.exists = market[k].exists /\ pool.completed = market[k].completed
      /\ pool.initialized = market[k].initialized
    BY <1>2 DEF NoPool
<1> HIDE DEF pool
<1>4. k.class # Standard => (pool.initialized => market[k].exists)
    <2>1. ASSUME k.class # Standard, market[k].initialized PROVE market[k].exists
        BY <2>1, ProtectedKeys DEF MarketInv, RecordsMatch
    <2> QED
        BY <1>3, <2>1
<1> QED
    BY <1>1, <1>2, <1>3, <1>4, OnePoolChanges

(* A pool is filled: a launch completes it, or anybody an ordinary one, or  *)
(* again one that a launch completed.                                      *)
LEMMA OpenPool ==
    ASSUME MarketInv, NEW k \in Key, NEW offer, NEW completed, NEW exitable,
           Open(k, offer, completed, exitable)
    PROVE  /\ DOMAIN market' = Key
           /\ \A q \in Key : DOMAIN market'[q] = DOMAIN NoPool
           /\ market'[k].exists = TRUE /\ market'[k].initialized = TRUE
           /\ market'[k].completed = completed
           /\ \A q \in Key : q # k => market'[q] = market[q]
<1> DEFINE pool == [market[k] EXCEPT !.exists = TRUE, !.initialized = TRUE,
                     !.completed = completed, !.exitable = exitable,
                     !.reserve = offer, !.totalShares = Pool(k)!InitialShares(offer)]
<1>1. market' = [market EXCEPT ![k] = pool]
    BY DEF Open
<1>2. /\ DOMAIN market = Key
      /\ \A q \in Key : DOMAIN market[q] = DOMAIN NoPool
    BY DEF MarketInv, Shapes
<1>3. /\ DOMAIN pool = DOMAIN NoPool
      /\ pool.exists = TRUE /\ pool.initialized = TRUE /\ pool.completed = completed
    BY <1>2 DEF NoPool
<1> HIDE DEF pool
<1> QED
    BY <1>1, <1>2, <1>3

(* A launch fills the one pool of its strategy and tier and marks it with   *)
(* its id, where no id was.                                                *)
LEMMA MigrateRecords ==
    ASSUME MarketInv, NEW s \in Strategies, NEW l \in LaunchIds, NEW t \in DOMAIN Tiers,
           NEW offer, NEW permanent, Migrate(s, l, t, offer, permanent)
    PROVE  MarketInv'
<1> DEFINE k == ProtectedKey(s, t)
<1>0. k \in Key /\ t \in Nat \ {0} /\ NoLaunch \notin LaunchIds
    BY ProtectedKeys, ConfidentialMarketsAssumption
<1>1. /\ launched[s][l] = 0 /\ active[s][t] = NoLaunch
      /\ launched' = [launched EXCEPT ![s][l] = t]
      /\ active' = [active EXCEPT ![s][t] = l]
      /\ Open(k, offer, TRUE, ~permanent)
    BY DEF Migrate, PrepareLaunch, AuthorizeInitialization, ProtectedKey
<1> HIDE DEF k
<1>2. /\ DOMAIN market' = Key
      /\ \A q \in Key : DOMAIN market'[q] = DOMAIN NoPool
      /\ market'[k].exists = TRUE /\ market'[k].initialized = TRUE
      /\ market'[k].completed = TRUE
      /\ \A q \in Key : q # k => market'[q] = market[q]
    BY <1>0, <1>1, OpenPool
<1>3. /\ launched \in [Strategies -> [LaunchIds -> Nat]]
      /\ active \in [Strategies -> [DOMAIN Tiers -> LaunchIds \cup {NoLaunch}]]
    BY DEF MarketInv, Shapes
<1>4. Shapes'
    BY <1>0, <1>1, <1>2, <1>3 DEF Shapes
<1>5. /\ \A u \in Strategies, m \in LaunchIds :
             launched'[u][m] = IF u = s /\ m = l THEN t ELSE launched[u][m]
      /\ \A u \in Strategies, v \in DOMAIN Tiers :
             active'[u][v] = IF u = s /\ v = t THEN l ELSE active[u][v]
    BY <1>1, <1>3
<1>6. ASSUME NEW u \in Strategies, NEW v \in DOMAIN Tiers
      PROVE
        /\ \A m \in LaunchIds : launched'[u][m] = v <=> active'[u][v] = m
        /\ market'[ProtectedKey(u, v)].completed = (active'[u][v] # NoLaunch)
        /\ market'[ProtectedKey(u, v)].exists = market'[ProtectedKey(u, v)].completed
        /\ market'[ProtectedKey(u, v)].initialized => market'[ProtectedKey(u, v)].exists
    <2> DEFINE q == ProtectedKey(u, v)
    <2>0. q \in Key /\ v \in Nat \ {0}
          /\ (q = k => u = s /\ v = t)
        BY ProtectedKeys DEF k
    <2>1. /\ \A m \in LaunchIds : launched[u][m] = v <=> active[u][v] = m
          /\ market[q].completed = (active[u][v] # NoLaunch)
          /\ market[q].exists = market[q].completed
          /\ market[q].initialized => market[q].exists
        BY DEF MarketInv, RecordsMatch
    <2>2. CASE u = s /\ v = t
        <3>1. q = k
            BY <2>2 DEF k
        <3>2. \A m \in LaunchIds : launched'[u][m] = v <=> active'[u][v] = m
            BY <1>0, <1>1, <1>5, <2>1, <2>2
        <3>3. active'[u][v] = l /\ l # NoLaunch
            BY <1>0, <1>5, <2>2
        <3> HIDE DEF q
        <3>4. /\ market'[q].completed = (active'[u][v] # NoLaunch)
              /\ market'[q].exists = market'[q].completed
              /\ market'[q].initialized => market'[q].exists
            BY <1>2, <3>1, <3>3
        <3> QED
            BY <3>2, <3>4 DEF q
    <2>3. CASE ~(u = s /\ v = t)
        <3>1. market'[q] = market[q] /\ active'[u][v] = active[u][v]
            BY <1>2, <1>5, <2>0, <2>3
        <3>2. \A m \in LaunchIds : launched'[u][m] = v <=> active'[u][v] = m
            <4> SUFFICES ASSUME NEW m \in LaunchIds
                         PROVE  launched'[u][m] = v <=> active[u][v] = m
                BY <3>1
            <4>1. CASE u = s /\ m = l
                <5>1. active[u][v] # m
                    BY <1>1, <2>0, <2>1, <4>1
                <5>2. launched'[u][m] = t /\ t # v
                    BY <1>5, <2>3, <4>1
                <5> QED
                    BY <5>1, <5>2
            <4>2. CASE ~(u = s /\ m = l)
                BY <1>5, <2>1, <4>2
            <4> QED
                BY <4>1, <4>2
        <3> HIDE DEF q
        <3> QED
            BY <2>1, <3>1, <3>2 DEF q
    <2> QED
        BY <2>2, <2>3
<1>7. RecordsMatch'
    BY <1>6 DEF RecordsMatch
<1> QED
    BY <1>4, <1>7 DEF MarketInv

(* Whoever adds the first liquidity directly finds a pool a launch made, or *)
(* an ordinary one.                                                        *)
LEMMA FirstLiquidityRecords ==
    ASSUME MarketInv, NEW k \in Key, NEW offer, FirstLiquidity(k, offer)
    PROVE  MarketInv'
<1> DEFINE pool == [market[k] EXCEPT !.exists = TRUE, !.initialized = TRUE,
                     !.completed = market[k].completed, !.exitable = TRUE,
                     !.reserve = offer, !.totalShares = Pool(k)!InitialShares(offer)]
<1>1. /\ market[k].exists /\ (k.class # Standard => market[k].completed)
      /\ market' = [market EXCEPT ![k] = pool] /\ UNCHANGED launchVars
    BY DEF FirstLiquidity, Open
<1>2. DOMAIN market[k] = DOMAIN NoPool
    BY DEF MarketInv, Shapes
<1>3. /\ DOMAIN pool = DOMAIN NoPool
      /\ pool.exists = TRUE /\ pool.completed = market[k].completed
    BY <1>2 DEF NoPool
<1> HIDE DEF pool
<1>4. ASSUME k.class # Standard PROVE market[k].exists = TRUE
    <2>1. market[k].exists = market[k].completed
          /\ market[k].completed = (active[k.class][k.tier] # NoLaunch)
        BY <1>4, ProtectedKeys DEF MarketInv, RecordsMatch
    <2> QED
        BY <1>1, <2>1
<1> QED
    BY <1>1, <1>3, <1>4, OnePoolChanges

(* The exit of the last holder empties a pool and leaves its records. *)
LEMMA ExitRecords ==
    ASSUME MarketInv, NEW k \in Key, ExitPool(k)
    PROVE  MarketInv'
<1> DEFINE pool == [NoPool EXCEPT !.exists = TRUE, !.completed = market[k].completed]
<1>1. /\ market[k].initialized
      /\ market' = [market EXCEPT ![k] = pool] /\ UNCHANGED launchVars
    BY DEF ExitPool
<1>2. /\ DOMAIN pool = DOMAIN NoPool /\ pool.exists = TRUE
      /\ pool.initialized = FALSE /\ pool.completed = market[k].completed
    BY DEF NoPool
<1> HIDE DEF pool
<1>3. ASSUME k.class # Standard PROVE market[k].exists = TRUE
    <2>1. /\ market[k].exists = market[k].completed
          /\ market[k].completed = (active[k.class][k.tier] # NoLaunch)
          /\ market[k].initialized => market[k].exists
        BY <1>3, ProtectedKeys DEF MarketInv, RecordsMatch
    <2> QED
        BY <1>1, <2>1
<1> QED
    BY <1>1, <1>2, <1>3, OnePoolChanges

(* The factory's own creation makes ordinary pools only. *)
LEMMA CreateRecords ==
    ASSUME MarketInv, NEW t \in DOMAIN Tiers, CreatePool(t)
    PROVE  MarketInv' /\ \A k \in Key : market'[k].initialized = market[k].initialized
<1> DEFINE k == [tier |-> t, class |-> Standard]
           pool == [market[k] EXCEPT !.exists = TRUE]
<1>1. k \in Key /\ k.class = Standard
    BY DEF Key, Class
<1>2. market' = [market EXCEPT ![k] = pool] /\ UNCHANGED launchVars
    BY DEF CreatePool
<1> HIDE DEF k
<1>3. DOMAIN market[k] = DOMAIN NoPool /\ DOMAIN market = Key
    BY <1>1 DEF MarketInv, Shapes
<1>4. DOMAIN pool = DOMAIN NoPool /\ pool.initialized = market[k].initialized
    BY <1>3 DEF NoPool
<1> HIDE DEF pool
<1>5. MarketInv'
    BY <1>1, <1>2, <1>4, OnePoolChanges
<1> QED
    BY <1>2, <1>3, <1>4, <1>5

(* A trade is a settlement at some pool, the router's too. *)
LEMMA TradeSettles ==
    ASSUME Trade
    PROVE  \E k \in Key, a \in Amounts, s \in Side : Settle(k, a, s)
<1>1. ASSUME NEW bits, NEW a \in Amounts, NEW s \in Side, SwapBest(bits, a, s)
      PROVE  \E k \in Key : Settle(k, a, s)
    BY <1>1 DEF SwapBest
<1> QED
    BY <1>1 DEF Trade

(* Before anything is configured there is no pool, launch or record. *)
LEMMA RecordsFromTheStart == MarketsInit => MarketInv
<1> SUFFICES ASSUME MarketsInit PROVE MarketInv
    OBVIOUS
<1>1. \A k \in Key : market[k] = NoPool
    BY DEF MarketsInit
<1>2. Shapes
    BY <1>1 DEF MarketsInit, Shapes
<1>3. ASSUME NEW s \in Strategies, NEW t \in DOMAIN Tiers
      PROVE  /\ \A l \in LaunchIds : launched[s][l] = t <=> active[s][t] = l
             /\ active[s][t] = NoLaunch /\ market[ProtectedKey(s, t)] = NoPool
    <2>1. ProtectedKey(s, t) \in Key /\ t # 0 /\ NoLaunch \notin LaunchIds
        BY ProtectedKeys, ConfidentialMarketsAssumption
    <2> QED
        BY <1>1, <2>1 DEF MarketsInit
<1>4. NoPool.exists = FALSE /\ NoPool.initialized = FALSE /\ NoPool.completed = FALSE
    BY DEF NoPool
<1>5. RecordsMatch
    <2> SUFFICES ASSUME NEW s \in Strategies, NEW t \in DOMAIN Tiers
                 PROVE
        /\ \A l \in LaunchIds : launched[s][l] = t <=> active[s][t] = l
        /\ market[ProtectedKey(s, t)].completed = (active[s][t] # NoLaunch)
        /\ market[ProtectedKey(s, t)].exists = market[ProtectedKey(s, t)].completed
        /\ market[ProtectedKey(s, t)].initialized => market[ProtectedKey(s, t)].exists
        BY DEF RecordsMatch
    <2>1. market[ProtectedKey(s, t)] = NoPool /\ active[s][t] = NoLaunch
        BY <1>3
    <2> QED
        BY <1>3, <1>4, <2>1
<1> QED
    BY <1>2, <1>5 DEF MarketInv

(* The records match after every step of the markets. *)
LEMMA NextRecords == MarketInv /\ [MarketsNext]_marketVars => MarketInv'
<1> SUFFICES ASSUME MarketInv, [MarketsNext]_marketVars PROVE MarketInv'
    OBVIOUS
<1>1. ASSUME UNCHANGED <<market, launchVars>> PROVE MarketInv'
    BY <1>1 DEF MarketInv, Shapes, RecordsMatch, launchVars
<1>2. CASE Configure
    BY <1>1, <1>2 DEF Configure
<1>3. CASE Start
    BY <1>3, CreateRecords, MigrateRecords, FirstLiquidityRecords DEF Start
<1>4. CASE Trade
    BY <1>4, TradeSettles, SettleRecords
<1>5. ASSUME NEW k \in Key, ExitPool(k) PROVE MarketInv'
    BY <1>5, ExitRecords
<1>6. CASE UNCHANGED marketVars
    BY <1>1, <1>6 DEF marketVars
<1> QED
    BY <1>2, <1>3, <1>4, <1>5, <1>6 DEF MarketsNext

(* With one active launch to a key, one launch is counted there. *)
LEMMA MatchingRecordsAgree == MarketInv => LaunchRecordsAgree
<1> SUFFICES ASSUME MarketInv, NEW s \in Strategies, NEW t \in DOMAIN Tiers
             PROVE  LET k == [tier |-> t, class |-> s]
                    IN  /\ Cardinality({l \in LaunchIds : launched[s][l] = t})
                               = IF market[k].completed THEN 1 ELSE 0
                        /\ \A l \in LaunchIds : launched[s][l] = t <=> active[s][t] = l
                        /\ market[k].exists <=> market[k].completed
    BY DEF LaunchRecordsAgree
<1> DEFINE k == ProtectedKey(s, t)
           done == {l \in LaunchIds : launched[s][l] = t}
<1>1. /\ \A l \in LaunchIds : launched[s][l] = t <=> active[s][t] = l
      /\ market[k].completed = (active[s][t] # NoLaunch)
      /\ market[k].exists = market[k].completed
    BY DEF MarketInv, RecordsMatch
<1>2. active[s][t] \in LaunchIds \cup {NoLaunch} /\ NoLaunch \notin LaunchIds
    BY ConfidentialMarketsAssumption DEF MarketInv, Shapes
<1>3. Cardinality(done) = IF market[k].completed THEN 1 ELSE 0
    <2>1. CASE active[s][t] = NoLaunch
        <3>1. done = {}
            BY <1>1, <1>2, <2>1
        <3> QED
            BY <1>1, <2>1, <3>1, FS_EmptySet
    <2>2. CASE active[s][t] # NoLaunch
        <3>1. done = {active[s][t]}
            BY <1>1, <1>2, <2>2
        <3> QED
            BY <1>1, <2>2, <3>1, FS_Singleton
    <2> QED
        BY <2>1, <2>2
<1> QED
    BY <1>1, <1>3 DEF ProtectedKey

-----------------------------------------------------------------------------
(* Trades.  The router quotes blindly, with wrapped words and validity bits, *)
(* and settles at one pool; what it needs of the pools is that the open    *)
(* ones are within their operational bounds.                               *)

(* An open pool has something on both sides, and their product is a word. *)
WithinBounds(pool) ==
    /\ pool.reserve \in [Side -> Nat \ {0}]
    /\ pool.reserve[0] * pool.reserve[1] <= MaxWord

Against(s) == 1 - s

RetainedAt(k, a, s) ==
    LET r == market[k].reserve
    IN  Pool(k)!CeilDiv(r[0] * r[1], r[s] + Pool(k)!NetAmount(a))

(* The numbers of a swap at an open pool of the market, accepted or not. *)
LEMMA SwapAt ==
    ASSUME NEW k \in Key, WithinBounds(market[k]), NEW a \in Nat, NEW s \in Side
    PROVE  /\ Against(s) \in Side /\ Against(s) # s /\ Side = {s, Against(s)}
           /\ market[k].reserve \in [Side -> Nat \ {0}]
           /\ Pool(k)!NetAmount(a) \in Nat /\ Pool(k)!NetAmount(a) <= a
           /\ Pool(k)!ProtocolFee(a) \in Nat
           /\ Pool(k)!ProtocolFee(a) <= a - Pool(k)!NetAmount(a)
           /\ RetainedAt(k, a, s) \in Nat /\ RetainedAt(k, a, s) <= market[k].reserve[Against(s)]
           /\ Pool(k)!SwapOutput(a, s) = market[k].reserve[Against(s)] - RetainedAt(k, a, s)
           /\ Pool(k)!SwapOutput(a, s) \in Nat
           /\ Pool(k)!NextReserve(a, s) \in [Side -> Nat]
           /\ Pool(k)!NextReserve(a, s)[s] = market[k].reserve[s] + (a - Pool(k)!ProtocolFee(a))
           /\ Pool(k)!NextReserve(a, s)[Against(s)] = RetainedAt(k, a, s)
<1> DEFINE r == market[k].reserve
           o == Against(s)
           bps == Tiers[k.tier]
           net == Pool(k)!NetAmount(a)
           fee == Pool(k)!ProtocolFee(a)
           kept == RetainedAt(k, a, s)
           out == Pool(k)!SwapOutput(a, s)
           next == Pool(k)!NextReserve(a, s)
<1>1. o \in Side /\ o # s /\ Side = {s, o} /\ r \in [Side -> Nat \ {0}]
    BY DEF Side, Against, WithinBounds
<1>2. bps \in 0 .. FeeDenominator /\ FeeDenominator \in Nat \ {0}
      /\ FeeShareDenominator \in Nat \ {0}
    BY ConfidentialMarketsAssumption DEF Key
<1>3. net = MulDiv(a, FeeDenominator - bps, FeeDenominator)
    BY SMT DEF Pool!NetAmount, Pool!MulDiv, MulDiv
<1>4. fee = (a - net) \div FeeShareDenominator
    BY SMT DEF Pool!ProtocolFee, Pool!ProtocolFeeFromTotal
<1>5. kept = IF (r[0] * r[1]) % (r[s] + net) = 0 THEN (r[0] * r[1]) \div (r[s] + net)
                                        ELSE (r[0] * r[1]) \div (r[s] + net) + 1
    BY SMT DEF RetainedAt, Pool!CeilDiv
<1>6. out = r[o] - kept
    BY SMT DEF Pool!SwapOutput, Pool!Other, Against, RetainedAt
<1>7. next = [r EXCEPT ![s] = @ + (a - fee), ![o] = @ - out]
    BY SMT DEF Pool!NextReserve, Pool!Other, Against
<1> HIDE DEF net, fee, kept, out, next, o, r, bps
<1>8. net \in Nat /\ net <= a /\ fee \in Nat /\ fee <= a - net
    BY <1>2, <1>3, <1>4, FeeSplit
<1>9. r[0] * r[1] = r[s] * r[o]
    <2>1. r[0] \in Nat /\ r[1] \in Nat
        BY <1>1 DEF Side
    <2>2. r[0] * r[1] = r[1] * r[0]
        BY <2>1, SMT
    <2> QED
        BY <2>2 DEF o, Against, Side
<1>10. kept \in Nat /\ kept <= r[o]
    <2> DEFINE x == r[s]
               y == r[o]
    <2>1. x \in Nat \ {0} /\ y \in Nat
        BY <1>1
    <2>2. kept = IF (x * y) % (x + net) = 0 THEN (x * y) \div (x + net)
                                             ELSE (x * y) \div (x + net) + 1
        BY <1>5, <1>9
    <2> HIDE DEF x, y
    <2>3. kept \in Nat /\ kept <= y
        BY <1>8, <2>1, <2>2, RetainedReserve
    <2> QED
        BY <2>3 DEF y
<1>11. out \in Nat /\ r[o] - out = kept
    BY <1>1, <1>6, <1>10
<1>12. next[s] = r[s] + (a - fee) /\ next[o] = kept /\ next \in [Side -> Nat]
    <2>1. r[s] \in Nat /\ r[s] + (a - fee) \in Nat
        BY <1>1, <1>8
    <2> QED
        BY <1>1, <1>7, <1>10, <1>11, <2>1
<1> QED
    BY <1>1, <1>6, <1>8, <1>10, <1>11, <1>12 DEF net, fee, kept, out, next, o, r

(* Where a swap's first products fit, each word of the router's quote is   *)
(* the number the settlement computes.                                     *)
LEMMA QuoteWordsExact ==
    ASSUME NEW k \in Key, WithinBounds(market[k]), NEW a \in 0 .. MaxWord, NEW s \in Side,
           a * (FeeDenominator - Tiers[k.tier]) <= MaxWord,
           market[k].reserve[s] + Pool(k)!NetAmount(a) <= MaxWord
    PROVE  LET w == Pool(k)!QuoteWords(a, s)
               next == Pool(k)!NextReserve(a, s)
           IN  /\ w.net = Pool(k)!NetAmount(a)
               /\ w.fee = Pool(k)!ProtocolFee(a)
               /\ w.retained = market[k].reserve[Against(s)] - Pool(k)!SwapOutput(a, s)
               /\ w.output = Pool(k)!SwapOutput(a, s)
               /\ Pool(k)!Sub(a, w.fee) = a - Pool(k)!ProtocolFee(a)
               /\ next[s] <= MaxWord => w.next = next
<1> DEFINE r == market[k].reserve
           o == Against(s)
           net == Pool(k)!NetAmount(a)
           fee == Pool(k)!ProtocolFee(a)
           kept == RetainedAt(k, a, s)
           out == Pool(k)!SwapOutput(a, s)
           next == Pool(k)!NextReserve(a, s)
           w == Pool(k)!QuoteWords(a, s)
           left == FeeDenominator - Tiers[k.tier]
           product == r[0] * r[1]
           Word(n) == n % (MaxWord + 1)
           Sub(m, n) == (m + (MaxWord + 1) - n) % (MaxWord + 1)
           Rounded(n, d) == LET safe == IF d = 0 THEN 1 ELSE d
                            IN  IF n % safe = 0 THEN n \div safe ELSE Word(n \div safe + 1)
<1>1. MaxWord \in Nat /\ FeeDenominator \in Nat \ {0} /\ left \in Nat /\ a \in Nat
    <2>1. Tiers[k.tier] \in 1 .. FeeDenominator
        BY ConfidentialMarketsAssumption DEF Key
    <2>2. MaxWord \in Nat /\ FeeDenominator \in Nat \ {0}
        BY ConfidentialMarketsAssumption
    <2> QED
        BY <2>1, <2>2
<1>2. /\ o \in Side /\ o # s /\ Side = {s, o} /\ r \in [Side -> Nat \ {0}]
      /\ net \in Nat /\ net <= a /\ fee \in Nat /\ fee <= a - net
      /\ kept \in Nat /\ kept <= r[o] /\ out = r[o] - kept /\ out \in Nat
      /\ next \in [Side -> Nat] /\ next[s] = r[s] + (a - fee) /\ next[o] = kept
    BY <1>1, SwapAt
<1>3. product \in Nat /\ product <= MaxWord /\ r[o] <= MaxWord /\ r[s] \in Nat \ {0}
    <2>1. r[0] \in Nat \ {0} /\ r[1] \in Nat \ {0} /\ r[o] \in {r[0], r[1]}
        BY <1>2 DEF Side
    <2>2. product <= MaxWord
        BY DEF WithinBounds
    <2>3. r[0] <= r[0] * r[1] /\ r[1] <= r[0] * r[1] /\ r[0] * r[1] \in Nat
        BY <2>1, SMTT(30)
    <2> QED
        BY <1>1, <1>2, <2>1, <2>2, <2>3
<1>4. net = (a * left) \div FeeDenominator
    BY SMT DEF Pool!NetAmount, Pool!MulDiv
<1>5. fee = (a - net) \div FeeShareDenominator
    BY SMT DEF Pool!ProtocolFee, Pool!ProtocolFeeFromTotal
<1>6. kept = IF product % (r[s] + net) = 0 THEN product \div (r[s] + net)
                                           ELSE product \div (r[s] + net) + 1
    BY SMT DEF RetainedAt, Pool!CeilDiv
<1>7. /\ w.net = Word(a * left) \div FeeDenominator
      /\ w.fee = Sub(a, w.net) \div FeeShareDenominator
      /\ w.retained = Rounded(Word(product), Word(r[s] + w.net))
      /\ w.output = Sub(r[o], w.retained)
      /\ w.next = [t \in Side |-> IF t = s THEN Word(r[s] + Sub(a, w.fee))
                                  ELSE Sub(r[t], w.output)]
    <2> DEFINE n == Word(a * left) \div FeeDenominator
               f == Sub(a, n) \div FeeShareDenominator
               kr == Rounded(Word(product), Word(r[s] + n))
               u == Sub(r[o], kr)
               x == [t \in Side |-> IF t = s THEN Word(r[s] + Sub(a, f)) ELSE Sub(r[t], u)]
    <2>1. w = [net |-> n, fee |-> f, retained |-> kr, output |-> u, next |-> x]
        BY SMT DEF Pool!QuoteWords, Pool!Word, Pool!Sub, Pool!RoundedUp, Pool!Other, Against,
                   Pool!Side, Side
    <2> HIDE DEF n, f, kr, u, x, w
    <2>2. w.net = n /\ w.fee = f /\ w.retained = kr /\ w.output = u /\ w.next = x
        BY <2>1
    <2> QED
        BY <2>2 DEF n, f, kr, u, x
<1>8. Pool(k)!Sub(a, w.fee) = Sub(a, w.fee)
    BY SMT DEF Pool!Sub, Pool!Word
<1>9. a \in Nat /\ a <= MaxWord /\ a * left <= MaxWord /\ r[s] + net <= MaxWord
    BY <1>1
<1> HIDE DEF net, fee, kept, out, next, o, r, w, left, product
<1>10. \A n \in 0 .. MaxWord : Word(n) = n
    BY <1>1, SmallWord
<1>11. \A m \in 0 .. MaxWord : \A n \in 0 .. m : Sub(m, n) = m - n
    BY <1>1, SmallDifference
<1> HIDE DEF Word, Sub
<1>12. w.net = net
    <2>1. a * left \in Nat
        BY <1>1, <1>9, SMT
    <2>2. Word(a * left) = a * left
        BY <1>1, <1>9, <1>10, <2>1
    <2> QED
        BY <1>4, <1>7, <2>2
<1>13. w.fee = fee
    <2>1. Sub(a, net) = a - net
        BY <1>1, <1>2, <1>9, <1>11
    <2> QED
        BY <1>5, <1>7, <1>12, <2>1
<1>14. w.retained = kept
    <2> DEFINE d == r[s] + net
    <2>1. d \in Nat \ {0} /\ d <= MaxWord
        BY <1>2, <1>3, <1>9
    <2>2. Word(d) = d /\ Word(product) = product
        BY <1>1, <1>3, <1>10, <2>1
    <2>3. w.retained = Rounded(product, d)
        BY <1>7, <1>12, <2>2
    <2>4. kept = IF product % d = 0 THEN product \div d ELSE product \div d + 1
        BY <1>6
    <2> HIDE DEF d
    <2>5. kept \in Nat /\ kept <= product
        BY <1>3, <2>1, <2>4, RoundingUp
    <2>6. Word(kept) = kept
        BY <1>1, <1>3, <1>10, <2>5
    <2>7. CASE product % d = 0
        BY <2>1, <2>3, <2>4, <2>7
    <2>8. CASE product % d # 0
        BY <2>1, <2>3, <2>4, <2>6, <2>8
    <2> QED
        BY <2>7, <2>8
<1> HIDE DEF Rounded
<1>15. w.output = out
    <2>1. r[o] \in 0 .. MaxWord /\ kept \in 0 .. r[o]
        BY <1>1, <1>2, <1>3
    <2> QED
        BY <1>2, <1>7, <1>11, <1>14, <2>1
<1>16. Sub(a, fee) = a - fee
    <2>1. a \in 0 .. MaxWord /\ fee \in 0 .. a
        BY <1>1, <1>2, <1>9
    <2> QED
        BY <1>11, <2>1
<1>17. ASSUME next[s] <= MaxWord PROVE w.next = next
    <2>1. Word(r[s] + (a - fee)) = next[s]
        BY <1>1, <1>2, <1>10, <1>17
    <2>2. Sub(r[o], out) = kept
        <3>1. r[o] \in 0 .. MaxWord /\ out \in 0 .. r[o] /\ r[o] - out = kept
            BY <1>1, <1>2, <1>3
        <3> QED
            BY <1>11, <3>1
    <2>3. w.next = [t \in Side |-> IF t = s THEN Word(r[s] + (a - fee)) ELSE Sub(r[t], out)]
        BY <1>7, <1>13, <1>15, <1>16
    <2>4. \A t \in Side : w.next[t] = next[t]
        BY <1>2, <2>1, <2>2, <2>3
    <2> QED
        BY <1>2, <2>3, <2>4
<1>18. w.retained = r[o] - out
    BY <1>2, <1>3, <1>14
<1> QED
    BY <1>8, <1>12, <1>13, <1>15, <1>16, <1>17, <1>18 DEF net, fee, out, next, o, r, w

(* The blind quote of an open pool is valid exactly for the swaps the pool *)
(* accepts, and names what it pays for them.                               *)
LEMMA QuoteSettles ==
    ASSUME NEW k \in Key, market[k].initialized => WithinBounds(market[k]),
           NEW a \in 0 .. MaxWord, NEW s \in Side
    PROVE  /\ Pool(k)!QuoteValid(a, s) <=> Pool(k)!SwapAccepted(a, s)
           /\ Pool(k)!SwapAccepted(a, s) =>
                  /\ Pool(k)!QuotedOutput(a, s) = Pool(k)!SwapOutput(a, s)
                  /\ Pool(k)!SwapOutput(a, s) \in Nat
           /\ ~Pool(k)!QuoteValid(a, s) => Pool(k)!QuotedOutput(a, s) = 0
<1> DEFINE r == market[k].reserve
           o == Against(s)
           net == Pool(k)!NetAmount(a)
           fee == Pool(k)!ProtocolFee(a)
           out == Pool(k)!SwapOutput(a, s)
           next == Pool(k)!NextReserve(a, s)
           w == Pool(k)!QuoteWords(a, s)
           left == FeeDenominator - Tiers[k.tier]
           supply == market[k].totalShares
           fees == market[k].protocolFees[s]
           count == market[k].swapCount[s]
           Valid == Pool(k)!QuoteValid(a, s)
           Accepted == Pool(k)!SwapAccepted(a, s)
           InBounds(v, scaled) ==
               /\ v[0] > 0 /\ v[1] > 0 /\ supply > 0
               /\ v[0] * v[1] <= MaxWord
               /\ \A t \in Side : supply * v[t] <= MaxWord
               /\ v[0] * Scale[0] <= MaxWord
               /\ v[1] * Scale[1] <= MaxWord /\ scaled * PriceScale <= MaxWord
           early == /\ market[k].initialized
                    /\ a * left <= MaxWord
                    /\ r[s] + net <= MaxWord
<1>1. /\ MaxWord \in Nat /\ FeeDenominator \in Nat \ {0} /\ left \in Nat
      /\ a \in Nat /\ a <= MaxWord
    <2>1. Tiers[k.tier] \in 1 .. FeeDenominator
        BY ConfidentialMarketsAssumption DEF Key
    <2>2. MaxWord \in Nat /\ FeeDenominator \in Nat \ {0}
        BY ConfidentialMarketsAssumption
    <2> QED
        BY <2>1, <2>2
<1>2. Accepted <=>
        /\ early
        /\ a > 0 /\ r[0] > 0 /\ r[1] > 0
        /\ net > 0 /\ fee > 0
        /\ r[0] * r[1] <= MaxWord /\ out > 0
        /\ next[s] <= MaxWord
        /\ fees + fee <= MaxWord /\ count < MaxCount
        /\ InBounds(next, next[1] * Scale[1])
    BY SMT DEF Pool!SwapAccepted, Pool!Fits, Pool!OperationalBounds, Pool!Side, Side
<1>3. Valid <=>
        /\ market[k].initialized
        /\ a > 0 /\ r[0] > 0 /\ r[1] > 0
        /\ a * left <= MaxWord /\ w.net > 0
        /\ w.net <= a /\ w.fee > 0
        /\ r[s] + w.net <= MaxWord /\ r[0] * r[1] <= MaxWord
        /\ w.retained <= r[o] /\ w.output > 0
        /\ w.fee <= a /\ r[s] + Pool(k)!Sub(a, w.fee) <= MaxWord /\ w.output <= r[o]
        /\ fees + w.fee <= MaxWord /\ count < MaxCount
        /\ InBounds(w.next, (w.next[1] * Scale[1]) % (MaxWord + 1))
    BY SMT DEF Pool!QuoteValid, Pool!SettlementBits, Pool!OperationalBits, Pool!Fits, Pool!Word,
               Pool!Other, Against, Pool!Side, Side
<1>4. Pool(k)!QuotedOutput(a, s) = IF Valid THEN w.output ELSE 0
    BY SMT DEF Pool!QuotedOutput
<1> HIDE DEF InBounds
<1>5. Valid => early
    <2> SUFFICES ASSUME a * left <= MaxWord PROVE w.net = net
        BY <1>3
    <2>1. net = (a * left) \div FeeDenominator
        BY SMT DEF Pool!NetAmount, Pool!MulDiv
    <2>2. w.net = ((a * left) % (MaxWord + 1)) \div FeeDenominator
        BY SMT DEF Pool!QuoteWords, Pool!Word
    <2> HIDE DEF w, net, left
    <2>3. a * left \in Nat
        BY <1>1, SMT
    <2>4. (a * left) % (MaxWord + 1) = a * left
        BY <1>1, <2>3, SmallWord
    <2> QED
        BY <2>1, <2>2, <2>4
<1>6. SUFFICES ASSUME early
               PROVE  /\ Valid <=> Accepted
                      /\ Accepted => w.output = out /\ out \in Nat
    BY <1>2, <1>4, <1>5
<1>7. WithinBounds(market[k])
    BY <1>6
<1>8. /\ o \in Side /\ o # s /\ Side = {s, o} /\ r \in [Side -> Nat \ {0}]
      /\ net \in Nat /\ net <= a /\ fee \in Nat /\ fee <= a - net
      /\ out \in Nat /\ out <= r[o]
      /\ next \in [Side -> Nat] /\ next[s] = r[s] + (a - fee)
    <2>1. /\ RetainedAt(k, a, s) \in Nat /\ RetainedAt(k, a, s) <= r[o]
          /\ out = r[o] - RetainedAt(k, a, s) /\ out \in Nat
          /\ o \in Side /\ o # s /\ Side = {s, o} /\ r \in [Side -> Nat \ {0}]
          /\ net \in Nat /\ net <= a /\ fee \in Nat /\ fee <= a - net
          /\ next \in [Side -> Nat] /\ next[s] = r[s] + (a - fee)
        BY <1>1, <1>7, SwapAt
    <2> HIDE DEF out, o, r, net, fee, next
    <2>2. out <= r[o]
        BY <2>1
    <2> QED
        BY <2>1, <2>2
<1>9. /\ w.net = net /\ w.fee = fee /\ w.retained = r[o] - out /\ w.output = out
      /\ Pool(k)!Sub(a, w.fee) = a - fee
      /\ next[s] <= MaxWord => w.next = next
    BY <1>6, <1>7, QuoteWordsExact
<1>10. r[0] > 0 /\ r[1] > 0 /\ r[0] * r[1] <= MaxWord
    BY <1>7 DEF WithinBounds, Side
<1> DEFINE bits == /\ fees + w.fee <= MaxWord /\ count < MaxCount
                   /\ InBounds(w.next, (w.next[1] * Scale[1]) % (MaxWord + 1))
           checks == /\ fees + fee <= MaxWord /\ count < MaxCount
                     /\ InBounds(next, next[1] * Scale[1])
<1>11. ASSUME next[s] <= MaxWord PROVE bits <=> checks
    <2>1. w.next = next /\ w.fee = fee
        BY <1>9, <1>11
    <2> DEFINE scaled == next[1] * Scale[1]
    <2>2. scaled \in Nat
        <3>1. next[1] \in Nat /\ Scale[1] \in Nat
            BY <1>8, ConfidentialMarketsAssumption DEF Side
        <3> HIDE DEF next
        <3> QED
            BY <3>1, SMT
    <2>3. scaled <= MaxWord => scaled % (MaxWord + 1) = scaled
        <3> HIDE DEF scaled
        <3> QED
            BY <1>1, <2>2, SmallWord
    <2>4. InBounds(next, scaled) <=> InBounds(next, scaled % (MaxWord + 1))
        <3>1. CASE scaled <= MaxWord
            BY <2>3, <3>1
        <3>2. CASE ~(scaled <= MaxWord)
            BY <3>2 DEF InBounds
        <3> QED
            BY <3>1, <3>2
    <2> QED
        BY <2>1, <2>4
<1> HIDE DEF r, o, net, fee, out, next, w, left, supply, fees, count, bits, checks
<1>12. Valid <=>
         /\ a > 0 /\ net > 0 /\ fee > 0 /\ out > 0 /\ next[s] <= MaxWord /\ bits
    <2>1. w.net <= a /\ w.fee <= a /\ w.retained <= r[o] /\ w.output <= r[o]
        <3>1. r[o] \in Nat
            BY <1>8
        <3> QED
            BY <1>1, <1>8, <1>9, <3>1
    <2>2. r[s] + Pool(k)!Sub(a, w.fee) = next[s]
        BY <1>8, <1>9
    <2> HIDE DEF Valid
    <2>3. Valid <=>
            /\ a > 0 /\ w.net > 0 /\ w.fee > 0 /\ w.output > 0 /\ next[s] <= MaxWord /\ bits
        <3>1. early
            BY <1>6
        <3> QED
            BY <1>3, <1>9, <1>10, <2>1, <2>2, <3>1 DEF bits
    <2> QED
        BY <1>9, <2>3
<1>13. Accepted <=>
         /\ a > 0 /\ net > 0 /\ fee > 0 /\ out > 0 /\ next[s] <= MaxWord /\ checks
    <2>1. early
        BY <1>6
    <2> HIDE DEF Accepted, early
    <2> QED
        BY <1>2, <1>10, <2>1 DEF checks
<1>14. Valid <=> Accepted
    <2> HIDE DEF Valid, Accepted
    <2> QED
        BY <1>11, <1>12, <1>13
<1> QED
    BY <1>8, <1>9, <1>14

(* Beside the records: every strategy of the registry is one, and every    *)
(* open pool is within its bounds, which every opening and every           *)
(* settlement checks.                                                      *)
TradeInv ==
    /\ MarketInv
    /\ strategies \in Seq(Strategies)
    /\ \A k \in Key : market[k].initialized => WithinBounds(market[k])

(* Only one pool changes, and it is within its bounds if it is open. *)
LEMMA BoundsKept ==
    ASSUME TradeInv, MarketInv', UNCHANGED strategies, NEW k \in Key, NEW pool,
           market' = [market EXCEPT ![k] = pool],
           pool.initialized => WithinBounds(pool)
    PROVE  TradeInv'
<1>1. DOMAIN market = Key
    BY DEF TradeInv, MarketInv, Shapes
<1>2. ASSUME NEW q \in Key, market'[q].initialized PROVE WithinBounds(market'[q])
    <2>1. market'[q] = IF q = k THEN pool ELSE market[q]
        BY <1>1
    <2>2. CASE q = k
        BY <1>2, <2>1, <2>2
    <2>3. CASE q # k
        <3>1. market'[q] = market[q]
            BY <2>1, <2>3
        <3>2. WithinBounds(market[q])
            BY <1>2, <3>1 DEF TradeInv
        <3> QED
            BY <3>1, <3>2
    <2> QED
        BY <2>2, <2>3
<1>3. \A q \in Key : market'[q].initialized => WithinBounds(market'[q])
    BY <1>2
<1> QED
    BY <1>3 DEF TradeInv, WithinBounds

(* What a settlement leaves in the pool is what it checked. *)
LEMMA SettleBounds ==
    ASSUME TradeInv, MarketInv', NEW k \in Key, NEW a \in Amounts, NEW s \in Side,
           Settle(k, a, s)
    PROVE  TradeInv'
<1> DEFINE next == Pool(k)!NextReserve(a, s)
           pool == [market[k] EXCEPT !.reserve = next,
                     !.protocolFees[s] = @ + Pool(k)!ProtocolFee(a),
                     !.swapCount[s] = @ + 1]
<1>1. market' = [market EXCEPT ![k] = pool] /\ UNCHANGED strategies
    BY DEF Settle, configVars
<1>2. DOMAIN market[k] = DOMAIN NoPool
    BY DEF TradeInv, MarketInv, Shapes
<1>3. pool.reserve = next
    <2> HIDE DEF next
    <2> QED
        BY <1>2 DEF NoPool
<1>4. market[k].initialized /\ Pool(k)!OperationalBounds(next, market[k].totalShares)
    BY SMT DEF Settle, Pool!SwapAccepted
<1>5. next[0] > 0 /\ next[1] > 0 /\ next[0] * next[1] <= MaxWord
    BY <1>4, SMT DEF Pool!OperationalBounds, Pool!Fits
<1>6. next \in [Side -> Nat]
    <2>1. a \in Nat /\ WithinBounds(market[k])
        BY <1>4, ConfidentialMarketsAssumption DEF TradeInv
    <2> QED
        BY <2>1, SwapAt
<1> HIDE DEF next, pool
<1>7. WithinBounds(pool)
    <2>1. \A t \in Side : next[t] \in Nat \ {0}
        BY <1>5, <1>6 DEF Side
    <2> QED
        BY <1>3, <1>5, <1>6, <2>1 DEF WithinBounds
<1> QED
    BY <1>1, <1>7, BoundsKept

(* What an opening puts into the pool is what it checked. *)
LEMMA OpenBounds ==
    ASSUME TradeInv, MarketInv', NEW k \in Key, NEW offer \in FirstOffers,
           NEW completed, NEW exitable, Open(k, offer, completed, exitable)
    PROVE  TradeInv'
<1> DEFINE pool == [market[k] EXCEPT !.exists = TRUE, !.initialized = TRUE,
                     !.completed = completed, !.exitable = exitable,
                     !.reserve = offer, !.totalShares = Pool(k)!InitialShares(offer)]
<1>1. market' = [market EXCEPT ![k] = pool] /\ UNCHANGED strategies
    BY DEF Open, configVars
<1>2. DOMAIN market[k] = DOMAIN NoPool
    BY DEF TradeInv, MarketInv, Shapes
<1>3. pool.reserve = offer
    BY <1>2 DEF NoPool
<1>4. offer[0] > 0 /\ offer[1] > 0 /\ offer[0] * offer[1] <= MaxWord
    BY SMT DEF Open, Pool!InitialAccepted, Pool!OperationalBounds, Pool!Fits
<1> HIDE DEF pool
<1>5. offer \in [Side -> Nat \ {0}]
    <2>1. offer \in [Side -> 0 .. MaxWord]
        BY ConfidentialMarketsAssumption DEF Side
    <2>2. \A t \in Side : offer[t] \in Nat \ {0}
        BY <1>4, <2>1 DEF Side
    <2> QED
        BY <2>1, <2>2
<1>6. WithinBounds(pool)
    BY <1>3, <1>4, <1>5 DEF WithinBounds
<1> QED
    BY <1>1, <1>6, BoundsKept

(* Every step keeps the open pools within their bounds. *)
LEMMA NextTrades == TradeInv /\ [MarketsNext]_marketVars => TradeInv'
<1> SUFFICES ASSUME TradeInv, [MarketsNext]_marketVars PROVE TradeInv'
    OBVIOUS
<1>1. MarketInv'
    BY NextRecords DEF TradeInv
<1>2. ASSUME UNCHANGED market, strategies' \in Seq(Strategies) PROVE TradeInv'
    BY <1>1, <1>2 DEF TradeInv, WithinBounds
<1>3. CASE Configure
    <2>1. UNCHANGED market
        BY <1>3 DEF Configure
    <2>2. ASSUME NEW s \in Strategies, RegisterInitializationStrategy(s)
          PROVE  strategies' \in Seq(Strategies)
        BY <2>2 DEF RegisterInitializationStrategy, TradeInv
    <2>3. strategies' \in Seq(Strategies)
        BY <1>3, <2>2 DEF Configure, Bind, Finalize, SetBestExecutionRouter, TradeInv
    <2> QED
        BY <1>2, <2>1, <2>3
<1>4. ASSUME NEW t \in DOMAIN Tiers, CreatePool(t) PROVE TradeInv'
    <2> DEFINE k == [tier |-> t, class |-> Standard]
               pool == [market[k] EXCEPT !.exists = TRUE]
    <2>1. k \in Key
        BY DEF Key, Class
    <2>2. market' = [market EXCEPT ![k] = pool] /\ UNCHANGED strategies
        BY <1>4 DEF CreatePool, configVars
    <2> HIDE DEF k
    <2>3. DOMAIN market[k] = DOMAIN NoPool
        BY <2>1 DEF TradeInv, MarketInv, Shapes
    <2>4. pool.initialized = market[k].initialized /\ pool.reserve = market[k].reserve
        BY <2>3 DEF NoPool
    <2> HIDE DEF pool
    <2>5. pool.initialized => WithinBounds(pool)
        BY <2>1, <2>4 DEF TradeInv, WithinBounds
    <2> QED
        BY <1>1, <2>1, <2>2, <2>5, BoundsKept
<1>5. ASSUME NEW s \in Strategies, NEW l \in LaunchIds, NEW t \in DOMAIN Tiers,
             NEW offer \in FirstOffers, NEW permanent \in BOOLEAN,
             Migrate(s, l, t, offer, permanent)
      PROVE  TradeInv'
    <2>1. ProtectedKey(s, t) \in Key /\ Open(ProtectedKey(s, t), offer, TRUE, ~permanent)
        BY <1>5, ProtectedKeys DEF Migrate, ProtectedKey
    <2> QED
        BY <1>1, <2>1, OpenBounds
<1>6. ASSUME NEW k \in Key, NEW offer \in FirstOffers, FirstLiquidity(k, offer)
      PROVE  TradeInv'
    <2>1. Open(k, offer, market[k].completed, TRUE)
        BY <1>6 DEF FirstLiquidity
    <2> QED
        BY <1>1, <2>1, OpenBounds
<1>7. CASE Trade
    BY <1>1, <1>7, TradeSettles, SettleBounds
<1>8. ASSUME NEW k \in Key, ExitPool(k) PROVE TradeInv'
    <2> DEFINE pool == [NoPool EXCEPT !.exists = TRUE, !.completed = market[k].completed]
    <2>1. market' = [market EXCEPT ![k] = pool] /\ UNCHANGED strategies
        BY <1>8 DEF ExitPool, configVars
    <2>2. pool.initialized = FALSE
        BY DEF NoPool
    <2> HIDE DEF pool
    <2> QED
        BY <1>1, <2>1, <2>2, BoundsKept
<1>9. CASE UNCHANGED marketVars
    BY <1>2, <1>9 DEF marketVars, configVars, TradeInv
<1> QED
    BY <1>3, <1>4, <1>5, <1>6, <1>7, <1>8, <1>9 DEF MarketsNext, Start

LEMMA TradesFromTheStart == MarketsInit => TradeInv
<1>1. MarketsInit => MarketInv
    BY RecordsFromTheStart
<1>2. NoPool.initialized = FALSE
    BY DEF NoPool
<1> QED
    BY <1>1, <1>2 DEF TradeInv, MarketsInit

-----------------------------------------------------------------------------
(* The choice among the candidates. *)

(* A quote: an output and whether it is valid. *)
IsQuote(q) == q.valid \in BOOLEAN /\ q.output \in Nat

(* A candidate wins when it is usable, pays no less than any usable one,   *)
(* and more than those before it.                                          *)
FirstBest(quotes, n, j) ==
    /\ j \in 1 .. n
    /\ quotes[j].valid
    /\ \A i \in 1 .. n : quotes[i].valid =>
           IF i < j THEN quotes[i].output < quotes[j].output
                    ELSE quotes[i].output <= quotes[j].output

(* The loop of _selectBest ends with the first best of the valid quotes.   *)
LEMMA SelectionLoop ==
    ASSUME NEW N \in Nat \ {0}, NEW quotes, NEW best,
           \A i \in 1 .. N : IsQuote(quotes[i]),
           best[1] = quotes[1],
           \A n \in 2 .. N : best[n] = TakeBetter(best[n - 1], quotes[n])
    PROVE  /\ best[N].valid <=> \E i \in 1 .. N : quotes[i].valid
           /\ best[N].valid => \E j \in 1 .. N : best[N] = quotes[j] /\ FirstBest(quotes, N, j)
<1> DEFINE P(n) == \E j \in 1 .. n :
               /\ best[n] = quotes[j]
               /\ best[n].valid => FirstBest(quotes, n, j)
               /\ (\E i \in 1 .. n : quotes[i].valid) => best[n].valid
           Good == {n \in 1 .. N : P(n)}
<1>1. P(1)
    <2>1. 1 .. 1 = {1} /\ IsQuote(quotes[1])
        OBVIOUS
    <2>2. best[1].valid => FirstBest(quotes, 1, 1)
        BY <2>1 DEF FirstBest, IsQuote
    <2> QED
        BY <2>1, <2>2
<1>2. ASSUME NEW n \in 2 .. N, n - 1 \in Good
      PROVE  n \in Good
    <2>1. n \in 1 .. N /\ n - 1 \in 1 .. N /\ 1 .. n = (1 .. n - 1) \cup {n}
        OBVIOUS
    <2>2. PICK j \in 1 .. n - 1 :
              /\ best[n - 1] = quotes[j]
              /\ best[n - 1].valid => FirstBest(quotes, n - 1, j)
              /\ (\E i \in 1 .. n - 1 : quotes[i].valid) => best[n - 1].valid
        BY <1>2
    <2>3. best[n] = TakeBetter(quotes[j], quotes[n])
        BY <2>2
    <2>4. /\ \A i \in 1 .. n : IsQuote(quotes[i])
          /\ j \in 1 .. n /\ n \in 1 .. n /\ j < n /\ n \notin 1 .. n - 1
        BY <2>1
    <2>5. CASE quotes[n].valid /\ (~quotes[j].valid \/ quotes[n].output > quotes[j].output)
        <3>1. best[n] = quotes[n]
            BY <2>3, <2>5 DEF TakeBetter
        <3>2. FirstBest(quotes, n, n)
            <4> SUFFICES ASSUME NEW i \in 1 .. n, quotes[i].valid
                         PROVE  IF i < n THEN quotes[i].output < quotes[n].output
                                         ELSE quotes[i].output <= quotes[n].output
                BY <2>4, <2>5 DEF FirstBest
            <4>1. CASE i = n
                BY <2>4, <4>1 DEF IsQuote
            <4>2. CASE i # n
                <5>1. i \in 1 .. n - 1
                    BY <4>2
                <5>2. FirstBest(quotes, n - 1, j) /\ quotes[j].valid
                    BY <2>2, <5>1 DEF FirstBest
                <5>3. quotes[i].output <= quotes[j].output
                    BY <2>4, <5>1, <5>2 DEF FirstBest, IsQuote
                <5> QED
                    BY <2>4, <2>5, <5>1, <5>2, <5>3 DEF IsQuote
            <4> QED
                BY <4>1, <4>2
        <3>3. P(n)
            BY <2>4, <2>5, <3>1, <3>2
        <3> QED
            BY <2>1, <3>3
    <2>6. CASE ~(quotes[n].valid /\ (~quotes[j].valid \/ quotes[n].output > quotes[j].output))
        <3>1. best[n] = quotes[j]
            BY <2>3, <2>6 DEF TakeBetter
        <3>2. ASSUME quotes[j].valid PROVE FirstBest(quotes, n, j)
            <4>1. FirstBest(quotes, n - 1, j)
                BY <2>2, <3>2
            <4>2. quotes[n].valid => quotes[n].output <= quotes[j].output
                BY <2>4, <2>6, <3>2 DEF IsQuote
            <4> QED
                BY <2>1, <2>4, <4>1, <4>2 DEF FirstBest
        <3>3. (\E i \in 1 .. n : quotes[i].valid) => quotes[j].valid
            <4>1. ASSUME quotes[n].valid PROVE quotes[j].valid
                BY <2>4, <2>6, <4>1 DEF IsQuote
            <4> QED
                BY <2>1, <2>2, <4>1
        <3>4. P(n)
            BY <2>4, <3>1, <3>2, <3>3
        <3> QED
            BY <2>1, <3>4
    <2> QED
        BY <2>5, <2>6
<1>3. 1 \in Good
    BY <1>1
<1> HIDE DEF Good
<1>4. 1 .. N \subseteq Good
    BY <1>2, <1>3, HandedOn
<1> USE DEF Good
<1>5. P(N)
    BY <1>4
<1> QED
    BY <1>5 DEF FirstBest

OpenKeys == {k \in Key : market[k].initialized}

(* The loop over the bitmap, as ResolveCandidates writes it. *)
CandidateLoop(pools, bits) ==
    pools = [n \in 0 .. BitmapBits |->
        IF n = 0 THEN <<>>
        ELSE LET slot == SlotAt(n - 1)
             IN  IF slot \in bits /\ market[KeyAt(slot)].exists
                                 /\ market[KeyAt(slot)].initialized
                 THEN Append(pools[n - 1], KeyAt(slot)) ELSE pools[n - 1]]

(* The candidates are open pools. *)
LEMMA CandidatesOpen ==
    ASSUME TradeInv, NEW bits \in SUBSET Slots, NEW max, BitmapAccepted(bits, max)
    PROVE  ResolveCandidates(bits) \in Seq(OpenKeys)
<1> DEFINE S == Seq(OpenKeys)
           found(n) == /\ SlotAt(n - 1) \in bits
                       /\ market[KeyAt(SlotAt(n - 1))].exists
                       /\ market[KeyAt(SlotAt(n - 1))].initialized
           step(n, x) == IF found(n) THEN Append(x, KeyAt(SlotAt(n - 1))) ELSE x
           T == [p \in Nat \X S |-> step(p[1], p[2])]
<1>1. ASSUME NEW n, found(n) PROVE KeyAt(SlotAt(n - 1)) \in OpenKeys
    <2> DEFINE slot == SlotAt(n - 1)
    <2>1. slot \in Slots /\ slot[2] <= Len(strategies) /\ market[KeyAt(slot)].initialized
        BY <1>1 DEF BitmapAccepted
    <2> HIDE DEF slot
    <2>2. slot[1] \in DOMAIN Tiers /\ slot[2] \in Nat
        BY <2>1 DEF Slots
    <2>3. InitializationStrategyAt(slot[2]) \in Class
        BY <2>1, <2>2 DEF InitializationStrategyAt, Class, TradeInv
    <2>4. KeyAt(slot) \in Key
        BY <2>2, <2>3 DEF KeyAt, Key
    <2>5. KeyAt(slot) \in OpenKeys
        BY <2>1, <2>4 DEF OpenKeys
    <2> QED
        BY <2>5 DEF slot
<1>2. BitmapBits \in Nat
    <2>1. Len(Tiers) \in Nat /\ MaxClasses \in Nat
        BY ConfidentialMarketsAssumption DEF MaxClasses
    <2> QED
        BY <2>1, SMT DEF BitmapBits
<1>3. <<>> \in S
    OBVIOUS
<1>4. ASSUME NEW n \in Nat, NEW x \in S PROVE step(n, x) \in S
    <2>1. CASE found(n)
        <3>1. KeyAt(SlotAt(n - 1)) \in OpenKeys
            BY <1>1, <2>1
        <3> HIDE DEF found
        <3> QED
            BY <2>1, <3>1
    <2> HIDE DEF found
    <2> QED
        BY <1>4, <2>1
<1> HIDE DEF step
<1>5. \A n \in Nat, x \in S : T[<<n, x>>] = step(n, x) /\ T[<<n, x>>] \in S
    BY <1>4
<1> HIDE DEF T, S
<1>6. PICK f : IsRun(f, T, S, <<>>, 0, BitmapBits)
    <2>1. IsStep(T, S)
        BY <1>5 DEF IsStep
    <2>2. 0 \in Nat /\ 0 <= BitmapBits
        BY <1>2
    <2> QED
        BY <1>2, <1>3, <2>1, <2>2, LoopRuns
<1>7. f = [n \in 0 .. BitmapBits |-> IF n = 0 THEN <<>> ELSE step(n, f[n - 1])]
    <2>1. ASSUME NEW n \in 0 .. BitmapBits, n # 0
          PROVE  f[n] = step(n, f[n - 1])
        <3>1. n \in 0 + 1 .. BitmapBits /\ n \in Nat /\ n - 1 \in 0 .. BitmapBits
            BY <1>2, <2>1
        <3>2. f[n - 1] \in S
            BY <1>6, <3>1 DEF IsRun
        <3> QED
            BY <1>5, <1>6, <3>1, <3>2 DEF IsRun
    <2> QED
        BY <1>6, <2>1 DEF IsRun
<1>8. CandidateLoop(f, bits)
    BY <1>7, Zenon DEF CandidateLoop, step, found
<1> DEFINE g == CHOOSE g : CandidateLoop(g, bits)
<1>9. CandidateLoop(g, bits)
    BY <1>8, Zenon
<1>10. ResolveCandidates(bits) = g[BitmapBits]
    BY Zenon DEF ResolveCandidates, CandidateLoop
<1> HIDE DEF g
<1>11. g = [n \in 0 .. BitmapBits |-> IF n = 0 THEN <<>> ELSE step(n, g[n - 1])]
    BY <1>9, Zenon DEF CandidateLoop, step, found
<1> DEFINE Good == {n \in 0 .. BitmapBits : g[n] \in S}
<1>12. 0 \in Good
    BY <1>2, <1>3, <1>11
<1>13. ASSUME NEW n \in 0 + 1 .. BitmapBits, n - 1 \in Good PROVE n \in Good
    <2>1. n \in Nat /\ n \in 0 .. BitmapBits /\ n # 0 /\ g[n - 1] \in S
        BY <1>2, <1>13
    <2>2. g[n] = step(n, g[n - 1])
        BY <1>11, <2>1
    <2>3. g[n] \in S
        BY <1>4, <2>1, <2>2
    <2> QED
        BY <2>1, <2>3
<1> HIDE DEF Good
<1>14. 0 .. BitmapBits \subseteq Good
    BY <1>2, <1>12, <1>13, HandedOn
<1>15. BitmapBits \in Good
    BY <1>2, <1>14
<1> QED
    BY <1>10, <1>15 DEF Good, S

(* The loop over the candidates, as SelectBest writes it. *)
BestLoop(best, quotes) ==
    best = [i \in DOMAIN quotes |->
               IF i = 1 THEN quotes[1] ELSE TakeBetter(best[i - 1], quotes[i])]

LastBest(quotes, N) == (CHOOSE f : BestLoop(f, quotes))[N]

(* The loop carries the first best of the quotes seen. *)
LEMMA SelectionIsFirstBest ==
    ASSUME NEW N \in Nat \ {0}, NEW quotes, DOMAIN quotes = 1 .. N,
           \A i \in 1 .. N : IsQuote(quotes[i])
    PROVE  /\ LastBest(quotes, N).valid <=> \E i \in 1 .. N : quotes[i].valid
           /\ LastBest(quotes, N).valid => \E j \in 1 .. N :
                  LastBest(quotes, N) = quotes[j] /\ FirstBest(quotes, N, j)
<1> DEFINE S == {quotes[i] : i \in 1 .. N}
           step(i, q) == IF i \in 1 .. N THEN TakeBetter(q, quotes[i]) ELSE q
           T == [p \in Nat \X S |-> step(p[1], p[2])]
           g == CHOOSE f : BestLoop(f, quotes)
<1>1. ASSUME NEW i \in Nat, NEW q \in S PROVE step(i, q) \in S
    BY DEF TakeBetter
<1>2. quotes[1] \in S /\ 1 \in Nat /\ 1 <= N /\ N \in Nat
    OBVIOUS
<1> HIDE DEF step
<1>3. \A i \in Nat, q \in S : T[<<i, q>>] = step(i, q) /\ T[<<i, q>>] \in S
    BY <1>1
<1> HIDE DEF T, S
<1>4. PICK f : IsRun(f, T, S, quotes[1], 1, N)
    <2>1. IsStep(T, S)
        BY <1>3 DEF IsStep
    <2> QED
        BY <1>2, <2>1, LoopRuns
<1>5. f = [i \in 1 .. N |-> IF i = 1 THEN quotes[1] ELSE TakeBetter(f[i - 1], quotes[i])]
    <2>1. ASSUME NEW i \in 1 .. N, i # 1
          PROVE  f[i] = TakeBetter(f[i - 1], quotes[i])
        <3>1. i \in 1 + 1 .. N /\ i \in Nat /\ i - 1 \in 1 .. N
            BY <2>1
        <3>2. f[i - 1] \in S
            BY <1>4, <3>1 DEF IsRun
        <3>3. f[i] = step(i, f[i - 1])
            BY <1>3, <1>4, <3>1, <3>2 DEF IsRun
        <3> QED
            BY <3>3 DEF step
    <2> QED
        BY <1>4, <2>1 DEF IsRun
<1>6. BestLoop(f, quotes)
    BY <1>5, Zenon DEF BestLoop
<1>7. BestLoop(g, quotes)
    BY <1>6, Zenon
<1> HIDE DEF g
<1>8. g = [i \in 1 .. N |-> IF i = 1 THEN quotes[1] ELSE TakeBetter(g[i - 1], quotes[i])]
    BY <1>7, Zenon DEF BestLoop
<1>9. g[1] = quotes[1] /\ \A n \in 2 .. N : g[n] = TakeBetter(g[n - 1], quotes[n])
    BY <1>8
<1>10. /\ g[N].valid <=> \E i \in 1 .. N : quotes[i].valid
       /\ g[N].valid => \E j \in 1 .. N : g[N] = quotes[j] /\ FirstBest(quotes, N, j)
    BY <1>9, SelectionLoop
<1>11. LastBest(quotes, N) = g[N]
    BY Zenon DEF LastBest, g
<1> QED
    BY <1>10, <1>11

(* What the router is quoted for an open pool. *)
LEMMA QuotesAreQuotes ==
    ASSUME TradeInv, NEW k \in OpenKeys, NEW a \in Amounts, NEW s \in Side
    PROVE  /\ IsQuote(Quotes(a, s)[k])
           /\ Quotes(a, s)[k].pool = k
           /\ Quotes(a, s)[k].valid = Pool(k)!SwapAccepted(a, s)
           /\ Pool(k)!SwapAccepted(a, s) => Quotes(a, s)[k].output = Pool(k)!SwapOutput(a, s)
<1> DEFINE valid == Pool(k)!QuoteValid(a, s)
           accepted == Pool(k)!SwapAccepted(a, s)
           output == Pool(k)!QuotedOutput(a, s)
           pays == Pool(k)!SwapOutput(a, s)
<1>1. k \in Key /\ WithinBounds(market[k]) /\ a \in 0 .. MaxWord
    BY ConfidentialMarketsAssumption DEF OpenKeys, TradeInv
<1>2. /\ valid <=> accepted
      /\ accepted => output = pays /\ pays \in Nat
      /\ ~valid => output = 0
    BY <1>1, QuoteSettles
<1>3. valid \in BOOLEAN
    BY SMT DEF Pool!QuoteValid
<1>4. accepted \in BOOLEAN
    BY SMT DEF Pool!SwapAccepted
<1>5. Quotes(a, s)[k] = [pool |-> k, output |-> output, valid |-> valid]
    BY <1>1, SMT DEF Quotes
<1> HIDE DEF valid, accepted, output, pays
<1>6. output \in Nat /\ valid = accepted
    BY <1>2, <1>3, <1>4
<1> DEFINE q == Quotes(a, s)[k]
<1>7. q.pool = k /\ q.output = output /\ q.valid = valid
    BY <1>5
<1> HIDE DEF q
<1>8. IsQuote(q)
    BY <1>3, <1>6, <1>7 DEF IsQuote
<1> QED
    BY <1>2, <1>6, <1>7, <1>8 DEF q, accepted, pays

(* The quotes of the candidates, in the candidates' order. *)
CandidateQuotes(bits, a, s) ==
    [i \in DOMAIN ResolveCandidates(bits) |-> Quotes(a, s)[ResolveCandidates(bits)[i]]]

(* What SelectBest gives is the first best of the candidates' quotes. *)
LEMMA SelectedIsFirstBest ==
    ASSUME TradeInv, NEW bits \in SUBSET Slots, NEW max, BitmapAccepted(bits, max),
           NEW a \in Amounts, NEW s \in Side, ResolveCandidates(bits) # <<>>
    PROVE  /\ ResolveCandidates(bits) \in Seq(OpenKeys)
           /\ SelectBest(bits, a, s).valid <=>
                  \E i \in DOMAIN ResolveCandidates(bits) : CandidateQuotes(bits, a, s)[i].valid
           /\ SelectBest(bits, a, s).valid => \E j \in DOMAIN ResolveCandidates(bits) :
                  /\ SelectBest(bits, a, s) = CandidateQuotes(bits, a, s)[j]
                  /\ FirstBest(CandidateQuotes(bits, a, s), Len(ResolveCandidates(bits)), j)
<1> DEFINE pools == ResolveCandidates(bits)
           quotes == CandidateQuotes(bits, a, s)
           best == SelectBest(bits, a, s)
           N == Len(pools)
<1>1. DOMAIN quotes = DOMAIN pools /\ \A i \in DOMAIN pools : quotes[i] = Quotes(a, s)[pools[i]]
    BY DEF CandidateQuotes
<1>2. best = LastBest(quotes, N)
    BY <1>1, SMT DEF SelectBest, BestLoop, LastBest, CandidateQuotes
<1>3. pools \in Seq(OpenKeys)
    BY CandidatesOpen
<1> HIDE DEF pools, quotes, best
<1>4. N \in Nat \ {0} /\ DOMAIN pools = 1 .. N /\ \A i \in 1 .. N : pools[i] \in OpenKeys
    BY <1>3 DEF pools
<1>5. ASSUME NEW i \in 1 .. N PROVE IsQuote(quotes[i])
    BY <1>1, <1>4, QuotesAreQuotes
<1> HIDE DEF N
<1>6. /\ best.valid <=> \E i \in 1 .. N : quotes[i].valid
      /\ best.valid => \E j \in 1 .. N : best = quotes[j] /\ FirstBest(quotes, N, j)
    BY <1>1, <1>2, <1>4, <1>5, SelectionIsFirstBest
<1> QED
    BY <1>3, <1>4, <1>6 DEF N, pools, quotes, best

LEMMA BestRouteChosen == TradeInv => BestExecution
<1> SUFFICES ASSUME TradeInv, NEW bits \in SUBSET Slots, NEW a \in Amounts, NEW s \in Side,
                    BitmapAccepted(bits, Cardinality(Slots)),
                    ResolveCandidates(bits) # <<>>
             PROVE
        LET pools == ResolveCandidates(bits)
            Usable == {i \in DOMAIN pools : \E k \in Key :
                           k = pools[i] /\ Pool(k)!SwapAccepted(a, s)}
            pays == [k \in Key |-> Pool(k)!SwapOutput(a, s)]
            Pays(i) == pays[pools[i]]
            Wins(i) == \A j \in Usable : IF j < i THEN Pays(j) < Pays(i)
                                                  ELSE Pays(j) <= Pays(i)
            best == SelectBest(bits, a, s)
        IN  /\ best.valid <=> Usable # {}
            /\ best.valid => \E i \in Usable :
                   /\ Wins(i)
                   /\ best.pool = pools[i] /\ best.output = Pays(i)
    BY SMT DEF BestExecution
<1> DEFINE pools == ResolveCandidates(bits)
           best == SelectBest(bits, a, s)
           quotes == CandidateQuotes(bits, a, s)
           N == Len(pools)
           Usable == {i \in DOMAIN pools : \E k \in Key :
                          k = pools[i] /\ Pool(k)!SwapAccepted(a, s)}
           pays == [k \in Key |-> Pool(k)!SwapOutput(a, s)]
           Pays(i) == pays[pools[i]]
<1>1. /\ pools \in Seq(OpenKeys)
      /\ best.valid <=> \E i \in DOMAIN pools : quotes[i].valid
      /\ best.valid => \E j \in DOMAIN pools : best = quotes[j] /\ FirstBest(quotes, N, j)
    BY SelectedIsFirstBest
<1> HIDE DEF pools, best
<1>2. DOMAIN pools = 1 .. N /\ \A i \in DOMAIN pools : pools[i] \in OpenKeys /\ pools[i] \in Key
    BY <1>1 DEF OpenKeys
<1>3. ASSUME NEW i \in DOMAIN pools
      PROVE  /\ quotes[i].valid <=> i \in Usable
             /\ quotes[i].valid => quotes[i].output = Pays(i)
             /\ quotes[i].pool = pools[i]
    <2>0. PICK k \in Key : k = pools[i]
        BY <1>2
    <2>1. k \in Key /\ k \in OpenKeys /\ quotes[i] = Quotes(a, s)[k]
        BY <1>2, <2>0 DEF CandidateQuotes, pools
    <2>2. i \in Usable <=> Pool(k)!SwapAccepted(a, s)
        BY <2>0, SMT
    <2>3. Pays(i) = Pool(k)!SwapOutput(a, s)
        BY <2>0, SMT
    <2> HIDE DEF Usable, Pays
    <2>4. /\ quotes[i].pool = k
          /\ quotes[i].valid = Pool(k)!SwapAccepted(a, s)
          /\ Pool(k)!SwapAccepted(a, s) => quotes[i].output = Pool(k)!SwapOutput(a, s)
        BY <2>1, QuotesAreQuotes
    <2> QED
        BY <2>0, <2>2, <2>3, <2>4
<1>4. Usable \subseteq DOMAIN pools
    OBVIOUS
<1> HIDE DEF Usable, pays, quotes
<1>5. best.valid <=> Usable # {}
    BY <1>1, <1>3, <1>4
<1>6. ASSUME best.valid
      PROVE  \E i \in Usable :
                 /\ \A j \in Usable : IF j < i THEN Pays(j) < Pays(i) ELSE Pays(j) <= Pays(i)
                 /\ best.pool = pools[i] /\ best.output = Pays(i)
    <2>1. PICK i \in DOMAIN pools : best = quotes[i] /\ FirstBest(quotes, N, i)
        BY <1>1, <1>6
    <2>2. i \in Usable /\ best.pool = pools[i] /\ best.output = Pays(i)
        BY <1>3, <1>6, <2>1
    <2>3. ASSUME NEW j \in Usable
          PROVE  IF j < i THEN Pays(j) < Pays(i) ELSE Pays(j) <= Pays(i)
        <3>1. /\ j \in 1 .. N /\ quotes[j].valid /\ quotes[j].output = Pays(j)
              /\ quotes[i].output = Pays(i)
            BY <1>2, <1>3, <1>4, <2>2
        <3> QED
            BY <2>1, <3>1 DEF FirstBest
    <2> QED
        BY <2>2, <2>3
<1> QED
    BY <1>5, <1>6, SMT DEF Usable, pays, pools, best

-----------------------------------------------------------------------------
(* A step of the observable markets is a step of the markets. *)
LEMMA ObservedStepIsStep == [ObservableNext]_observableVars => [MarketsNext]_marketVars
<1>1. ASSUME ObservedStart PROVE MarketsNext
    BY <1>1 DEF ObservedStart, ObservedMigrate, ObservedFirstLiquidity, MarketsNext, Start
<1>2. ASSUME Unobserved PROVE MarketsNext
    BY <1>2 DEF Unobserved, MarketsNext, Start
<1>3. ASSUME NEW k \in Key, ObservedExit(k) PROVE MarketsNext
    BY <1>3 DEF ObservedExit, MarketsNext
<1>4. ASSUME UNCHANGED observableVars PROVE UNCHANGED marketVars
    BY <1>4 DEF observableVars
<1> QED
    BY <1>1, <1>2, <1>3, <1>4 DEF ObservableNext

(* The markets of observable pools implement those of confidential pools:   *)
(* naming a price reference adds a guard and a value to an opening, and    *)
(* what else the contracts do is what the copied ones do.                  *)
THEOREM ObservableMarketsAreMarkets == ObservableSpec => MarketsSpec
<1>1. ObservableInit => MarketsInit
    BY DEF ObservableInit
<1> QED
    BY <1>1, ObservedStepIsStep, PTL DEF ObservableSpec, MarketsSpec

(* LaunchRecordsAgree, for any number of strategies, launches and tiers:    *)
(* whatever exits and new seeds follow, a protected pool was filled by one *)
(* launch, which the strategy remembers for ever.  The guard that carries  *)
(* it is activeLaunchForPoolKey, not the factory's: between a full exit    *)
(* and the next seed the factory would hand the pool to a second launch.   *)
THEOREM LaunchRecordsTheorem == MarketsSpec => []LaunchRecordsAgree
<1> QED
    BY RecordsFromTheStart, NextRecords, MatchingRecordsAgree, PTL DEF MarketsSpec

(* BestExecution, for any word size, fee tiers, strategies, amounts and     *)
(* offers: in every reachable market, for every bitmap the router accepts  *)
(* and not only those a swap may use, the pool it chooses by blind quotes  *)
(* is the first of those that settle for the most, and it finds no route   *)
(* only where every candidate would reject the swap.  Two facts carry it:  *)
(* an open pool's words never wrap where its quote is valid, and the loop  *)
(* that replaces its best only by a strictly better one keeps the first.   *)
THEOREM BestExecutionTheorem == MarketsSpec => []BestExecution
<1> QED
    BY TradesFromTheStart, NextTrades, BestRouteChosen, PTL DEF MarketsSpec

(* The reference a pool names when it opens is what is left until it closes. *)
Referenced ==
    /\ reference \in [Key -> Nat]
    /\ ReferenceFollowsPool

(* An opening names the reference of the pool it opens, and of no other. *)
LEMMA NamedReference ==
    ASSUME Referenced, NEW k \in Key, NEW offer, NEW named \in Nat,
           Name(k, offer, named), market'[k].initialized = TRUE,
           \A q \in Key : q # k => market'[q] = market[q]
    PROVE  Referenced'
<1>1. named # 0 /\ reference' = [reference EXCEPT ![k] = named]
    BY DEF Name
<1>2. reference \in [Key -> Nat]
    BY DEF Referenced
<1>3. /\ reference' \in [Key -> Nat]
      /\ \A q \in Key : reference'[q] = IF q = k THEN named ELSE reference[q]
    BY <1>1, <1>2
<1>4. ASSUME NEW q \in Key PROVE market'[q].initialized <=> reference'[q] # 0
    BY <1>1, <1>3 DEF Referenced, ReferenceFollowsPool
<1> QED
    BY <1>3, <1>4 DEF Referenced, ReferenceFollowsPool

(* References follow the pools through every step. *)
LEMMA NextReferenced ==
    ASSUME MarketInv, Referenced, [ObservableNext]_observableVars
    PROVE  Referenced'
<1>1. ASSUME UNCHANGED reference,
             \A q \in Key : market'[q].initialized = market[q].initialized
      PROVE  Referenced'
    BY <1>1 DEF Referenced, ReferenceFollowsPool
<1>2. ASSUME NEW s \in Strategies, NEW l \in LaunchIds, NEW t \in DOMAIN Tiers,
             NEW offer, NEW permanent, NEW named \in References,
             ObservedMigrate(s, l, t, offer, permanent, named)
      PROVE  Referenced'
    <2> DEFINE k == ProtectedKey(s, t)
    <2>1. k \in Key /\ named \in Nat
        BY ProtectedKeys, ObservableMarketsAssumption
    <2>2. Open(k, offer, TRUE, ~permanent) /\ Name(k, offer, named)
        BY <1>2 DEF ObservedMigrate, Migrate, ProtectedKey
    <2> HIDE DEF k
    <2>3. market'[k].initialized = TRUE /\ \A q \in Key : q # k => market'[q] = market[q]
        BY <2>1, <2>2, OpenPool
    <2> QED
        BY <2>1, <2>2, <2>3, NamedReference
<1>3. ASSUME NEW k \in Key, NEW offer, NEW named \in References,
             ObservedFirstLiquidity(k, offer, named)
      PROVE  Referenced'
    <2>1. /\ Open(k, offer, market[k].completed, TRUE) /\ Name(k, offer, named)
          /\ named \in Nat
        BY <1>3, ObservableMarketsAssumption DEF ObservedFirstLiquidity, FirstLiquidity
    <2>2. market'[k].initialized = TRUE /\ \A q \in Key : q # k => market'[q] = market[q]
        BY <2>1, OpenPool
    <2> QED
        BY <2>1, <2>2, NamedReference
<1>4. CASE Unobserved
    <2>1. UNCHANGED reference
        BY <1>4 DEF Unobserved
    <2>2. CASE Configure
        BY <1>1, <2>1, <2>2 DEF Configure
    <2>3. CASE Trade
        <3>1. PICK k \in Key, a \in Amounts, s \in Side : Settle(k, a, s)
            BY <2>3, TradeSettles
        <3>2. \A q \in Key : market'[q].initialized = market[q].initialized
            BY <3>1, SettleRecords
        <3> QED
            BY <1>1, <2>1, <3>2
    <2>4. ASSUME NEW t \in DOMAIN Tiers, CreatePool(t) PROVE Referenced'
        <3>1. \A q \in Key : market'[q].initialized = market[q].initialized
            BY <2>4, CreateRecords
        <3> QED
            BY <1>1, <2>1, <3>1
    <2> QED
        BY <1>4, <2>2, <2>3, <2>4 DEF Unobserved
<1>5. ASSUME NEW k \in Key, ObservedExit(k) PROVE Referenced'
    <2> DEFINE pool == [NoPool EXCEPT !.exists = TRUE, !.completed = market[k].completed]
    <2>1. /\ market' = [market EXCEPT ![k] = pool]
          /\ reference' = [reference EXCEPT ![k] = 0]
        BY <1>5 DEF ObservedExit, ExitPool
    <2>2. pool.initialized = FALSE
        BY DEF NoPool
    <2> HIDE DEF pool
    <2>3. DOMAIN market = Key /\ reference \in [Key -> Nat]
        BY DEF MarketInv, Shapes, Referenced
    <2>4. /\ reference' \in [Key -> Nat]
          /\ \A q \in Key : reference'[q] = IF q = k THEN 0 ELSE reference[q]
          /\ \A q \in Key : market'[q] = IF q = k THEN pool ELSE market[q]
        BY <2>1, <2>3
    <2>5. ASSUME NEW q \in Key PROVE market'[q].initialized <=> reference'[q] # 0
        BY <2>2, <2>4 DEF Referenced, ReferenceFollowsPool
    <2> QED
        BY <2>4, <2>5 DEF Referenced, ReferenceFollowsPool
<1>6. CASE UNCHANGED observableVars
    BY <1>1, <1>6 DEF observableVars, marketVars
<1> QED
    BY <1>2, <1>3, <1>4, <1>5, <1>6 DEF ObservableNext, ObservedStart

(* ReferenceFollowsPool, for any number of pools and references: a pool has *)
(* a public price reference exactly while it is open.                      *)
THEOREM ReferenceTheorem == ObservableSpec => []ReferenceFollowsPool
<1>1. ObservableInit => MarketInv /\ Referenced
    <2> SUFFICES ASSUME ObservableInit PROVE MarketInv /\ Referenced
        OBVIOUS
    <2>1. MarketInv
        BY RecordsFromTheStart DEF ObservableInit
    <2>2. ASSUME NEW k \in Key PROVE market[k].initialized = FALSE /\ reference[k] = 0
        BY DEF ObservableInit, MarketsInit, NoPool
    <2> QED
        BY <2>1, <2>2 DEF Referenced, ReferenceFollowsPool, ObservableInit
<1>2. MarketInv /\ [ObservableNext]_observableVars => MarketInv'
    BY ObservedStepIsStep, NextRecords
<1>3. Referenced => ReferenceFollowsPool
    BY DEF Referenced
<1> QED
    BY <1>1, <1>2, <1>3, NextReferenced, PTL DEF ObservableSpec
=============================================================================
