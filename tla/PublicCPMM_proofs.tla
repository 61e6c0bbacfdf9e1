-------------------------- MODULE PublicCPMM_proofs --------------------------
(***************************************************************************)
(* Proofs about PublicCPMM, for every set of users, token supply, scale,   *)
(* fee tier and bound.  Inv is the inductive invariant: the typing and the *)
(* lifecycle need to know that no holder owns more than the LP supply, and *)
(* the typing of an unlock that the escrow covers the live locks.  Both    *)
(* are sums, stated with the additive measures of NumberFacts.             *)
(***************************************************************************)
EXTENDS PublicCPMM, NumberFacts

-----------------------------------------------------------------------------
(* The pool's arithmetic, for every reserve, amount, supply and fee tier. *)

(* The fee is never negative, and the protocol's part of it never exceeds  *)
(* it: what a swap leaves to the reserves is at least the net input.       *)
LEMMA FeeBounds ==
    ASSUME NEW amount \in Nat
    PROVE  /\ NetAmount(amount) \in Nat
           /\ NetAmount(amount) <= amount
           /\ ProtocolFee(amount) \in Nat
           /\ ProtocolFee(amount) <= amount - NetAmount(amount)
<1>1. FeeDenominator \in Nat \ {0} /\ FeeBps \in 0 .. FeeDenominator
      /\ FeeShareDenominator \in Nat \ {0}
    BY FeeAssumption
<1> QED
    BY <1>1, FeeSplit DEF NetAmount, ProtocolFee, ProtocolFeeFromTotal

(* A quote pays out part of the output reserve, never all of it, and the   *)
(* rounded-up rest keeps the product with the net input.                   *)
LEMMA QuoteBounds ==
    ASSUME NEW a \in Nat, NEW rIn \in Nat, NEW rOut \in Nat,
           Quotable(a, rIn, rOut)
    PROVE  /\ AmountOut(a, rIn, rOut) \in Nat \ {0}
           /\ rOut - AmountOut(a, rIn, rOut) \in Nat
           /\ (rIn + NetAmount(a)) * (rOut - AmountOut(a, rIn, rOut)) >= rIn * rOut
<1>1. NetAmount(a) \in Nat /\ rIn # 0
    BY FeeBounds DEF Quotable
<1>2. rIn + NetAmount(a) \in Nat \ {0}
    BY <1>1, SMT
<1> DEFINE kept == Retained(a, rIn, rOut)
<1>3. kept \in Nat /\ (rIn + NetAmount(a)) * kept >= rIn * rOut
    BY <1>2, MulDivUpBounds DEF Retained
<1>4. kept < rOut
    BY DEF Quotable
<1>5. AmountOut(a, rIn, rOut) = rOut - kept
    BY DEF AmountOut
<1> HIDE DEF kept
<1>6. rOut - AmountOut(a, rIn, rOut) = kept
    BY <1>3, <1>5, SMT
<1> QED
    BY <1>3, <1>4, <1>5, <1>6, SMT

(* Settling a swap never lowers the product of the reserves: this is where *)
(* the fee split and the rounding direction of the quote meet.             *)
THEOREM SwapKeepsProduct ==
    ASSUME NEW a \in Nat, NEW rIn \in Nat, NEW rOut \in Nat,
           Quotable(a, rIn, rOut)
    PROVE  /\ rIn + a - ProtocolFee(a) \in Nat
           /\ (rIn + a - ProtocolFee(a)) * (rOut - AmountOut(a, rIn, rOut))
                >= rIn * rOut
<1> DEFINE net == NetAmount(a)
           fee == ProtocolFee(a)
           left == rOut - AmountOut(a, rIn, rOut)
<1>1. net \in Nat /\ fee \in Nat /\ net <= a /\ fee <= a - net
    BY FeeBounds
<1>2. left \in Nat /\ (rIn + net) * left >= rIn * rOut
    BY QuoteBounds
<1> HIDE DEF net, fee, left
<1>3. rIn + a - fee \in Nat /\ rIn + a - fee >= rIn + net
    BY <1>1, SMT
<1>4. (rIn + a - fee) * left >= (rIn + net) * left
    BY <1>1, <1>2, <1>3, SMTT(30)
<1>5. (rIn + a - fee) * left >= rIn * rOut
    BY <1>1, <1>2, <1>3, <1>4, SMTT(30)
<1> QED
    BY <1>3, <1>5 DEF net, fee, left

(* A proportional addition charges at least its proportion ...             *)
LEMMA ChargeBounds ==
    ASSUME NEW minted \in Nat, NEW r \in Nat, NEW supply \in Nat \ {0}
    PROVE  /\ Charge(minted, r, supply) \in Nat
           /\ (r + Charge(minted, r, supply)) * supply >= r * (supply + minted)
<1> DEFINE c == Charge(minted, r, supply)
<1>1. c \in Nat /\ supply * c >= minted * r
    BY MulDivUpBounds DEF Charge
<1> HIDE DEF c
<1>2. (r + c) * supply >= r * (supply + minted)
    BY <1>1, SMTT(30)
<1> QED
    BY <1>1, <1>2 DEF c

(* ... and never more than the caller offered: the shares are rounded down *)
(* before the charge is rounded up.                                        *)
THEOREM ChargeWithinOffer ==
    ASSUME NEW offered \in Nat, NEW r \in Nat \ {0}, NEW supply \in Nat \ {0},
           NEW minted \in Nat, minted <= MulDiv(offered, supply, r)
    PROVE  Charge(minted, r, supply) <= offered
<1> DEFINE m == MulDiv(offered, supply, r)
           c == Charge(minted, r, supply)
<1>1. m \in Nat /\ r * m <= offered * supply
    BY MulDivBounds
<1>2. c \in Nat /\ supply * c < minted * r + supply
    BY MulDivUpBounds DEF Charge
<1>3. minted <= m
    OBVIOUS
<1> HIDE DEF m, c
<1>4. minted * r <= offered * supply
    BY <1>1, <1>3, SMTT(30)
<1>5. supply * c < supply * offered + supply
    BY <1>2, <1>4, SMTT(30)
<1>6. c < offered + 1
    BY <1>2, <1>5, SMTT(30)
<1> QED
    BY <1>2, <1>6, SMT DEF c

(* A removal pays at most its proportion. *)
LEMMA NominalBounds ==
    ASSUME NEW r \in Nat, NEW supply \in Nat \ {0}, NEW share \in 0 .. supply
    PROVE  /\ Nominal(share, r, supply) \in Nat
           /\ r - Nominal(share, r, supply) \in Nat
           /\ (r - Nominal(share, r, supply)) * supply >= r * (supply - share)
           /\ share = supply => Nominal(share, r, supply) = r
<1>1. CASE share = supply
    <2>1. Nominal(share, r, supply) = r
        BY <1>1 DEF Nominal
    <2> QED
        BY <1>1, <2>1, SMT
<1>2. CASE share # supply
    <2> DEFINE n == MulDiv(share, r, supply)
    <2>1. n \in Nat /\ supply * n <= share * r
        BY MulDivBounds
    <2>2. Nominal(share, r, supply) = n
        BY <1>2 DEF Nominal
    <2> HIDE DEF n
    <2>3. share \in Nat /\ share <= supply
        OBVIOUS
    <2>4. supply * n <= supply * r
        BY <2>1, <2>3, SMTT(30)
    <2>5. n <= r
        BY <2>1, <2>4, SMTT(30)
    <2>6. (r - n) * supply >= r * (supply - share)
        BY <2>1, <2>3, <2>5, SMTT(30)
    <2> QED
        BY <1>2, <2>1, <2>2, <2>5, <2>6, SMT
<1> QED
    BY <1>1, <1>2

(* The minted shares are a natural number. *)
LEMMA SharesForType ==
    ASSUME NEW a0 \in Nat, NEW a1 \in Nat, NEW r0 \in Nat \ {0},
           NEW r1 \in Nat \ {0}, NEW supply \in Nat
    PROVE  SharesFor(a0, a1, r0, r1, supply) \in Nat
BY MulDivBounds DEF SharesFor, Least

-----------------------------------------------------------------------------
(* What each lock still holds in escrow, over all lock numbers there may be. *)
LiveAmountOf(records) ==
    [i \in 1 .. MaxLocks |->
        IF i \in DOMAIN records /\ ~records[i].released
        THEN records[i].amount ELSE 0]

LiveAmount == LiveAmountOf(locks)

SharesAddUp == AddsUpTo(shares, Holders, totalSupply)

EscrowHolds ==
    /\ Len(locks) <= MaxLocks
    /\ \E held \in Nat : AddsUpTo(LiveAmount, 1 .. MaxLocks, held)
                            /\ held <= shares[Pool]

Inv ==
    /\ TypeOK
    /\ LifecycleMatchesSupply
    /\ SharesAddUp
    /\ EscrowHolds
    /\ VaultBacksItsFees

-----------------------------------------------------------------------------
(* The environment's choices and the reconciled books are natural numbers. *)

LEMMA ArrivalsBounded ==
    ASSUME NEW s \in Side, NEW amount \in Nat, NEW r \in Arrivals(s, amount)
    PROVE  r \in Nat /\ r <= amount
BY DEF Arrivals

LEMMA DepositsBounded ==
    ASSUME NEW s \in Side, NEW amount \in Nat, NEW r \in Deposits(s, amount)
    PROVE  r \in Nat /\ r <= amount
BY ArrivalsBounded DEF Deposits

LEMMA Books ==
    ASSUME TypeOK, NEW s \in Side
    PROVE  /\ ReconciledReserve(s) \in Nat
           /\ ReconciledReserve(s) <= reserve[s]
           /\ ReconciledReserve(s) <= balance[s]
           /\ ReconciledClaim(s) \in Nat
           /\ ReconciledClaim(s) <= protocolFees[s]
           /\ Surplus(s) \in Nat
           /\ balance[s] = ReconciledReserve(s) + ReconciledClaim(s) + Surplus(s)
<1>1. reserve[s] \in Nat /\ balance[s] \in Nat /\ protocolFees[s] \in Nat
    BY DEF TypeOK
<1> QED
    BY <1>1 DEF ReconciledReserve, ReconciledClaim, Surplus, Least

LEMMA Sides == Side = {0, 1} /\ Other(0) = 1 /\ Other(1) = 0
BY DEF Side, Other

-----------------------------------------------------------------------------
(* The LP token: minting, burning and moving shares keep its ledger, and   *)
(* nobody can burn or move more than there is.                             *)

LEMMA MintKeepsLedger ==
    ASSUME TypeOK, SharesAddUp, NEW h \in Holders, NEW minted \in Nat, Mint(h, minted)
    PROVE  /\ totalSupply' \in Nat /\ totalSupply' = totalSupply + minted
           /\ shares' \in [Holders -> Nat] /\ SharesAddUp'
           /\ shares'[Pool] >= shares[Pool]
<1>1. shares \in [Holders -> Nat] /\ totalSupply \in Nat
    BY DEF TypeOK
<1>2. totalSupply' = totalSupply + minted /\ shares' = [shares EXCEPT ![h] = @ + minted]
    BY DEF Mint
<1>3. AddsUpTo(shares', Holders, totalSupply')
    BY <1>1, <1>2, RaiseTotal DEF SharesAddUp
<1> QED
    BY <1>1, <1>2, <1>3 DEF SharesAddUp, Holders

LEMMA BurnKeepsLedger ==
    ASSUME TypeOK, SharesAddUp, NEW u \in Users, NEW share \in 0 .. shares[u],
           totalSupply' = totalSupply - share,
           shares' = [shares EXCEPT ![u] = @ - share]
    PROVE  /\ share <= totalSupply
           /\ totalSupply' \in Nat
           /\ shares' \in [Holders -> Nat] /\ SharesAddUp'
           /\ shares'[Pool] = shares[Pool]
<1>1. shares \in [Holders -> Nat] /\ totalSupply \in Nat /\ u \in Holders
    BY DEF TypeOK, Holders
<1>2. shares[u] \in Nat /\ shares[u] <= totalSupply
    BY <1>1, PartOfTotal DEF SharesAddUp
<1>3. totalSupply' \in Nat /\ AddsUpTo(shares', Holders, totalSupply')
    BY <1>1, LowerTotal DEF SharesAddUp
<1>4. u # Pool
    BY PublicCPMMAssumption
<1> QED
    BY <1>1, <1>2, <1>3, <1>4 DEF SharesAddUp

LEMMA MoveKeepsLedger ==
    ASSUME TypeOK, SharesAddUp, NEW from \in Holders, NEW to \in Holders,
           NEW amount \in 0 .. shares[from], MoveShares(from, to, amount),
           UNCHANGED totalSupply
    PROVE  /\ shares' \in [Holders -> Nat] /\ SharesAddUp'
           /\ \A h \in Holders : shares'[h] = shares[h]
                                    - (IF h = from THEN amount ELSE 0)
                                    + (IF h = to THEN amount ELSE 0)
<1> DEFINE less == [shares EXCEPT ![from] = @ - amount]
           more == [less EXCEPT ![to] = @ + amount]
<1>1. shares \in [Holders -> Nat] /\ totalSupply \in Nat
    BY DEF TypeOK
<1>2. /\ totalSupply - amount \in Nat
      /\ AddsUpTo(less, Holders, totalSupply - amount)
    BY <1>1, LowerTotal DEF SharesAddUp
<1>3. less \in [Holders -> Nat]
    BY <1>1
<1>4. amount \in Nat
    BY <1>1
<1>5a. AddsUpTo(more, Holders, (totalSupply - amount) + amount)
    <2> HIDE DEF less
    <2> QED
        BY <1>2, <1>3, <1>4, RaiseTotal
<1>5. (totalSupply - amount) + amount = totalSupply
    BY <1>1
<1>7. more \in [Holders -> Nat]
    BY <1>3, <1>4
<1>6. shares' = more
    <2>1. shares' = [h \in Holders |-> shares[h]
                        - (IF h = from THEN amount ELSE 0)
                        + (IF h = to THEN amount ELSE 0)]
        BY DEF MoveShares
    <2>2. ASSUME NEW h \in Holders
          PROVE  more[h] = shares[h] - (IF h = from THEN amount ELSE 0)
                                     + (IF h = to THEN amount ELSE 0)
        BY <1>1, <1>4
    <2> HIDE DEF more
    <2> QED
        BY <1>7, <2>1, <2>2
<1>8. SharesAddUp'
    BY <1>5a, <1>5, <1>6 DEF SharesAddUp
<1> QED
    BY <1>6, <1>7, <1>8 DEF MoveShares

-----------------------------------------------------------------------------
(* The invariant holds initially. *)
LEMMA InitInv == Init => Inv
<1> SUFFICES ASSUME Init PROVE Inv
    OBVIOUS
<1>1. TypeOK
    <2>1. initialized \in BOOLEAN
        BY DEF Init
    <2>2. locks \in Seq(LockRecords)
        BY DEF Init
    <2>3. /\ reserve \in [Side -> Nat] /\ protocolFees \in [Side -> Nat]
          /\ totalSupply \in Nat /\ shares \in [Holders -> Nat]
          /\ balance \in [Side -> Nat] /\ publicFees \in [Side -> Nat]
          /\ vaultBalance \in [Side -> Nat] /\ moves \in Nat
        BY DEF Init, Vault!FeeVaultInit
    <2>4. now \in Time
        BY PublicCPMMAssumption DEF Init, Time
    <2> QED
        BY <2>1, <2>2, <2>3, <2>4 DEF TypeOK
<1>2. LifecycleMatchesSupply
    BY DEF Init, LifecycleMatchesSupply
<1>3. SharesAddUp
    BY NothingHeld DEF Init, SharesAddUp
<1>4. EscrowHolds
    <2>1. LiveAmount = [i \in 1 .. MaxLocks |-> 0]
        BY DEF LiveAmount, LiveAmountOf, Init
    <2>2. AddsUpTo(LiveAmount, 1 .. MaxLocks, 0)
        BY <2>1, NothingHeld
    <2>3. Len(locks) = 0 /\ shares[Pool] = 0
        BY DEF Init, Holders
    <2> QED
        BY <2>2, <2>3, PublicCPMMAssumption DEF EscrowHolds
<1>5. VaultBacksItsFees
    BY DEF Init, VaultBacksItsFees, Vault!FeeVaultInit
<1> QED
    BY <1>1, <1>2, <1>3, <1>4, <1>5 DEF Inv

(* Steps that leave the locks alone and take nothing from the pool's own   *)
(* LP balance keep the escrow.                                             *)
LEMMA EscrowKept ==
    ASSUME Inv, UNCHANGED locks, shares'[Pool] \in Nat, shares'[Pool] >= shares[Pool]
    PROVE  EscrowHolds'
<1>1. LiveAmount' = LiveAmount /\ Len(locks') = Len(locks)
    BY DEF LiveAmount
<1>2. PICK held \in Nat : AddsUpTo(LiveAmount, 1 .. MaxLocks, held)
                             /\ held <= shares[Pool]
    BY DEF Inv, EscrowHolds
<1>3. shares[Pool] \in Nat
    BY DEF Inv, TypeOK, Holders
<1>4. held <= shares'[Pool]
    BY <1>2, <1>3
<1> QED
    BY <1>1, <1>2, <1>4 DEF Inv, EscrowHolds

-----------------------------------------------------------------------------
(* No dilution: the two shapes a step can have.                            *)

LEMMA ReservesKept ==
    ASSUME TypeOK, UNCHANGED totalSupply, reserve' \in [Side -> Nat],
           \A s \in Side : reserve'[s] >= ReconciledReserve(s)
    PROVE  NoDilution
<1>1. /\ ReconciledReserve(0) \in Nat /\ ReconciledReserve(1) \in Nat
      /\ reserve'[0] \in Nat /\ reserve'[1] \in Nat /\ totalSupply \in Nat
      /\ reserve'[0] >= ReconciledReserve(0) /\ reserve'[1] >= ReconciledReserve(1)
    BY Books, Sides DEF TypeOK
<1>2. /\ reserve'[0] * totalSupply >= ReconciledReserve(0) * totalSupply
      /\ reserve'[1] * totalSupply >= ReconciledReserve(1) * totalSupply
    <2> DEFINE p == reserve'[0]
               q == reserve'[1]
               x == ReconciledReserve(0)
               y == ReconciledReserve(1)
               t == totalSupply
    <2>1. /\ p \in Nat /\ q \in Nat /\ x \in Nat /\ y \in Nat /\ t \in Nat
          /\ p >= x /\ q >= y
        BY <1>1
    <2> HIDE DEF p, q, x, y, t
    <2>2. p * t >= x * t /\ q * t >= y * t
        BY <2>1, SMTT(30)
    <2> QED
        BY <2>2 DEF p, q, x, y, t
<1> QED
    BY <1>1, <1>2, ProportionKeepsProduct DEF NoDilution

LEMMA ProportionsKept ==
    ASSUME TypeOK, totalSupply' \in Nat, reserve' \in [Side -> Nat],
           \A s \in Side : reserve'[s] * totalSupply
                             >= ReconciledReserve(s) * totalSupply'
    PROVE  NoDilution
<1>1. /\ ReconciledReserve(0) \in Nat /\ ReconciledReserve(1) \in Nat
      /\ reserve'[0] \in Nat /\ reserve'[1] \in Nat /\ totalSupply \in Nat
    BY Books, Sides DEF TypeOK
<1>2. /\ reserve'[0] * totalSupply >= ReconciledReserve(0) * totalSupply'
      /\ reserve'[1] * totalSupply >= ReconciledReserve(1) * totalSupply'
    BY Sides
<1> QED
    BY <1>1, <1>2, ProportionKeepsProduct DEF NoDilution

-----------------------------------------------------------------------------
(* A deposit credits the vault's claim and its balance alike.              *)

DepositedFees(received) ==
    /\ publicFees' = [s \in Side |-> publicFees[s] + received[s]]
    /\ vaultBalance' = [s \in Side |-> vaultBalance[s] + received[s]]

LEMMA DepositStep ==
    ASSUME Inv, NEW received \in [Side -> Nat], DepositedFees(received)
    PROVE  /\ publicFees' \in [Side -> Nat] /\ vaultBalance' \in [Side -> Nat]
           /\ VaultBacksItsFees'
<1>1. /\ publicFees \in [Side -> Nat] /\ vaultBalance \in [Side -> Nat]
      /\ \A s \in Side : publicFees[s] <= vaultBalance[s]
    BY DEF Inv, TypeOK, VaultBacksItsFees
<1>2. publicFees' \in [Side -> Nat] /\ vaultBalance' \in [Side -> Nat]
    BY <1>1 DEF DepositedFees
<1>3. \A s \in Side : publicFees'[s] <= vaultBalance'[s]
    BY <1>1 DEF DepositedFees
<1> QED
    BY <1>2, <1>3 DEF VaultBacksItsFees

-----------------------------------------------------------------------------
(* One lemma per operation: it keeps the invariant and dilutes no share.   *)

LEMMA SwapStep ==
    ASSUME Inv, NEW s \in Side, NEW a \in Nat, NEW m, NEW d, Swap(s, a, m, d)
    PROVE  Inv' /\ NoDilution
<1> DEFINE o == Other(s)
           rIn == ReconciledReserve(s)
           rOut == ReconciledReserve(o)
<1>1. TypeOK /\ o \in Side /\ o # s /\ Side = {s, o}
    BY Sides DEF Inv
<1>2. PICK received \in Arrivals(s, a) :
        /\ initialized
        /\ Quotable(received, rIn, rOut)
        /\ protocolFees' = [x \in Side |->
               ReconciledClaim(x) + (IF x = s THEN ProtocolFee(received) ELSE 0)]
        /\ reserve' = [x \in Side |->
               IF x = s THEN rIn + received - ProtocolFee(received)
                        ELSE rOut - AmountOut(received, rIn, rOut)]
        /\ balance' = [balance EXCEPT ![s] = @ + received,
                                      ![o] = @ - AmountOut(received, rIn, rOut)]
        /\ UNCHANGED <<initialized, locks, lpVars, vaultVars, envVars>>
    BY DEF Swap
<1> DEFINE fee == ProtocolFee(received)
           out == AmountOut(received, rIn, rOut)
<1>3. received \in Nat /\ rIn \in Nat /\ rOut \in Nat /\ rOut <= balance[o]
    BY <1>1, Books, ArrivalsBounded
<1>4. /\ fee \in Nat /\ out \in Nat /\ rOut - out \in Nat
      /\ rIn + received - fee \in Nat
      /\ (rIn + received - fee) * (rOut - out) >= rIn * rOut
    BY <1>2, <1>3, FeeBounds, QuoteBounds, SwapKeepsProduct
<1>5. reserve'[s] = rIn + received - fee /\ reserve'[o] = rOut - out
    BY <1>1, <1>2
<1> HIDE DEF fee, out
<1>6. TypeOK'
    <2>1. reserve' \in [Side -> Nat]
        BY <1>1, <1>2, <1>4 DEF fee, out
    <2>2. protocolFees' \in [Side -> Nat]
        <3>1. \A x \in Side : ReconciledClaim(x) + (IF x = s THEN fee ELSE 0) \in Nat
            BY <1>1, <1>4, Books
        <3> QED
            BY <1>2, <3>1 DEF fee
    <2>3. balance' \in [Side -> Nat]
        <3>0. balance \in [Side -> Nat] /\ balance[o] \in Nat
            BY <1>1 DEF TypeOK
        <3> HIDE DEF rOut
        <3>1. balance[o] - out \in Nat
            BY <1>3, <1>4, <3>0
        <3> USE DEF rOut
        <3> QED
            BY <1>1, <1>2, <1>3, <3>0, <3>1 DEF out
    <2> QED
        BY <1>1, <1>2, <2>1, <2>2, <2>3 DEF TypeOK, lpVars, vaultVars, envVars
<1>7. LifecycleMatchesSupply'
    BY <1>2 DEF Inv, LifecycleMatchesSupply, lpVars
<1>8. SharesAddUp' /\ VaultBacksItsFees'
    BY <1>2 DEF Inv, SharesAddUp, VaultBacksItsFees, lpVars, vaultVars
<1>9. EscrowHolds'
    BY <1>1, <1>2, EscrowKept DEF lpVars, TypeOK, Holders
<1>10. NoDilution
    <2> DEFINE R0 == ReconciledReserve(0)
               R1 == ReconciledReserve(1)
               n == totalSupply
    <2>1. reserve'[0] * reserve'[1] >= R0 * R1
        <3>1. CASE s = 0
            BY <1>4, <1>5, <3>1, Sides
        <3>2. CASE s = 1
            <4>1. /\ reserve'[1] = rIn + received - fee /\ reserve'[0] = rOut - out
                  /\ rIn = R1 /\ rOut = R0
                BY <1>5, <3>2, Sides
            <4>2. reserve'[1] * reserve'[0] >= R1 * R0
                BY <1>4, <4>1
            <4>3. R0 \in Nat /\ R1 \in Nat /\ reserve'[0] \in Nat /\ reserve'[1] \in Nat
                BY <1>6, <1>3, <4>1, Sides DEF TypeOK
            <4> HIDE DEF R0, R1
            <4> QED
                BY <4>2, <4>3, SMTT(30)
        <3> QED
            BY <3>1, <3>2, Sides
    <2>2. /\ R0 \in Nat /\ R1 \in Nat /\ n \in Nat
          /\ reserve'[0] \in Nat /\ reserve'[1] \in Nat
        BY <1>1, <1>6, Books, Sides DEF TypeOK
    <2> DEFINE K == reserve'[0] * reserve'[1]
               L == R0 * R1
    <2>3. K \in Nat /\ L \in Nat /\ K >= L
        BY <2>1, <2>2, SMTT(30)
    <2> HIDE DEF R0, R1, n, K, L
    <2>4. K * (n * n) >= L * (n * n)
        BY <2>2, <2>3, SMTT(30)
    <2>5. totalSupply' = totalSupply
        BY <1>2 DEF lpVars
    <2> QED
        BY <2>4, <2>5 DEF NoDilution, R0, R1, n, K, L
<1> QED
    BY <1>6, <1>7, <1>8, <1>9, <1>10 DEF Inv

LEMMA InitializeStep ==
    ASSUME Inv, NEW h \in Holders, NEW offer \in [Side -> Nat], NEW m, NEW b, NEW d,
           InitializeLiquidity(h, offer, m, b, d)
    PROVE  Inv' /\ NoDilution
<1>1. TypeOK /\ SharesAddUp
    BY DEF Inv
<1>2. PICK swept0 \in Deposits(0, Surplus(0)), swept1 \in Deposits(1, Surplus(1)) :
        Vault!DepositPublicFees([s \in Side |-> IF s = 0 THEN swept0 ELSE swept1])
    BY DEF InitializeLiquidity
<1>3. PICK received0 \in Arrivals(0, offer[0]), received1 \in Arrivals(1, offer[1]) :
        LET received == [s \in Side |-> IF s = 0 THEN received0 ELSE received1]
            minted == InitialShares(received)
        IN  /\ minted # 0
            /\ reserve' = received
            /\ protocolFees' = [s \in Side |-> ReconciledClaim(s)]
            /\ balance' = [s \in Side |-> balance[s] - Surplus(s) + received[s]]
            /\ Mint(h, minted)
    BY DEF InitializeLiquidity
<1> DEFINE received == [s \in Side |-> IF s = 0 THEN received0 ELSE received1]
           minted == InitialShares(received)
<1>4. ~initialized /\ initialized' = TRUE /\ UNCHANGED <<locks, envVars>>
    BY DEF InitializeLiquidity
<1>5. /\ swept0 \in Nat /\ swept1 \in Nat /\ received0 \in Nat /\ received1 \in Nat
    BY <1>1, Books, DepositsBounded, ArrivalsBounded, Sides
<1>6. received \in [Side -> Nat] /\ received[0] = received0 /\ received[1] = received1
    BY <1>5, Sides
<1>7. minted \in Nat \ {0}
    <2>1. Scale[0] \in Nat /\ Scale[1] \in Nat
        BY PublicCPMMAssumption, Sides
    <2>2. received0 * Scale[0] \in Nat /\ received1 * Scale[1] \in Nat
        BY <1>5, <2>1, SMT
    <2> QED
        BY <1>3, <1>6, <2>2 DEF InitialShares, Least
<1> HIDE DEF minted
<1>8. /\ totalSupply' \in Nat /\ totalSupply' = totalSupply + minted
      /\ shares' \in [Holders -> Nat] /\ SharesAddUp'
      /\ shares'[Pool] >= shares[Pool]
    BY <1>1, <1>3, <1>7, MintKeepsLedger DEF minted
<1>9. /\ publicFees' \in [Side -> Nat] /\ vaultBalance' \in [Side -> Nat]
      /\ VaultBacksItsFees'
    <2> DEFINE swept == [s \in Side |-> IF s = 0 THEN swept0 ELSE swept1]
    <2>1. swept \in [Side -> Nat]
        BY <1>5
    <2>2. DepositedFees(swept)
        BY <1>2 DEF DepositedFees, Vault!DepositPublicFees
    <2> HIDE DEF swept
    <2> QED
        BY <2>1, <2>2, DepositStep
<1>10. balance' \in [Side -> Nat] /\ protocolFees' \in [Side -> Nat]
    <2>1. \A s \in Side : balance[s] - Surplus(s) \in Nat /\ ReconciledClaim(s) \in Nat
        <3> SUFFICES ASSUME NEW s \in Side
                     PROVE  balance[s] - Surplus(s) \in Nat /\ ReconciledClaim(s) \in Nat
            OBVIOUS
        <3>1. balance[s] \in Nat
            BY <1>1 DEF TypeOK
        <3> QED
            BY <1>1, <3>1, Books
    <2> QED
        BY <1>3, <1>6, <2>1
<1>11. TypeOK'
    BY <1>1, <1>3, <1>4, <1>6, <1>8, <1>9, <1>10 DEF TypeOK, envVars
<1>12. totalSupply = 0
    BY <1>1, <1>4 DEF Inv, LifecycleMatchesSupply, TypeOK
<1>13. LifecycleMatchesSupply' /\ NoDilution
    BY <1>4, <1>7, <1>8, <1>12 DEF LifecycleMatchesSupply, NoDilution
<1>14. EscrowHolds'
    BY <1>4, <1>8, EscrowKept DEF Holders
<1> QED
    BY <1>8, <1>9, <1>11, <1>13, <1>14 DEF Inv

LEMMA IncreaseStep ==
    ASSUME Inv, NEW h \in Holders, NEW offer \in [Side -> Nat], NEW m, NEW b, NEW d,
           IncreaseLiquidity(h, offer, m, b, d)
    PROVE  Inv' /\ NoDilution
<1> DEFINE r == [s \in Side |-> ReconciledReserve(s)]
           minted == SharesFor(offer[0], offer[1], r[0], r[1], totalSupply)
           charge == [s \in Side |-> Charge(minted, r[s], totalSupply)]
<1>1. TypeOK /\ SharesAddUp /\ totalSupply \in Nat
    BY DEF Inv, TypeOK
<1>2. /\ initialized /\ totalSupply # 0 /\ r[0] # 0 /\ r[1] # 0 /\ minted # 0
      /\ reserve' = [s \in Side |-> r[s] + charge[s]]
      /\ protocolFees' = [s \in Side |-> ReconciledClaim(s)]
      /\ balance' = [s \in Side |-> balance[s] + charge[s]]
      /\ Mint(h, minted)
      /\ UNCHANGED <<initialized, locks, vaultVars, envVars>>
    BY DEF IncreaseLiquidity
<1>3. r \in [Side -> Nat] /\ \A s \in Side : r[s] = ReconciledReserve(s)
    BY <1>1, Books
<1>4. minted \in Nat \ {0}
    BY <1>1, <1>2, <1>3, SharesForType, Sides
<1> HIDE DEF r, minted
<1>5. \A s \in Side : /\ charge[s] \in Nat
                      /\ (r[s] + charge[s]) * totalSupply
                           >= r[s] * (totalSupply + minted)
    BY <1>1, <1>2, <1>3, <1>4, ChargeBounds
<1>6. /\ totalSupply' \in Nat /\ totalSupply' = totalSupply + minted
      /\ shares' \in [Holders -> Nat] /\ SharesAddUp'
      /\ shares'[Pool] >= shares[Pool]
    BY <1>1, <1>2, <1>4, MintKeepsLedger
<1> HIDE DEF charge
<1>7. reserve' \in [Side -> Nat] /\ balance' \in [Side -> Nat]
    <2>1. balance \in [Side -> Nat]
        BY <1>1 DEF TypeOK
    <2> QED
        BY <1>2, <1>3, <1>5, <2>1
<1>8. protocolFees' \in [Side -> Nat]
    BY <1>1, <1>2, Books
<1>9. TypeOK' /\ VaultBacksItsFees'
    BY <1>1, <1>2, <1>6, <1>7, <1>8
    DEF TypeOK, Inv, VaultBacksItsFees, vaultVars, envVars
<1>10. LifecycleMatchesSupply'
    BY <1>1, <1>2, <1>4, <1>6 DEF LifecycleMatchesSupply
<1>11. EscrowHolds'
    BY <1>2, <1>6, EscrowKept DEF Holders
<1>12. NoDilution
    <2>1. \A s \in Side : reserve'[s] * totalSupply
                            >= ReconciledReserve(s) * totalSupply'
        BY <1>2, <1>3, <1>5, <1>6
    <2> QED
        BY <1>1, <1>6, <1>7, <2>1, ProportionsKept
<1> QED
    BY <1>6, <1>9, <1>10, <1>11, <1>12 DEF Inv

LEMMA RemoveStep ==
    ASSUME Inv, NEW u \in Users, NEW share \in Nat, NEW m, NEW d,
           RemoveLiquidity(u, share, m, d)
    PROVE  Inv' /\ NoDilution
<1> DEFINE r == [s \in Side |-> ReconciledReserve(s)]
           nominal == [s \in Side |-> Nominal(share, r[s], totalSupply)]
<1>1. TypeOK /\ SharesAddUp /\ totalSupply \in Nat /\ shares[u] \in Nat
    BY DEF Inv, TypeOK, Holders
<1>2. /\ share # 0 /\ totalSupply # 0 /\ share <= shares[u]
      /\ totalSupply' = totalSupply - share
      /\ shares' = [shares EXCEPT ![u] = @ - share]
      /\ reserve' = [s \in Side |-> r[s] - nominal[s]]
      /\ initialized' = (initialized /\ share # totalSupply)
      /\ protocolFees' = [s \in Side |-> ReconciledClaim(s)]
      /\ balance' = [s \in Side |-> balance[s] - nominal[s]]
      /\ UNCHANGED <<locks, vaultVars, envVars>>
    BY DEF RemoveLiquidity, RemovalAccepted, PaidOut, InitializedAfterBurn
<1>3. r \in [Side -> Nat] /\ \A s \in Side : r[s] = ReconciledReserve(s)
    BY <1>1, Books
<1>4. share \in 0 .. shares[u]
    BY <1>1, <1>2
<1>5. /\ share <= totalSupply /\ totalSupply' \in Nat
      /\ shares' \in [Holders -> Nat] /\ SharesAddUp'
      /\ shares'[Pool] = shares[Pool]
    BY <1>1, <1>2, <1>4, BurnKeepsLedger
<1> HIDE DEF r
<1>6. \A s \in Side :
        /\ nominal[s] \in Nat /\ r[s] - nominal[s] \in Nat
        /\ (r[s] - nominal[s]) * totalSupply >= r[s] * (totalSupply - share)
        /\ share = totalSupply => nominal[s] = r[s]
    <2>1. share \in 0 .. totalSupply /\ totalSupply \in Nat \ {0}
        BY <1>1, <1>2, <1>5
    <2> QED
        BY <1>3, <2>1, NominalBounds
<1> HIDE DEF nominal
<1>7. reserve' \in [Side -> Nat] /\ protocolFees' \in [Side -> Nat]
    BY <1>1, <1>2, <1>6, Books
<1>8. balance' \in [Side -> Nat]
    <2>1. ASSUME NEW s \in Side PROVE balance[s] - nominal[s] \in Nat
        <3>1. balance[s] \in Nat /\ r[s] \in Nat /\ r[s] <= balance[s]
            BY <1>1, <1>3, Books DEF TypeOK
        <3> QED
            BY <1>6, <3>1
    <2> QED
        BY <1>2, <2>1
<1>9. initialized' \in BOOLEAN
    BY <1>2
<1>10. TypeOK' /\ VaultBacksItsFees'
    BY <1>1, <1>2, <1>5, <1>7, <1>8, <1>9
    DEF TypeOK, Inv, VaultBacksItsFees, vaultVars, envVars
<1>11. LifecycleMatchesSupply'
    <2>1. initialized
        BY <1>1, <1>2 DEF Inv, LifecycleMatchesSupply
    <2>2. initialized' <=> totalSupply' > 0
        <3>1. initialized' <=> share # totalSupply
            BY <1>2, <2>1
        <3>2. share # totalSupply <=> totalSupply' > 0
            BY <1>1, <1>2, <1>5
        <3> QED
            BY <3>1, <3>2
    <2>3. ~initialized' => \A s \in Side : reserve'[s] = 0
        <3>1. ~initialized' => share = totalSupply
            BY <1>2, <2>1
        <3>2. share = totalSupply => \A s \in Side : reserve'[s] = 0
            BY <1>2, <1>3, <1>6
        <3> QED
            BY <3>1, <3>2
    <2> QED
        BY <2>2, <2>3 DEF LifecycleMatchesSupply
<1>12. EscrowHolds'
    BY <1>1, <1>2, <1>5, EscrowKept DEF TypeOK, Holders
<1>13. NoDilution
    <2>1. \A s \in Side : reserve'[s] * totalSupply
                            >= ReconciledReserve(s) * totalSupply'
        BY <1>2, <1>3, <1>6
    <2> QED
        BY <1>1, <1>5, <1>7, <2>1, ProportionsKept
<1> QED
    BY <1>5, <1>10, <1>11, <1>12, <1>13 DEF Inv

(* Collections and sweeps differ only in what they debit. *)
LEMMA VaultDepositStep ==
    ASSUME Inv, NEW debit \in [Side -> Nat], NEW received \in [Side -> Nat],
           \A s \in Side : debit[s] <= balance[s],
           DepositedFees(received),
           balance' = [s \in Side |-> balance[s] - debit[s]],
           reserve' \in [Side -> Nat], protocolFees' \in [Side -> Nat],
           \A s \in Side : /\ reserve'[s] >= ReconciledReserve(s)
                           /\ reserve'[s] <= reserve[s],
           UNCHANGED <<initialized, locks, lpVars, envVars>>
    PROVE  Inv' /\ NoDilution
<1>1. TypeOK /\ UNCHANGED totalSupply
    BY DEF Inv, lpVars
<1>2. /\ publicFees' \in [Side -> Nat] /\ vaultBalance' \in [Side -> Nat]
      /\ VaultBacksItsFees'
    BY DepositStep
<1>3. balance' \in [Side -> Nat]
    <2>1. balance \in [Side -> Nat]
        BY <1>1 DEF TypeOK
    <2> QED
        BY <2>1
<1>4. TypeOK'
    BY <1>1, <1>2, <1>3 DEF TypeOK, lpVars, envVars
<1>5. LifecycleMatchesSupply'
    BY <1>1, <1>4 DEF Inv, LifecycleMatchesSupply, TypeOK
<1>6. SharesAddUp' /\ EscrowHolds'
    BY <1>1, EscrowKept DEF Inv, SharesAddUp, lpVars, TypeOK, Holders
<1>7. NoDilution
    BY <1>1, ReservesKept
<1> QED
    BY <1>2, <1>4, <1>5, <1>6, <1>7 DEF Inv

LEMMA CollectStep ==
    ASSUME Inv, NEW sides \in SUBSET Side, CollectProtocolFees(sides)
    PROVE  Inv' /\ NoDilution
<1> DEFINE claim == [s \in Side |-> IF s \in sides THEN ReconciledClaim(s) ELSE 0]
<1>1. TypeOK
    BY DEF Inv
<1>2. claim \in [Side -> Nat] /\ \A s \in Side : claim[s] <= balance[s]
    <2>1. \A s \in Side : balance[s] \in Nat
        BY <1>1 DEF TypeOK
    <2> QED
        BY <1>1, <2>1, Books
<1>3. PICK d0 \in Deposits(0, claim[0]), d1 \in Deposits(1, claim[1]) :
        Vault!DepositPublicFees([s \in Side |-> IF s = 0 THEN d0 ELSE d1])
    BY DEF CollectProtocolFees
<1> DEFINE received == [s \in Side |-> IF s = 0 THEN d0 ELSE d1]
<1>4. received \in [Side -> Nat]
    BY <1>2, DepositsBounded, Sides
<1>5. DepositedFees(received)
    BY <1>3 DEF DepositedFees, Vault!DepositPublicFees
<1>6. /\ protocolFees' = [s \in Side |-> IF s \in sides THEN 0 ELSE protocolFees[s]]
      /\ reserve' = [s \in Side |->
             IF s \in sides THEN ReconciledReserve(s) ELSE reserve[s]]
      /\ balance' = [s \in Side |-> balance[s] - claim[s]]
      /\ UNCHANGED <<initialized, locks, lpVars, envVars>>
    BY DEF CollectProtocolFees
<1> HIDE DEF claim, received
<1>7. /\ reserve' \in [Side -> Nat] /\ protocolFees' \in [Side -> Nat]
      /\ \A s \in Side : reserve'[s] >= ReconciledReserve(s) /\ reserve'[s] <= reserve[s]
    <2>1. reserve \in [Side -> Nat] /\ protocolFees \in [Side -> Nat]
        BY <1>1 DEF TypeOK
    <2> QED
        BY <1>1, <1>6, <2>1, Books
<1> QED
    BY <1>2, <1>4, <1>5, <1>6, <1>7, VaultDepositStep

LEMMA SweepStep ==
    ASSUME Inv, NEW sides \in SUBSET Side, SweepSurplus(sides)
    PROVE  Inv' /\ NoDilution
<1> DEFINE debit == [s \in Side |-> IF s \in sides THEN Surplus(s) ELSE 0]
<1>1. TypeOK
    BY DEF Inv
<1>2. debit \in [Side -> Nat] /\ \A s \in Side : debit[s] <= balance[s]
    <2>1. \A s \in Side : balance[s] \in Nat
        BY <1>1 DEF TypeOK
    <2> QED
        BY <1>1, <2>1, Books
<1>3. PICK d0 \in Deposits(0, debit[0]), d1 \in Deposits(1, debit[1]) :
        Vault!DepositPublicFees([s \in Side |-> IF s = 0 THEN d0 ELSE d1])
    BY DEF SweepSurplus
<1> DEFINE received == [s \in Side |-> IF s = 0 THEN d0 ELSE d1]
<1>4. received \in [Side -> Nat]
    BY <1>2, DepositsBounded, Sides
<1>5. DepositedFees(received)
    BY <1>3 DEF DepositedFees, Vault!DepositPublicFees
<1>6. /\ protocolFees' = [s \in Side |->
             IF s \in sides THEN ReconciledClaim(s) ELSE protocolFees[s]]
      /\ reserve' = [s \in Side |->
             IF s \in sides THEN ReconciledReserve(s) ELSE reserve[s]]
      /\ balance' = [s \in Side |-> balance[s] - debit[s]]
      /\ UNCHANGED <<initialized, locks, lpVars, envVars>>
    BY DEF SweepSurplus
<1> HIDE DEF debit, received
<1>7. /\ reserve' \in [Side -> Nat] /\ protocolFees' \in [Side -> Nat]
      /\ \A s \in Side : reserve'[s] >= ReconciledReserve(s) /\ reserve'[s] <= reserve[s]
    <2>1. reserve \in [Side -> Nat] /\ protocolFees \in [Side -> Nat]
        BY <1>1 DEF TypeOK
    <2> QED
        BY <1>1, <1>6, <2>1, Books
<1> QED
    BY <1>2, <1>4, <1>5, <1>6, <1>7, VaultDepositStep

(* Steps of the LP token and the locks leave the pool's books alone. *)
LEMMA LedgerStep ==
    ASSUME Inv, locks' \in Seq(LockRecords), shares' \in [Holders -> Nat],
           SharesAddUp', EscrowHolds',
           UNCHANGED <<poolVars, totalSupply, balance, vaultVars, envVars>>
    PROVE  Inv' /\ NoDilution
<1>1. TypeOK'
    BY DEF Inv, TypeOK, poolVars, vaultVars, envVars
<1>2. LifecycleMatchesSupply' /\ VaultBacksItsFees'
    BY DEF Inv, LifecycleMatchesSupply, VaultBacksItsFees, poolVars, vaultVars
<1>3. NoDilution
    <2>1. \A s \in Side : reserve[s] \in Nat
        BY DEF Inv, TypeOK
    <2> QED
        BY <1>1, <2>1, Books, ReservesKept DEF Inv, TypeOK, poolVars
<1> QED
    BY <1>1, <1>2, <1>3 DEF Inv

LEMMA LiveAmountType ==
    ASSUME NEW records \in Seq(LockRecords)
    PROVE  LiveAmountOf(records) \in [1 .. MaxLocks -> Nat]
<1>1. ASSUME NEW i \in DOMAIN records
      PROVE  records[i].amount \in Nat
    <2>1. records[i] \in LockRecords
        OBVIOUS
    <2> QED
        BY <2>1 DEF LockRecords
<1> QED
    BY <1>1 DEF LiveAmountOf

LEMMA LockStep ==
    ASSUME Inv, NEW u \in Users, NEW amount \in Nat, NEW t \in Time,
           NEW permanent \in BOOLEAN, NEW d, LockShares(u, amount, t, permanent, d)
    PROVE  Inv' /\ NoDilution
<1> DEFINE record == [owner |-> u, unlockTime |-> t, permanent |-> permanent,
                      released |-> FALSE, amount |-> amount]
           n == Len(locks) + 1
<1>1. /\ TypeOK /\ SharesAddUp /\ locks \in Seq(LockRecords)
      /\ shares \in [Holders -> Nat] /\ u \in Holders /\ Pool \in Holders /\ u # Pool
    BY PublicCPMMAssumption DEF Inv, TypeOK, Holders
<1>2. /\ Len(locks) < MaxLocks /\ amount <= shares[u]
      /\ locks' = Append(locks, record)
      /\ MoveShares(u, Pool, amount)
      /\ UNCHANGED <<poolVars, totalSupply, balance, vaultVars, envVars>>
    BY DEF LockShares
<1>3. record \in LockRecords /\ record.amount = amount /\ record.released = FALSE
    BY DEF LockRecords
<1> HIDE DEF record
<1>4. /\ locks' \in Seq(LockRecords) /\ Len(locks') = n /\ n \in 1 .. MaxLocks
      /\ DOMAIN locks' = 1 .. n /\ DOMAIN locks = 1 .. Len(locks)
      /\ locks'[n] = record
      /\ \A i \in DOMAIN locks : locks'[i] = locks[i]
    BY <1>1, <1>2, <1>3, PublicCPMMAssumption
<1>5. /\ shares' \in [Holders -> Nat] /\ SharesAddUp'
      /\ shares'[Pool] = shares[Pool] + amount
    <2>1. amount \in 0 .. shares[u]
        BY <1>1, <1>2
    <2> QED
        BY <1>1, <1>2, <2>1, MoveKeepsLedger
<1>6. LiveAmount \in [1 .. MaxLocks -> Nat]
    BY <1>1, LiveAmountType DEF LiveAmount
<1>7. LiveAmount' = [LiveAmount EXCEPT ![n] = @ + amount]
    <2>1. LiveAmount[n] = 0 /\ LiveAmount'[n] = amount
        BY <1>3, <1>4 DEF LiveAmount, LiveAmountOf
    <2>2. \A i \in 1 .. MaxLocks : i # n => LiveAmount'[i] = LiveAmount[i]
        BY <1>4 DEF LiveAmount, LiveAmountOf
    <2>3. LiveAmount' \in [1 .. MaxLocks -> Nat]
        BY <1>4, LiveAmountType DEF LiveAmount
    <2> QED
        BY <1>4, <1>6, <2>1, <2>2, <2>3
<1>8. EscrowHolds'
    <2>1. PICK held \in Nat : AddsUpTo(LiveAmount, 1 .. MaxLocks, held)
                                 /\ held <= shares[Pool]
        BY DEF Inv, EscrowHolds
    <2>2. AddsUpTo(LiveAmount', 1 .. MaxLocks, held + amount)
        BY <1>4, <1>6, <1>7, <2>1, RaiseTotal
    <2>3. held + amount \in Nat /\ held + amount <= shares'[Pool]
        BY <1>1, <1>5, <2>1
    <2>4. Len(locks') <= MaxLocks
        BY <1>4
    <2> QED
        BY <2>2, <2>3, <2>4 DEF EscrowHolds
<1> QED
    BY <1>2, <1>4, <1>5, <1>8, LedgerStep

LEMMA UnlockStep ==
    ASSUME Inv, NEW i \in DOMAIN locks, UnlockShares(i)
    PROVE  Inv' /\ NoDilution
<1> DEFINE amount == locks[i].amount
           owner == locks[i].owner
<1>1. /\ TypeOK /\ SharesAddUp /\ locks \in Seq(LockRecords)
      /\ shares \in [Holders -> Nat] /\ Pool \in Holders
      /\ locks[i] \in LockRecords /\ DOMAIN locks = 1 .. Len(locks)
      /\ Len(locks) \in Nat /\ Len(locks) <= MaxLocks
    BY DEF Inv, TypeOK, Holders, EscrowHolds
<1>2. amount \in Nat /\ owner \in Holders /\ owner # Pool
    BY <1>1, PublicCPMMAssumption DEF LockRecords, Holders
<1>3. /\ ~locks[i].released
      /\ locks' = [locks EXCEPT ![i].released = TRUE]
      /\ MoveShares(Pool, owner, amount)
      /\ UNCHANGED <<poolVars, totalSupply, balance, vaultVars, envVars>>
    BY DEF UnlockShares
<1>4. /\ locks' \in Seq(LockRecords) /\ DOMAIN locks' = DOMAIN locks
      /\ Len(locks') = Len(locks)
      /\ locks'[i].released
      /\ \A k \in DOMAIN locks : k # i => locks'[k] = locks[k]
      /\ \A k \in DOMAIN locks : locks'[k].amount = locks[k].amount
    <2>1. [locks[i] EXCEPT !.released = TRUE] \in LockRecords
        BY <1>1 DEF LockRecords
    <2>2. /\ [locks[i] EXCEPT !.released = TRUE].released
          /\ [locks[i] EXCEPT !.released = TRUE].amount = locks[i].amount
        BY <1>1 DEF LockRecords
    <2>3. locks' = [locks EXCEPT ![i] = [locks[i] EXCEPT !.released = TRUE]]
        BY <1>1, <1>3
    <2> QED
        BY <1>1, <2>1, <2>2, <2>3
<1>5. LiveAmount \in [1 .. MaxLocks -> Nat] /\ i \in 1 .. MaxLocks
    BY <1>1, LiveAmountType, PublicCPMMAssumption DEF LiveAmount
<1>6. LiveAmount[i] = amount
    BY <1>1, <1>3, <1>5 DEF LiveAmount, LiveAmountOf
<1>7. PICK held \in Nat : AddsUpTo(LiveAmount, 1 .. MaxLocks, held)
                             /\ held <= shares[Pool]
    BY DEF Inv, EscrowHolds
<1>8. amount <= held
    BY <1>5, <1>6, <1>7, PartOfTotal
<1>9. amount \in 0 .. shares[Pool]
    BY <1>1, <1>2, <1>7, <1>8
<1>10. /\ shares' \in [Holders -> Nat] /\ SharesAddUp'
       /\ shares'[Pool] = shares[Pool] - amount
    BY <1>1, <1>2, <1>3, <1>9, MoveKeepsLedger
<1>11. LiveAmount' = [LiveAmount EXCEPT ![i] = @ - amount]
    <2>1. LiveAmount'[i] = 0
        BY <1>4, <1>5 DEF LiveAmount, LiveAmountOf
    <2>2. \A k \in 1 .. MaxLocks : k # i => LiveAmount'[k] = LiveAmount[k]
        BY <1>4 DEF LiveAmount, LiveAmountOf
    <2>3. LiveAmount' \in [1 .. MaxLocks -> Nat]
        BY <1>4, LiveAmountType DEF LiveAmount
    <2> QED
        BY <1>2, <1>5, <1>6, <2>1, <2>2, <2>3
<1>12. EscrowHolds'
    <2>1. amount \in 0 .. LiveAmount[i]
        BY <1>2, <1>6
    <2>2. /\ held - amount \in Nat
          /\ AddsUpTo(LiveAmount', 1 .. MaxLocks, held - amount)
        BY <1>5, <1>7, <1>11, <2>1, LowerTotal
    <2>3. held - amount <= shares'[Pool]
        BY <1>1, <1>2, <1>7, <1>10
    <2> QED
        BY <1>1, <1>4, <2>2, <2>3 DEF EscrowHolds
<1> QED
    BY <1>3, <1>4, <1>10, <1>12, LedgerStep

LEMMA TransferStep ==
    ASSUME Inv, NEW u \in Users, NEW h \in Holders, NEW amount \in Nat,
           TransferShares(u, h, amount)
    PROVE  Inv' /\ NoDilution
<1>1. /\ TypeOK /\ SharesAddUp /\ u \in Holders /\ Pool \in Holders /\ u # Pool
      /\ shares \in [Holders -> Nat] /\ locks \in Seq(LockRecords)
    BY PublicCPMMAssumption DEF Inv, TypeOK, Holders
<1>2. /\ amount <= shares[u] /\ MoveShares(u, h, amount)
      /\ UNCHANGED <<poolVars, locks, totalSupply, balance, vaultVars, envVars>>
    BY DEF TransferShares
<1>3. amount \in 0 .. shares[u]
    BY <1>1, <1>2
<1>4. /\ shares' \in [Holders -> Nat] /\ SharesAddUp'
      /\ \A k \in Holders : shares'[k] = shares[k]
                               - (IF k = u THEN amount ELSE 0)
                               + (IF k = h THEN amount ELSE 0)
    BY <1>1, <1>2, <1>3, MoveKeepsLedger
<1>5. shares'[Pool] >= shares[Pool]
    <2>1. shares'[Pool] = shares[Pool] - 0 + (IF Pool = h THEN amount ELSE 0)
        BY <1>1, <1>4
    <2>2. shares[Pool] \in Nat
        BY <1>1
    <2> QED
        BY <2>1, <2>2
<1>6. EscrowHolds'
    BY <1>1, <1>2, <1>4, <1>5, EscrowKept
<1> QED
    BY <1>1, <1>2, <1>4, <1>6, LedgerStep

(* The beneficiary's sweep, the passing of time and the tokens' own moves  *)
(* touch no share and no book of the pool.                                 *)
LEMMA EnvironmentStep ==
    ASSUME Inv,
           \/ \E s \in Side : SweepPublicToken(s)
           \/ \E s \in Side, amount \in 0 .. TokenSupply : ExternalBalanceChange(s, amount)
           \/ Tick
           \/ UNCHANGED vars
    PROVE  Inv' /\ NoDilution
<1>1. /\ TypeOK /\ VaultBacksItsFees
      /\ publicFees \in [Side -> Nat] /\ vaultBalance \in [Side -> Nat]
      /\ balance \in [Side -> Nat] /\ now \in Time /\ moves \in Nat
    BY DEF Inv, TypeOK
<1>2. UNCHANGED <<poolVars, locks, lpVars>>
    BY DEF SweepPublicToken, ExternalBalanceChange, Tick, vars
<1>3. /\ publicFees' \in [Side -> Nat] /\ vaultBalance' \in [Side -> Nat]
      /\ VaultBacksItsFees'
    <2>1. ASSUME NEW s \in Side, SweepPublicToken(s)
          PROVE  /\ publicFees' \in [Side -> Nat] /\ vaultBalance' \in [Side -> Nat]
                 /\ VaultBacksItsFees'
        <3> DEFINE amount == IF vaultBalance[s] < publicFees[s]
                             THEN vaultBalance[s] ELSE publicFees[s]
        <3>1. /\ vaultBalance' = [vaultBalance EXCEPT ![s] = @ - amount]
              /\ publicFees' = [publicFees EXCEPT ![s] = 0]
            BY <2>1 DEF SweepPublicToken, Vault!SweepPublicToken
        <3>2. amount \in Nat /\ vaultBalance[s] - amount \in Nat
            BY <1>1
        <3> QED
            BY <1>1, <3>1, <3>2 DEF VaultBacksItsFees
    <2>2. ASSUME UNCHANGED vaultVars
          PROVE  /\ publicFees' \in [Side -> Nat] /\ vaultBalance' \in [Side -> Nat]
                 /\ VaultBacksItsFees'
        BY <1>1, <2>2 DEF VaultBacksItsFees, vaultVars
    <2> QED
        BY <2>1, <2>2 DEF ExternalBalanceChange, Tick, vars
<1>4. balance' \in [Side -> Nat]
    <2>1. ASSUME NEW s \in Side, NEW amount \in 0 .. TokenSupply,
                 ExternalBalanceChange(s, amount)
          PROVE  balance' \in [Side -> Nat]
        <3>1. amount \in Nat /\ balance' = [balance EXCEPT ![s] = amount]
            BY <2>1, PublicCPMMAssumption DEF ExternalBalanceChange
        <3> QED
            BY <1>1, <3>1
    <2>2. ASSUME UNCHANGED balance PROVE balance' \in [Side -> Nat]
        BY <1>1, <2>2
    <2> QED
        BY <2>1, <2>2 DEF SweepPublicToken, Tick, vars
<1>5. now' \in Time /\ moves' \in Nat
    <2>1. ASSUME Tick PROVE now' \in Time /\ moves' \in Nat
        BY <1>1, <2>1, PublicCPMMAssumption DEF Tick, Time
    <2>2. ASSUME NEW s \in Side, NEW amount, ExternalBalanceChange(s, amount)
          PROVE  now' \in Time /\ moves' \in Nat
        BY <1>1, <2>2 DEF ExternalBalanceChange
    <2>3. ASSUME UNCHANGED envVars PROVE now' \in Time /\ moves' \in Nat
        BY <1>1, <2>3 DEF envVars
    <2> QED
        BY <2>1, <2>2, <2>3 DEF SweepPublicToken, vars
<1>6. TypeOK'
    BY <1>1, <1>2, <1>3, <1>4, <1>5 DEF TypeOK, poolVars, lpVars
<1>7. LifecycleMatchesSupply'
    BY <1>2 DEF Inv, LifecycleMatchesSupply, poolVars, lpVars
<1>8. SharesAddUp' /\ EscrowHolds'
    BY <1>2, EscrowKept DEF Inv, SharesAddUp, lpVars, TypeOK, Holders
<1>9. NoDilution
    <2>1. \A s \in Side : reserve[s] \in Nat
        BY DEF Inv, TypeOK
    <2> QED
        BY <1>1, <1>2, <1>6, <2>1, Books, ReservesKept DEF TypeOK, poolVars, lpVars
<1> QED
    BY <1>3, <1>6, <1>7, <1>8, <1>9 DEF Inv

-----------------------------------------------------------------------------
(* Every step of the pool, its users and its environment keeps the         *)
(* invariant and dilutes no share.                                         *)
LEMMA NextStep == Inv /\ [Next]_vars => Inv' /\ NoDilution
<1> SUFFICES ASSUME Inv, [Next]_vars PROVE Inv' /\ NoDilution
    OBVIOUS
<1>1. CASE Trade
    BY <1>1, SwapStep, PublicCPMMAssumption DEF Trade
<1>2. CASE Provide
    <2>1. PICK h \in Holders, offer \in [Side -> Amounts], m \in Minimums,
               b \in PriceBounds, d \in Time :
            \/ InitializeLiquidity(h, offer, m, b, d)
            \/ IncreaseLiquidity(h, offer, m, b, d)
        BY <1>2 DEF Provide
    <2>2. offer \in [Side -> Nat]
        BY PublicCPMMAssumption
    <2> QED
        BY <2>1, <2>2, InitializeStep, IncreaseStep
<1>3. CASE Withdraw
    <2>1. PICK u \in Users, m \in [Side -> Minimums], d \in Time :
               \E share \in 1 .. shares[u] : RemoveLiquidity(u, share, m, d)
        BY <1>3 DEF Withdraw
    <2>2. PICK share \in 1 .. shares[u] : RemoveLiquidity(u, share, m, d)
        BY <2>1
    <2>3. share \in Nat
        OBVIOUS
    <2> QED
        BY <2>2, <2>3, RemoveStep
<1>4. CASE Collect
    BY <1>4, CollectStep, SweepStep DEF Collect
<1>5. CASE Escrow
    <2>1. ASSUME NEW u \in Users, NEW t \in Time, NEW permanent \in BOOLEAN,
                 NEW d \in Time, NEW amount \in 1 .. shares[u],
                 LockShares(u, amount, t, permanent, d)
          PROVE  Inv' /\ NoDilution
        <3>1. amount \in Nat
            OBVIOUS
        <3> QED
            BY <2>1, <3>1, LockStep
    <2> QED
        BY <1>5, <2>1, UnlockStep DEF Escrow
<1>6. CASE Environment
    <2>1. ASSUME NEW u \in Users, NEW h \in Holders, NEW amount \in 1 .. shares[u],
                 TransferShares(u, h, amount)
          PROVE  Inv' /\ NoDilution
        <3>1. amount \in Nat
            OBVIOUS
        <3> QED
            BY <2>1, <3>1, TransferStep
    <2> QED
        BY <1>6, <2>1, EnvironmentStep DEF Environment
<1>7. CASE UNCHANGED vars
    BY <1>7, EnvironmentStep
<1> QED
    BY <1>1, <1>2, <1>3, <1>4, <1>5, <1>6, <1>7 DEF Next

LEMMA Invariance == Spec => []Inv
<1>1. Inv /\ [Next]_vars => Inv'
    BY NextStep
<1> QED
    BY InitInv, <1>1, PTL DEF Spec

-----------------------------------------------------------------------------
(* Exits *)

(* The live locks' amounts add up to at most the pool's own LP balance.    *)
LEMMA LocksBacked ==
    ASSUME Inv
    PROVE  SumFunction([i \in LiveLocks |-> locks[i].amount]) <= shares[Pool]
<1>1. /\ locks \in Seq(LockRecords) /\ Len(locks) <= MaxLocks /\ MaxLocks \in Nat
    BY PublicCPMMAssumption DEF Inv, TypeOK, EscrowHolds
<1>2. PICK held \in Nat : /\ AddsUpTo(LiveAmount, 1 .. MaxLocks, held)
                          /\ held <= shares[Pool]
    BY DEF Inv, EscrowHolds
<1>3. IsFiniteSet(1 .. MaxLocks)
    <2>1. 1 \in Int /\ MaxLocks \in Int
        BY <1>1
    <2> QED
        BY <2>1, FS_Interval
<1>4. LiveAmount \in [1 .. MaxLocks -> Nat]
    BY <1>1, LiveAmountType DEF LiveAmount
<1>5. LiveLocks \in SUBSET (1 .. MaxLocks) /\ IsFiniteSet(LiveLocks)
    <2>1. LiveLocks \in SUBSET (1 .. MaxLocks)
        BY <1>1 DEF LiveLocks
    <2> QED
        BY <1>3, <2>1, FS_Subset
<1>6. \A i \in (1 .. MaxLocks) \ LiveLocks : LiveAmount[i] = 0
    BY DEF LiveAmount, LiveAmountOf, LiveLocks
<1>7. AddsUpTo([i \in LiveLocks |-> LiveAmount[i]], LiveLocks, held)
    BY <1>2, <1>3, <1>4, <1>5, <1>6, TotalOfPart
<1>8. [i \in LiveLocks |-> LiveAmount[i]] = [i \in LiveLocks |-> locks[i].amount]
    BY <1>5 DEF LiveAmount, LiveAmountOf, LiveLocks
<1>9. [i \in LiveLocks |-> LiveAmount[i]] \in [LiveLocks -> Nat]
    BY <1>4, <1>5
<1>10. SumFunction([i \in LiveLocks |-> LiveAmount[i]]) = held
    BY <1>5, <1>7, <1>9, TotalIsSum
<1> QED
    BY <1>2, <1>8, <1>10

(* A holder's removal of everything it has is accepted: the reconciled     *)
(* books are always covered by the balance, and a part of them is paid.    *)
LEMMA ExitFollows == Inv => HoldersCanExit
<1> SUFFICES ASSUME Inv, NEW u \in Users, shares[u] > 0
             PROVE  RemovalAccepted(u, shares[u], [s \in Side |-> 0], MaxTime)
    BY LocksBacked DEF HoldersCanExit
<1> DEFINE share == shares[u]
<1>1. TypeOK /\ SharesAddUp /\ totalSupply \in Nat /\ share \in Nat \ {0}
    BY DEF Inv, TypeOK, Holders
<1>2. share <= totalSupply
    <2>1. shares \in [Holders -> Nat] /\ u \in Holders
        BY <1>1 DEF TypeOK, Holders
    <2> QED
        BY <1>1, <2>1, PartOfTotal DEF SharesAddUp
<1>3. MaxTime >= now
    BY <1>1, PublicCPMMAssumption DEF TypeOK, Time
<1>4. ASSUME NEW s \in Side
      PROVE  /\ PaidOut(share, s) \in Nat /\ PaidOut(share, s) >= 0
             /\ \E amount \in Arrivals(s, PaidOut(share, s)) : amount >= 0
             /\ PaidOut(share, s) <= ReconciledReserve(s)
             /\ PaidOut(share, s) <= balance[s]
             /\ Backed(balance[s] - PaidOut(share, s),
                       ReconciledReserve(s) - PaidOut(share, s), ReconciledClaim(s))
    <2> DEFINE r == ReconciledReserve(s)
               c == ReconciledClaim(s)
               p == PaidOut(share, s)
    <2>1. /\ r \in Nat /\ c \in Nat /\ Surplus(s) \in Nat /\ balance[s] \in Nat
          /\ balance[s] = r + c + Surplus(s)
        BY <1>1, Books DEF TypeOK
    <2>2. totalSupply \in Nat \ {0} /\ share \in 0 .. totalSupply
        BY <1>1, <1>2
    <2>3. p \in Nat /\ r - p \in Nat
        BY <2>1, <2>2, NominalBounds DEF PaidOut
    <2>4. p \in Arrivals(s, p)
        BY <2>3 DEF Arrivals
    <2> HIDE DEF r, c, p
    <2>5. p >= 0 /\ p <= r /\ p <= balance[s] /\ Backed(balance[s] - p, r - p, c)
        BY <2>1, <2>3 DEF Backed
    <2> QED
        BY <2>3, <2>4, <2>5 DEF r, c, p
<1> QED
    BY <1>1, <1>2, <1>3, <1>4 DEF RemovalAccepted, RequireBeforeDeadline

-----------------------------------------------------------------------------
(* The books follow the balances: per side, what a step does to the        *)
(* unaccounted balance and to the reserves.                                *)

KeptOn(s) ==
    /\ Unaccounted(s)' < Unaccounted(s)
           => \/ publicFees'[s] > publicFees[s]
              \/ UNCHANGED <<poolVars, lpVars, vaultVars>>
    /\ balance'[s] = balance[s] /\ reserve'[s] < reserve[s] => protocolFees'[s] = 0

BooksKept == \A s \in Side : KeptOn(s)

(* What the reconciled books leave over is what was unaccounted, and       *)
(* reserves are only written down once the claim is gone.                  *)
LEMMA Reconciled ==
    ASSUME TypeOK, NEW s \in Side
    PROVE  /\ Unaccounted(s) = Surplus(s)
           /\ ReconciledReserve(s) < reserve[s] => ReconciledClaim(s) = 0
<1>1. reserve[s] \in Nat /\ balance[s] \in Nat /\ protocolFees[s] \in Nat
    BY DEF TypeOK
<1> QED
    BY <1>1 DEF ReconciledReserve, ReconciledClaim, Surplus, Least, Unaccounted

(* A side whose books were reconciled and then moved with its balance, or  *)
(* whose surplus reached the vault.                                        *)
LEMMA SideFollows ==
    ASSUME TypeOK, TypeOK', NEW s \in Side,
           \/ balance'[s] - reserve'[s] - protocolFees'[s] >= Surplus(s)
           \/ Surplus(s) = 0 \/ publicFees'[s] > publicFees[s],
           \/ balance'[s] # balance[s]
           \/ protocolFees'[s] = 0
           \/ reserve'[s] >= ReconciledReserve(s) /\ protocolFees'[s] = ReconciledClaim(s)
           \/ reserve'[s] >= reserve[s]
    PROVE  KeptOn(s)
<1>1. /\ reserve[s] \in Nat /\ balance[s] \in Nat /\ protocolFees[s] \in Nat
      /\ reserve'[s] \in Nat /\ balance'[s] \in Nat /\ protocolFees'[s] \in Nat
    BY DEF TypeOK
<1>2. Unaccounted(s) = Surplus(s) /\ Surplus(s) \in Nat /\ ReconciledReserve(s) \in Nat
    BY Reconciled, Books
<1>3. /\ Unaccounted(s)' \in Nat
      /\ Unaccounted(s)' >= balance'[s] - reserve'[s] - protocolFees'[s]
    BY <1>1 DEF Unaccounted
<1>4. Unaccounted(s)' < Unaccounted(s) => publicFees'[s] > publicFees[s]
    BY <1>1, <1>2, <1>3
<1>5. balance'[s] = balance[s] /\ reserve'[s] < reserve[s] => protocolFees'[s] = 0
    BY <1>1, <1>2, Reconciled
<1> QED
    BY <1>4, <1>5 DEF KeptOn

(* A step that leaves a side's books and balance alone. *)
LEMMA SideUntouched ==
    ASSUME TypeOK, NEW s \in Side, reserve'[s] = reserve[s],
           protocolFees'[s] = protocolFees[s], balance'[s] = balance[s]
    PROVE  KeptOn(s)
<1>1. reserve[s] \in Nat /\ balance[s] \in Nat /\ protocolFees[s] \in Nat
    BY DEF TypeOK
<1>2. Unaccounted(s)' = Unaccounted(s) /\ Unaccounted(s) \in Nat
    BY <1>1 DEF Unaccounted
<1> QED
    BY <1>1, <1>2 DEF KeptOn

LEMMA SwapFollows ==
    ASSUME Inv, Inv', NEW s \in Side, NEW a \in Nat, NEW m, NEW d, Swap(s, a, m, d)
    PROVE  BooksKept
<1> DEFINE o == Other(s)
           rIn == ReconciledReserve(s)
           rOut == ReconciledReserve(o)
<1>1. TypeOK /\ TypeOK' /\ o \in Side /\ o # s /\ Side = {s, o}
    BY Sides DEF Inv
<1>2. PICK received \in Arrivals(s, a) :
        /\ received # 0
        /\ Quotable(received, rIn, rOut)
        /\ protocolFees' = [x \in Side |->
               ReconciledClaim(x) + (IF x = s THEN ProtocolFee(received) ELSE 0)]
        /\ reserve' = [x \in Side |->
               IF x = s THEN rIn + received - ProtocolFee(received)
                        ELSE rOut - AmountOut(received, rIn, rOut)]
        /\ balance' = [balance EXCEPT ![s] = @ + received,
                                      ![o] = @ - AmountOut(received, rIn, rOut)]
    BY DEF Swap
<1> DEFINE fee == ProtocolFee(received)
           out == AmountOut(received, rIn, rOut)
<1>3. /\ received \in Nat \ {0} /\ rIn \in Nat /\ rOut \in Nat
      /\ balance \in [Side -> Nat]
    BY <1>1, <1>2, Books, ArrivalsBounded DEF TypeOK
<1>4. fee \in Nat /\ out \in Nat \ {0}
    BY <1>2, <1>3, FeeBounds, QuoteBounds
<1> HIDE DEF fee, out
<1>5. /\ reserve'[s] = rIn + received - fee /\ reserve'[o] = rOut - out
      /\ protocolFees'[s] = ReconciledClaim(s) + fee
      /\ protocolFees'[o] = ReconciledClaim(o) + 0
      /\ balance'[s] = balance[s] + received /\ balance'[o] = balance[o] - out
    BY <1>1, <1>2, <1>3 DEF fee, out
<1>6. /\ balance[s] = rIn + ReconciledClaim(s) + Surplus(s)
      /\ balance[o] = rOut + ReconciledClaim(o) + Surplus(o)
      /\ ReconciledClaim(s) \in Nat /\ ReconciledClaim(o) \in Nat
      /\ Surplus(s) \in Nat /\ Surplus(o) \in Nat
    BY <1>1, Books
<1> HIDE DEF rIn, rOut
<1>7. /\ balance'[s] - reserve'[s] - protocolFees'[s] >= Surplus(s)
      /\ balance'[o] - reserve'[o] - protocolFees'[o] >= Surplus(o)
      /\ balance'[s] # balance[s] /\ balance'[o] # balance[o]
    BY <1>3, <1>4, <1>5, <1>6
<1>8. KeptOn(s) /\ KeptOn(o)
    BY <1>1, <1>7, SideFollows
<1> QED
    BY <1>1, <1>8 DEF BooksKept

LEMMA InitializeFollows ==
    ASSUME Inv, Inv', NEW h \in Holders, NEW offer \in [Side -> Nat], NEW m, NEW b, NEW d,
           InitializeLiquidity(h, offer, m, b, d)
    PROVE  BooksKept
<1>1. TypeOK /\ TypeOK' /\ \A s \in Side : ReconciledReserve(s) = 0
    BY DEF Inv, InitializeLiquidity
<1>2. PICK swept0 \in Deposits(0, Surplus(0)), swept1 \in Deposits(1, Surplus(1)) :
        Vault!DepositPublicFees([s \in Side |-> IF s = 0 THEN swept0 ELSE swept1])
    BY DEF InitializeLiquidity
<1>3. protocolFees' = [s \in Side |-> ReconciledClaim(s)]
    BY DEF InitializeLiquidity
<1> DEFINE swept == [s \in Side |-> IF s = 0 THEN swept0 ELSE swept1]
<1>4. ASSUME NEW s \in Side PROVE KeptOn(s)
    <2>1. /\ reserve'[s] \in Nat /\ Surplus(s) \in Nat /\ publicFees[s] \in Nat
          /\ Surplus(0) \in Nat /\ Surplus(1) \in Nat
        BY <1>1, Books, Sides DEF TypeOK
    <2>2. publicFees'[s] = publicFees[s] + swept[s]
        BY <1>2 DEF Vault!DepositPublicFees
    <2>3. swept[s] \in Nat /\ (Surplus(s) # 0 => swept[s] # 0)
        BY <2>1, <1>2, DepositsBounded, Sides DEF Deposits
    <2>4. Surplus(s) = 0 \/ publicFees'[s] > publicFees[s]
        BY <2>1, <2>2, <2>3
    <2>5. reserve'[s] >= ReconciledReserve(s) /\ protocolFees'[s] = ReconciledClaim(s)
        BY <1>1, <1>3, <2>1
    <2> QED
        BY <1>1, <2>4, <2>5, SideFollows
<1> QED
    BY <1>4 DEF BooksKept

LEMMA IncreaseFollows ==
    ASSUME Inv, Inv', NEW h \in Holders, NEW offer \in [Side -> Nat], NEW m, NEW b, NEW d,
           IncreaseLiquidity(h, offer, m, b, d)
    PROVE  BooksKept
<1> DEFINE r == [s \in Side |-> ReconciledReserve(s)]
           minted == SharesFor(offer[0], offer[1], r[0], r[1], totalSupply)
           charge == [s \in Side |-> Charge(minted, r[s], totalSupply)]
<1>1. TypeOK /\ TypeOK' /\ totalSupply \in Nat
    BY DEF Inv, TypeOK
<1>2. /\ totalSupply # 0 /\ r[0] # 0 /\ r[1] # 0 /\ minted # 0
      /\ reserve' = [s \in Side |-> r[s] + charge[s]]
      /\ protocolFees' = [s \in Side |-> ReconciledClaim(s)]
      /\ balance' = [s \in Side |-> balance[s] + charge[s]]
    BY DEF IncreaseLiquidity
<1>3. r \in [Side -> Nat] /\ \A s \in Side : r[s] = ReconciledReserve(s)
    BY <1>1, Books
<1>4. minted \in Nat \ {0}
    BY <1>1, <1>2, <1>3, SharesForType, Sides
<1> HIDE DEF r, minted
<1>5. \A s \in Side : charge[s] \in Nat
    BY <1>1, <1>2, <1>3, <1>4, ChargeBounds
<1> HIDE DEF charge
<1>6. ASSUME NEW s \in Side PROVE KeptOn(s)
    <2>1. /\ balance[s] = ReconciledReserve(s) + ReconciledClaim(s) + Surplus(s)
          /\ ReconciledReserve(s) \in Nat /\ ReconciledClaim(s) \in Nat
          /\ Surplus(s) \in Nat /\ charge[s] \in Nat
        BY <1>1, <1>5, Books
    <2>2. /\ reserve'[s] = ReconciledReserve(s) + charge[s]
          /\ protocolFees'[s] = ReconciledClaim(s)
          /\ balance'[s] = balance[s] + charge[s]
        BY <1>2, <1>3
    <2>3. /\ balance'[s] - reserve'[s] - protocolFees'[s] >= Surplus(s)
          /\ reserve'[s] >= ReconciledReserve(s)
        BY <2>1, <2>2
    <2> QED
        BY <1>1, <2>2, <2>3, SideFollows
<1> QED
    BY <1>6 DEF BooksKept

LEMMA RemoveFollows ==
    ASSUME Inv, Inv', NEW u \in Users, NEW share \in Nat, NEW m, NEW d,
           RemoveLiquidity(u, share, m, d)
    PROVE  BooksKept
<1>1. TypeOK /\ TypeOK'
    BY DEF Inv
<1>2. ASSUME NEW s \in Side PROVE KeptOn(s)
    <2> DEFINE p == PaidOut(share, s)
    <2>1. /\ balance[s] = ReconciledReserve(s) + ReconciledClaim(s) + Surplus(s)
          /\ ReconciledReserve(s) \in Nat /\ ReconciledClaim(s) \in Nat
          /\ Surplus(s) \in Nat /\ reserve'[s] \in Nat
        BY <1>1, Books DEF TypeOK
    <2>2. /\ reserve'[s] = ReconciledReserve(s) - p
          /\ protocolFees'[s] = ReconciledClaim(s)
          /\ balance'[s] = balance[s] - p
        BY DEF RemoveLiquidity
    <2>3. p \in Int
        <3>1. share \in 0 .. totalSupply /\ totalSupply \in Nat \ {0}
            <4>1. /\ share # 0 /\ totalSupply # 0 /\ share <= shares[u]
                BY DEF RemoveLiquidity, RemovalAccepted
            <4>2. shares \in [Holders -> Nat] /\ u \in Holders /\ totalSupply \in Nat
                BY <1>1 DEF TypeOK, Holders
            <4>3. shares[u] <= totalSupply
                BY <4>2, PartOfTotal DEF Inv, SharesAddUp
            <4> QED
                BY <4>1, <4>2, <4>3
        <3> QED
            BY <2>1, <3>1, NominalBounds DEF PaidOut
    <2> HIDE DEF p
    <2>4. /\ balance'[s] - reserve'[s] - protocolFees'[s] >= Surplus(s)
          /\ balance'[s] = balance[s] => reserve'[s] >= ReconciledReserve(s)
        BY <2>1, <2>2, <2>3
    <2> QED
        BY <1>1, <2>2, <2>4, SideFollows
<1> QED
    BY <1>2 DEF BooksKept

LEMMA CollectFollows ==
    ASSUME Inv, Inv', NEW sides \in SUBSET Side, CollectProtocolFees(sides)
    PROVE  BooksKept
<1> DEFINE claim == [s \in Side |-> IF s \in sides THEN ReconciledClaim(s) ELSE 0]
<1>1. TypeOK /\ TypeOK'
    BY DEF Inv
<1>2. /\ protocolFees' = [s \in Side |-> IF s \in sides THEN 0 ELSE protocolFees[s]]
      /\ reserve' = [s \in Side |->
             IF s \in sides THEN ReconciledReserve(s) ELSE reserve[s]]
      /\ balance' = [s \in Side |-> balance[s] - claim[s]]
    BY DEF CollectProtocolFees
<1>3. ASSUME NEW s \in Side PROVE KeptOn(s)
    <2>1. /\ balance[s] = ReconciledReserve(s) + ReconciledClaim(s) + Surplus(s)
          /\ ReconciledReserve(s) \in Nat /\ ReconciledClaim(s) \in Nat
          /\ Surplus(s) \in Nat /\ balance[s] \in Nat
        BY <1>1, Books DEF TypeOK
    <2>2. CASE s \in sides
        <3>1. /\ protocolFees'[s] = 0 /\ reserve'[s] = ReconciledReserve(s)
              /\ balance'[s] = balance[s] - ReconciledClaim(s)
            BY <1>2, <2>2
        <3>2. balance'[s] - reserve'[s] - protocolFees'[s] >= Surplus(s)
            BY <2>1, <3>1
        <3> QED
            BY <1>1, <3>1, <3>2, SideFollows
    <2>3. CASE s \notin sides
        <3>1. /\ protocolFees'[s] = protocolFees[s] /\ reserve'[s] = reserve[s]
              /\ balance'[s] = balance[s]
            BY <1>2, <2>1, <2>3
        <3> QED
            BY <1>1, <3>1, SideUntouched
    <2> QED
        BY <2>2, <2>3
<1> QED
    BY <1>3 DEF BooksKept

LEMMA SweepFollows ==
    ASSUME Inv, Inv', NEW sides \in SUBSET Side, SweepSurplus(sides)
    PROVE  BooksKept
<1> DEFINE debit == [s \in Side |-> IF s \in sides THEN Surplus(s) ELSE 0]
<1>1. TypeOK /\ TypeOK'
    BY DEF Inv
<1>2. PICK d0 \in Deposits(0, debit[0]), d1 \in Deposits(1, debit[1]) :
        Vault!DepositPublicFees([s \in Side |-> IF s = 0 THEN d0 ELSE d1])
    BY DEF SweepSurplus
<1> DEFINE received == [s \in Side |-> IF s = 0 THEN d0 ELSE d1]
<1>3. /\ protocolFees' = [s \in Side |->
             IF s \in sides THEN ReconciledClaim(s) ELSE protocolFees[s]]
      /\ reserve' = [s \in Side |->
             IF s \in sides THEN ReconciledReserve(s) ELSE reserve[s]]
      /\ balance' = [s \in Side |-> balance[s] - debit[s]]
    BY DEF SweepSurplus
<1>4. ASSUME NEW s \in Side PROVE KeptOn(s)
    <2>1. /\ ReconciledReserve(s) \in Nat /\ Surplus(s) \in Nat
          /\ publicFees[s] \in Nat /\ balance[s] \in Nat
          /\ debit[0] \in Nat /\ debit[1] \in Nat
        BY <1>1, Books, Sides DEF TypeOK
    <2>2. CASE s \in sides
        <3>1. publicFees'[s] = publicFees[s] + received[s]
            BY <1>2 DEF Vault!DepositPublicFees
        <3>2. received[s] \in Nat /\ (debit[s] # 0 => received[s] # 0)
            BY <1>2, <2>1, DepositsBounded, Sides DEF Deposits
        <3>3. Surplus(s) = 0 \/ publicFees'[s] > publicFees[s]
            BY <2>1, <2>2, <3>1, <3>2
        <3>4. /\ reserve'[s] = ReconciledReserve(s)
              /\ protocolFees'[s] = ReconciledClaim(s)
            BY <1>3, <2>2
        <3>5. reserve'[s] >= ReconciledReserve(s)
            BY <2>1, <3>4
        <3> QED
            BY <1>1, <3>3, <3>4, <3>5, SideFollows
    <2>3. CASE s \notin sides
        <3>1. /\ protocolFees'[s] = protocolFees[s] /\ reserve'[s] = reserve[s]
              /\ balance'[s] = balance[s]
            BY <1>3, <2>1, <2>3
        <3> QED
            BY <1>1, <3>1, SideUntouched
    <2> QED
        BY <2>2, <2>3
<1> QED
    BY <1>4 DEF BooksKept

(* A balance changed behind the pool's back changes nothing else.          *)
LEMMA OutsideFollows ==
    ASSUME Inv, NEW s \in Side, NEW amount, ExternalBalanceChange(s, amount)
    PROVE  BooksKept
<1>1. UNCHANGED <<poolVars, lpVars, vaultVars>> /\ UNCHANGED reserve
    BY DEF ExternalBalanceChange, poolVars
<1>2. \A x \in Side : reserve[x] \in Nat
    BY DEF Inv, TypeOK
<1> QED
    BY <1>1, <1>2 DEF BooksKept, KeptOn

LEMMA FollowsStep == Inv /\ Inv' /\ [Next]_vars => BooksKept
<1> SUFFICES ASSUME Inv, Inv', [Next]_vars PROVE BooksKept
    OBVIOUS
<1>0. ASSUME UNCHANGED <<reserve, protocolFees, balance>> PROVE BooksKept
    BY <1>0, SideUntouched DEF BooksKept, Inv
<1>1. CASE Trade
    BY <1>1, SwapFollows, PublicCPMMAssumption DEF Trade
<1>2. CASE Provide
    <2>1. PICK h \in Holders, offer \in [Side -> Amounts], m \in Minimums,
               b \in PriceBounds, d \in Time :
            \/ InitializeLiquidity(h, offer, m, b, d)
            \/ IncreaseLiquidity(h, offer, m, b, d)
        BY <1>2 DEF Provide
    <2>2. offer \in [Side -> Nat]
        BY PublicCPMMAssumption
    <2> QED
        BY <2>1, <2>2, InitializeFollows, IncreaseFollows
<1>3. CASE Withdraw
    <2>1. PICK u \in Users, m \in [Side -> Minimums], d \in Time :
               \E share \in 1 .. shares[u] : RemoveLiquidity(u, share, m, d)
        BY <1>3 DEF Withdraw
    <2>2. PICK share \in 1 .. shares[u] : RemoveLiquidity(u, share, m, d)
        BY <2>1
    <2>3. share \in Nat
        OBVIOUS
    <2> QED
        BY <2>2, <2>3, RemoveFollows
<1>4. CASE Collect
    BY <1>4, CollectFollows, SweepFollows DEF Collect
<1>5. CASE Escrow
    BY <1>0, <1>5 DEF Escrow, LockShares, UnlockShares, poolVars
<1>6. CASE Environment
    BY <1>0, <1>6, OutsideFollows
    DEF Environment, TransferShares, SweepPublicToken, Tick, poolVars
<1>7. CASE UNCHANGED vars
    BY <1>0, <1>7 DEF vars, poolVars
<1> QED
    BY <1>1, <1>2, <1>3, <1>4, <1>5, <1>6, <1>7 DEF Next

-----------------------------------------------------------------------------

(* Type correctness: no balance, reserve, claim or share count of the pool *)
(* is ever driven below zero by any sequence of calls, taxes and losses.   *)
THEOREM TypeCorrect == Spec => []TypeOK
<1>1. Inv => TypeOK
    BY DEF Inv
<1> QED
    BY <1>1, Invariance, PTL

(* The pool's lifecycle flag and the LP token's supply agree in every      *)
(* reachable state.                                                        *)
THEOREM LifecycleInvariant == Spec => []LifecycleMatchesSupply
<1>1. Inv => LifecycleMatchesSupply
    BY DEF Inv
<1> QED
    BY <1>1, Invariance, PTL

(* The vault holds what it owes the beneficiary.                           *)
THEOREM VaultInvariant == Spec => []VaultBacksItsFees
<1>1. Inv => VaultBacksItsFees
    BY DEF Inv
<1> QED
    BY <1>1, Invariance, PTL

(* Every holder can leave, whatever was lost or taxed, and every lock not  *)
(* yet released can be honoured from the escrow balance.                   *)
THEOREM ExitInvariant == Spec => []HoldersCanExit
BY ExitFollows, Invariance, PTL

(* The payment of each lock alone is covered too.                          *)
THEOREM LocksRedeemable ==
    Spec => [](\A i \in LiveLocks : locks[i].amount <= shares[Pool])
<1>1. Inv => \A i \in LiveLocks : locks[i].amount <= shares[Pool]
    <2> SUFFICES ASSUME Inv, NEW i \in LiveLocks
                 PROVE  locks[i].amount <= shares[Pool]
        OBVIOUS
    <2>1. /\ locks \in Seq(LockRecords) /\ Len(locks) <= MaxLocks
          /\ shares[Pool] \in Nat
        BY DEF Inv, TypeOK, EscrowHolds, Holders
    <2>2. i \in 1 .. MaxLocks /\ i \in DOMAIN locks /\ ~locks[i].released
        BY <2>1, PublicCPMMAssumption DEF LiveLocks
    <2>3. LiveAmount[i] = locks[i].amount
        BY <2>2 DEF LiveAmount, LiveAmountOf
    <2>4. PICK held \in Nat : AddsUpTo(LiveAmount, 1 .. MaxLocks, held)
                                 /\ held <= shares[Pool]
        BY DEF Inv, EscrowHolds
    <2>5. LiveAmount \in [1 .. MaxLocks -> Nat]
        BY <2>1, LiveAmountType DEF LiveAmount
    <2>6. LiveAmount[i] <= held
        BY <2>2, <2>4, <2>5, PartOfTotal
    <2> QED
        BY <2>1, <2>2, <2>3, <2>4, <2>5, <2>6
<1> QED
    BY <1>1, Invariance, PTL

(* No sequence of swaps, additions, removals, collections, sweeps, locks,  *)
(* taxes and losses lets one party dilute another's shares.                *)
THEOREM NoDilutionTheorem == Spec => ShareValueNeverDiluted
<1>1. Inv /\ [Next]_vars => [NoDilution]_vars
    BY NextStep
<1> QED
    BY <1>1, Invariance, PTL DEF Spec, ShareValueNeverDiluted

(* Donations and gains leave the pool only for the vault, and the protocol *)
(* bears a loss before its LPs do.                                         *)
THEOREM BooksTheorem == Spec => BooksFollowBalances
<1>1. Inv /\ Inv' /\ [Next]_vars => [SurplusKept /\ FeesAbsorbFirst]_vars
    BY FollowsStep DEF BooksKept, KeptOn, SurplusKept, FeesAbsorbFirst
<1> QED
    BY <1>1, Invariance, PTL DEF Spec, BooksFollowBalances
=============================================================================
