-------------------------- MODULE ConfidentialPool --------------------------
(***************************************************************************)
(* ConfidentialCPMM: reserves, shares and locks kept as encrypted words    *)
(* the contract computes on blindly.  Every checked operation reveals only *)
(* whether it overflowed, and a call that overflows anywhere reverts, so   *)
(* an operation is modelled by the exact integer and a bound; the router's *)
(* quote may not revert and carries wrapped words and a validity bit.      *)
(*                                                                         *)
(* One action per external function; a call that reverts is not enabled.   *)
(* Sides token0 and token1 are 0 and 1.  Callers' slippage and price       *)
(* limits only ever reject and are left out.  So is time: a deadline, a    *)
(* lock's unlockTime and a collection's window can all be waited for, and  *)
(* nothing here must happen before a time.  How many swaps a collection    *)
(* sums, and when, is the subject of ConfidentialFees.                     *)
(***************************************************************************)
EXTENDS ConstantProduct, Sequences, FiniteSetsExt

CONSTANTS
    Users,              \* the accounts that provide liquidity
    MaxWord,            \* type(uint256).max
    Scale,              \* Scale[s] = 10^(18 - decimals), scale0 / scale1
    PriceScale,         \* PRICE_SCALE
    MaxCount,           \* type(uint32).max, of the swap counters
    CollectionSwaps,    \* MIN_CONFIDENTIAL_COLLECTION_SWAPS
    ProtectedLaunch,    \* whether an initializationStrategy is set
    Amounts,            \* bound: the amounts callers offer
    MaxLocks            \* bound: locks ever created

Side == {0, 1}
Other(s) == 1 - s

ASSUME ConfidentialPoolAssumption ==
    /\ IsFiniteSet(Users)
    /\ MaxWord \in Nat
    /\ Scale \in [Side -> Nat \ {0}]
    /\ PriceScale \in Nat \ {0}
    /\ MaxCount \in Nat
    /\ CollectionSwaps \in Nat \ {0}
    /\ ProtectedLaunch \in BOOLEAN
    /\ Amounts \subseteq 0 .. MaxWord
    /\ MaxLocks \in Nat

VARIABLES
    initialized,
    completed,      \* protectedInitializationCompleted
    reserve,        \* reserve[s]: reserve0State / reserve1State
    protocolFees,   \* protocolFees0State / 1State
    swapCount,      \* protocolFeeSwapCount0 / 1
    totalShares,
    locks,          \* lock records in nextLockNonce order
    shares,         \* shares[u]: of the PrivateLPToken
    balance         \* balance[s]: the tokens the pool received and has not paid

lifeVars == <<initialized, completed>>
feeVars == <<protocolFees, swapCount>>
shareVars == <<totalShares, locks, shares>>
vars == <<lifeVars, reserve, feeVars, shareVars, balance>>

Both(value) == [s \in Side |-> value]

Init ==
    /\ initialized = FALSE
    /\ completed = FALSE
    /\ reserve = Both(0)
    /\ protocolFees = Both(0)
    /\ swapCount = Both(0)
    /\ totalShares = 0
    /\ locks = <<>>
    /\ shares = [u \in Users |-> 0]
    /\ balance = Both(0)

(* CeilDivFloored, BoundsWithoutShares, OperationalBitsWithoutShares,        *)
(* PreviewedFloored and LockStillHeld are the definitions after them with  *)
(* a slip made: the mutants a property must catch.  No behaviour of Spec   *)
(* uses one.                                                               *)
-----------------------------------------------------------------------------
(* Words. *)

Fits(n) == n <= MaxWord

CeilDivFloored(n, d) == n \div d
CeilDiv(n, d) == IF n % d = 0 THEN n \div d ELSE n \div d + 1

(* _assertOperationalBounds *)
BoundsWithoutShares(r, supply) ==
    /\ r[0] > 0 /\ r[1] > 0 /\ supply > 0
    /\ Fits(r[0] * r[1])
    /\ Fits(r[0] * Scale[0])
    /\ Fits(r[1] * Scale[1]) /\ Fits(r[1] * Scale[1] * PriceScale)

OperationalBounds(r, supply) ==
    /\ r[0] > 0 /\ r[1] > 0 /\ supply > 0
    /\ Fits(r[0] * r[1])
    /\ \A s \in Side : Fits(supply * r[s])
    /\ Fits(r[0] * Scale[0])
    /\ Fits(r[1] * Scale[1]) /\ Fits(r[1] * Scale[1] * PriceScale)

-----------------------------------------------------------------------------
(* Swaps with input side s: _strictSwapTransition, which reverts, ...      *)

SwapOutput(a, s) == reserve[Other(s)] - CeilDiv(reserve[0] * reserve[1],
                                                reserve[s] + NetAmount(a))

NextReserve(a, s) ==
    [reserve EXCEPT ![s] = @ + (a - ProtocolFee(a)), ![Other(s)] = @ - SwapOutput(a, s)]

SwapAccepted(a, s) ==
    /\ initialized
    /\ a > 0 /\ reserve[0] > 0 /\ reserve[1] > 0
    /\ Fits(a * (FeeDenominator - FeeBps))
    /\ NetAmount(a) > 0
    /\ ProtocolFee(a) > 0
    /\ Fits(reserve[s] + NetAmount(a))
    /\ Fits(reserve[0] * reserve[1])
    /\ SwapOutput(a, s) > 0
    /\ Fits(NextReserve(a, s)[s])
    /\ Fits(protocolFees[s] + ProtocolFee(a))
    /\ swapCount[s] < MaxCount
    /\ OperationalBounds(NextReserve(a, s), totalShares)

(* ... and _routerQuoteAmounts, which computes on with wrapped words and   *)
(* ands the overflow bits together.  What a checked operation returns      *)
(* beside its overflow bit is the wrapped word.                            *)
Word(n) == n % (MaxWord + 1)
Sub(a, b) == Word(a + (MaxWord + 1) - b)

RoundedUp(n, d) ==
    LET safe == IF d = 0 THEN 1 ELSE d
    IN  IF n % safe = 0 THEN n \div safe ELSE Word(n \div safe + 1)

QuoteWords(a, s) ==
    LET net == Word(a * (FeeDenominator - FeeBps)) \div FeeDenominator
        fee == Sub(a, net) \div FeeShareDenominator
        newReserve == Word(reserve[s] + net)
        retained == RoundedUp(Word(reserve[0] * reserve[1]), newReserve)
        output == Sub(reserve[Other(s)], retained)
    IN  [net |-> net, fee |-> fee, retained |-> retained, output |-> output,
         next |-> [t \in Side |-> IF t = s THEN Word(reserve[s] + Sub(a, fee))
                                  ELSE Sub(reserve[t], output)]]

(* _routerSettlementValidity and _routerOperationalValidity *)
SettlementBits(a, s, w) ==
    /\ w.fee <= a
    /\ Fits(reserve[s] + Sub(a, w.fee))
    /\ w.output <= reserve[Other(s)]

OperationalBitsWithoutShares(s, w) ==
    /\ w.next[0] > 0 /\ w.next[1] > 0 /\ totalShares > 0
    /\ Fits(w.next[0] * w.next[1])
    /\ Fits(w.next[0] * Scale[0])
    /\ Fits(w.next[1] * Scale[1])
    /\ Fits(Word(w.next[1] * Scale[1]) * PriceScale)
    /\ Fits(protocolFees[s] + w.fee)
    /\ swapCount[s] < MaxCount

OperationalBits(s, w) ==
    /\ w.next[0] > 0 /\ w.next[1] > 0 /\ totalShares > 0
    /\ Fits(w.next[0] * w.next[1])
    /\ \A t \in Side : Fits(totalShares * w.next[t])
    /\ Fits(w.next[0] * Scale[0])
    /\ Fits(w.next[1] * Scale[1])
    /\ Fits(Word(w.next[1] * Scale[1]) * PriceScale)
    /\ Fits(protocolFees[s] + w.fee)
    /\ swapCount[s] < MaxCount

QuoteValid(a, s) ==
    LET w == QuoteWords(a, s)
    IN  /\ initialized
        /\ a > 0 /\ reserve[0] > 0 /\ reserve[1] > 0
        /\ Fits(a * (FeeDenominator - FeeBps)) /\ w.net > 0
        /\ w.net <= a /\ w.fee > 0
        /\ Fits(reserve[s] + w.net) /\ Fits(reserve[0] * reserve[1])
        /\ w.retained <= reserve[Other(s)] /\ w.output > 0
        /\ SettlementBits(a, s, w)
        /\ OperationalBits(s, w)

QuotedOutput(a, s) == IF QuoteValid(a, s) THEN QuoteWords(a, s).output ELSE 0

(* swapExactInput and settleExactInputForRouter. *)
Swap(a, s) ==
    /\ SwapAccepted(a, s)
    /\ reserve' = NextReserve(a, s)
    /\ protocolFees' = [protocolFees EXCEPT ![s] = @ + ProtocolFee(a)]
    /\ swapCount' = [swapCount EXCEPT ![s] = @ + 1]
    /\ balance' = [balance EXCEPT ![s] = @ + a, ![Other(s)] = @ - SwapOutput(a, s)]
    /\ UNCHANGED <<lifeVars, shareVars>>

-----------------------------------------------------------------------------
(* Liquidity. *)

Take(deposit, minted) ==
    /\ reserve' = [s \in Side |-> reserve[s] + deposit[s]]
    /\ balance' = [s \in Side |-> balance[s] + deposit[s]]
    /\ totalShares' = totalShares + minted

(* The first liquidity, by addLiquidity or by _bootstrapLiquidity: shares   *)
(* are counted in units of the smaller normalized side.                    *)
InitialShares(offer) == Least(offer[0] * Scale[0], offer[1] * Scale[1])

InitialAccepted(offer) ==
    /\ ~initialized
    /\ \A s \in Side : offer[s] > 0 /\ reserve[s] = 0
    /\ \A s \in Side : Fits(offer[s] * Scale[s])
    /\ OperationalBounds(offer, InitialShares(offer))

InitializeLiquidity(u, offer) ==
    /\ ProtectedLaunch => completed
    /\ InitialAccepted(offer)
    /\ Fits(totalShares + InitialShares(offer))
    /\ Take(offer, InitialShares(offer))
    /\ shares' = [shares EXCEPT ![u] = @ + InitialShares(offer)]
    /\ initialized' = TRUE
    /\ UNCHANGED <<completed, feeVars, locks>>

LockRecords == [owner : Users, amount : Nat, permanent : BOOLEAN, released : BOOLEAN]

LockRecord(u, amount, permanent) ==
    [owner |-> u, amount |-> amount, permanent |-> permanent, released |-> FALSE]

(* The bootstrapper's call: the provider holds the shares, or a lock does. *)
Bootstrap(u, offer, disposition) ==
    /\ InitialAccepted(offer)
    /\ reserve' = offer
    /\ balance' = [s \in Side |-> balance[s] + offer[s]]
    /\ totalShares' = InitialShares(offer)
    /\ initialized' = TRUE
    /\ completed' = (completed \/ ProtectedLaunch)
    /\ IF disposition = "creator-held"
       THEN /\ shares' = [shares EXCEPT ![u] = @ + InitialShares(offer)]
            /\ UNCHANGED locks
       ELSE /\ Len(locks) < MaxLocks
            /\ locks' = Append(locks, LockRecord(u, InitialShares(offer),
                                                 disposition = "permanent"))
            /\ UNCHANGED shares
    /\ UNCHANGED feeVars

(* A later addition is charged the proportion of what it mints, rounded up. *)
MintedFor(offer) ==
    SharesFor(offer[0], offer[1], reserve[0], reserve[1], totalShares)

Deposits(minted) == [s \in Side |-> CeilDiv(minted * reserve[s], totalShares)]

AdditionAccepted(offer) ==
    LET minted == MintedFor(offer)
        deposit == Deposits(minted)
        next == [s \in Side |-> reserve[s] + deposit[s]]
    IN  /\ initialized
        /\ \A s \in Side : offer[s] > 0 /\ reserve[s] > 0
        /\ totalShares > 0
        /\ \A s \in Side : Fits(offer[s] * totalShares)
        /\ minted > 0
        /\ \A s \in Side : Fits(minted * reserve[s]) /\ Fits(next[s])
        /\ Fits(totalShares + minted)
        /\ OperationalBounds(next, totalShares + minted)

IncreaseLiquidity(u, offer) ==
    /\ AdditionAccepted(offer)
    /\ Take(Deposits(MintedFor(offer)), MintedFor(offer))
    /\ shares' = [shares EXCEPT ![u] = @ + MintedFor(offer)]
    /\ UNCHANGED <<lifeVars, feeVars, locks>>

(* requestAddLiquidityQuote, which changes no state: what an addition that  *)
(* offers at most m of side s would take of both sides, and mint.          *)
PreviewedShares(m, s) == MulDiv(m, totalShares, reserve[s])

PreviewAccepted(m, s) ==
    /\ initialized
    /\ m > 0 /\ reserve[0] > 0 /\ reserve[1] > 0 /\ totalShares > 0
    /\ Fits(m * totalShares)
    /\ PreviewedShares(m, s) > 0
    /\ \A t \in Side : Fits(PreviewedShares(m, s) * reserve[t])

PreviewedFloored(m, s) ==
    [t \in Side |-> (PreviewedShares(m, s) * reserve[t]) \div totalShares]

PreviewedDeposits(m, s) == Deposits(PreviewedShares(m, s))

(* removeLiquidity: any holder's request, paid in the rounded down proportion. *)
Payout(k, s) == MulDiv(k, reserve[s], totalShares)

RemovalAccepted(u, k) ==
    LET next == [s \in Side |-> reserve[s] - Payout(k, s)]
    IN  /\ k > 0 /\ totalShares > 0 /\ k <= shares[u]
        /\ \A s \in Side : Fits(k * reserve[s]) /\ Payout(k, s) <= reserve[s]
        /\ k <= totalShares
        /\ IF k = totalShares THEN OperationalBounds(reserve, totalShares)
           ELSE OperationalBounds(next, totalShares - k)

Burn(u, k) == shares' = [shares EXCEPT ![u] = @ - k]

(* Fees of the given sides go to the vault. *)
DepositFees(sides, paid) ==
    /\ protocolFees' = [s \in Side |-> IF s \in sides THEN 0 ELSE protocolFees[s]]
    /\ swapCount' = [s \in Side |-> IF s \in sides THEN 0 ELSE swapCount[s]]
    /\ balance' = [s \in Side |->
           balance[s] - paid[s] - (IF s \in sides THEN protocolFees[s] ELSE 0)]

Fed == {s \in Side : swapCount[s] # 0}

TerminalSides(k) == IF k = totalShares THEN Fed ELSE {}

RemoveLiquidity(u, k) ==
    /\ RemovalAccepted(u, k)
    /\ totalShares' = totalShares - k
    /\ Burn(u, k)
    /\ reserve' = [s \in Side |-> reserve[s] - Payout(k, s)]
    /\ initialized' = (initialized /\ k # totalShares)
    /\ DepositFees(TerminalSides(k), [s \in Side |-> Payout(k, s)])
    /\ UNCHANGED <<completed, locks>>

CollectProtocolFees(sides) ==
    /\ sides # {}
    /\ \A s \in sides : swapCount[s] >= CollectionSwaps
    /\ DepositFees(sides, Both(0))
    /\ UNCHANGED <<lifeVars, reserve, shareVars>>

-----------------------------------------------------------------------------
(* Locks: shares in a lock are burnt, and minted again when it is released. *)

LockStillHeld(u, k, permanent) ==
    /\ k > 0 /\ k <= shares[u]
    /\ Len(locks) < MaxLocks
    /\ locks' = Append(locks, LockRecord(u, k, permanent))
    /\ UNCHANGED <<lifeVars, reserve, feeVars, totalShares, shares, balance>>

LockShares(u, k, permanent) ==
    /\ k > 0 /\ k <= shares[u]
    /\ Len(locks) < MaxLocks
    /\ locks' = Append(locks, LockRecord(u, k, permanent))
    /\ Burn(u, k)
    /\ UNCHANGED <<lifeVars, reserve, feeVars, totalShares, balance>>

UnlockShares(i) ==
    /\ ~locks[i].released
    /\ ~locks[i].permanent
    /\ locks' = [locks EXCEPT ![i].released = TRUE]
    /\ shares' = [shares EXCEPT ![locks[i].owner] = @ + locks[i].amount]
    /\ UNCHANGED <<lifeVars, reserve, feeVars, totalShares, balance>>

(* The PrivateLPToken is an ordinary private token. *)
TransferShares(u, v, k) ==
    /\ u # v /\ k > 0 /\ k <= shares[u]
    /\ shares' = [shares EXCEPT ![u] = @ - k, ![v] = @ + k]
    /\ UNCHANGED <<lifeVars, reserve, feeVars, totalShares, locks, balance>>

-----------------------------------------------------------------------------
Offers == [Side -> Amounts]
Dispositions == {"creator-held", "timed", "permanent"}

Provide ==
    \E u \in Users, offer \in Offers :
        \/ InitializeLiquidity(u, offer)
        \/ IncreaseLiquidity(u, offer)
        \/ \E d \in Dispositions : Bootstrap(u, offer, d)

Withdraw == \E u \in Users : \E k \in 1 .. shares[u] : RemoveLiquidity(u, k)

Hold ==
    \E u \in Users : \E k \in 1 .. shares[u] :
        \/ \E permanent \in BOOLEAN : LockShares(u, k, permanent)
        \/ \E v \in Users : TransferShares(u, v, k)

Next ==
    \/ \E a \in Amounts, s \in Side : Swap(a, s)
    \/ Provide
    \/ Withdraw
    \/ Hold
    \/ \E sides \in SUBSET Side : CollectProtocolFees(sides)
    \/ \E i \in DOMAIN locks : UnlockShares(i)

Spec == Init /\ [][Next]_vars
-----------------------------------------------------------------------------
(* Properties. *)

(* Every variable has its type; words stay words. *)
TypeOK ==
    /\ initialized \in BOOLEAN
    /\ completed \in BOOLEAN
    /\ reserve \in [Side -> Nat]
    /\ protocolFees \in [Side -> Nat]
    /\ swapCount \in [Side -> 0 .. MaxCount]
    /\ totalShares \in Nat
    /\ locks \in Seq(LockRecords)
    /\ shares \in [Users -> Nat]
    /\ balance \in [Side -> Nat]

(* The router's quote is valid for exactly the swaps the settlement accepts *)
(* and names exactly the output it pays, on every overflow and zero the two *)
(* code paths handle differently: a best-execution swap never fails on the *)
(* pool it chose, and never passes over one it could have used.            *)
QuoteMatchesSettlement ==
    \A a \in Amounts, s \in Side :
        /\ QuoteValid(a, s) <=> SwapAccepted(a, s)
        /\ SwapAccepted(a, s) => QuotedOutput(a, s) = SwapOutput(a, s)

(* Whatever trades and additions did to the reserves, every holder can      *)
(* burn any part of what it holds: no intermediate product overflows.      *)
ExitNeverBlocked == \A u \in Users : \A k \in 1 .. shares[u] : RemovalAccepted(u, k)

(* The records of the pool, its LP token, its locks and its tokens agree:   *)
(* total shares are what holders and unreleased locks have, reserves and   *)
(* fees are what the pool holds, fees are counted, and the pool is open    *)
(* exactly while there are shares.                                         *)
Locked == {i \in DOMAIN locks : ~locks[i].released}

SharesAccounted ==
    totalShares = SumFunction(shares) + SumFunction([i \in Locked |-> locks[i].amount])

RecordsAgree ==
    /\ \A s \in Side : balance[s] = reserve[s] + protocolFees[s]
    /\ \A s \in Side : protocolFees[s] # 0 <=> swapCount[s] # 0
    /\ initialized <=> totalShares # 0
    /\ \A s \in Side : initialized <=> reserve[s] # 0
    /\ initialized \/ \A s \in Side : protocolFees[s] = 0

BooksAgree == SharesAccounted /\ RecordsAgree

(* An addition that offers exactly what was previewed, before anything else *)
(* happened, mints exactly the previewed shares for exactly that deposit.  *)
PreviewHonoured ==
    \A m \in Amounts, s \in Side :
        LET offer == PreviewedDeposits(m, s)
        IN  PreviewAccepted(m, s) =>
                /\ offer[s] <= m
                /\ AdditionAccepted(offer) =>
                       /\ MintedFor(offer) = PreviewedShares(m, s)
                       /\ Deposits(MintedFor(offer)) = offer

(* No step lowers what a share is worth: while the pool stays open the      *)
(* product of the reserves keeps its proportion to the square of the shares. *)
NoDilution ==
    initialized /\ initialized' =>
        reserve'[0] * reserve'[1] * totalShares * totalShares
            >= reserve[0] * reserve[1] * totalShares' * totalShares'

ShareValueNeverDiluted == [][NoDilution]_vars
=============================================================================
