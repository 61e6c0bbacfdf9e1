----------------------------- MODULE PublicCPMM -----------------------------
(***************************************************************************)
(* PublicCPMM: the constant-product pool for ordinary ERC-20 tokens, with  *)
(* its PublicLPToken, its deposits into CipherDEXFeeVault, and the two     *)
(* pool tokens as an environment that may tax transfers and move the       *)
(* pool's balance behind its back (rebases, seizures, donations).          *)
(*                                                                         *)
(* One action per external function; each is atomic because a transaction  *)
(* is, and nonReentrant keeps the token callbacks out.  A call that would  *)
(* revert is a call that is not enabled.  The pool's sides token0 and      *)
(* token1 are 0 and 1, so storage such as reserve0State / reserve1State is *)
(* one function on Side.  Wallets outside the pool and the vault are one   *)
(* aggregate: what of TokenSupply the two do not hold.                     *)
(***************************************************************************)
EXTENDS ConstantProduct, Sequences, FiniteSetsExt

CONSTANTS
    Users,          \* the accounts that trade and provide liquidity
    Pool,           \* the pool's own address, the holder of locked shares
    Taxed,          \* the sides whose token may deliver less than it debits
    TokenSupply,    \* bound: units of each token in existence
    Scale,          \* Scale[s] = 10^(18 - decimals) of side s, scale0 / scale1
    PriceUnit,      \* 1e18, the unit of the caller's price bounds
    Amounts,        \* bound: the token amounts callers offer
    Minimums,       \* bound: the slippage minimums callers state
    PriceBounds,    \* bound: the <<min, max>> prices callers accept
    MaxTime,        \* bound: the last block timestamp
    MaxLocks,       \* bound: the locks ever created
    MaxSupply,      \* bound: LP shares in existence
    MaxMoves        \* bound: the tokens' moves behind the pool's back

Side == {0, 1}
Other(s) == 1 - s
Holders == Users \cup {Pool}
Time == 0 .. MaxTime

ASSUME PublicCPMMAssumption ==
    /\ Pool \notin Users
    /\ Taxed \subseteq Side
    /\ TokenSupply \in Nat
    /\ Scale \in [Side -> Nat \ {0}]
    /\ PriceUnit \in Nat \ {0}
    /\ Amounts \subseteq Nat
    /\ Minimums \subseteq Nat
    /\ PriceBounds \subseteq Nat \X Nat
    /\ MaxTime \in Nat
    /\ MaxLocks \in Nat
    /\ MaxSupply \in Nat
    /\ MaxMoves \in Nat

VARIABLES
    initialized,    \* the pool accepts swaps and proportional additions
    reserve,        \* reserve[s]: LP-owned reserves, explicit state
    protocolFees,   \* protocolFees[s]: protocol-owned claim still in the pool
    locks,          \* lock records in nextLockNonce order
    totalSupply,    \* of the LP token
    shares,         \* shares[h]: LP token balances, locked ones at Pool
    balance,        \* balance[s]: the pool's raw token balance
    publicFees,     \* of the vault
    vaultBalance,   \* of the vault
    now,            \* block.timestamp
    moves           \* auxiliary: external balance changes so far

poolVars  == <<initialized, reserve, protocolFees>>
lpVars    == <<totalSupply, shares>>
vaultVars == <<publicFees, vaultBalance>>
envVars == <<now, moves>>
vars == <<poolVars, locks, lpVars, balance, vaultVars, envVars>>

Vault == INSTANCE CipherDEXFeeVaultPublic WITH Token <- Side

LockRecords ==
    [owner : Users, unlockTime : Time, permanent : BOOLEAN,
     released : BOOLEAN, amount : Nat]

Init ==
    /\ initialized = FALSE
    /\ reserve = [s \in Side |-> 0]
    /\ protocolFees = [s \in Side |-> 0]
    /\ locks = <<>>
    /\ totalSupply = 0
    /\ shares = [h \in Holders |-> 0]
    /\ balance = [s \in Side |-> 0]
    /\ Vault!FeeVaultInit
    /\ now = 0
    /\ moves = 0

(* An operator named for a slip (ClaimAbsorbingLast, StaysInitialized...) is the *)
(* definition after it with that slip made: the mutant a property must      *)
(* catch.  No behaviour of Spec uses one.                                   *)
-----------------------------------------------------------------------------
(* The tokens.  A transfer debits its sender exactly (the pool and the     *)
(* vault revert any other debit of theirs); a taxed token delivers any     *)
(* part of the amount.                                                     *)

Arrivals(s, amount) == IF s \in Taxed THEN 0 .. amount ELSE {amount}

Outside(s) == TokenSupply - balance[s] - vaultBalance[s]

(* A deposit into the vault: nothing to move, or something must arrive.    *)
Deposits(s, amount) ==
    IF amount = 0 THEN {0} ELSE Arrivals(s, amount) \ {0}

-----------------------------------------------------------------------------
(* _reconcileAccountingLoss: what the books of side s become once they are *)
(* compared with the raw balance.  The claim absorbs a loss before the     *)
(* reserves do.                                                            *)

ClaimAbsorbingLast(s) == Least(protocolFees[s], balance[s])

ReconciledClaim(s) ==
    IF balance[s] >= reserve[s]
    THEN Least(protocolFees[s], balance[s] - reserve[s])
    ELSE 0

ReserveNotWrittenDown(s) == reserve[s]
ReconciledReserve(s) == Least(reserve[s], balance[s] - ReconciledClaim(s))

(* _surplusBalance, on reconciled books. *)
Surplus(s) == balance[s] - ReconciledReserve(s) - ReconciledClaim(s)

(* _requireBacked, at the end of an operation. *)
Backed(raw, reserves, claim) == raw >= reserves /\ raw - reserves >= claim

RequireBacked(s) == Backed(balance'[s], reserve'[s], protocolFees'[s])

RequireBeforeDeadline(deadline) == deadline >= now

-----------------------------------------------------------------------------
(* swapExactInput *)

Swap(s, amountIn, minAmountOut, deadline) ==
    LET o == Other(s)
        rIn == ReconciledReserve(s)
        rOut == ReconciledReserve(o)
    IN  \E received \in Arrivals(s, amountIn) :
        LET quoted == AmountOut(received, rIn, rOut)
            fee == ProtocolFee(received)
        IN  /\ RequireBeforeDeadline(deadline)
            /\ initialized
            /\ amountIn # 0 /\ amountIn <= Outside(s)
            /\ received # 0
            /\ Quotable(received, rIn, rOut)
            /\ quoted >= minAmountOut
            /\ \E amountOut \in Arrivals(o, quoted) : amountOut >= minAmountOut
            /\ protocolFees' = [x \in Side |->
                   ReconciledClaim(x) + (IF x = s THEN fee ELSE 0)]
            /\ reserve' = [x \in Side |->
                   IF x = s THEN rIn + received - fee ELSE rOut - quoted]
            /\ balance' = [balance EXCEPT ![s] = @ + received, ![o] = @ - quoted]
            /\ \A x \in Side : RequireBacked(x)
            /\ UNCHANGED <<initialized, locks, lpVars, vaultVars, envVars>>

-----------------------------------------------------------------------------
(* _addLiquidity, its two branches.  offer[s] is the amount the caller     *)
(* offers of side s.                                                       *)

PriceWithin(bounds) ==
    LET price == MulDiv(reserve'[1] * Scale[1], PriceUnit, reserve'[0] * Scale[0])
    IN  bounds[1] <= price /\ price <= bounds[2]

AddGuards(offer, bounds, deadline) ==
    /\ RequireBeforeDeadline(deadline)
    /\ \A s \in Side : offer[s] # 0
    /\ bounds[1] <= bounds[2]

Mint(recipient, minted) ==
    /\ totalSupply + minted <= MaxSupply
    /\ totalSupply' = totalSupply + minted
    /\ shares' = [shares EXCEPT ![recipient] = @ + minted]

InitialShares(received) ==
    Least(received[0] * Scale[0], received[1] * Scale[1])

(* The first addition, or the first one after a full exit: the surplus of  *)
(* both sides goes to the vault, and only what the caller's own transfers  *)
(* deliver becomes reserves.                                               *)
InitializeLiquidity(recipient, offer, minShares, bounds, deadline) ==
    /\ AddGuards(offer, bounds, deadline)
    /\ ~initialized
    /\ \A s \in Side : ReconciledReserve(s) = 0
    /\ \E swept0 \in Deposits(0, Surplus(0)), swept1 \in Deposits(1, Surplus(1)) :
           Vault!DepositPublicFees([s \in Side |-> IF s = 0 THEN swept0 ELSE swept1])
    /\ \E received0 \in Arrivals(0, offer[0]), received1 \in Arrivals(1, offer[1]) :
       LET received == [s \in Side |-> IF s = 0 THEN received0 ELSE received1]
           minted == InitialShares(received)
       IN  /\ \A s \in Side : offer[s] <= Outside(s)
           /\ received0 # 0 /\ received1 # 0
           /\ minted # 0 /\ minted >= minShares
           /\ reserve' = received
           /\ protocolFees' = [s \in Side |-> ReconciledClaim(s)]
           /\ balance' = [s \in Side |-> balance[s] - Surplus(s) + received[s]]
           /\ Mint(recipient, minted)
    /\ initialized' = TRUE
    /\ PriceWithin(bounds)
    /\ \A s \in Side : RequireBacked(s)
    /\ UNCHANGED <<locks, envVars>>

(* A later addition: the rounded-down share amount fixes the rounded-up    *)
(* charge, which must arrive in full.                                      *)
IncreaseLiquidity(recipient, offer, minShares, bounds, deadline) ==
    LET r == [s \in Side |-> ReconciledReserve(s)]
        minted == SharesFor(offer[0], offer[1], r[0], r[1], totalSupply)
        charge == [s \in Side |-> Charge(minted, r[s], totalSupply)]
    IN  /\ AddGuards(offer, bounds, deadline)
        /\ initialized
        /\ r[0] # 0 /\ r[1] # 0 /\ totalSupply # 0
        /\ minted # 0 /\ minted >= minShares
        /\ \A s \in Side : /\ charge[s] # 0 /\ charge[s] <= Outside(s)
                           /\ charge[s] \in Arrivals(s, charge[s])
        /\ reserve' = [s \in Side |-> r[s] + charge[s]]
        /\ protocolFees' = [s \in Side |-> ReconciledClaim(s)]
        /\ balance' = [s \in Side |-> balance[s] + charge[s]]
        /\ PriceWithin(bounds)
        /\ \A s \in Side : RequireBacked(s)
        /\ Mint(recipient, minted)
        /\ UNCHANGED <<initialized, locks, vaultVars, envVars>>

-----------------------------------------------------------------------------
(* _removeLiquidity: the caller burns shares of its own and is paid the    *)
(* rounded-down proportion of what the reserves still are.  Burning the    *)
(* last share returns the pool to its uninitialized state.                 *)

StaysInitialized(share) == initialized
InitializedAfterBurn(share) == initialized /\ share # totalSupply

(* What a removal of share pays out of side s before the token taxes it. *)
PaidOut(share, s) == Nominal(share, ReconciledReserve(s), totalSupply)

(* The pool accepts a removal, its closing _requireBacked included.        *)
RemovalAccepted(user, share, minimum, deadline) ==
    /\ RequireBeforeDeadline(deadline)
    /\ share # 0 /\ totalSupply # 0 /\ share <= shares[user]
    /\ (\A s \in Side : ReconciledReserve(s) = 0) => (\A s \in Side : minimum[s] = 0)
    /\ \A s \in Side :
           LET nominal == PaidOut(share, s)
           IN  /\ nominal >= minimum[s]
               /\ \E amount \in Arrivals(s, nominal) : amount >= minimum[s]
               /\ nominal <= ReconciledReserve(s) /\ nominal <= balance[s]
               /\ Backed(balance[s] - nominal, ReconciledReserve(s) - nominal,
                         ReconciledClaim(s))

RemoveLiquidity(user, share, minimum, deadline) ==
    /\ RemovalAccepted(user, share, minimum, deadline)
    /\ totalSupply' = totalSupply - share
    /\ shares' = [shares EXCEPT ![user] = @ - share]
    /\ reserve' = [s \in Side |-> ReconciledReserve(s) - PaidOut(share, s)]
    /\ initialized' = InitializedAfterBurn(share)
    /\ protocolFees' = [s \in Side |-> ReconciledClaim(s)]
    /\ balance' = [s \in Side |-> balance[s] - PaidOut(share, s)]
    /\ UNCHANGED <<locks, vaultVars, envVars>>

-----------------------------------------------------------------------------
(* collectProtocolFees and sweepSurplus, for the selected sides.           *)

CollectProtocolFees(sides) ==
    LET claim == [s \in Side |-> IF s \in sides THEN ReconciledClaim(s) ELSE 0]
    IN  /\ \E s \in Side : claim[s] # 0
        /\ \E d0 \in Deposits(0, claim[0]), d1 \in Deposits(1, claim[1]) :
               Vault!DepositPublicFees([s \in Side |-> IF s = 0 THEN d0 ELSE d1])
        /\ protocolFees' = [s \in Side |-> IF s \in sides THEN 0 ELSE protocolFees[s]]
        /\ reserve' = [s \in Side |->
               IF s \in sides THEN ReconciledReserve(s) ELSE reserve[s]]
        /\ balance' = [s \in Side |-> balance[s] - claim[s]]
        /\ \A s \in Side : claim[s] # 0 => RequireBacked(s)
        /\ UNCHANGED <<initialized, locks, lpVars, envVars>>

SweepSurplus(sides) ==
    LET debit == [s \in Side |-> IF s \in sides THEN Surplus(s) ELSE 0]
    IN  /\ \E s \in Side : debit[s] # 0
        /\ \E d0 \in Deposits(0, debit[0]), d1 \in Deposits(1, debit[1]) :
               Vault!DepositPublicFees([s \in Side |-> IF s = 0 THEN d0 ELSE d1])
        /\ protocolFees' = [s \in Side |->
               IF s \in sides THEN ReconciledClaim(s) ELSE protocolFees[s]]
        /\ reserve' = [s \in Side |->
               IF s \in sides THEN ReconciledReserve(s) ELSE reserve[s]]
        /\ balance' = [s \in Side |-> balance[s] - debit[s]]
        /\ \A s \in Side : debit[s] # 0 => RequireBacked(s)
        /\ UNCHANGED <<initialized, locks, lpVars, envVars>>

-----------------------------------------------------------------------------
(* lockShares and unlockShares: shares in escrow are LP tokens the pool    *)
(* itself holds; the record says whose they are.                           *)

MoveShares(from, to, amount) ==
    shares' = [h \in Holders |-> shares[h]
                   - (IF h = from THEN amount ELSE 0)
                   + (IF h = to THEN amount ELSE 0)]

LockShares(user, amount, unlockTime, permanent, deadline) ==
    /\ RequireBeforeDeadline(deadline)
    /\ Len(locks) < MaxLocks
    /\ amount # 0 /\ amount <= shares[user]
    /\ IF permanent THEN unlockTime = 0 ELSE unlockTime > now
    /\ locks' = Append(locks, [owner |-> user, unlockTime |-> unlockTime,
                               permanent |-> permanent, released |-> FALSE,
                               amount |-> amount])
    /\ MoveShares(user, Pool, amount)
    /\ UNCHANGED <<poolVars, totalSupply, balance, vaultVars, envVars>>

UnlockShares(i) ==
    /\ ~locks[i].released
    /\ ~locks[i].permanent
    /\ now >= locks[i].unlockTime
    /\ locks' = [locks EXCEPT ![i].released = TRUE]
    /\ MoveShares(Pool, locks[i].owner, locks[i].amount)
    /\ UNCHANGED <<poolVars, totalSupply, balance, vaultVars, envVars>>

-----------------------------------------------------------------------------
(* The environment: LP tokens are transferable ERC-20s (to the pool's own  *)
(* address too), the vault's beneficiary sweeps, block time passes, and    *)
(* the tokens' issuers and holders move the pool's raw balance.            *)

TransferShares(from, to, amount) ==
    /\ amount # 0 /\ amount <= shares[from]
    /\ MoveShares(from, to, amount)
    /\ UNCHANGED <<poolVars, locks, totalSupply, balance, vaultVars, envVars>>

SweepPublicToken(s) ==
    /\ Vault!SweepPublicToken(s)
    /\ UNCHANGED <<poolVars, locks, lpVars, balance, envVars>>

ExternalBalanceChange(s, amount) ==
    /\ amount # balance[s] /\ amount <= TokenSupply - vaultBalance[s]
    /\ moves < MaxMoves
    /\ moves' = moves + 1
    /\ balance' = [balance EXCEPT ![s] = amount]
    /\ UNCHANGED <<poolVars, locks, lpVars, vaultVars, now>>

Tick ==
    /\ now < MaxTime
    /\ now' = now + 1
    /\ UNCHANGED <<poolVars, locks, lpVars, balance, vaultVars, moves>>

-----------------------------------------------------------------------------
Trade ==
    \E s \in Side, a \in Amounts, m \in Minimums, d \in Time : Swap(s, a, m, d)

Provide ==
    \E h \in Holders, offer \in [Side -> Amounts], m \in Minimums,
       b \in PriceBounds, d \in Time :
        \/ InitializeLiquidity(h, offer, m, b, d)
        \/ IncreaseLiquidity(h, offer, m, b, d)

Withdraw ==
    \E u \in Users, m \in [Side -> Minimums], d \in Time :
        \E share \in 1 .. shares[u] : RemoveLiquidity(u, share, m, d)

Collect ==
    \E sides \in SUBSET Side : CollectProtocolFees(sides) \/ SweepSurplus(sides)

Escrow ==
    \/ \E u \in Users, t \in Time, permanent \in BOOLEAN, d \in Time :
           \E amount \in 1 .. shares[u] : LockShares(u, amount, t, permanent, d)
    \/ \E i \in DOMAIN locks : UnlockShares(i)

Environment ==
    \/ \E u \in Users, h \in Holders :
           \E amount \in 1 .. shares[u] : TransferShares(u, h, amount)
    \/ \E s \in Side : SweepPublicToken(s)
    \/ \E s \in Side, amount \in 0 .. TokenSupply : ExternalBalanceChange(s, amount)
    \/ Tick

Next == Trade \/ Provide \/ Withdraw \/ Collect \/ Escrow \/ Environment

Spec == Init /\ [][Next]_vars
-----------------------------------------------------------------------------
(* Properties. *)

(* Every variable of the pool, its LP token and the vault has its type.    *)
TypeOK ==
    /\ initialized \in BOOLEAN
    /\ reserve \in [Side -> Nat]
    /\ protocolFees \in [Side -> Nat]
    /\ locks \in Seq(LockRecords)
    /\ totalSupply \in Nat
    /\ shares \in [Holders -> Nat]
    /\ balance \in [Side -> Nat]
    /\ publicFees \in [Side -> Nat]
    /\ vaultBalance \in [Side -> Nat]
    /\ now \in Time
    /\ moves \in Nat

(* The pool's initialized flag and the LP token's supply, two contracts,   *)
(* never disagree, and a pool without shares keeps no LP-owned reserves:   *)
(* a later first depositor can find nothing of an earlier one's.           *)
LifecycleMatchesSupply ==
    /\ initialized <=> totalSupply > 0
    /\ ~initialized => \A s \in Side : reserve[s] = 0

(* No loss, tax, fee or rounding ever closes the door: whoever holds       *)
(* shares can burn all of them now (removeLiquidity without minimums), and *)
(* the LP tokens at the pool's address cover every lock not yet released,  *)
(* so unlockShares can always return what a record promises.               *)
LiveLocks == {i \in DOMAIN locks : ~locks[i].released}

HoldersCanExit ==
    /\ \A u \in Users : shares[u] > 0 =>
           RemovalAccepted(u, shares[u], [s \in Side |-> 0], MaxTime)
    /\ SumFunction([i \in LiveLocks |-> locks[i].amount]) <= shares[Pool]

(* The vault never owes the beneficiary more than the pool's deposits      *)
(* delivered to it, whatever the token taxed on the way and however sweeps *)
(* and deposits alternate (for a token that leaves the vault's own balance *)
(* alone).                                                                 *)
VaultBacksItsFees == \A s \in Side : publicFees[s] <= vaultBalance[s]

(* Swaps, additions, removals, collections, sweeps, locks and write-downs  *)
(* never lower the reserves behind a share: the product of the (already    *)
(* written down) reserves per squared share never falls while there are    *)
(* shares, whatever is rounded on the way.                                 *)
NoDilution ==
    totalSupply > 0 /\ totalSupply' > 0 =>
        (reserve'[0] * reserve'[1]) * (totalSupply * totalSupply)
          >= (ReconciledReserve(0) * ReconciledReserve(1))
               * (totalSupply' * totalSupply')

ShareValueNeverDiluted == [][NoDilution]_vars

(* Unaccounted balance (donations, positive rebases) leaves the pool only  *)
(* for the vault: no swap, addition or exit prices it or pays it out.      *)
Unaccounted(s) ==
    LET owed == reserve[s] + protocolFees[s]
    IN  IF balance[s] > owed THEN balance[s] - owed ELSE 0

SurplusKept ==
    \A s \in Side :
        Unaccounted(s)' < Unaccounted(s)
            => \/ publicFees'[s] > publicFees[s]
               \/ UNCHANGED <<poolVars, lpVars, vaultVars>>

(* A loss hits the protocol before the LPs: reserves written down without  *)
(* a token leaving the pool leave no protocol claim on that side.          *)
FeesAbsorbFirst ==
    \A s \in Side :
        balance'[s] = balance[s] /\ reserve'[s] < reserve[s]
            => protocolFees'[s] = 0

BooksFollowBalances == [][SurplusKept /\ FeesAbsorbFirst]_vars
=============================================================================
