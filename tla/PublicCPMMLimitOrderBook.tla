---------------------- MODULE PublicCPMMLimitOrderBook ----------------------
(***************************************************************************)
(* PublicCPMMLimitOrderBook: makers escrow an input token with a limit     *)
(* price and a native-coin bounty, fillers execute them in whole or in     *)
(* part through the best-execution router, makers amend and cancel.  One   *)
(* action per external function; each transaction is atomic and            *)
(* nonReentrant.  A call that would revert is a call that is not enabled.  *)
(*                                                                         *)
(* The router is what the book sees of it: it takes exactly the amount     *)
(* approved and reports an output no smaller than the minimum it was       *)
(* given.  A native push to an account succeeds or fails as that account   *)
(* pleases.  createOrderWithPermit is createOrder after an approval: it    *)
(* changes no state of the book that CreateOrder does not.                 *)
(***************************************************************************)
EXTENDS FullMath, FiniteSetsExt

CONSTANTS
    Accounts,       \* makers, fillers and recipients
    Token,          \* the ERC-20 tokens, WrappedNative among them
    WrappedNative,  \* the token native coins are escrowed as
    Rebasing,       \* tokens whose balance may shrink in the book's hands
    Zero,           \* address(0) in a deleted order
    NativeCoin,     \* the native coin, an asset beside the tokens
    Amounts,        \* bound: input amounts of new orders
    Outputs,        \* bound: minimum outputs and outputs
    Values,         \* bound: native values sent as bounties
    TokenSupply,    \* bound: units of each token the book ever holds
    NativeSupply,   \* bound: native units the book ever holds
    MaxOrders,      \* bound: orders ever created
    MaxRevisions,   \* bound: amendments of one order
    MaxTime,        \* bound: the last block timestamp
    MaxMoves        \* bound: balance changes from outside

OrderIds == 1 .. MaxOrders
Time == 0 .. MaxTime

ASSUME LimitOrderBookAssumption ==
    /\ IsFiniteSet(Accounts)
    /\ WrappedNative \in Token
    /\ Rebasing \subseteq Token \ {WrappedNative}
    /\ Zero \notin Accounts \cup Token
    /\ NativeCoin \notin Token
    /\ Amounts \subseteq Nat
    /\ Outputs \subseteq Nat
    /\ Values \subseteq Nat
    /\ TokenSupply \in Nat
    /\ NativeSupply \in Nat
    /\ MaxOrders \in Nat
    /\ MaxRevisions \in Nat
    /\ MaxTime \in Nat
    /\ MaxMoves \in Nat

VARIABLES
    nextOrderId,
    orders,                         \* orders[id], EmptyOrder when deleted
    orderStatus,
    totalEscrowed,                  \* totalEscrowed[token]
    totalOpenExecutionBounties,
    claimableNativeBounties,        \* per account
    totalClaimableNativeBounties,
    claimableNativeProceeds,        \* per account
    totalClaimableNativeProceeds,
    tokenBalance,                   \* tokenBalance[token] of the book
    nativeBalance,                  \* address(this).balance
    now,                            \* block.timestamp
    bought,     \* auxiliary: output delivered since the order's last terms
    moves       \* auxiliary: balance changes from outside so far

orderVars  == <<nextOrderId, orders, orderStatus, totalEscrowed,
                totalOpenExecutionBounties>>
bountyVars == <<claimableNativeBounties, totalClaimableNativeBounties>>
proceedsVars == <<claimableNativeProceeds, totalClaimableNativeProceeds>>
balanceVars == <<tokenBalance, nativeBalance>>
vars == <<orderVars, bountyVars, proceedsVars, balanceVars, now, bought, moves>>

SettlementMode == {"Token", "NativeInput", "NativeOutput"}
OrderStatus == {"None", "Open", "Filled", "Cancelled"}

Order ==
    [maker : Accounts \cup {Zero}, recipient : Accounts \cup {Zero},
     tokenIn : Token \cup {Zero}, remainingAmountIn : Nat,
     priceNumerator : Nat, priceDenominator : Nat, minimumFillAmount : Nat,
     remainingExecutionBounty : Nat, expiry : Time, revision : Nat,
     allowPartialFills : BOOLEAN, settlementMode : SettlementMode]

EmptyOrder ==
    [maker |-> Zero, recipient |-> Zero, tokenIn |-> Zero,
     remainingAmountIn |-> 0, priceNumerator |-> 0, priceDenominator |-> 0,
     minimumFillAmount |-> 0, remainingExecutionBounty |-> 0, expiry |-> 0,
     revision |-> 0, allowPartialFills |-> FALSE, settlementMode |-> "Token"]

Init ==
    /\ nextOrderId = 1
    /\ orders = [i \in OrderIds |-> EmptyOrder]
    /\ orderStatus = [i \in OrderIds |-> "None"]
    /\ totalEscrowed = [t \in Token |-> 0]
    /\ totalOpenExecutionBounties = 0
    /\ claimableNativeBounties = [a \in Accounts |-> 0]
    /\ totalClaimableNativeBounties = 0
    /\ claimableNativeProceeds = [a \in Accounts |-> 0]
    /\ totalClaimableNativeProceeds = 0
    /\ tokenBalance = [t \in Token |-> 0]
    /\ nativeBalance = 0
    /\ now = 0
    /\ bought = [i \in OrderIds |-> 0]
    /\ moves = 0

(* An operator named for a slip (BackingUnchecked, FillBountyRoundedUp...) *)
(* is the definition after it with that slip made: the mutant a property   *)
(* must catch.  No behaviour of Spec uses one.                             *)
-----------------------------------------------------------------------------
(* What backs the escrow and the native liabilities. *)

BackingUnchecked(balance, escrowed, t) == TRUE
Backed(balance, escrowed, t) == balance[t] >= escrowed[t]

EscrowBacked(t) == Backed(tokenBalance, totalEscrowed, t)

NativeLiabilities ==
    totalOpenExecutionBounties + totalClaimableNativeBounties
        + totalClaimableNativeProceeds

(* _requireEscrowBacked and _requireNativeLiabilitiesBacked, at the end of *)
(* an operation.                                                           *)
RequireEscrowBacked(t) == Backed(tokenBalance', totalEscrowed', t)

RequireNativeLiabilitiesBacked == nativeBalance' >= NativeLiabilities'

(* _payOrCreditNativeBounty and _payOrCreditNativeProceeds: a push the     *)
(* beneficiary rejects becomes a claim; Unpaid is what stays in the book.  *)
Unpaid(amount, paid) == IF paid THEN 0 ELSE amount

PushBountyOrRevert(beneficiary, amount, paid) ==
    /\ amount = 0 \/ paid
    /\ UNCHANGED bountyVars

CreditBounty(beneficiary, amount, paid) ==
    /\ claimableNativeBounties' =
           [claimableNativeBounties EXCEPT ![beneficiary] = @ + Unpaid(amount, paid)]
    /\ totalClaimableNativeBounties' =
           totalClaimableNativeBounties + Unpaid(amount, paid)

CreditProceeds(beneficiary, amount, paid) ==
    /\ claimableNativeProceeds' =
           [claimableNativeProceeds EXCEPT ![beneficiary] = @ + Unpaid(amount, paid)]
    /\ totalClaimableNativeProceeds' =
           totalClaimableNativeProceeds + Unpaid(amount, paid)

-----------------------------------------------------------------------------
(* _validateMutableTerms and the terms a maker states: within the bound    *)
(* on time every order can expire.                                         *)

Terms ==
    [recipient : Accounts, minAmountOut : Outputs, expiry : 0 .. MaxTime - 1,
     allowPartialFills : BOOLEAN, minimumFillAmount : {0} \cup Amounts]

ValidMutableTerms(amountIn, terms) ==
    /\ amountIn # 0
    /\ terms.minAmountOut # 0
    /\ terms.expiry > now
    /\ terms.minimumFillAmount \in
           (IF terms.allowPartialFills THEN 1 .. amountIn ELSE {0, amountIn})

MinimumFill(amountIn, terms) ==
    IF terms.allowPartialFills THEN terms.minimumFillAmount ELSE amountIn

-----------------------------------------------------------------------------
(* createOrder: native input is wrapped before it is escrowed, and what    *)
(* the maker sends beyond it is the bounty.                                *)

CreateOrder(maker, mode, tokenIn, amountIn, terms, executionBounty) ==
    /\ nextOrderId \in OrderIds
    /\ ValidMutableTerms(amountIn, terms)
    /\ tokenIn = WrappedNative <=> mode = "NativeInput"
    /\ tokenBalance[tokenIn] + amountIn <= TokenSupply
    /\ nativeBalance + executionBounty <= NativeSupply
    /\ tokenBalance' = [tokenBalance EXCEPT ![tokenIn] = @ + amountIn]
    /\ nativeBalance' = nativeBalance + executionBounty
    /\ nextOrderId' = nextOrderId + 1
    /\ orders' = [orders EXCEPT ![nextOrderId] =
           [maker |-> maker, recipient |-> terms.recipient, tokenIn |-> tokenIn,
            remainingAmountIn |-> amountIn, priceNumerator |-> terms.minAmountOut,
            priceDenominator |-> amountIn,
            minimumFillAmount |-> MinimumFill(amountIn, terms),
            remainingExecutionBounty |-> executionBounty,
            expiry |-> terms.expiry, revision |-> 0,
            allowPartialFills |-> terms.allowPartialFills,
            settlementMode |-> mode]]
    /\ orderStatus' = [orderStatus EXCEPT ![nextOrderId] = "Open"]
    /\ totalEscrowed' = [totalEscrowed EXCEPT ![tokenIn] = @ + amountIn]
    /\ totalOpenExecutionBounties' = totalOpenExecutionBounties + executionBounty
    /\ UNCHANGED <<bountyVars, proceedsVars, now, bought, moves>>
    /\ RequireEscrowBacked(tokenIn)
    /\ RequireNativeLiabilitiesBacked

(* amendOrder: the limit becomes the new minimum for what still remains.   *)
AmendOrder(maker, id, terms) ==
    LET order == orders[id]
    IN  /\ orderStatus[id] = "Open" /\ order.maker = maker
        /\ order.revision < MaxRevisions
        /\ ValidMutableTerms(order.remainingAmountIn, terms)
        /\ orders' = [orders EXCEPT ![id] =
               [order EXCEPT
                   !.recipient = terms.recipient,
                   !.priceNumerator = terms.minAmountOut,
                   !.priceDenominator = order.remainingAmountIn,
                   !.expiry = terms.expiry,
                   !.allowPartialFills = terms.allowPartialFills,
                   !.minimumFillAmount = MinimumFill(order.remainingAmountIn, terms),
                   !.revision = @ + 1]]
        /\ bought' = [bought EXCEPT ![id] = 0]
        /\ UNCHANGED <<nextOrderId, orderStatus, totalEscrowed,
                       totalOpenExecutionBounties, bountyVars, proceedsVars,
                       balanceVars, now, moves>>

IncreaseExecutionBounty(maker, id, value) ==
    /\ orderStatus[id] = "Open" /\ orders[id].maker = maker
    /\ value # 0 /\ nativeBalance + value <= NativeSupply
    /\ orders' = [orders EXCEPT ![id].remainingExecutionBounty = @ + value]
    /\ totalOpenExecutionBounties' = totalOpenExecutionBounties + value
    /\ nativeBalance' = nativeBalance + value
    /\ UNCHANGED <<nextOrderId, orderStatus, totalEscrowed, bountyVars,
                   proceedsVars, tokenBalance, now, bought, moves>>
    /\ RequireNativeLiabilitiesBacked

-----------------------------------------------------------------------------
(* fillOrder *)

ValidFillAmount(order, amount) ==
    /\ amount # 0 /\ amount <= order.remainingAmountIn
    /\ \/ amount = order.remainingAmountIn
       \/ order.allowPartialFills /\ amount >= order.minimumFillAmount

MinimumOutputFloor(order, amount) ==
    MulDiv(amount, order.priceNumerator, order.priceDenominator)

MinimumOutput(order, amount) ==
    MulDivUp(amount, order.priceNumerator, order.priceDenominator)

(* A full fill takes the whole bounty, a partial one its rounded-down part. *)
FillBountyRoundedUp(order, amount) ==
    MulDivUp(order.remainingExecutionBounty, amount, order.remainingAmountIn)

FillBounty(order, amount) ==
    IF amount = order.remainingAmountIn
    THEN order.remainingExecutionBounty
    ELSE MulDiv(order.remainingExecutionBounty, amount, order.remainingAmountIn)

AfterFillBountyKept(order, amount) ==
    [order EXCEPT !.remainingAmountIn = @ - amount]

AfterFill(order, amount) ==
    [order EXCEPT !.remainingAmountIn = @ - amount,
                  !.remainingExecutionBounty = @ - FillBounty(order, amount)]

FillOrder(filler, id, amount, amountOut, paidProceeds, paidBounty) ==
    LET order == orders[id]
        t == order.tokenIn
        bounty == FillBounty(order, amount)
        filled == amount = order.remainingAmountIn
        native == order.settlementMode = "NativeOutput"
        proceeds == IF native THEN Unpaid(amountOut, paidProceeds) ELSE 0
    IN  /\ orderStatus[id] = "Open"
        /\ now <= order.expiry
        /\ ValidFillAmount(order, amount)
        /\ EscrowBacked(t)
        /\ amountOut >= MinimumOutput(order, amount)
        /\ nativeBalance + proceeds <= NativeSupply
        /\ totalEscrowed' = [totalEscrowed EXCEPT ![t] = @ - amount]
        /\ totalOpenExecutionBounties' = totalOpenExecutionBounties - bounty
        /\ orderStatus' =
               [orderStatus EXCEPT ![id] = IF filled THEN "Filled" ELSE "Open"]
        /\ orders' = [orders EXCEPT ![id] =
               IF filled THEN EmptyOrder ELSE AfterFill(order, amount)]
        /\ tokenBalance' = [tokenBalance EXCEPT ![t] = @ - amount]
        /\ nativeBalance' = nativeBalance + proceeds - (bounty - Unpaid(bounty, paidBounty))
        /\ IF native
           THEN /\ RequireEscrowBacked(WrappedNative)
                /\ CreditProceeds(order.recipient, amountOut, paidProceeds)
           ELSE UNCHANGED proceedsVars
        /\ CreditBounty(filler, bounty, paidBounty)
        /\ bought' = [bought EXCEPT ![id] = @ + amountOut]
        /\ UNCHANGED <<nextOrderId, now, moves>>
        /\ RequireEscrowBacked(t)
        /\ RequireNativeLiabilitiesBacked

(* canFillOrder, the keeper's view, for a router that quotes quoted (or    *)
(* has no route, quoted = 0).                                              *)
CanFillExpired(id, amount, quoted) ==
    /\ orderStatus[id] = "Open"
    /\ ValidFillAmount(orders[id], amount)
    /\ quoted # 0 /\ quoted >= MinimumOutput(orders[id], amount)

CanFillOrder(id, amount, quoted) ==
    /\ orderStatus[id] = "Open"
    /\ now <= orders[id].expiry
    /\ ValidFillAmount(orders[id], amount)
    /\ quoted # 0 /\ quoted >= MinimumOutput(orders[id], amount)

-----------------------------------------------------------------------------
(* cancelOrder: open to the maker before and after expiry. *)

CancelOrder(maker, id, paidProceeds, paidBounty) ==
    LET order == orders[id]
        t == order.tokenIn
        amount == order.remainingAmountIn
        bounty == order.remainingExecutionBounty
        native == order.settlementMode = "NativeInput"
        proceeds == IF native THEN Unpaid(amount, paidProceeds) ELSE 0
    IN  /\ orderStatus[id] = "Open" /\ order.maker = maker
        /\ EscrowBacked(t)
        /\ totalEscrowed' = [totalEscrowed EXCEPT ![t] = @ - amount]
        /\ totalOpenExecutionBounties' = totalOpenExecutionBounties - bounty
        /\ orderStatus' = [orderStatus EXCEPT ![id] = "Cancelled"]
        /\ orders' = [orders EXCEPT ![id] = EmptyOrder]
        /\ tokenBalance' = [tokenBalance EXCEPT ![t] = @ - amount]
        /\ nativeBalance' = nativeBalance + proceeds - (bounty - Unpaid(bounty, paidBounty))
        /\ IF native THEN CreditProceeds(maker, amount, paidProceeds)
                     ELSE UNCHANGED proceedsVars
        /\ CreditBounty(maker, bounty, paidBounty)
        /\ UNCHANGED <<nextOrderId, now, bought, moves>>
        /\ RequireEscrowBacked(t)
        /\ RequireNativeLiabilitiesBacked

-----------------------------------------------------------------------------
(* claimNativeBounty and claimNativeProceeds: to any payable address that  *)
(* accepts the coins.                                                      *)

ClaimNativeBounty(a) ==
    LET amount == claimableNativeBounties[a]
    IN  /\ amount # 0
        /\ claimableNativeBounties' = [claimableNativeBounties EXCEPT ![a] = 0]
        /\ totalClaimableNativeBounties' = totalClaimableNativeBounties - amount
        /\ nativeBalance' = nativeBalance - amount
        /\ UNCHANGED <<orderVars, proceedsVars, tokenBalance, now, bought, moves>>
        /\ RequireNativeLiabilitiesBacked

ClaimNativeProceeds(a) ==
    LET amount == claimableNativeProceeds[a]
    IN  /\ amount # 0
        /\ claimableNativeProceeds' = [claimableNativeProceeds EXCEPT ![a] = 0]
        /\ totalClaimableNativeProceeds' = totalClaimableNativeProceeds - amount
        /\ nativeBalance' = nativeBalance - amount
        /\ UNCHANGED <<orderVars, bountyVars, tokenBalance, now, bought, moves>>
        /\ RequireNativeLiabilitiesBacked

SweepTokenSurplus(t) ==
    /\ tokenBalance[t] > totalEscrowed[t]
    /\ tokenBalance' = [tokenBalance EXCEPT ![t] = totalEscrowed[t]]
    /\ UNCHANGED <<orderVars, bountyVars, proceedsVars, nativeBalance, now,
                   bought, moves>>
    /\ RequireEscrowBacked(t)

SweepNativeSurplus ==
    /\ nativeBalance > NativeLiabilities
    /\ nativeBalance' = NativeLiabilities
    /\ UNCHANGED <<orderVars, bountyVars, proceedsVars, tokenBalance, now,
                   bought, moves>>
    /\ RequireNativeLiabilitiesBacked

-----------------------------------------------------------------------------
(* The environment: gifts of tokens and forced native coins, rebases, time. *)

OutsideTokenChange(t, amount) ==
    /\ moves < MaxMoves
    /\ amount > tokenBalance[t] \/ (t \in Rebasing /\ amount < tokenBalance[t])
    /\ tokenBalance' = [tokenBalance EXCEPT ![t] = amount]
    /\ moves' = moves + 1
    /\ UNCHANGED <<orderVars, bountyVars, proceedsVars, nativeBalance, now, bought>>

ForcedNative(value) ==
    /\ moves < MaxMoves
    /\ value # 0 /\ nativeBalance + value <= NativeSupply
    /\ nativeBalance' = nativeBalance + value
    /\ moves' = moves + 1
    /\ UNCHANGED <<orderVars, bountyVars, proceedsVars, tokenBalance, now, bought>>

Tick ==
    /\ now < MaxTime
    /\ now' = now + 1
    /\ UNCHANGED <<orderVars, bountyVars, proceedsVars, balanceVars, bought, moves>>

-----------------------------------------------------------------------------
Make ==
    \E maker \in Accounts, terms \in Terms :
        \/ \E mode \in SettlementMode, t \in Token, a \in Amounts, v \in Values :
               CreateOrder(maker, mode, t, a, terms, v)
        \/ \E id \in OrderIds : AmendOrder(maker, id, terms)

Settle ==
    \E account \in Accounts, id \in OrderIds, p \in BOOLEAN, b \in BOOLEAN :
        \/ \E amountOut \in Outputs : \E amount \in 1 .. orders[id].remainingAmountIn :
               FillOrder(account, id, amount, amountOut, p, b)
        \/ CancelOrder(account, id, p, b)

Fund ==
    \/ \E a \in Accounts, id \in OrderIds, v \in Values :
           IncreaseExecutionBounty(a, id, v)
    \/ \E a \in Accounts : ClaimNativeBounty(a) \/ ClaimNativeProceeds(a)
    \/ \E t \in Token : SweepTokenSurplus(t)
    \/ SweepNativeSurplus

Environment ==
    \/ \E t \in Token, amount \in 0 .. TokenSupply : OutsideTokenChange(t, amount)
    \/ \E v \in Values : ForcedNative(v)
    \/ Tick

Next == Make \/ Settle \/ Fund \/ Environment

Spec == Init /\ [][Next]_vars
-----------------------------------------------------------------------------
(* Properties. *)

(* Every variable of the book has its type: in particular no liability     *)
(* total, claim or balance is ever driven below zero.                      *)
TypeOK ==
    /\ nextOrderId \in 1 .. MaxOrders + 1
    /\ orders \in [OrderIds -> Order]
    /\ orderStatus \in [OrderIds -> OrderStatus]
    /\ totalEscrowed \in [Token -> Nat]
    /\ totalOpenExecutionBounties \in Nat
    /\ claimableNativeBounties \in [Accounts -> Nat]
    /\ totalClaimableNativeBounties \in Nat
    /\ claimableNativeProceeds \in [Accounts -> Nat]
    /\ totalClaimableNativeProceeds \in Nat
    /\ tokenBalance \in [Token -> Nat]
    /\ nativeBalance \in Nat
    /\ now \in Time
    /\ bought \in [OrderIds -> Nat]
    /\ moves \in Nat

(* What the book holds and what it owes, asset by asset, counted from the  *)
(* orders and credits themselves and never from the running totals.        *)
Assets == Token \cup {NativeCoin}

EscrowIn(t) ==
    LET ids == {id \in OrderIds : orders[id].tokenIn = t}
    IN  SumFunction([id \in ids |-> orders[id].remainingAmountIn])

OpenBounties ==
    SumFunction([id \in OrderIds |-> orders[id].remainingExecutionBounty])

Credits ==
    SumFunction([a \in Accounts |-> claimableNativeBounties[a] + claimableNativeProceeds[a]])

Held == [a \in Assets |-> IF a = NativeCoin THEN nativeBalance ELSE tokenBalance[a]]

Owed == [a \in Assets |-> IF a = NativeCoin THEN OpenBounties + Credits ELSE EscrowIn(a)]

(* The book implements Custody: creations, fills, cancellations, claims    *)
(* and credits move holdings and claims together whatever pushes are       *)
(* rejected, and the permissionless sweeps take exactly the unowed rest.   *)
Promise == INSTANCE Custody WITH
               Asset <- Assets, Losing <- Rebasing, held <- Held, owed <- Owed

BookIsCustody == Promise!Spec

(* Splitting a fill cannot weaken the maker's limit: over all the fills    *)
(* since the terms were last set, the output delivered is worth at least   *)
(* the limit price of the input spent, the last fill included.             *)
LimitHonoured ==
    \A id \in OrderIds :
        LET spent == orders[id].priceDenominator - orders'[id].remainingAmountIn
        IN  /\ orderStatus[id] = "Open"
            /\ \/ orderStatus'[id] = "Filled"
               \/ orderStatus'[id] = "Open" /\ orders'[id].revision = orders[id].revision
            => bought'[id] * orders[id].priceDenominator
                   >= spent * orders[id].priceNumerator

MakerLimitHonoured == [][LimitHonoured]_vars

(* A partial fill never overpays its filler: the bounty left per unit of   *)
(* input left does not fall, so it still pays for the rest of the order.   *)
BountyKept ==
    \A id \in OrderIds :
        orderStatus[id] = "Open" /\ orderStatus'[id] = "Open" =>
            orders'[id].remainingExecutionBounty * orders[id].remainingAmountIn
              >= orders[id].remainingExecutionBounty * orders'[id].remainingAmountIn

BountyRateNeverFalls == [][BountyKept]_vars

(* When a token has shrunk below its escrow, nobody is paid first: until   *)
(* it is backed again none of the book's operations releases any of it.    *)
NoPreference ==
    \A t \in Token :
        tokenBalance[t] < totalEscrowed[t] /\ tokenBalance'[t] < tokenBalance[t]
            => moves' > moves

ShortfallFreezesToken == [][NoPreference]_vars

(* The maker of an open order whose token is backed can always take it     *)
(* back, expired or not, whatever pushes the maker's account rejects.      *)
CancelAlwaysOpen ==
    \A id \in OrderIds, p \in BOOLEAN, b \in BOOLEAN :
        /\ orderStatus[id] = "Open"
        /\ EscrowBacked(orders[id].tokenIn)
        => ENABLED CancelOrder(orders[id].maker, id, p, b)

(* canFillOrder says yes exactly to the fills fillOrder would accept, for  *)
(* a router that delivers what it quotes, a token that is backed and       *)
(* proceeds within the bound on native coins.                              *)
KeeperViewExact ==
    \A id \in OrderIds, amount \in 0 .. TokenSupply, quoted \in Outputs \ {0} :
        /\ orderStatus[id] = "Open"
        /\ EscrowBacked(orders[id].tokenIn)
        /\ nativeBalance + quoted <= NativeSupply
        => (CanFillOrder(id, amount, quoted)
               <=> \E filler \in Accounts :
                       ENABLED FillOrder(filler, id, amount, quoted, TRUE, TRUE))
=============================================================================
