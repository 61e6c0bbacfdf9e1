------------------ MODULE PublicCPMMLimitOrderBook_proofs ------------------
(***************************************************************************)
(* What the order book owes a maker and a filler, proved for every number  *)
(* of orders and every amount, price, bounty and bound.                    *)
(*                                                                         *)
(* TermsKept is the argument: at every moment the output an open order has *)
(* bought since its terms were last set is worth its limit price for the   *)
(* input it has spent since.  A fill adds at least the rounded-up minimum  *)
(* of its own part, so the sum keeps up however the order is split.        *)
(*                                                                         *)
(* Ledger is the other half: each running total is the sum of the orders   *)
(* or credits it stands for, and a closed order keeps nothing.  From it    *)
(* follow that no total is driven below zero, that the book implements     *)
(* Custody, and that what cancelOrder subtracts and pays is there.         *)
(***************************************************************************)
EXTENDS PublicCPMMLimitOrderBook, NumberFacts

-----------------------------------------------------------------------------
(* Arithmetic of one fill. *)

(* A fill of amount that brings out keeps the limit N per D.               *)
LEMMA LimitStep ==
  ASSUME NEW b \in Nat, NEW out \in Nat, NEW D \in Nat \ {0}, NEW N \in Nat,
         NEW R \in Nat, NEW amount \in Nat,
         b * D >= (D - R) * N, out >= MulDivUp(amount, N, D)
  PROVE  (b + out) * D >= (D - (R - amount)) * N
<1> DEFINE m == MulDivUp(amount, N, D)
<1>1. m \in Nat /\ D * m >= amount * N
  BY MulDivUpBounds
<1> HIDE DEF m
<1>2. m * D <= out * D /\ m * D = D * m
  BY <1>1, Grows, Distributes DEF m
<1>3. (b + out) * D = b * D + out * D
  BY Distributes
<1>4. D - (R - amount) = (D - R) + amount /\ D - R \in Int
  BY SMT
<1>5. ((D - R) + amount) * N = (D - R) * N + amount * N
  BY <1>4, Distributes
<1>6. /\ b * D \in Int /\ out * D \in Int /\ m * D \in Int
      /\ (D - R) * N \in Int /\ amount * N \in Int
  BY <1>1, <1>4, Distributes
<1> QED
  BY <1>1, <1>2, <1>3, <1>4, <1>5, <1>6, SMT

(* The rounded-down part of a bounty leaves at least the rest of its rate. *)
LEMMA BountyStep ==
  ASSUME NEW B \in Nat, NEW R \in Nat \ {0}, NEW amount \in Nat, amount <= R
  PROVE  LET paid == MulDiv(B, amount, R)
         IN  /\ paid \in Nat /\ paid <= B
             /\ (B - paid) * R >= B * (R - amount)
<1> DEFINE paid == MulDiv(B, amount, R)
<1>1. paid \in Nat /\ R * paid <= B * amount
  BY MulDivBounds
<1> HIDE DEF paid
<1>2. paid <= B
  <2> SUFFICES ASSUME paid >= B + 1 PROVE FALSE
    BY <1>1, SMT
  <2>1. (B + 1) * R <= paid * R /\ amount * B <= R * B
    BY <1>1, Grows
  <2>2. (B + 1) * R = B * R + R /\ paid * R = R * paid /\ amount * B = B * amount
        /\ R * B = B * R
    BY <1>1, Distributes
  <2>3. B * R \in Int /\ R * paid \in Int /\ B * amount \in Int
    BY <1>1, Distributes
  <2> QED
    BY <1>1, <2>1, <2>2, <2>3, SMT
<1>3. (B - paid) * R = B * R - paid * R /\ paid * R = R * paid
  BY <1>1, Distributes
<1>4. B * (R - amount) = (R - amount) * B /\ (R - amount) * B = R * B - amount * B
      /\ R * B = B * R /\ amount * B = B * amount /\ R - amount \in Int
  BY Distributes
<1>5. B * R \in Int /\ R * paid \in Int /\ B * amount \in Int
  BY <1>1, Distributes
<1>6. (B - paid) * R >= B * (R - amount)
  BY <1>1, <1>3, <1>4, <1>5, SMT
<1> QED
  BY <1>1, <1>2, <1>6 DEF paid

-----------------------------------------------------------------------------
(* The invariant. *)

BookTypes ==
    /\ nextOrderId \in 1 .. MaxOrders + 1
    /\ orders \in [OrderIds -> Order]
    /\ orderStatus \in [OrderIds -> OrderStatus]
    /\ totalEscrowed \in [Token -> Int]
    /\ tokenBalance \in [Token -> Int]
    /\ now \in Time
    /\ bought \in [OrderIds -> Nat]
    /\ moves \in Nat

(* An open order has something left of what its terms were set for, and    *)
(* has bought its limit's worth for the rest.                              *)
Kept(order, sum) ==
    /\ order.tokenIn \in Token
    /\ order.recipient \in Accounts
    /\ order.remainingAmountIn \in 1 .. order.priceDenominator
    /\ sum * order.priceDenominator
          >= (order.priceDenominator - order.remainingAmountIn) * order.priceNumerator

TermsKept == \A id \in OrderIds : orderStatus[id] = "Open" => Kept(orders[id], bought[id])

Unborn(id) == orderStatus[id] = "None" /\ bought[id] = 0

BookInv ==
    /\ BookTypes
    /\ TermsKept
    /\ \A id \in OrderIds : id >= nextOrderId => Unborn(id)

(* Everything about one order the three promises of a step speak of.       *)
OrderKept(id) ==
    /\ orderStatus'[id] = "Open" => Kept(orders'[id], bought'[id])
    /\ LET spent == orders[id].priceDenominator - orders'[id].remainingAmountIn
       IN  /\ orderStatus[id] = "Open"
           /\ \/ orderStatus'[id] = "Filled"
              \/ orderStatus'[id] = "Open" /\ orders'[id].revision = orders[id].revision
           => bought'[id] * orders[id].priceDenominator >= spent * orders[id].priceNumerator
    /\ orderStatus[id] = "Open" /\ orderStatus'[id] = "Open" =>
           orders'[id].remainingExecutionBounty * orders[id].remainingAmountIn
             >= orders[id].remainingExecutionBounty * orders'[id].remainingAmountIn

StepKept ==
    /\ BookTypes'
    /\ \A id \in OrderIds : id >= nextOrderId' => Unborn(id)'
    /\ \A id \in OrderIds : OrderKept(id)
    /\ NoPreference

(* Without orders there is nothing to keep.                                *)
LEMMA InitBookInv == Init => BookInv
<1> SUFFICES ASSUME Init PROVE BookInv
  OBVIOUS
<1>1. EmptyOrder \in Order
  BY LimitOrderBookAssumption DEF EmptyOrder, Order, Time, SettlementMode
<1>2. BookTypes
  BY <1>1, LimitOrderBookAssumption DEF Init, BookTypes, OrderStatus, Time
<1> QED
  BY <1>2 DEF Init, BookInv, TermsKept, Unborn

(* An order a step leaves alone keeps its promises.                        *)
LEMMA UntouchedKept ==
  ASSUME BookInv, NEW id \in OrderIds,
         orders'[id] = orders[id], orderStatus'[id] = orderStatus[id], bought'[id] = bought[id]
  PROVE  OrderKept(id)
<1>1. orders[id] \in Order /\ bought[id] \in Nat
  BY DEF BookInv, BookTypes
<1>2. orders[id].remainingAmountIn \in Nat /\ orders[id].remainingExecutionBounty \in Nat
  BY <1>1 DEF Order
<1>3. orders[id].remainingExecutionBounty * orders[id].remainingAmountIn \in Int
  BY <1>2, Distributes
<1>4. orders[id].remainingExecutionBounty * orders[id].remainingAmountIn
        >= orders[id].remainingExecutionBounty * orders[id].remainingAmountIn
  BY <1>3
<1>5. orderStatus[id] = "Open" => Kept(orders[id], bought[id])
  BY DEF BookInv, TermsKept
<1> QED
  BY <1>4, <1>5 DEF OrderKept, Kept

(* A step that touches no order at all.                                    *)
LEMMA OrdersUntouched ==
  ASSUME BookInv, UNCHANGED orderVars, bought' = bought, moves' \in Nat, now' \in Time,
         tokenBalance' \in [Token -> Int], NoPreference
  PROVE  StepKept
<1>1. \A id \in OrderIds : OrderKept(id)
  BY UntouchedKept DEF orderVars
<1> QED
  BY <1>1 DEF StepKept, BookInv, BookTypes, orderVars, Unborn

-----------------------------------------------------------------------------
(* The operations. *)

(* What a maker states has its types.                                      *)
LEMMA TermsTyped ==
  ASSUME NEW terms \in Terms
  PROVE  /\ terms.recipient \in Accounts /\ terms.minAmountOut \in Nat
         /\ terms.expiry \in Time /\ terms.allowPartialFills \in BOOLEAN
         /\ terms.minimumFillAmount \in Nat
<1>1. /\ terms.recipient \in Accounts /\ terms.minAmountOut \in Outputs
      /\ terms.expiry \in 0 .. MaxTime - 1 /\ terms.allowPartialFills \in BOOLEAN
      /\ terms.minimumFillAmount \in {0} \cup Amounts
  BY DEF Terms
<1>2. terms.expiry \in Time
  BY <1>1, LimitOrderBookAssumption DEF Time
<1>3. Outputs \subseteq Nat /\ Amounts \subseteq Nat
  BY LimitOrderBookAssumption
<1>4. terms.minAmountOut \in Nat
  BY <1>1, <1>3
<1>5. terms.minimumFillAmount \in Nat
  <2>1. {0} \cup Amounts \subseteq Nat
    BY <1>3
  <2> QED
    BY <1>1, <2>1, Zenon
<1> QED
  BY <1>1, <1>2, <1>4, <1>5

(* createOrder: the new order has spent nothing and bought nothing.        *)
LEMMA CreateKept ==
  ASSUME BookInv, NEW maker \in Accounts, NEW terms \in Terms, NEW mode \in SettlementMode,
         NEW t \in Token, NEW amount \in Amounts, NEW value \in Values,
         CreateOrder(maker, mode, t, amount, terms, value)
  PROVE  StepKept
<1> DEFINE id == nextOrderId
           new == [maker |-> maker, recipient |-> terms.recipient, tokenIn |-> t,
                   remainingAmountIn |-> amount, priceNumerator |-> terms.minAmountOut,
                   priceDenominator |-> amount,
                   minimumFillAmount |-> MinimumFill(amount, terms),
                   remainingExecutionBounty |-> value,
                   expiry |-> terms.expiry, revision |-> 0,
                   allowPartialFills |-> terms.allowPartialFills,
                   settlementMode |-> mode]
<1> USE LimitOrderBookAssumption
<1>1. /\ id \in OrderIds /\ amount \in Nat \ {0} /\ value \in Nat
      /\ orders' = [orders EXCEPT ![id] = new]
      /\ orderStatus' = [orderStatus EXCEPT ![id] = "Open"]
      /\ bought' = bought /\ now' = now /\ moves' = moves
      /\ nextOrderId' = nextOrderId + 1
      /\ tokenBalance' = [tokenBalance EXCEPT ![t] = @ + amount]
      /\ totalEscrowed' = [totalEscrowed EXCEPT ![t] = @ + amount]
  BY DEF CreateOrder, ValidMutableTerms
<1>2. /\ terms.recipient \in Accounts /\ terms.minAmountOut \in Nat
      /\ terms.expiry \in Time /\ terms.allowPartialFills \in BOOLEAN
      /\ terms.minimumFillAmount \in Nat
  BY TermsTyped
<1>3. MinimumFill(amount, terms) \in Nat
  BY <1>1, <1>2 DEF MinimumFill
<1>4. new \in Order
  BY <1>1, <1>2, <1>3 DEF Order
<1>5. orderStatus[id] = "None" /\ bought[id] = 0
  BY <1>1 DEF BookInv, Unborn, BookTypes
<1>6. BookTypes'
  BY <1>1, <1>4 DEF BookInv, BookTypes, OrderStatus, OrderIds
<1>7. \A i \in OrderIds : i >= nextOrderId' => Unborn(i)'
  BY <1>1 DEF BookInv, BookTypes, Unborn, OrderIds
<1>8. OrderKept(id)
  <2>1. new.tokenIn = t /\ new.remainingAmountIn = amount /\ new.priceDenominator = amount
        /\ new.priceNumerator = terms.minAmountOut /\ new.recipient = terms.recipient
    OBVIOUS
  <2>2. 0 * amount >= (amount - amount) * terms.minAmountOut
    BY <1>1, <1>2, SMT
  <2>3. Kept(new, 0)
    BY <1>1, <1>2, <2>1, <2>2 DEF Kept
  <2>4. orders'[id] = new /\ bought'[id] = 0
    BY <1>1, <1>5 DEF BookInv, BookTypes
  <2> QED
    BY <1>5, <2>3, <2>4 DEF OrderKept
<1>9. \A i \in OrderIds : i # id => OrderKept(i)
  BY <1>1, UntouchedKept DEF BookInv, BookTypes
<1>10. NoPreference
  BY <1>1 DEF NoPreference, BookInv, BookTypes
<1> QED
  BY <1>6, <1>7, <1>8, <1>9, <1>10 DEF StepKept

(* amendOrder: the new limit starts from what remains.                     *)
LEMMA AmendKept ==
  ASSUME BookInv, NEW maker \in Accounts, NEW terms \in Terms, NEW id \in OrderIds,
         AmendOrder(maker, id, terms)
  PROVE  StepKept
<1> DEFINE order == orders[id]
           new == [order EXCEPT
                   !.recipient = terms.recipient,
                   !.priceNumerator = terms.minAmountOut,
                   !.priceDenominator = order.remainingAmountIn,
                   !.expiry = terms.expiry,
                   !.allowPartialFills = terms.allowPartialFills,
                   !.minimumFillAmount = MinimumFill(order.remainingAmountIn, terms),
                   !.revision = @ + 1]
<1> USE LimitOrderBookAssumption
<1>1. /\ orderStatus[id] = "Open" /\ order.remainingAmountIn # 0
      /\ orders' = [orders EXCEPT ![id] = new]
      /\ bought' = [bought EXCEPT ![id] = 0]
      /\ UNCHANGED <<nextOrderId, orderStatus, totalEscrowed, tokenBalance, now, moves>>
  BY DEF AmendOrder, ValidMutableTerms, balanceVars
<1>2. /\ terms.recipient \in Accounts /\ terms.minAmountOut \in Nat
      /\ terms.expiry \in Time /\ terms.allowPartialFills \in BOOLEAN
      /\ terms.minimumFillAmount \in Nat
  BY TermsTyped
<1>3. order \in Order /\ order.remainingAmountIn \in Nat \ {0} /\ order.tokenIn \in Token
      /\ order.revision \in Nat /\ order.remainingExecutionBounty \in Nat
  BY <1>1 DEF BookInv, BookTypes, TermsKept, Kept, Order
<1>4. MinimumFill(order.remainingAmountIn, terms) \in Nat
  BY <1>2, <1>3 DEF MinimumFill
<1>5. /\ new \in Order
      /\ new.tokenIn = order.tokenIn /\ new.recipient = terms.recipient
      /\ new.remainingAmountIn = order.remainingAmountIn
      /\ new.priceDenominator = order.remainingAmountIn
      /\ new.priceNumerator = terms.minAmountOut /\ new.revision = order.revision + 1
      /\ new.remainingExecutionBounty = order.remainingExecutionBounty
  <2>1. order.revision + 1 \in Nat
    BY <1>3
  <2>2. new \in Order
    BY <1>2, <1>3, <1>4, <2>1 DEF Order
  <2>3. /\ new.tokenIn = order.tokenIn /\ new.remainingAmountIn = order.remainingAmountIn
        /\ new.priceDenominator = order.remainingAmountIn
        /\ new.priceNumerator = terms.minAmountOut /\ new.recipient = terms.recipient
        /\ new.remainingExecutionBounty = order.remainingExecutionBounty
    BY <1>3 DEF Order
  <2>4. new.revision = order.revision + 1
    BY <1>3 DEF Order
  <2> QED
    BY <2>2, <2>3, <2>4
<1>6. orders'[id] = new /\ bought'[id] = 0
  BY <1>1 DEF BookInv, BookTypes
<1>7. BookTypes'
  BY <1>1, <1>5 DEF BookInv, BookTypes
<1>8. \A i \in OrderIds : i >= nextOrderId' => Unborn(i)'
  BY <1>1 DEF BookInv, BookTypes, Unborn
<1> HIDE DEF new, order
<1>9. OrderKept(id)
  <2>1. 0 * order.remainingAmountIn
          >= (order.remainingAmountIn - order.remainingAmountIn) * terms.minAmountOut
    BY <1>2, <1>3, SMT
  <2>2. Kept(new, 0)
    BY <1>2, <1>3, <1>5, <2>1 DEF Kept
  <2>3. new.revision # order.revision
    BY <1>3, <1>5
  <2>4. order.remainingExecutionBounty * order.remainingAmountIn \in Int
    BY <1>3, Distributes
  <2> QED
    BY <1>1, <1>5, <1>6, <2>2, <2>3, <2>4 DEF OrderKept, order
<1>10. \A i \in OrderIds : i # id => OrderKept(i)
  BY <1>1, UntouchedKept DEF BookInv, BookTypes
<1>11. NoPreference
  BY <1>1 DEF NoPreference, BookInv, BookTypes
<1> QED
  BY <1>7, <1>8, <1>9, <1>10, <1>11 DEF StepKept

(* increaseExecutionBounty: only the bounty rises.                         *)
LEMMA IncreaseKept ==
  ASSUME BookInv, NEW maker \in Accounts, NEW id \in OrderIds, NEW value \in Values,
         IncreaseExecutionBounty(maker, id, value)
  PROVE  StepKept
<1> DEFINE order == orders[id]
           new == [order EXCEPT !.remainingExecutionBounty = @ + value]
<1>1. /\ orderStatus[id] = "Open" /\ value \in Nat
      /\ orders' = [orders EXCEPT ![id] = new]
      /\ UNCHANGED <<nextOrderId, orderStatus, totalEscrowed, tokenBalance, now, moves, bought>>
  BY LimitOrderBookAssumption DEF IncreaseExecutionBounty, BookInv, BookTypes
<1>2. order \in Order /\ Kept(order, bought[id]) /\ order.remainingAmountIn \in Nat
      /\ order.remainingExecutionBounty \in Nat
  BY <1>1 DEF BookInv, BookTypes, TermsKept, Order
<1>3. /\ new \in Order
      /\ new.tokenIn = order.tokenIn /\ new.recipient = order.recipient
      /\ new.remainingAmountIn = order.remainingAmountIn
      /\ new.priceDenominator = order.priceDenominator
      /\ new.priceNumerator = order.priceNumerator
      /\ new.remainingExecutionBounty = order.remainingExecutionBounty + value
  BY <1>1, <1>2 DEF Order
<1>4. orders'[id] = new
  BY <1>1 DEF BookInv, BookTypes
<1>5. BookTypes'
  BY <1>1, <1>3 DEF BookInv, BookTypes
<1>6. \A i \in OrderIds : i >= nextOrderId' => Unborn(i)'
  BY <1>1 DEF BookInv, BookTypes, Unborn
<1> HIDE DEF new, order
<1>7. OrderKept(id)
  <2>1. Kept(new, bought[id])
    BY <1>2, <1>3 DEF Kept
  <2>2. new.remainingExecutionBounty * order.remainingAmountIn
          >= order.remainingExecutionBounty * order.remainingAmountIn
    <3>1. order.remainingExecutionBounty * order.remainingAmountIn
            <= new.remainingExecutionBounty * order.remainingAmountIn
      BY <1>1, <1>2, <1>3, Grows
    <3>2. order.remainingExecutionBounty * order.remainingAmountIn \in Int
          /\ new.remainingExecutionBounty * order.remainingAmountIn \in Int
      BY <1>1, <1>2, <1>3, Distributes
    <3> QED
      BY <3>1, <3>2
  <2> QED
    BY <1>1, <1>2, <1>3, <1>4, <2>1, <2>2 DEF OrderKept, order, Kept
<1>8. \A i \in OrderIds : i # id => OrderKept(i)
  BY <1>1, UntouchedKept DEF BookInv, BookTypes
<1>9. NoPreference
  BY <1>1 DEF NoPreference, BookInv, BookTypes
<1> QED
  BY <1>5, <1>6, <1>7, <1>8, <1>9 DEF StepKept

(* fillOrder: in whole or in part, the output keeps up with the limit and   *)
(* the bounty with its rate; only the order's own token leaves the book.   *)
LEMMA FillKept ==
  ASSUME BookInv, NEW filler \in Accounts, NEW id \in OrderIds,
         NEW paidProceeds \in BOOLEAN, NEW paidBounty \in BOOLEAN,
         NEW amountOut \in Outputs, NEW amount \in 1 .. orders[id].remainingAmountIn,
         FillOrder(filler, id, amount, amountOut, paidProceeds, paidBounty)
  PROVE  StepKept
<1> DEFINE order == orders[id]
           t == order.tokenIn
           filled == amount = order.remainingAmountIn
           new == IF filled THEN EmptyOrder ELSE AfterFill(order, amount)
           D == order.priceDenominator
           N == order.priceNumerator
           R == order.remainingAmountIn
           B == order.remainingExecutionBounty
           b == bought[id]
<1>1. /\ orderStatus[id] = "Open" /\ EscrowBacked(t)
      /\ amountOut >= MinimumOutput(order, amount)
      /\ orders' = [orders EXCEPT ![id] = new]
      /\ orderStatus' = [orderStatus EXCEPT ![id] = IF filled THEN "Filled" ELSE "Open"]
      /\ bought' = [bought EXCEPT ![id] = @ + amountOut]
      /\ tokenBalance' = [tokenBalance EXCEPT ![t] = @ - amount]
      /\ totalEscrowed' = [totalEscrowed EXCEPT ![t] = @ - amount]
      /\ UNCHANGED <<nextOrderId, now, moves>>
  BY DEF FillOrder
<1>2. /\ order \in Order /\ Kept(order, b) /\ b \in Nat /\ amountOut \in Nat
      /\ R \in Nat /\ B \in Nat /\ D \in Nat /\ N \in Nat /\ t \in Token
  BY <1>1, LimitOrderBookAssumption DEF BookInv, BookTypes, TermsKept, Order, Kept
<1>3. R \in 1 .. D /\ b * D >= (D - R) * N /\ amount \in 1 .. R
  BY <1>2 DEF Kept
<1>4. /\ orders'[id] = new /\ bought'[id] = b + amountOut
      /\ orderStatus'[id] = IF filled THEN "Filled" ELSE "Open"
  BY <1>1 DEF BookInv, BookTypes
<1>5. (b + amountOut) * D >= (D - (R - amount)) * N
  <2>1. amountOut >= MulDivUp(amount, N, D)
    BY <1>1 DEF MinimumOutput
  <2>2. amount \in Nat /\ D \in Nat \ {0}
    BY <1>2, <1>3
  <2> HIDE DEF D, N, R, b
  <2> QED
    BY <1>2, <1>3, <2>1, <2>2, LimitStep
<1>6. ASSUME filled PROVE OrderKept(id) /\ new \in Order
  <2>1. new = EmptyOrder /\ new \in Order /\ new.remainingAmountIn = 0
    BY <1>6, LimitOrderBookAssumption DEF EmptyOrder, Order, Time, SettlementMode
  <2>2. orderStatus'[id] = "Filled"
    BY <1>4, <1>6
  <2>3. (b + amountOut) * D >= D * N
    <3>1. D - (R - amount) = D
      BY <1>2, <1>6
    <3> QED
      BY <1>5, <3>1
  <2>4. bought'[id] * D >= (D - orders'[id].remainingAmountIn) * N
    <3>1. D - orders'[id].remainingAmountIn = D
      BY <1>2, <1>4, <2>1
    <3> QED
      BY <1>4, <2>3, <3>1
  <2>5. OrderKept(id)
    BY <2>2, <2>4 DEF OrderKept
  <2> QED
    BY <2>1, <2>5
<1>7. ASSUME ~filled PROVE OrderKept(id) /\ new \in Order
  <2> DEFINE paid == MulDiv(B, amount, R)
  <2>1. FillBounty(order, amount) = paid
    BY <1>7 DEF FillBounty
  <2>2. paid \in Nat /\ paid <= B /\ (B - paid) * R >= B * (R - amount)
    <3>1. R \in Nat \ {0} /\ amount \in Nat /\ amount <= R
      BY <1>2, <1>3
    <3> HIDE DEF R, B
    <3> QED
      BY <1>2, <3>1, BountyStep
  <2>3. R - amount \in 1 .. D /\ B - paid \in Nat /\ R - amount \in Nat
    BY <1>2, <1>3, <1>7, <2>2
  <2>4. new = [order EXCEPT !.remainingAmountIn = R - amount,
                            !.remainingExecutionBounty = B - paid]
    BY <1>2, <1>7, <2>1 DEF AfterFill, Order
  <2> HIDE DEF paid
  <2>5. /\ new \in Order /\ new.tokenIn = t /\ new.remainingAmountIn = R - amount
        /\ new.remainingExecutionBounty = B - paid
        /\ new.priceDenominator = D /\ new.priceNumerator = N
        /\ new.recipient = order.recipient
    <3>1. new \in Order
      BY <1>2, <2>3, <2>4 DEF Order
    <3> QED
      BY <1>2, <2>4, <3>1 DEF Order
  <2> HIDE DEF new, D, N, R, B, b, t
  <2>6. Kept(new, b + amountOut)
    BY <1>2, <1>5, <2>3, <2>5 DEF Kept
  <2>7. bought'[id] * D >= (D - orders'[id].remainingAmountIn) * N
    BY <1>4, <1>5, <2>5
  <2>8. orders'[id].remainingExecutionBounty * R >= B * orders'[id].remainingAmountIn
    BY <1>4, <2>2, <2>5
  <2>9. OrderKept(id)
    BY <1>4, <2>6, <2>7, <2>8 DEF OrderKept, D, N, R, B
  <2> QED
    BY <2>5, <2>9
<1> HIDE DEF new
<1>8. BookTypes'
  <2>1. bought' \in [OrderIds -> Nat]
    BY <1>1, <1>2 DEF BookInv, BookTypes
  <2>2. orders' \in [OrderIds -> Order]
    BY <1>1, <1>6, <1>7 DEF BookInv, BookTypes
  <2>3. orderStatus' \in [OrderIds -> OrderStatus]
    BY <1>1 DEF BookInv, BookTypes, OrderStatus
  <2>4. tokenBalance' \in [Token -> Int] /\ totalEscrowed' \in [Token -> Int]
    BY <1>1, <1>2 DEF BookInv, BookTypes
  <2> QED
    BY <1>1, <2>1, <2>2, <2>3, <2>4 DEF BookInv, BookTypes
<1>9. id < nextOrderId
  BY <1>1 DEF BookInv, BookTypes, Unborn, OrderIds
<1>10. \A i \in OrderIds : i >= nextOrderId' => Unborn(i)'
  BY <1>1, <1>9 DEF BookInv, BookTypes, Unborn, OrderIds
<1>11. \A i \in OrderIds : i # id => OrderKept(i)
  BY <1>1, UntouchedKept DEF BookInv, BookTypes
<1>12. NoPreference
  BY <1>1 DEF NoPreference, BookInv, BookTypes, EscrowBacked, Backed
<1> QED
  BY <1>6, <1>7, <1>8, <1>10, <1>11, <1>12 DEF StepKept

(* cancelOrder: the order is gone; only its own token leaves the book.      *)
LEMMA CancelKept ==
  ASSUME BookInv, NEW maker \in Accounts, NEW id \in OrderIds,
         NEW paidProceeds \in BOOLEAN, NEW paidBounty \in BOOLEAN,
         CancelOrder(maker, id, paidProceeds, paidBounty)
  PROVE  StepKept
<1> DEFINE order == orders[id]
           t == order.tokenIn
           amount == order.remainingAmountIn
<1>1. /\ orderStatus[id] = "Open" /\ EscrowBacked(t)
      /\ orders' = [orders EXCEPT ![id] = EmptyOrder]
      /\ orderStatus' = [orderStatus EXCEPT ![id] = "Cancelled"]
      /\ tokenBalance' = [tokenBalance EXCEPT ![t] = @ - amount]
      /\ totalEscrowed' = [totalEscrowed EXCEPT ![t] = @ - amount]
      /\ UNCHANGED <<nextOrderId, now, moves, bought>>
  BY DEF CancelOrder
<1>2. amount \in Nat /\ t \in Token
  BY <1>1 DEF BookInv, BookTypes, TermsKept, Kept, Order
<1>3. EmptyOrder \in Order
  BY LimitOrderBookAssumption DEF EmptyOrder, Order, Time, SettlementMode
<1>4. BookTypes'
  BY <1>1, <1>2, <1>3 DEF BookInv, BookTypes, OrderStatus
<1>5. \A i \in OrderIds : i >= nextOrderId' => Unborn(i)'
  BY <1>1 DEF BookInv, BookTypes, Unborn, OrderIds
<1>6. OrderKept(id)
  BY <1>1 DEF OrderKept, BookInv, BookTypes
<1>7. \A i \in OrderIds : i # id => OrderKept(i)
  BY <1>1, UntouchedKept DEF BookInv, BookTypes
<1>8. NoPreference
  BY <1>1 DEF NoPreference, BookInv, BookTypes, EscrowBacked, Backed
<1> QED
  BY <1>4, <1>5, <1>6, <1>7, <1>8 DEF StepKept

(* Claims, sweeps and what happens outside touch no order, and a sweep     *)
(* takes a token only down to its escrow.                                  *)
LEMMA RestKept ==
  ASSUME BookInv,
         \/ \E a \in Accounts : ClaimNativeBounty(a) \/ ClaimNativeProceeds(a)
         \/ \E t \in Token : SweepTokenSurplus(t)
         \/ SweepNativeSurplus
         \/ Environment
  PROVE  StepKept
<1> USE DEF BookInv, BookTypes
<1>1. ASSUME NEW a \in Accounts, ClaimNativeBounty(a) \/ ClaimNativeProceeds(a)
      PROVE  StepKept
  <2>1. UNCHANGED <<orderVars, tokenBalance, now, bought, moves>>
    BY <1>1 DEF ClaimNativeBounty, ClaimNativeProceeds
  <2> QED
    BY <2>1, OrdersUntouched DEF NoPreference
<1>2. ASSUME NEW t \in Token, SweepTokenSurplus(t) PROVE StepKept
  <2>1. UNCHANGED <<orderVars, now, bought, moves>>
        /\ tokenBalance[t] > totalEscrowed[t]
        /\ tokenBalance' = [tokenBalance EXCEPT ![t] = totalEscrowed[t]]
    BY <1>2 DEF SweepTokenSurplus
  <2>2. NoPreference
    BY <2>1 DEF NoPreference
  <2> QED
    BY <2>1, <2>2, OrdersUntouched
<1>3. CASE SweepNativeSurplus
  <2>1. UNCHANGED <<orderVars, tokenBalance, now, bought, moves>>
    BY <1>3 DEF SweepNativeSurplus
  <2> QED
    BY <2>1, OrdersUntouched DEF NoPreference
<1>4. ASSUME NEW t \in Token, NEW amount \in 0 .. TokenSupply, OutsideTokenChange(t, amount)
      PROVE  StepKept
  <2>1. UNCHANGED <<orderVars, now, bought>> /\ moves' = moves + 1
        /\ tokenBalance' = [tokenBalance EXCEPT ![t] = amount]
    BY <1>4 DEF OutsideTokenChange
  <2>2. NoPreference
    BY <2>1 DEF NoPreference
  <2> QED
    BY <2>1, <2>2, OrdersUntouched
<1>5. ASSUME NEW v \in Values, ForcedNative(v) PROVE StepKept
  <2>1. UNCHANGED <<orderVars, tokenBalance, now, bought>> /\ moves' = moves + 1
    BY <1>5 DEF ForcedNative
  <2> QED
    BY <2>1, OrdersUntouched DEF NoPreference
<1>6. CASE Tick
  <2>1. UNCHANGED <<orderVars, tokenBalance, bought, moves>> /\ now' \in Time
    BY <1>6, LimitOrderBookAssumption DEF Tick, Time, balanceVars
  <2> QED
    BY <2>1, OrdersUntouched DEF NoPreference
<1> QED
  BY <1>1, <1>2, <1>3, <1>4, <1>5, <1>6 DEF Environment

(* Every operation keeps the invariant and the promises of a step.         *)
LEMMA BookStep == BookInv /\ [Next]_vars => BookInv' /\ (Next => StepKept)
<1>1. ASSUME BookInv, Next PROVE StepKept
  <2>1. CASE Make
    BY <1>1, <2>1, CreateKept, AmendKept DEF Make
  <2>2. CASE Settle
    BY <1>1, <2>2, FillKept, CancelKept DEF Settle
  <2>3. CASE Fund
    BY <1>1, <2>3, IncreaseKept, RestKept DEF Fund
  <2>4. CASE Environment
    BY <1>1, <2>4, RestKept
  <2> QED
    BY <1>1, <2>1, <2>2, <2>3, <2>4 DEF Next
<1>2. ASSUME StepKept PROVE BookInv'
  BY <1>2 DEF StepKept, BookInv, TermsKept, OrderKept
<1>3. ASSUME BookInv, UNCHANGED vars PROVE BookInv'
  BY <1>3 DEF BookInv, BookTypes, TermsKept, Kept, Unborn, vars, orderVars, balanceVars
<1> QED
  BY <1>1, <1>2, <1>3

-----------------------------------------------------------------------------
(* The ledger: every running total is the sum of what it stands for, a     *)
(* closed order keeps nothing, and nothing is below zero.                  *)

EscrowOf(order, t) == IF order.tokenIn = t THEN order.remainingAmountIn ELSE 0

Escrowed(t) == [id \in OrderIds |-> EscrowOf(orders[id], t)]

Bounties == [id \in OrderIds |-> orders[id].remainingExecutionBounty]

OrdersAddUp ==
    /\ \A t \in Token : AddsUpTo(Escrowed(t), OrderIds, totalEscrowed[t])
    /\ AddsUpTo(Bounties, OrderIds, totalOpenExecutionBounties)

CreditsAddUp ==
    /\ AddsUpTo(claimableNativeBounties, Accounts, totalClaimableNativeBounties)
    /\ AddsUpTo(claimableNativeProceeds, Accounts, totalClaimableNativeProceeds)

ClosedAreEmpty == \A id \in OrderIds : orderStatus[id] # "Open" => orders[id] = EmptyOrder

Ledger == TypeOK /\ ClosedAreEmpty /\ OrdersAddUp /\ CreditsAddUp

(* What a step of the book itself keeps: the part of each asset nobody is  *)
(* owed.                                                                   *)
Moved ==
    /\ \A t \in Token :
           tokenBalance'[t] - totalEscrowed'[t] = tokenBalance[t] - totalEscrowed[t]
    /\ nativeBalance' - NativeLiabilities' = nativeBalance - NativeLiabilities

(* A deleted order is an order of nobody and of no token.                  *)
LEMMA EmptyIsOrder ==
  /\ EmptyOrder \in Order /\ EmptyOrder.remainingExecutionBounty = 0
  /\ \A t \in Token : EscrowOf(EmptyOrder, t) = 0
BY LimitOrderBookAssumption DEF EmptyOrder, Order, Time, SettlementMode, EscrowOf

LEMMA OrderTyped ==
  ASSUME NEW order \in Order
  PROVE  /\ order.remainingExecutionBounty \in Nat
         /\ order.remainingAmountIn \in Nat
         /\ \A t \in Token : EscrowOf(order, t) \in Nat
BY DEF Order, EscrowOf

LEMMA InitLedger == Init => Ledger
<1> SUFFICES ASSUME Init PROVE Ledger
  OBVIOUS
<1>1. TypeOK
  BY EmptyIsOrder, LimitOrderBookAssumption DEF Init, TypeOK, OrderStatus, Time
<1>2. ClosedAreEmpty
  BY DEF Init, ClosedAreEmpty
<1>3. Bounties = [id \in OrderIds |-> 0] /\ \A t \in Token : Escrowed(t) = [id \in OrderIds |-> 0]
  BY EmptyIsOrder DEF Init, Bounties, Escrowed
<1>4. AddsUpTo([id \in OrderIds |-> 0], OrderIds, 0) /\ AddsUpTo([a \in Accounts |-> 0], Accounts, 0)
  BY NothingHeld
<1>5. OrdersAddUp /\ CreditsAddUp
  BY <1>3, <1>4 DEF Init, OrdersAddUp, CreditsAddUp
<1> QED
  BY <1>1, <1>2, <1>5 DEF Ledger

(* When one order changes, the totals that count it change by as much.     *)
LEMMA OrderChanged ==
  ASSUME Ledger, NEW id \in OrderIds, NEW new \in Order,
         orders' = [orders EXCEPT ![id] = new],
         totalEscrowed' = [t \in Token |->
             (totalEscrowed[t] - EscrowOf(orders[id], t)) + EscrowOf(new, t)],
         totalOpenExecutionBounties' =
             (totalOpenExecutionBounties - orders[id].remainingExecutionBounty)
                 + new.remainingExecutionBounty
  PROVE  /\ OrdersAddUp'
         /\ totalEscrowed' \in [Token -> Nat] /\ totalOpenExecutionBounties' \in Nat
         /\ orders' \in [OrderIds -> Order]
         /\ orders[id].remainingExecutionBounty <= totalOpenExecutionBounties
         /\ \A t \in Token : EscrowOf(orders[id], t) <= totalEscrowed[t]
<1>1. /\ orders \in [OrderIds -> Order] /\ totalEscrowed \in [Token -> Nat]
      /\ totalOpenExecutionBounties \in Nat
  BY DEF Ledger, TypeOK
<1>2. orders' \in [OrderIds -> Order] /\ orders'[id] = new
      /\ \A i \in OrderIds : i # id => orders'[i] = orders[i]
  BY <1>1
<1>3. Bounties \in [OrderIds -> Nat] /\ Bounties' \in [OrderIds -> Nat]
      /\ Bounties[id] = orders[id].remainingExecutionBounty
      /\ Bounties'[id] = new.remainingExecutionBounty
      /\ \A i \in OrderIds : i # id => Bounties'[i] = Bounties[i]
  BY <1>1, <1>2, OrderTyped DEF Bounties
<1>4. /\ totalOpenExecutionBounties' \in Nat
      /\ AddsUpTo(Bounties', OrderIds, totalOpenExecutionBounties')
      /\ Bounties[id] <= totalOpenExecutionBounties
  <2>1. AddsUpTo(Bounties, OrderIds, totalOpenExecutionBounties)
    BY DEF Ledger, OrdersAddUp
  <2> DEFINE f == Bounties
             g == Bounties'
  <2> HIDE DEF f, g
  <2>2. f \in [OrderIds -> Nat] /\ g \in [OrderIds -> Nat]
        /\ (\A i \in OrderIds : i # id => g[i] = f[i])
        /\ AddsUpTo(f, OrderIds, totalOpenExecutionBounties)
    BY <1>3, <2>1 DEF f, g
  <2>3. /\ (totalOpenExecutionBounties - f[id]) + g[id] \in Nat
        /\ AddsUpTo(g, OrderIds, (totalOpenExecutionBounties - f[id]) + g[id])
        /\ f[id] <= totalOpenExecutionBounties
    BY <1>1, <2>2, ChangeTotal, PartOfTotal
  <2> QED
    BY <1>3, <2>3 DEF f, g
<1>5. ASSUME NEW t \in Token
      PROVE  /\ totalEscrowed'[t] \in Nat
             /\ AddsUpTo(Escrowed(t)', OrderIds, totalEscrowed'[t])
             /\ EscrowOf(orders[id], t) <= totalEscrowed[t]
  <2> DEFINE f == Escrowed(t)
             g == Escrowed(t)'
  <2>1. f \in [OrderIds -> Nat] /\ g \in [OrderIds -> Nat]
        /\ (\A i \in OrderIds : i # id => g[i] = f[i])
        /\ f[id] = EscrowOf(orders[id], t) /\ g[id] = EscrowOf(new, t)
    BY <1>1, <1>2, OrderTyped DEF Escrowed
  <2>2. AddsUpTo(f, OrderIds, totalEscrowed[t]) /\ totalEscrowed[t] \in Nat
    BY <1>1 DEF Ledger, OrdersAddUp
  <2>3. totalEscrowed'[t] = (totalEscrowed[t] - f[id]) + g[id]
    BY <2>1
  <2> HIDE DEF f, g
  <2>4. /\ (totalEscrowed[t] - f[id]) + g[id] \in Nat
        /\ AddsUpTo(g, OrderIds, (totalEscrowed[t] - f[id]) + g[id])
        /\ f[id] <= totalEscrowed[t]
    BY <2>1, <2>2, ChangeTotal, PartOfTotal
  <2> QED
    BY <2>1, <2>3, <2>4 DEF g
<1>6. totalEscrowed' \in [Token -> Nat]
  BY <1>5
<1>7. OrdersAddUp'
  BY <1>4, <1>5 DEF OrdersAddUp
<1> QED
  BY <1>2, <1>3, <1>4, <1>5, <1>6, <1>7

(* A step that changes nothing the totals count. *)
LEMMA OrdersStay ==
  ASSUME Ledger, UNCHANGED <<orders, orderStatus, totalEscrowed, totalOpenExecutionBounties>>
  PROVE  OrdersAddUp' /\ ClosedAreEmpty'
<1>1. Bounties' = Bounties /\ \A t \in Token : Escrowed(t)' = Escrowed(t)
  BY DEF Bounties, Escrowed
<1> QED
  BY <1>1 DEF Ledger, OrdersAddUp, ClosedAreEmpty

LEMMA CreditsStay ==
  ASSUME Ledger, UNCHANGED <<bountyVars, proceedsVars>>
  PROVE  /\ CreditsAddUp'
         /\ claimableNativeBounties' \in [Accounts -> Nat]
         /\ claimableNativeProceeds' \in [Accounts -> Nat]
         /\ totalClaimableNativeBounties' \in Nat
         /\ totalClaimableNativeProceeds' \in Nat
BY DEF Ledger, TypeOK, CreditsAddUp, bountyVars, proceedsVars

(* A push that may be rejected: the credit and its total move together.    *)
LEMMA BountyCredited ==
  ASSUME Ledger, NEW a \in Accounts, NEW amount \in Nat, NEW paid \in BOOLEAN,
         CreditBounty(a, amount, paid)
  PROVE  /\ AddsUpTo(claimableNativeBounties', Accounts, totalClaimableNativeBounties')
         /\ claimableNativeBounties' \in [Accounts -> Nat]
         /\ totalClaimableNativeBounties' \in Nat
         /\ totalClaimableNativeBounties'
              = totalClaimableNativeBounties + Unpaid(amount, paid)
         /\ Unpaid(amount, paid) \in Nat /\ Unpaid(amount, paid) <= amount
<1> DEFINE left == Unpaid(amount, paid)
<1>1. left \in Nat /\ left <= amount
  BY DEF Unpaid
<1>2. /\ claimableNativeBounties \in [Accounts -> Nat] /\ totalClaimableNativeBounties \in Nat
      /\ AddsUpTo(claimableNativeBounties, Accounts, totalClaimableNativeBounties)
  BY DEF Ledger, TypeOK, CreditsAddUp
<1>3. /\ claimableNativeBounties' = [claimableNativeBounties EXCEPT ![a] = @ + left]
      /\ totalClaimableNativeBounties' = totalClaimableNativeBounties + left
  BY DEF CreditBounty
<1> HIDE DEF left
<1>4. AddsUpTo([claimableNativeBounties EXCEPT ![a] = @ + left], Accounts,
               totalClaimableNativeBounties + left)
  BY <1>1, <1>2, RaiseTotal
<1> QED
  BY <1>1, <1>2, <1>3, <1>4 DEF left

LEMMA ProceedsCredited ==
  ASSUME Ledger, NEW a \in Accounts, NEW amount \in Nat, NEW paid \in BOOLEAN,
         CreditProceeds(a, amount, paid)
  PROVE  /\ AddsUpTo(claimableNativeProceeds', Accounts, totalClaimableNativeProceeds')
         /\ claimableNativeProceeds' \in [Accounts -> Nat]
         /\ totalClaimableNativeProceeds' \in Nat
         /\ totalClaimableNativeProceeds'
              = totalClaimableNativeProceeds + Unpaid(amount, paid)
         /\ Unpaid(amount, paid) \in Nat
<1> DEFINE left == Unpaid(amount, paid)
<1>1. left \in Nat
  BY DEF Unpaid
<1>2. /\ claimableNativeProceeds \in [Accounts -> Nat] /\ totalClaimableNativeProceeds \in Nat
      /\ AddsUpTo(claimableNativeProceeds, Accounts, totalClaimableNativeProceeds)
  BY DEF Ledger, TypeOK, CreditsAddUp
<1>3. /\ claimableNativeProceeds' = [claimableNativeProceeds EXCEPT ![a] = @ + left]
      /\ totalClaimableNativeProceeds' = totalClaimableNativeProceeds + left
  BY DEF CreditProceeds
<1> HIDE DEF left
<1>4. AddsUpTo([claimableNativeProceeds EXCEPT ![a] = @ + left], Accounts,
               totalClaimableNativeProceeds + left)
  BY <1>1, <1>2, RaiseTotal
<1> QED
  BY <1>1, <1>2, <1>3, <1>4 DEF left

(* Native liabilities that are backed at the end of a step leave a balance. *)
LEMMA BackedIsNatural ==
  ASSUME nativeBalance' \in Int, RequireNativeLiabilitiesBacked,
         totalOpenExecutionBounties' \in Nat, totalClaimableNativeBounties' \in Nat,
         totalClaimableNativeProceeds' \in Nat
  PROVE  nativeBalance' \in Nat
<1>1. nativeBalance' >= totalOpenExecutionBounties' + totalClaimableNativeBounties'
                            + totalClaimableNativeProceeds'
  BY DEF RequireNativeLiabilitiesBacked, NativeLiabilities
<1>2. \A n \in Int, a \in Nat, b \in Nat, c \in Nat : n >= a + b + c => n \in Nat
  OBVIOUS
<1> QED
  BY <1>1, <1>2

-----------------------------------------------------------------------------
(* The operations keep the ledger, and move what is held with what is owed. *)

LEMMA CreateMoves ==
  ASSUME BookInv, BookTypes', Ledger, NEW maker \in Accounts, NEW terms \in Terms,
         NEW mode \in SettlementMode, NEW t \in Token, NEW amount \in Amounts,
         NEW value \in Values, CreateOrder(maker, mode, t, amount, terms, value)
  PROVE  Ledger' /\ Moved
<1> DEFINE id == nextOrderId
           new == [maker |-> maker, recipient |-> terms.recipient, tokenIn |-> t,
                   remainingAmountIn |-> amount, priceNumerator |-> terms.minAmountOut,
                   priceDenominator |-> amount,
                   minimumFillAmount |-> MinimumFill(amount, terms),
                   remainingExecutionBounty |-> value,
                   expiry |-> terms.expiry, revision |-> 0,
                   allowPartialFills |-> terms.allowPartialFills,
                   settlementMode |-> mode]
<1> USE LimitOrderBookAssumption
<1>1. /\ id \in OrderIds /\ amount \in Nat /\ value \in Nat
      /\ orders' = [orders EXCEPT ![id] = new]
      /\ orderStatus' = [orderStatus EXCEPT ![id] = "Open"]
      /\ tokenBalance' = [tokenBalance EXCEPT ![t] = @ + amount]
      /\ totalEscrowed' = [totalEscrowed EXCEPT ![t] = @ + amount]
      /\ nativeBalance' = nativeBalance + value
      /\ totalOpenExecutionBounties' = totalOpenExecutionBounties + value
      /\ UNCHANGED <<bountyVars, proceedsVars>>
  BY DEF CreateOrder
<1>2. /\ orders \in [OrderIds -> Order] /\ tokenBalance \in [Token -> Nat]
      /\ totalEscrowed \in [Token -> Nat] /\ totalOpenExecutionBounties \in Nat
      /\ nativeBalance \in Nat /\ orderStatus \in [OrderIds -> OrderStatus]
  BY DEF Ledger, TypeOK
<1>3. orders[id] = EmptyOrder
  <2>1. orderStatus[id] = "None"
    BY <1>1 DEF BookInv, Unborn, BookTypes
  <2> QED
    BY <1>1, <2>1 DEF Ledger, ClosedAreEmpty
<1>4. new \in Order
  <2>1. orders'[id] = new
    BY <1>1, <1>2
  <2> HIDE DEF new
  <2> QED
    BY <1>1, <2>1 DEF BookTypes
<1>5. /\ EscrowOf(new, t) = amount /\ new.remainingExecutionBounty = value
      /\ \A x \in Token \ {t} : EscrowOf(new, x) = 0
  BY DEF EscrowOf
<1> HIDE DEF new
<1>6. totalEscrowed' = [x \in Token |->
          (totalEscrowed[x] - EscrowOf(orders[id], x)) + EscrowOf(new, x)]
  <2>1. \A x \in Token :
          totalEscrowed'[x] = (totalEscrowed[x] - EscrowOf(orders[id], x)) + EscrowOf(new, x)
    BY <1>1, <1>2, <1>3, <1>5, EmptyIsOrder
  <2>2. DOMAIN totalEscrowed' = Token /\ totalEscrowed' = [x \in Token |-> totalEscrowed'[x]]
    BY <1>1, <1>2
  <2> QED
    BY <2>1, <2>2
<1>7. totalOpenExecutionBounties' =
          (totalOpenExecutionBounties - orders[id].remainingExecutionBounty)
              + new.remainingExecutionBounty
  BY <1>1, <1>2, <1>3, <1>5, EmptyIsOrder
<1>8. OrdersAddUp' /\ totalEscrowed' \in [Token -> Nat] /\ totalOpenExecutionBounties' \in Nat
  BY <1>1, <1>4, <1>6, <1>7, OrderChanged
<1>9. /\ CreditsAddUp'
      /\ claimableNativeBounties' \in [Accounts -> Nat]
      /\ claimableNativeProceeds' \in [Accounts -> Nat]
      /\ totalClaimableNativeBounties' \in Nat /\ totalClaimableNativeProceeds' \in Nat
  BY <1>1, CreditsStay
<1>10. tokenBalance' \in [Token -> Nat] /\ nativeBalance' \in Nat
  BY <1>1, <1>2
<1>11. ClosedAreEmpty'
  BY <1>1, <1>2 DEF Ledger, ClosedAreEmpty
<1>12. TypeOK'
  BY <1>8, <1>9, <1>10 DEF TypeOK, BookTypes
<1>13. Moved
  BY <1>1, <1>2 DEF Moved, NativeLiabilities, bountyVars, proceedsVars, Ledger, TypeOK
<1> QED
  BY <1>8, <1>9, <1>11, <1>12, <1>13 DEF Ledger

(* An amendment counts the same; a raised bounty counts what was sent.     *)
LEMMA AmendMoves ==
  ASSUME BookInv, BookTypes', Ledger, NEW maker \in Accounts, NEW terms \in Terms,
         NEW id \in OrderIds, AmendOrder(maker, id, terms)
  PROVE  Ledger' /\ Moved
<1> DEFINE order == orders[id]
           new == [order EXCEPT
                   !.recipient = terms.recipient,
                   !.priceNumerator = terms.minAmountOut,
                   !.priceDenominator = order.remainingAmountIn,
                   !.expiry = terms.expiry,
                   !.allowPartialFills = terms.allowPartialFills,
                   !.minimumFillAmount = MinimumFill(order.remainingAmountIn, terms),
                   !.revision = @ + 1]
<1>1. /\ orderStatus[id] = "Open"
      /\ orders' = [orders EXCEPT ![id] = new]
      /\ UNCHANGED <<orderStatus, totalEscrowed, totalOpenExecutionBounties, bountyVars,
                     proceedsVars, balanceVars>>
  BY DEF AmendOrder
<1>2. /\ orders \in [OrderIds -> Order] /\ tokenBalance \in [Token -> Nat]
      /\ totalEscrowed \in [Token -> Nat] /\ totalOpenExecutionBounties \in Nat
      /\ nativeBalance \in Nat
  BY DEF Ledger, TypeOK
<1>3. new \in Order
  <2>1. orders'[id] = new
    BY <1>1, <1>2
  <2> HIDE DEF new
  <2> QED
    BY <2>1 DEF BookTypes
<1>4. /\ new.remainingExecutionBounty = order.remainingExecutionBounty
      /\ new.tokenIn = order.tokenIn /\ new.remainingAmountIn = order.remainingAmountIn
  BY <1>2 DEF Order
<1>5. /\ order.remainingExecutionBounty \in Nat
      /\ \A t \in Token : EscrowOf(new, t) = EscrowOf(order, t) /\ EscrowOf(order, t) \in Nat
  BY <1>2, <1>4, OrderTyped DEF EscrowOf
<1> HIDE DEF new
<1>6. totalEscrowed' = [t \in Token |->
          (totalEscrowed[t] - EscrowOf(order, t)) + EscrowOf(new, t)]
  <2>1. \A t \in Token :
          totalEscrowed'[t] = (totalEscrowed[t] - EscrowOf(order, t)) + EscrowOf(new, t)
    BY <1>1, <1>2, <1>5
  <2>2. totalEscrowed' = [t \in Token |-> totalEscrowed'[t]]
    BY <1>1, <1>2
  <2> QED
    BY <2>1, <2>2
<1>7. totalOpenExecutionBounties' =
          (totalOpenExecutionBounties - order.remainingExecutionBounty)
              + new.remainingExecutionBounty
  BY <1>1, <1>2, <1>4, <1>5
<1>8. OrdersAddUp' /\ totalEscrowed' \in [Token -> Nat] /\ totalOpenExecutionBounties' \in Nat
  BY <1>1, <1>3, <1>6, <1>7, OrderChanged
<1>9. /\ CreditsAddUp'
      /\ claimableNativeBounties' \in [Accounts -> Nat]
      /\ claimableNativeProceeds' \in [Accounts -> Nat]
      /\ totalClaimableNativeBounties' \in Nat /\ totalClaimableNativeProceeds' \in Nat
  BY <1>1, CreditsStay
<1>10. tokenBalance' \in [Token -> Nat] /\ nativeBalance' \in Nat
  BY <1>1, <1>2 DEF balanceVars
<1>11. ClosedAreEmpty'
  BY <1>1, <1>2 DEF Ledger, ClosedAreEmpty
<1>12. TypeOK'
  BY <1>8, <1>9, <1>10 DEF TypeOK, BookTypes
<1>13. Moved
  BY <1>1, <1>2 DEF Moved, NativeLiabilities, bountyVars, proceedsVars, balanceVars
<1> QED
  BY <1>8, <1>9, <1>11, <1>12, <1>13 DEF Ledger

LEMMA IncreaseMoves ==
  ASSUME BookInv, BookTypes', Ledger, NEW maker \in Accounts, NEW id \in OrderIds,
         NEW value \in Values, IncreaseExecutionBounty(maker, id, value)
  PROVE  Ledger' /\ Moved
<1> DEFINE order == orders[id]
           new == [order EXCEPT !.remainingExecutionBounty = @ + value]
<1>1. /\ orderStatus[id] = "Open" /\ value \in Nat
      /\ orders' = [orders EXCEPT ![id] = new]
      /\ totalOpenExecutionBounties' = totalOpenExecutionBounties + value
      /\ nativeBalance' = nativeBalance + value
      /\ UNCHANGED <<orderStatus, totalEscrowed, bountyVars, proceedsVars, tokenBalance>>
  BY LimitOrderBookAssumption DEF IncreaseExecutionBounty, Ledger, TypeOK
<1>2. /\ orders \in [OrderIds -> Order] /\ tokenBalance \in [Token -> Nat]
      /\ totalEscrowed \in [Token -> Nat] /\ totalOpenExecutionBounties \in Nat
      /\ nativeBalance \in Nat
  BY DEF Ledger, TypeOK
<1>3. new \in Order
  <2>1. orders'[id] = new
    BY <1>1, <1>2
  <2> HIDE DEF new
  <2> QED
    BY <2>1 DEF BookTypes
<1>4. /\ new.remainingExecutionBounty = order.remainingExecutionBounty + value
      /\ new.tokenIn = order.tokenIn /\ new.remainingAmountIn = order.remainingAmountIn
  BY <1>2 DEF Order
<1>5. /\ order.remainingExecutionBounty \in Nat
      /\ \A t \in Token : EscrowOf(new, t) = EscrowOf(order, t) /\ EscrowOf(order, t) \in Nat
  BY <1>2, <1>4, OrderTyped DEF EscrowOf
<1> HIDE DEF new
<1>6. totalEscrowed' = [t \in Token |->
          (totalEscrowed[t] - EscrowOf(order, t)) + EscrowOf(new, t)]
  <2>1. \A t \in Token :
          totalEscrowed'[t] = (totalEscrowed[t] - EscrowOf(order, t)) + EscrowOf(new, t)
    BY <1>1, <1>2, <1>5
  <2>2. totalEscrowed' = [t \in Token |-> totalEscrowed'[t]]
    BY <1>1, <1>2
  <2> QED
    BY <2>1, <2>2
<1>7. totalOpenExecutionBounties' =
          (totalOpenExecutionBounties - order.remainingExecutionBounty)
              + new.remainingExecutionBounty
  BY <1>1, <1>2, <1>4, <1>5
<1>8. OrdersAddUp' /\ totalEscrowed' \in [Token -> Nat] /\ totalOpenExecutionBounties' \in Nat
  BY <1>1, <1>3, <1>6, <1>7, OrderChanged
<1>9. /\ CreditsAddUp'
      /\ claimableNativeBounties' \in [Accounts -> Nat]
      /\ claimableNativeProceeds' \in [Accounts -> Nat]
      /\ totalClaimableNativeBounties' \in Nat /\ totalClaimableNativeProceeds' \in Nat
  BY <1>1, CreditsStay
<1>10. tokenBalance' \in [Token -> Nat] /\ nativeBalance' \in Nat
  BY <1>1, <1>2
<1>11. ClosedAreEmpty'
  BY <1>1, <1>2 DEF Ledger, ClosedAreEmpty
<1>12. TypeOK'
  BY <1>8, <1>9, <1>10 DEF TypeOK, BookTypes
<1>13. Moved
  BY <1>1, <1>2 DEF Moved, NativeLiabilities, bountyVars, proceedsVars, Ledger, TypeOK
<1> QED
  BY <1>8, <1>9, <1>11, <1>12, <1>13 DEF Ledger

(* A fill and a cancellation release amount of the order's token and       *)
(* bounty of its bounty, delete the order or keep the rest of it, and pay  *)
(* or credit the proceeds to who and the bounty to filler.                 *)
Released(id, new, amount, bounty, proceeds, who, filler, paid) ==
    /\ orderStatus[id] = "Open"
    /\ EscrowBacked(orders[id].tokenIn)
    /\ orders' = [orders EXCEPT ![id] = new]
    /\ \/ new = EmptyOrder /\ amount = orders[id].remainingAmountIn
                /\ bounty = orders[id].remainingExecutionBounty
                /\ orderStatus'[id] # "Open"
       \/ new.tokenIn = orders[id].tokenIn
                /\ new.remainingAmountIn = orders[id].remainingAmountIn - amount
                /\ new.remainingExecutionBounty = orders[id].remainingExecutionBounty - bounty
                /\ orderStatus'[id] = "Open"
    /\ \A i \in OrderIds : i # id => orderStatus'[i] = orderStatus[i]
    /\ totalEscrowed' = [totalEscrowed EXCEPT ![orders[id].tokenIn] = @ - amount]
    /\ totalOpenExecutionBounties' = totalOpenExecutionBounties - bounty
    /\ tokenBalance' = [tokenBalance EXCEPT ![orders[id].tokenIn] = @ - amount]
    /\ nativeBalance' = nativeBalance + proceeds - (bounty - Unpaid(bounty, paid))
    /\ \/ UNCHANGED proceedsVars /\ proceeds = 0
       \/ \E sum \in Nat, push \in BOOLEAN :
              CreditProceeds(who, sum, push) /\ proceeds = Unpaid(sum, push)
    /\ CreditBounty(filler, bounty, paid)
    /\ RequireNativeLiabilitiesBacked

LEMMA ReleaseMoves ==
  ASSUME BookInv, BookTypes', Ledger, NEW id \in OrderIds, NEW new \in Order,
         NEW amount \in Nat, NEW bounty \in Nat, NEW proceeds \in Nat,
         NEW who \in Accounts, NEW filler \in Accounts, NEW paid \in BOOLEAN,
         amount <= orders[id].remainingAmountIn,
         Released(id, new, amount, bounty, proceeds, who, filler, paid)
  PROVE  Ledger' /\ Moved
<1> USE DEF Released
<1> DEFINE order == orders[id]
           t == order.tokenIn
<1>1. /\ orders \in [OrderIds -> Order] /\ tokenBalance \in [Token -> Nat]
      /\ totalEscrowed \in [Token -> Nat] /\ totalOpenExecutionBounties \in Nat
      /\ nativeBalance \in Nat /\ totalClaimableNativeBounties \in Nat
      /\ totalClaimableNativeProceeds \in Nat
  BY DEF Ledger, TypeOK
<1>2. order \in Order /\ t \in Token
  BY <1>1 DEF BookInv, TermsKept, Kept
<1>3. /\ order.remainingExecutionBounty \in Nat /\ order.remainingAmountIn \in Nat
      /\ new.remainingExecutionBounty \in Nat /\ new.remainingAmountIn \in Nat
  BY <1>2, OrderTyped
<1>4. /\ EscrowOf(order, t) = order.remainingAmountIn
      /\ EscrowOf(new, t) = order.remainingAmountIn - amount
      /\ \A x \in Token \ {t} : EscrowOf(order, x) = 0 /\ EscrowOf(new, x) = 0
      /\ new.remainingExecutionBounty = order.remainingExecutionBounty - bounty
  <2>1. CASE new = EmptyOrder /\ amount = order.remainingAmountIn
                /\ bounty = order.remainingExecutionBounty
    BY <1>2, <1>3, <2>1, EmptyIsOrder DEF EscrowOf
  <2>2. CASE new.tokenIn = order.tokenIn
                /\ new.remainingAmountIn = order.remainingAmountIn - amount
                /\ new.remainingExecutionBounty = order.remainingExecutionBounty - bounty
    BY <1>2, <1>3, <2>2 DEF EscrowOf
  <2> QED
    BY <2>1, <2>2
<1>5. totalEscrowed' = [x \in Token |->
          (totalEscrowed[x] - EscrowOf(order, x)) + EscrowOf(new, x)]
  <2>1. \A x \in Token :
          totalEscrowed'[x] = (totalEscrowed[x] - EscrowOf(order, x)) + EscrowOf(new, x)
    BY <1>1, <1>2, <1>3, <1>4
  <2>2. totalEscrowed' = [x \in Token |-> totalEscrowed'[x]]
    BY <1>1, <1>2
  <2> QED
    BY <2>1, <2>2
<1>6. totalOpenExecutionBounties' =
          (totalOpenExecutionBounties - order.remainingExecutionBounty)
              + new.remainingExecutionBounty
  BY <1>1, <1>3, <1>4
<1>7. /\ OrdersAddUp' /\ totalEscrowed' \in [Token -> Nat]
      /\ totalOpenExecutionBounties' \in Nat
      /\ EscrowOf(order, t) <= totalEscrowed[t]
  BY <1>2, <1>5, <1>6, OrderChanged
<1>8. tokenBalance' \in [Token -> Nat]
  <2>1. tokenBalance[t] - amount \in Nat
    BY <1>1, <1>2, <1>3, <1>4, <1>7 DEF EscrowBacked, Backed
  <2> QED
    BY <1>1, <1>2, <2>1
<1>9. /\ AddsUpTo(claimableNativeBounties', Accounts, totalClaimableNativeBounties')
      /\ claimableNativeBounties' \in [Accounts -> Nat]
      /\ totalClaimableNativeBounties' \in Nat
      /\ totalClaimableNativeBounties' = totalClaimableNativeBounties + Unpaid(bounty, paid)
      /\ Unpaid(bounty, paid) \in Nat
  BY BountyCredited
<1>10. /\ AddsUpTo(claimableNativeProceeds', Accounts, totalClaimableNativeProceeds')
       /\ claimableNativeProceeds' \in [Accounts -> Nat]
       /\ totalClaimableNativeProceeds' \in Nat
       /\ totalClaimableNativeProceeds' = totalClaimableNativeProceeds + proceeds
  <2>1. CASE UNCHANGED proceedsVars /\ proceeds = 0
    BY <1>1, <2>1 DEF Ledger, TypeOK, CreditsAddUp, proceedsVars
  <2>2. ASSUME NEW sum \in Nat, NEW push \in BOOLEAN,
               CreditProceeds(who, sum, push), proceeds = Unpaid(sum, push)
        PROVE  /\ AddsUpTo(claimableNativeProceeds', Accounts, totalClaimableNativeProceeds')
               /\ claimableNativeProceeds' \in [Accounts -> Nat]
               /\ totalClaimableNativeProceeds' \in Nat
               /\ totalClaimableNativeProceeds' = totalClaimableNativeProceeds + proceeds
    BY <2>2, ProceedsCredited
  <2> QED
    BY <2>1, <2>2
<1>11. nativeBalance' \in Nat
  BY <1>1, <1>7, <1>9, <1>10, BackedIsNatural
<1>12. ClosedAreEmpty'
  <2>1. \A i \in OrderIds : i # id => orders'[i] = orders[i]
    BY <1>1
  <2>2. orders'[id] = new
    BY <1>1
  <2> QED
    BY <2>1, <2>2 DEF Ledger, ClosedAreEmpty
<1>13. TypeOK'
  BY <1>7, <1>8, <1>9, <1>10, <1>11 DEF TypeOK, BookTypes
<1>14. Moved
  <2>1. \A x \in Token :
          tokenBalance'[x] - totalEscrowed'[x] = tokenBalance[x] - totalEscrowed[x]
    BY <1>1, <1>2
  <2>2. nativeBalance' - NativeLiabilities' = nativeBalance - NativeLiabilities
    BY <1>1, <1>9, <1>10 DEF NativeLiabilities
  <2> QED
    BY <2>1, <2>2 DEF Moved
<1> QED
  BY <1>7, <1>9, <1>10, <1>12, <1>13, <1>14 DEF Ledger, CreditsAddUp

LEMMA FillMoves ==
  ASSUME BookInv, BookTypes', Ledger, NEW filler \in Accounts, NEW id \in OrderIds,
         NEW paidProceeds \in BOOLEAN, NEW paidBounty \in BOOLEAN,
         NEW amountOut \in Outputs, NEW amount \in 1 .. orders[id].remainingAmountIn,
         FillOrder(filler, id, amount, amountOut, paidProceeds, paidBounty)
  PROVE  Ledger' /\ Moved
<1> DEFINE order == orders[id]
           t == order.tokenIn
           filled == amount = order.remainingAmountIn
           new == IF filled THEN EmptyOrder ELSE AfterFill(order, amount)
           bounty == FillBounty(order, amount)
           native == order.settlementMode = "NativeOutput"
           proceeds == IF native THEN Unpaid(amountOut, paidProceeds) ELSE 0
<1>1. /\ orderStatus[id] = "Open" /\ EscrowBacked(t)
      /\ orders' = [orders EXCEPT ![id] = new]
      /\ orderStatus' = [orderStatus EXCEPT ![id] = IF filled THEN "Filled" ELSE "Open"]
      /\ totalEscrowed' = [totalEscrowed EXCEPT ![t] = @ - amount]
      /\ totalOpenExecutionBounties' = totalOpenExecutionBounties - bounty
      /\ tokenBalance' = [tokenBalance EXCEPT ![t] = @ - amount]
      /\ nativeBalance' = nativeBalance + proceeds - (bounty - Unpaid(bounty, paidBounty))
      /\ CreditBounty(filler, bounty, paidBounty)
      /\ RequireNativeLiabilitiesBacked
  BY DEF FillOrder
<1>2. IF native THEN CreditProceeds(order.recipient, amountOut, paidProceeds)
                ELSE UNCHANGED proceedsVars
  BY DEF FillOrder
<1>3. /\ order \in Order /\ order.tokenIn \in Token /\ orderStatus \in [OrderIds -> OrderStatus]
      /\ orders \in [OrderIds -> Order]
  BY <1>1 DEF BookInv, BookTypes, TermsKept, Kept
<1>4. /\ order.remainingExecutionBounty \in Nat /\ order.remainingAmountIn \in Nat
      /\ amount \in Nat /\ amount >= 1 /\ amount <= order.remainingAmountIn
  BY <1>3, OrderTyped
<1>5. bounty \in Nat /\ bounty <= order.remainingExecutionBounty
  <2>1. CASE filled
    BY <1>4, <2>1 DEF FillBounty
  <2>2. CASE ~filled
    <3>1. bounty = MulDiv(order.remainingExecutionBounty, amount, order.remainingAmountIn)
      BY <2>2 DEF FillBounty
    <3>2. order.remainingAmountIn \in Nat \ {0}
      BY <1>4
    <3> QED
      BY <1>4, <3>1, <3>2, BountyStep
  <2> QED
    BY <2>1, <2>2
<1> HIDE DEF bounty
<1>6. /\ filled => bounty = order.remainingExecutionBounty
      /\ ~filled => /\ new.tokenIn = t /\ new.remainingAmountIn = order.remainingAmountIn - amount
                    /\ new.remainingExecutionBounty = order.remainingExecutionBounty - bounty
  BY <1>3, <1>4 DEF bounty, FillBounty, AfterFill, Order
<1>7. new \in Order
  <2>1. orders'[id] = new
    BY <1>1, <1>3
  <2> HIDE DEF new
  <2> QED
    BY <2>1 DEF BookTypes
<1>8. order.recipient \in Accounts \cup {Zero} /\ amountOut \in Nat
  BY <1>3, LimitOrderBookAssumption DEF Order
<1>9. order.recipient \in Accounts
  BY <1>1 DEF BookInv, TermsKept, Kept
<1>10. proceeds \in Nat
  BY <1>8 DEF Unpaid
<1>11. \/ UNCHANGED proceedsVars /\ proceeds = 0
       \/ \E sum \in Nat, push \in BOOLEAN :
              CreditProceeds(order.recipient, sum, push) /\ proceeds = Unpaid(sum, push)
  BY <1>2, <1>8
<1>12. \/ new = EmptyOrder /\ amount = order.remainingAmountIn
               /\ bounty = order.remainingExecutionBounty /\ orderStatus'[id] # "Open"
       \/ new.tokenIn = order.tokenIn
               /\ new.remainingAmountIn = order.remainingAmountIn - amount
               /\ new.remainingExecutionBounty = order.remainingExecutionBounty - bounty
               /\ orderStatus'[id] = "Open"
  BY <1>1, <1>3, <1>6
<1>13. \A i \in OrderIds : i # id => orderStatus'[i] = orderStatus[i]
  BY <1>1, <1>3
<1> HIDE DEF new, proceeds, filled
<1>14. Released(id, new, amount, bounty, proceeds, order.recipient, filler, paidBounty)
  BY <1>1, <1>11, <1>12, <1>13 DEF Released
<1> QED
  BY <1>4, <1>5, <1>7, <1>9, <1>10, <1>14, ReleaseMoves

LEMMA CancelMoves ==
  ASSUME BookInv, BookTypes', Ledger, NEW maker \in Accounts, NEW id \in OrderIds,
         NEW paidProceeds \in BOOLEAN, NEW paidBounty \in BOOLEAN,
         CancelOrder(maker, id, paidProceeds, paidBounty)
  PROVE  Ledger' /\ Moved
<1> DEFINE order == orders[id]
           amount == order.remainingAmountIn
           bounty == order.remainingExecutionBounty
           native == order.settlementMode = "NativeInput"
           proceeds == IF native THEN Unpaid(amount, paidProceeds) ELSE 0
<1>1. /\ orderStatus[id] = "Open" /\ EscrowBacked(order.tokenIn)
      /\ orders' = [orders EXCEPT ![id] = EmptyOrder]
      /\ orderStatus' = [orderStatus EXCEPT ![id] = "Cancelled"]
      /\ totalEscrowed' = [totalEscrowed EXCEPT ![order.tokenIn] = @ - amount]
      /\ totalOpenExecutionBounties' = totalOpenExecutionBounties - bounty
      /\ tokenBalance' = [tokenBalance EXCEPT ![order.tokenIn] = @ - amount]
      /\ nativeBalance' = nativeBalance + proceeds - (bounty - Unpaid(bounty, paidBounty))
      /\ CreditBounty(maker, bounty, paidBounty)
      /\ RequireNativeLiabilitiesBacked
  BY DEF CancelOrder
<1>2. IF native THEN CreditProceeds(maker, amount, paidProceeds) ELSE UNCHANGED proceedsVars
  BY DEF CancelOrder
<1>3. order \in Order /\ orderStatus \in [OrderIds -> OrderStatus]
  BY DEF BookInv, BookTypes
<1>4. bounty \in Nat /\ amount \in Nat /\ amount <= amount
  BY <1>3, OrderTyped
<1>5. proceeds \in Nat
  BY <1>4 DEF Unpaid
<1>6. \/ UNCHANGED proceedsVars /\ proceeds = 0
      \/ \E sum \in Nat, push \in BOOLEAN :
             CreditProceeds(maker, sum, push) /\ proceeds = Unpaid(sum, push)
  BY <1>2, <1>4
<1>7. orderStatus'[id] # "Open" /\ \A i \in OrderIds : i # id => orderStatus'[i] = orderStatus[i]
  BY <1>1, <1>3
<1> HIDE DEF proceeds, native
<1>8. Released(id, EmptyOrder, amount, bounty, proceeds, maker, maker, paidBounty)
  BY <1>1, <1>6, <1>7 DEF Released
<1> QED
  BY <1>4, <1>5, <1>8, EmptyIsOrder, ReleaseMoves

(* A claim takes one account's credit out of its total.                    *)
LEMMA ClaimBountyMoves ==
  ASSUME BookTypes', Ledger, NEW a \in Accounts, ClaimNativeBounty(a)
  PROVE  Ledger' /\ Moved
<1> DEFINE f == claimableNativeBounties
           amount == f[a]
<1>1. /\ f \in [Accounts -> Nat] /\ totalClaimableNativeBounties \in Nat
      /\ AddsUpTo(f, Accounts, totalClaimableNativeBounties)
      /\ tokenBalance \in [Token -> Nat] /\ nativeBalance \in Nat
      /\ totalOpenExecutionBounties \in Nat /\ totalClaimableNativeProceeds \in Nat
  BY DEF Ledger, TypeOK, CreditsAddUp
<1>2. /\ f' = [f EXCEPT ![a] = 0]
      /\ totalClaimableNativeBounties' = totalClaimableNativeBounties - amount
      /\ nativeBalance' = nativeBalance - amount
      /\ UNCHANGED <<orderVars, proceedsVars, tokenBalance>>
      /\ RequireNativeLiabilitiesBacked
  BY DEF ClaimNativeBounty
<1>3. f' \in [Accounts -> Nat] /\ f'[a] = 0 /\ \A x \in Accounts : x # a => f'[x] = f[x]
  BY <1>1, <1>2
<1>4. /\ (totalClaimableNativeBounties - f[a]) + f'[a] \in Nat
      /\ AddsUpTo(f', Accounts, (totalClaimableNativeBounties - f[a]) + f'[a])
  <2> DEFINE g == f'
  <2> HIDE DEF f, g
  <2> SUFFICES /\ (totalClaimableNativeBounties - f[a]) + g[a] \in Nat
               /\ AddsUpTo(g, Accounts, (totalClaimableNativeBounties - f[a]) + g[a])
    BY DEF g
  <2>1. f \in [Accounts -> Nat] /\ g \in [Accounts -> Nat]
        /\ (\A x \in Accounts : x # a => g[x] = f[x])
    BY <1>1, <1>3 DEF g
  <2> QED
    BY <1>1, <2>1, ChangeTotal
<1>5. amount \in Nat /\ (totalClaimableNativeBounties - f[a]) + f'[a] = totalClaimableNativeBounties'
  BY <1>1, <1>2, <1>3
<1>6. totalClaimableNativeBounties' \in Nat
      /\ AddsUpTo(f', Accounts, totalClaimableNativeBounties')
  BY <1>4, <1>5
<1>7. /\ totalClaimableNativeProceeds' \in Nat /\ totalOpenExecutionBounties' \in Nat
      /\ claimableNativeProceeds' \in [Accounts -> Nat] /\ tokenBalance' \in [Token -> Nat]
      /\ totalEscrowed' \in [Token -> Nat]
      /\ AddsUpTo(claimableNativeProceeds', Accounts, totalClaimableNativeProceeds')
  BY <1>2 DEF Ledger, TypeOK, CreditsAddUp, orderVars, proceedsVars
<1>8. nativeBalance' \in Nat
  BY <1>1, <1>2, <1>5, <1>6, <1>7, BackedIsNatural
<1>9. OrdersAddUp' /\ ClosedAreEmpty'
  BY <1>2, OrdersStay DEF orderVars
<1>10. TypeOK'
  BY <1>3, <1>6, <1>7, <1>8 DEF TypeOK, BookTypes
<1>11. Moved
  BY <1>1, <1>2, <1>5 DEF Moved, NativeLiabilities, orderVars, proceedsVars
<1> QED
  BY <1>6, <1>7, <1>9, <1>10, <1>11 DEF Ledger, CreditsAddUp

LEMMA ClaimProceedsMoves ==
  ASSUME BookTypes', Ledger, NEW a \in Accounts, ClaimNativeProceeds(a)
  PROVE  Ledger' /\ Moved
<1> DEFINE f == claimableNativeProceeds
           amount == f[a]
<1>1. /\ f \in [Accounts -> Nat] /\ totalClaimableNativeProceeds \in Nat
      /\ AddsUpTo(f, Accounts, totalClaimableNativeProceeds)
      /\ tokenBalance \in [Token -> Nat] /\ nativeBalance \in Nat
      /\ totalOpenExecutionBounties \in Nat /\ totalClaimableNativeBounties \in Nat
  BY DEF Ledger, TypeOK, CreditsAddUp
<1>2. /\ f' = [f EXCEPT ![a] = 0]
      /\ totalClaimableNativeProceeds' = totalClaimableNativeProceeds - amount
      /\ nativeBalance' = nativeBalance - amount
      /\ UNCHANGED <<orderVars, bountyVars, tokenBalance>>
      /\ RequireNativeLiabilitiesBacked
  BY DEF ClaimNativeProceeds
<1>3. f' \in [Accounts -> Nat] /\ f'[a] = 0 /\ \A x \in Accounts : x # a => f'[x] = f[x]
  BY <1>1, <1>2
<1>4. /\ (totalClaimableNativeProceeds - f[a]) + f'[a] \in Nat
      /\ AddsUpTo(f', Accounts, (totalClaimableNativeProceeds - f[a]) + f'[a])
  <2> DEFINE g == f'
  <2> HIDE DEF f, g
  <2> SUFFICES /\ (totalClaimableNativeProceeds - f[a]) + g[a] \in Nat
               /\ AddsUpTo(g, Accounts, (totalClaimableNativeProceeds - f[a]) + g[a])
    BY DEF g
  <2>1. f \in [Accounts -> Nat] /\ g \in [Accounts -> Nat]
        /\ (\A x \in Accounts : x # a => g[x] = f[x])
    BY <1>1, <1>3 DEF g
  <2> QED
    BY <1>1, <2>1, ChangeTotal
<1>5. amount \in Nat /\ (totalClaimableNativeProceeds - f[a]) + f'[a] = totalClaimableNativeProceeds'
  BY <1>1, <1>2, <1>3
<1>6. totalClaimableNativeProceeds' \in Nat
      /\ AddsUpTo(f', Accounts, totalClaimableNativeProceeds')
  BY <1>4, <1>5
<1>7. /\ totalClaimableNativeBounties' \in Nat /\ totalOpenExecutionBounties' \in Nat
      /\ claimableNativeBounties' \in [Accounts -> Nat] /\ tokenBalance' \in [Token -> Nat]
      /\ totalEscrowed' \in [Token -> Nat]
      /\ AddsUpTo(claimableNativeBounties', Accounts, totalClaimableNativeBounties')
  BY <1>2 DEF Ledger, TypeOK, CreditsAddUp, orderVars, bountyVars
<1>8. nativeBalance' \in Nat
  BY <1>1, <1>2, <1>5, <1>6, <1>7, BackedIsNatural
<1>9. OrdersAddUp' /\ ClosedAreEmpty'
  BY <1>2, OrdersStay DEF orderVars
<1>10. TypeOK'
  BY <1>3, <1>6, <1>7, <1>8 DEF TypeOK, BookTypes
<1>11. Moved
  BY <1>1, <1>2, <1>5 DEF Moved, NativeLiabilities, orderVars, bountyVars
<1> QED
  BY <1>6, <1>7, <1>9, <1>10, <1>11 DEF Ledger, CreditsAddUp

(* What moves no order, no total and no credit leaves every debt as it is. *)
LEMMA DebtStays ==
  ASSUME BookTypes', Ledger, UNCHANGED <<orderVars, bountyVars, proceedsVars>>,
         tokenBalance' \in [Token -> Nat], nativeBalance' \in Nat
  PROVE  /\ Ledger' /\ totalEscrowed' = totalEscrowed
         /\ NativeLiabilities' = NativeLiabilities
<1>1. OrdersAddUp' /\ ClosedAreEmpty'
  BY OrdersStay DEF orderVars
<1>2. /\ CreditsAddUp'
      /\ claimableNativeBounties' \in [Accounts -> Nat]
      /\ claimableNativeProceeds' \in [Accounts -> Nat]
      /\ totalClaimableNativeBounties' \in Nat /\ totalClaimableNativeProceeds' \in Nat
  BY CreditsStay
<1>3. totalEscrowed' \in [Token -> Nat] /\ totalOpenExecutionBounties' \in Nat
  BY DEF Ledger, TypeOK, orderVars
<1>4. TypeOK'
  BY <1>2, <1>3 DEF TypeOK, BookTypes
<1>5. totalEscrowed' = totalEscrowed /\ NativeLiabilities' = NativeLiabilities
  BY DEF orderVars, bountyVars, proceedsVars, NativeLiabilities
<1> QED
  BY <1>1, <1>2, <1>4, <1>5 DEF Ledger

-----------------------------------------------------------------------------
(* The book implements Custody, read off the running totals.               *)

Debt ==
    [a \in Assets |-> IF a = NativeCoin THEN NativeLiabilities ELSE totalEscrowed[a]]

Debts == INSTANCE Custody WITH
             Asset <- Assets, Losing <- Rebasing, held <- Held, owed <- Debt

(* The totals are what the orders and credits themselves add up to.        *)
LEMMA OwedIsDebt == Ledger => Owed = Debt
<1> SUFFICES ASSUME Ledger PROVE Owed = Debt
  OBVIOUS
<1>1. IsFiniteSet(OrderIds) /\ IsFiniteSet(Accounts)
  BY LimitOrderBookAssumption, FS_Interval DEF OrderIds
<1>2. orders \in [OrderIds -> Order]
  BY DEF Ledger, TypeOK
<1>3. ASSUME NEW t \in Token PROVE EscrowIn(t) = totalEscrowed[t]
  <2> DEFINE ids == {id \in OrderIds : orders[id].tokenIn = t}
             f == Escrowed(t)
             g == [id \in ids |-> f[id]]
  <2>1. /\ f \in [OrderIds -> Nat] /\ ids \in SUBSET OrderIds
        /\ \A id \in OrderIds \ ids : f[id] = 0
        /\ \A id \in ids : f[id] = orders[id].remainingAmountIn
    BY <1>2, OrderTyped DEF Escrowed, EscrowOf
  <2>2. AddsUpTo(f, OrderIds, totalEscrowed[t]) /\ totalEscrowed[t] \in Nat
    BY DEF Ledger, OrdersAddUp, TypeOK
  <2>3. IsFiniteSet(ids)
    BY <1>1, <2>1, FS_Subset
  <2>4. g = [id \in ids |-> orders[id].remainingAmountIn]
    BY <2>1
  <2>5. EscrowIn(t) = SumFunction(g)
    BY <2>4, Zenon DEF EscrowIn
  <2> HIDE DEF f, ids
  <2>6. AddsUpTo(g, ids, totalEscrowed[t])
    BY <1>1, <2>1, <2>2, TotalOfPart
  <2>7. g \in [ids -> Nat]
    BY <2>1
  <2> HIDE DEF g
  <2>8. SumFunction(g) = totalEscrowed[t]
    BY <2>3, <2>6, <2>7, TotalIsSum
  <2> QED
    BY <2>5, <2>8
<1>4. OpenBounties = totalOpenExecutionBounties
  <2>1. Bounties \in [OrderIds -> Nat]
    BY <1>2, OrderTyped DEF Bounties
  <2>2. AddsUpTo(Bounties, OrderIds, totalOpenExecutionBounties)
    BY DEF Ledger, OrdersAddUp
  <2>3. SumFunction(Bounties) = totalOpenExecutionBounties
    BY <1>1, <2>1, <2>2, TotalIsSum
  <2> QED
    BY <2>3, Zenon DEF OpenBounties, Bounties
<1>5. Credits = totalClaimableNativeBounties + totalClaimableNativeProceeds
  <2> DEFINE both == [a \in Accounts |-> claimableNativeBounties[a] + claimableNativeProceeds[a]]
  <2>1. /\ claimableNativeBounties \in [Accounts -> Nat]
        /\ claimableNativeProceeds \in [Accounts -> Nat]
        /\ totalClaimableNativeBounties \in Nat /\ totalClaimableNativeProceeds \in Nat
        /\ AddsUpTo(claimableNativeBounties, Accounts, totalClaimableNativeBounties)
        /\ AddsUpTo(claimableNativeProceeds, Accounts, totalClaimableNativeProceeds)
    BY DEF Ledger, TypeOK, CreditsAddUp
  <2>2. AddsUpTo(both, Accounts, totalClaimableNativeBounties + totalClaimableNativeProceeds)
    BY <2>1, TotalsAdd
  <2>3. both \in [Accounts -> Nat]
    BY <2>1
  <2>4. Credits = SumFunction(both)
    BY DEF Credits
  <2> HIDE DEF both
  <2> QED
    BY <1>1, <2>2, <2>3, <2>4, TotalIsSum
<1>6. OpenBounties + Credits = NativeLiabilities
  <2>1. /\ totalOpenExecutionBounties \in Nat /\ totalClaimableNativeBounties \in Nat
        /\ totalClaimableNativeProceeds \in Nat
    BY DEF Ledger, TypeOK
  <2> QED
    BY <1>4, <1>5, <2>1 DEF NativeLiabilities
<1>7. \A a \in Assets :
        (IF a = NativeCoin THEN OpenBounties + Credits ELSE EscrowIn(a))
          = IF a = NativeCoin THEN NativeLiabilities ELSE totalEscrowed[a]
  BY <1>3, <1>6 DEF Assets
<1> QED
  BY <1>7, Zenon DEF Owed, Debt

(* Holdings and debts are numbers.                                         *)
HoldingsTyped == Held \in [Assets -> Int] /\ Debt \in [Assets -> Int]

LEMMA LedgerHoldings == Ledger => HoldingsTyped
<1> SUFFICES ASSUME Ledger PROVE HoldingsTyped
  OBVIOUS
<1>1. tokenBalance \in [Token -> Nat] /\ totalEscrowed \in [Token -> Nat] /\ nativeBalance \in Nat
  BY DEF Ledger, TypeOK
<1>2. NativeLiabilities \in Int
  BY DEF Ledger, TypeOK, NativeLiabilities
<1> QED
  BY <1>1, <1>2 DEF HoldingsTyped, Held, Debt, Assets

(* The surplus of each asset, in the book's own terms.                     *)
LEMMA SurplusRead ==
  /\ NativeCoin \in Assets /\ Held[NativeCoin] = nativeBalance
  /\ Debt[NativeCoin] = NativeLiabilities
  /\ \A t \in Token : /\ t \in Assets /\ t # NativeCoin
                      /\ Held[t] = tokenBalance[t] /\ Debt[t] = totalEscrowed[t]
BY LimitOrderBookAssumption DEF Held, Debt, Assets

LEMMA MovedServes ==
  ASSUME Moved PROVE Debts!Next
<1>1. ASSUME NEW a \in Assets PROVE (Held[a] - Debt[a])' = Held[a] - Debt[a]
  BY LimitOrderBookAssumption DEF Moved, Held, Debt, Assets
<1> QED
  BY <1>1 DEF Debts!Next, Debts!Serve, Debts!Surplus

(* A sweep, and what happens to the balances outside the book.             *)
LEMMA SweepServes ==
  ASSUME BookTypes', Ledger,
         (\E t \in Token : SweepTokenSurplus(t)) \/ SweepNativeSurplus
  PROVE  Ledger' /\ Debts!Next
<1>1. /\ tokenBalance \in [Token -> Nat] /\ nativeBalance \in Nat
      /\ totalEscrowed \in [Token -> Nat] /\ NativeLiabilities \in Nat
  BY DEF Ledger, TypeOK, NativeLiabilities
<1>2. ASSUME NEW t \in Token, SweepTokenSurplus(t) PROVE Ledger' /\ Debts!Next
  <2>1. /\ tokenBalance[t] > totalEscrowed[t]
        /\ tokenBalance' = [tokenBalance EXCEPT ![t] = totalEscrowed[t]]
        /\ UNCHANGED <<orderVars, bountyVars, proceedsVars, nativeBalance>>
    BY <1>2 DEF SweepTokenSurplus
  <2>2. /\ Ledger' /\ totalEscrowed' = totalEscrowed /\ NativeLiabilities' = NativeLiabilities
    BY <1>1, <2>1, DebtStays
  <2>3. Debt' = Debt
    BY <2>2 DEF Debt
  <2>4. Held' = [Held EXCEPT ![t] = Debt[t]]
    BY <1>1, <2>1, LimitOrderBookAssumption DEF Held, Debt, Assets
  <2>5. Held[t] - Debt[t] > 0 /\ t \in Assets
    BY <1>1, <2>1, SurplusRead
  <2> QED
    BY <2>2, <2>3, <2>4, <2>5 DEF Debts!Next, Debts!SweepSurplus, Debts!Surplus
<1>3. CASE SweepNativeSurplus
  <2>1. /\ nativeBalance > NativeLiabilities /\ nativeBalance' = NativeLiabilities
        /\ UNCHANGED <<orderVars, bountyVars, proceedsVars, tokenBalance>>
    BY <1>3 DEF SweepNativeSurplus
  <2>2. /\ Ledger' /\ totalEscrowed' = totalEscrowed /\ NativeLiabilities' = NativeLiabilities
    BY <1>1, <2>1, DebtStays
  <2>3. Debt' = Debt
    BY <2>2 DEF Debt
  <2>4. Held' = [Held EXCEPT ![NativeCoin] = Debt[NativeCoin]]
    BY <1>1, <2>1, LimitOrderBookAssumption DEF Held, Debt, Assets
  <2>5. Held[NativeCoin] - Debt[NativeCoin] > 0 /\ NativeCoin \in Assets
    BY <1>1, <2>1, SurplusRead
  <2> QED
    BY <2>2, <2>3, <2>4, <2>5 DEF Debts!Next, Debts!SweepSurplus, Debts!Surplus
<1> QED
  BY <1>2, <1>3

LEMMA OutsideServes ==
  ASSUME BookTypes', Ledger, Environment
  PROVE  Ledger' /\ [Debts!Next]_<<Held, Debt>>
<1>1. /\ tokenBalance \in [Token -> Nat] /\ nativeBalance \in Nat
  BY DEF Ledger, TypeOK
<1>2. ASSUME NEW t \in Token, NEW amount \in 0 .. TokenSupply, OutsideTokenChange(t, amount)
      PROVE  Ledger' /\ Debts!Next
  <2>1. /\ amount > tokenBalance[t] \/ t \in Rebasing
        /\ tokenBalance' = [tokenBalance EXCEPT ![t] = amount]
        /\ UNCHANGED <<orderVars, bountyVars, proceedsVars, nativeBalance>>
    BY <1>2 DEF OutsideTokenChange
  <2>2. tokenBalance' \in [Token -> Nat] /\ nativeBalance' \in Nat
    BY <1>1, <2>1, LimitOrderBookAssumption
  <2>3. /\ Ledger' /\ totalEscrowed' = totalEscrowed /\ NativeLiabilities' = NativeLiabilities
    BY <2>1, <2>2, DebtStays
  <2>4. Debt' = Debt
    BY <2>3 DEF Debt
  <2>5. /\ \A b \in Assets \ {t} : Held'[b] = Held[b]
        /\ Held'[t] >= Held[t] \/ t \in Rebasing
    BY <1>1, <2>1, LimitOrderBookAssumption DEF Held, Assets
  <2> QED
    BY <2>3, <2>4, <2>5, SurplusRead DEF Debts!Next, Debts!ChangeFromOutside
<1>3. ASSUME NEW v \in Values, ForcedNative(v) PROVE Ledger' /\ Debts!Next
  <2>1. /\ nativeBalance' = nativeBalance + v /\ v \in Nat
        /\ UNCHANGED <<orderVars, bountyVars, proceedsVars, tokenBalance>>
    BY <1>3, LimitOrderBookAssumption DEF ForcedNative
  <2>2. tokenBalance' \in [Token -> Nat] /\ nativeBalance' \in Nat
    BY <1>1, <2>1
  <2>3. /\ Ledger' /\ totalEscrowed' = totalEscrowed /\ NativeLiabilities' = NativeLiabilities
    BY <2>1, <2>2, DebtStays
  <2>4. Debt' = Debt
    BY <2>3 DEF Debt
  <2>5. /\ \A b \in Assets \ {NativeCoin} : Held'[b] = Held[b]
        /\ Held'[NativeCoin] >= Held[NativeCoin]
    BY <1>1, <2>1, LimitOrderBookAssumption DEF Held, Assets
  <2> QED
    BY <2>3, <2>4, <2>5, SurplusRead DEF Debts!Next, Debts!ChangeFromOutside
<1>4. CASE Tick
  <2>1. UNCHANGED <<orderVars, bountyVars, proceedsVars, balanceVars>>
    BY <1>4 DEF Tick
  <2>2. /\ Ledger' /\ totalEscrowed' = totalEscrowed /\ NativeLiabilities' = NativeLiabilities
    BY <1>1, <2>1, DebtStays DEF balanceVars
  <2>3. Debt' = Debt /\ Held' = Held
    BY <2>1, <2>2 DEF Debt, Held, balanceVars
  <2> QED
    BY <2>2, <2>3
<1> QED
  BY <1>2, <1>3, <1>4 DEF Environment

(* Every step of the book is a step of Custody, and keeps the ledger.      *)
LEMMA LedgerStep ==
  BookInv /\ Ledger /\ [Next]_vars => Ledger' /\ [Debts!Next]_<<Held, Debt>>
<1> SUFFICES ASSUME BookInv, Ledger, [Next]_vars
             PROVE  Ledger' /\ [Debts!Next]_<<Held, Debt>>
  OBVIOUS
<1>1. BookTypes'
  BY BookStep DEF BookInv
<1>2. CASE Make
  BY <1>1, <1>2, CreateMoves, AmendMoves, MovedServes DEF Make
<1>3. CASE Settle
  BY <1>1, <1>3, FillMoves, CancelMoves, MovedServes DEF Settle
<1>4. CASE Fund
  BY <1>1, <1>4, IncreaseMoves, ClaimBountyMoves, ClaimProceedsMoves, MovedServes, SweepServes
     DEF Fund
<1>5. CASE Environment
  BY <1>1, <1>5, OutsideServes
<1>6. CASE UNCHANGED vars
  <2>1. UNCHANGED <<orderVars, bountyVars, proceedsVars, balanceVars>>
    BY <1>6 DEF vars
  <2>2. tokenBalance' \in [Token -> Nat] /\ nativeBalance' \in Nat
    BY <2>1 DEF Ledger, TypeOK, balanceVars
  <2>3. /\ Ledger' /\ totalEscrowed' = totalEscrowed /\ NativeLiabilities' = NativeLiabilities
    BY <1>1, <2>1, <2>2, DebtStays
  <2>4. Debt' = Debt /\ Held' = Held
    BY <2>1, <2>3 DEF Debt, Held, balanceVars
  <2> QED
    BY <2>3, <2>4
<1> QED
  BY <1>2, <1>3, <1>4, <1>5, <1>6 DEF Next

-----------------------------------------------------------------------------
(* The theorems. *)

(* The invariant holds throughout.                                         *)
THEOREM BookInvariant == Spec => []BookInv
  BY InitBookInv, BookStep, PTL DEF Spec

(* fillOrder, for every limit and every way to split a fill: the output an *)
(* order brings its maker since its terms were set is worth at least the   *)
(* limit price of the input it has spent.                                  *)
THEOREM MakerLimitTheorem == Spec => MakerLimitHonoured
<1>1. StepKept => LimitHonoured
  BY DEF StepKept, OrderKept, LimitHonoured
<1> QED
  BY <1>1, BookInvariant, BookStep, PTL DEF Spec, MakerLimitHonoured

(* fillOrder's rounding of the bounty never lowers the bounty per unit of  *)
(* input left, whatever the fills.                                         *)
THEOREM BountyRateTheorem == Spec => BountyRateNeverFalls
<1>1. StepKept => BountyKept
  BY DEF StepKept, OrderKept, BountyKept
<1> QED
  BY <1>1, BookInvariant, BookStep, PTL DEF Spec, BountyRateNeverFalls

(* While the book holds less of a token than its escrow, none of its       *)
(* operations pays any of it out: _requireEscrowBacked comes first.        *)
THEOREM ShortfallTheorem == Spec => ShortfallFreezesToken
<1>1. StepKept => NoPreference
  BY DEF StepKept
<1> QED
  BY <1>1, BookInvariant, BookStep, PTL DEF Spec, ShortfallFreezesToken

(* The ledger holds throughout.                                            *)
THEOREM LedgerInvariant == Spec => []Ledger
BY InitLedger, LedgerStep, BookInvariant, PTL DEF Spec

(* No liability total, claim or balance is ever driven below zero, and     *)
(* every variable has its type.                                            *)
THEOREM BookTypesCorrect == Spec => []TypeOK
<1>1. Ledger => TypeOK
  BY DEF Ledger
<1> QED
  BY <1>1, LedgerInvariant, PTL

(* The book implements Custody for every number of orders, accounts and    *)
(* tokens: what it holds and what its open orders and credits add up to    *)
(* move together, and a sweep takes exactly what nobody is owed.           *)
THEOREM CustodyTheorem == Spec => BookIsCustody
<1>1. Init => Promise!Init
  <2> SUFFICES ASSUME Init PROVE Promise!Init
    OBVIOUS
  <2>1. Owed = Debt
    BY InitLedger, OwedIsDebt
  <2>2. Debt = [a \in Assets |-> 0] /\ Held = [a \in Assets |-> 0]
    BY LimitOrderBookAssumption DEF Init, Debt, Held, NativeLiabilities, Assets
  <2> QED
    BY <2>1, <2>2 DEF Promise!Init
<1>2. Owed = Debt /\ (Owed = Debt)' /\ [Debts!Next]_<<Held, Debt>>
        => [Promise!Next]_<<Held, Owed>>
  BY DEF Debts!Next, Debts!Serve, Debts!SweepSurplus, Debts!ChangeFromOutside,
         Debts!Surplus, Promise!Next, Promise!Serve, Promise!SweepSurplus,
         Promise!ChangeFromOutside, Promise!Surplus
<1>3. Spec => [](Owed = Debt)
  BY LedgerInvariant, OwedIsDebt, PTL
<1> QED
  BY <1>1, <1>2, <1>3, LedgerStep, BookInvariant, LedgerInvariant, PTL
     DEF Spec, BookIsCustody, Promise!Spec

(* So the book is solvent in every asset that cannot shrink in its hands,  *)
(* native coins and wrapped native among them: each open order and each    *)
(* credit can be paid, whatever pushes were rejected before.               *)
THEOREM SolvencyTheorem == Spec => []Promise!Solvent
<1> DEFINE Solvent == \A a \in Assets \ Rebasing : Held[a] >= Debt[a]
<1>1. Init => Solvent
  BY LimitOrderBookAssumption DEF Init, Debt, Held, NativeLiabilities, Assets
<1>2. Ledger /\ Ledger' /\ Solvent /\ [Debts!Next]_<<Held, Debt>> => Solvent'
  <2> SUFFICES ASSUME Ledger, Ledger', Solvent, [Debts!Next]_<<Held, Debt>>,
                      NEW a \in Assets \ Rebasing
               PROVE  Held'[a] >= Debt'[a]
    BY Zenon
  <2>1. Held[a] \in Int /\ Debt[a] \in Int /\ Held'[a] \in Int /\ Debt'[a] \in Int
        /\ Held[a] >= Debt[a]
    <3>1. Ledger' => HoldingsTyped'
      BY LedgerHoldings, PTL
    <3> QED
      BY <3>1, LedgerHoldings DEF HoldingsTyped
  <2>2. CASE Debts!Serve
    BY <2>1, <2>2 DEF Debts!Serve, Debts!Surplus
  <2>3. ASSUME NEW b \in Assets, Debts!SweepSurplus(b) PROVE Held'[a] >= Debt'[a]
    <3>1. Held' = [Held EXCEPT ![b] = Debt[b]] /\ Debt' = Debt
      BY <2>3 DEF Debts!SweepSurplus
    <3>2. DOMAIN Held = Assets
      BY DEF Held
    <3> QED
      BY <2>1, <3>1, <3>2
  <2>4. ASSUME NEW b \in Assets, Debts!ChangeFromOutside(b) PROVE Held'[a] >= Debt'[a]
    <3>1. /\ \A c \in Assets \ {b} : Held'[c] = Held[c]
          /\ Held'[b] >= Held[b] \/ b \in Rebasing
          /\ Debt' = Debt
      BY <2>4 DEF Debts!ChangeFromOutside
    <3> QED
      BY <2>1, <3>1
  <2>5. CASE UNCHANGED <<Held, Debt>>
    BY <2>1, <2>5
  <2> QED
    BY <2>2, <2>3, <2>4, <2>5 DEF Debts!Next
<1>3. Ledger /\ Solvent => Promise!Solvent
  BY OwedIsDebt DEF Promise!Solvent
<1> HIDE DEF Solvent
<1> QED
  BY <1>1, <1>2, <1>3, LedgerStep, BookInvariant, LedgerInvariant, PTL DEF Spec

(* No subtraction of cancelOrder can underflow, and the book holds what it *)
(* pays: an open order's input is part of its token's escrow, its bounty   *)
(* part of the open bounties, and these part of the native balance.        *)
CancelCovered ==
    /\ \A id \in OrderIds : orderStatus[id] = "Open" =>
           /\ orders[id].remainingAmountIn <= totalEscrowed[orders[id].tokenIn]
           /\ orders[id].remainingExecutionBounty <= totalOpenExecutionBounties
    /\ NativeLiabilities <= nativeBalance

THEOREM CancelCoveredTheorem == Spec => []CancelCovered
<1>1. BookInv /\ Ledger /\ Promise!Solvent => CancelCovered
  <2> SUFFICES ASSUME BookInv, Ledger, Promise!Solvent PROVE CancelCovered
    OBVIOUS
  <2>1. /\ orders \in [OrderIds -> Order] /\ totalEscrowed \in [Token -> Nat]
        /\ totalOpenExecutionBounties \in Nat
    BY DEF Ledger, TypeOK
  <2>2. ASSUME NEW id \in OrderIds, orderStatus[id] = "Open"
        PROVE  /\ orders[id].remainingAmountIn <= totalEscrowed[orders[id].tokenIn]
               /\ orders[id].remainingExecutionBounty <= totalOpenExecutionBounties
    <3> DEFINE t == orders[id].tokenIn
               f == Escrowed(t)
    <3>1. t \in Token /\ orders[id] \in Order
      BY <2>1, <2>2 DEF BookInv, TermsKept, Kept
    <3>2. f \in [OrderIds -> Nat] /\ f[id] = orders[id].remainingAmountIn
          /\ AddsUpTo(f, OrderIds, totalEscrowed[t])
      BY <2>1, <3>1, OrderTyped DEF Escrowed, EscrowOf, Ledger, OrdersAddUp
    <3>3. Bounties \in [OrderIds -> Nat] /\ Bounties[id] = orders[id].remainingExecutionBounty
          /\ AddsUpTo(Bounties, OrderIds, totalOpenExecutionBounties)
      BY <2>1, OrderTyped DEF Bounties, Ledger, OrdersAddUp
    <3> HIDE DEF f
    <3>4. f[id] <= totalEscrowed[t]
      BY <2>1, <3>1, <3>2, PartOfTotal
    <3>5. Bounties[id] <= totalOpenExecutionBounties
      BY <2>1, <3>3, PartOfTotal
    <3> QED
      BY <3>2, <3>3, <3>4, <3>5
  <2>3. NativeLiabilities <= nativeBalance
    <3>1. NativeCoin \in Assets \ Rebasing
      BY LimitOrderBookAssumption DEF Assets
    <3>2. nativeBalance >= NativeLiabilities
      BY <3>1, OwedIsDebt, SurplusRead DEF Promise!Solvent
    <3>3. nativeBalance \in Int /\ NativeLiabilities \in Int
      BY DEF Ledger, TypeOK, NativeLiabilities
    <3> QED
      BY <3>2, <3>3
  <2> QED
    BY <2>2, <2>3 DEF CancelCovered
<1> QED
  BY <1>1, BookInvariant, LedgerInvariant, SolvencyTheorem, PTL

(* What fillOrder needs and canFillOrder does not look at.  For any amount  *)
(* and quote that canFillOrder accepts, the input is in its token's        *)
(* escrow, the part of the bounty in the open bounties and these in the    *)
(* native balance, and the wrapped coins in the book cover their escrow,   *)
(* which a native payout checks whatever token it sells.                   *)
FillCovered ==
    \A id \in OrderIds, amount \in Nat, quoted \in Nat :
        CanFillOrder(id, amount, quoted) =>
            /\ amount <= totalEscrowed[orders[id].tokenIn]
            /\ FillBounty(orders[id], amount) <= totalOpenExecutionBounties
            /\ totalOpenExecutionBounties <= nativeBalance
            /\ EscrowBacked(WrappedNative)

(* canFillOrder misses nothing that fillOrder checks or subtracts but the   *)
(* balance of a rebasing input: what KeeperViewExact says with ENABLED.    *)
THEOREM FillCoveredTheorem == Spec => []FillCovered
<1>1. BookInv /\ Ledger /\ Promise!Solvent /\ CancelCovered => FillCovered
  <2> SUFFICES ASSUME BookInv, Ledger, Promise!Solvent, CancelCovered,
                      NEW id \in OrderIds, NEW amount \in Nat, NEW quoted \in Nat,
                      CanFillOrder(id, amount, quoted)
               PROVE  /\ amount <= totalEscrowed[orders[id].tokenIn]
                      /\ FillBounty(orders[id], amount) <= totalOpenExecutionBounties
                      /\ totalOpenExecutionBounties <= nativeBalance
                      /\ EscrowBacked(WrappedNative)
    BY DEF FillCovered
  <2> DEFINE order == orders[id]
             bounty == FillBounty(order, amount)
  <2>1. /\ orderStatus[id] = "Open"
        /\ amount # 0 /\ amount <= order.remainingAmountIn
    BY DEF CanFillOrder, ValidFillAmount
  <2>2. /\ order \in Order /\ order.tokenIn \in Token
        /\ totalEscrowed \in [Token -> Nat] /\ totalOpenExecutionBounties \in Nat
    BY <2>1 DEF BookInv, TermsKept, Kept, Ledger, TypeOK
  <2>3. /\ order.remainingAmountIn \in Nat /\ order.remainingExecutionBounty \in Nat
    BY <2>2, OrderTyped
  <2>4. bounty \in Nat /\ bounty <= order.remainingExecutionBounty
    <3>1. CASE amount = order.remainingAmountIn
      BY <2>3, <3>1 DEF FillBounty
    <3>2. CASE amount # order.remainingAmountIn
      <4>1. bounty = MulDiv(order.remainingExecutionBounty, amount, order.remainingAmountIn)
        BY <3>2 DEF FillBounty
      <4>2. order.remainingAmountIn \in Nat \ {0}
        BY <2>1, <2>3
      <4> QED
        BY <2>1, <2>3, <4>1, <4>2, BountyStep
    <3> QED
      BY <3>1, <3>2
  <2>5. /\ order.remainingAmountIn <= totalEscrowed[order.tokenIn]
        /\ order.remainingExecutionBounty <= totalOpenExecutionBounties
        /\ NativeLiabilities <= nativeBalance
    BY <2>1 DEF CancelCovered
  <2>6. EscrowBacked(WrappedNative)
    <3>1. WrappedNative \in Token /\ WrappedNative \in Assets \ Rebasing
      BY LimitOrderBookAssumption DEF Assets
    <3>2. tokenBalance[WrappedNative] >= totalEscrowed[WrappedNative]
      BY <3>1, OwedIsDebt, SurplusRead DEF Promise!Solvent
    <3> QED
      BY <3>2 DEF EscrowBacked, Backed
  <2> HIDE DEF order, bounty
  <2>7. amount <= totalEscrowed[order.tokenIn] /\ bounty <= totalOpenExecutionBounties
    BY <2>1, <2>2, <2>3, <2>4, <2>5
  <2>8. totalOpenExecutionBounties <= nativeBalance
    <3>1. /\ totalClaimableNativeBounties \in Nat /\ totalClaimableNativeProceeds \in Nat
          /\ nativeBalance \in Nat
      BY DEF Ledger, TypeOK
    <3> QED
      BY <2>2, <2>5, <3>1 DEF NativeLiabilities
  <2> QED
    BY <2>6, <2>7, <2>8 DEF order, bounty
<1> QED
  BY <1>1, BookInvariant, LedgerInvariant, SolvencyTheorem, CancelCoveredTheorem, PTL
=============================================================================
