----------------------- MODULE ConfidentialPool_proofs -----------------------
(***************************************************************************)
(* Proofs about ConfidentialPool, for every word size, set of users,       *)
(* scales, fee tier and bound.  Inv is the inductive invariant: an open    *)
(* pool is always within its operational bounds, which is what lets every  *)
(* exit through and keeps the router's wrapped words exact, and the shares *)
(* of holders and of live locks add up to the total, stated with the       *)
(* measures of NumberFacts, which keeps a holder's part of the reserves    *)
(* within those bounds.  The last part is about ObservablePool: its steps  *)
(* are steps of the pool, and whatever price they reach can be published.  *)
(***************************************************************************)
EXTENDS ObservablePool, NumberFacts

(* The fee is never negative, and the protocol's part of it never exceeds  *)
(* it: what a swap leaves to the reserves is at least the net input.       *)
LEMMA FeeBounds ==
    ASSUME NEW amount \in Nat
    PROVE  /\ NetAmount(amount) \in Nat
           /\ NetAmount(amount) <= amount
           /\ ProtocolFee(amount) \in Nat
           /\ ProtocolFee(amount) <= amount - NetAmount(amount)
<1>1. FeeDenominator \in Nat \ {0} /\ FeeBps \in 0 .. FeeDenominator
      /\ FeeShareDenominator \in Nat \ {0}
    BY FeeAssumption
<1> QED
    BY <1>1, FeeSplit DEF NetAmount, ProtocolFee, ProtocolFeeFromTotal

(* The minted shares are a natural number. *)
LEMMA SharesForType ==
    ASSUME NEW a0 \in Nat, NEW a1 \in Nat, NEW r0 \in Nat \ {0},
           NEW r1 \in Nat \ {0}, NEW supply \in Nat
    PROVE  SharesFor(a0, a1, r0, r1, supply) \in Nat
BY MulDivBounds DEF SharesFor, Least

-----------------------------------------------------------------------------
LEMMA Sides == Side = {0, 1} /\ Other(0) = 1 /\ Other(1) = 0
BY DEF Side, Other

-----------------------------------------------------------------------------
(* Words. *)

(* Dividing and rounding up: never below the quotient, never a unit above, *)
(* never above the dividend.                                               *)
LEMMA CeilDivBounds ==
    ASSUME NEW n \in Nat, NEW d \in Nat \ {0}
    PROVE  /\ CeilDiv(n, d) \in Nat
           /\ d * CeilDiv(n, d) >= n
           /\ d * CeilDiv(n, d) < n + d
           /\ CeilDiv(n, d) <= n
BY RoundingUp DEF CeilDiv

(* A value that fits is its own word. *)
LEMMA WordExact ==
    ASSUME NEW n \in Nat, Fits(n)
    PROVE  Word(n) = n
BY SmallWord, ConfidentialPoolAssumption DEF Word, Fits

(* So is a difference that does not go below zero. *)
LEMMA SubExact ==
    ASSUME NEW a \in Nat, NEW b \in Nat, b <= a, Fits(a)
    PROVE  Sub(a, b) = a - b
BY SmallDifference, ConfidentialPoolAssumption DEF Sub, Word, Fits

(* The router's rounding never wraps: the quotient is at most the dividend. *)
LEMMA RoundedUpExact ==
    ASSUME NEW n \in Nat, NEW d \in Nat \ {0}, Fits(n)
    PROVE  RoundedUp(n, d) = CeilDiv(n, d)
<1>1. CASE n % d = 0
    BY <1>1 DEF RoundedUp, CeilDiv
<1>2. CASE n % d # 0
    <2>1. CeilDiv(n, d) = n \div d + 1
        BY <1>2 DEF CeilDiv
    <2> DEFINE c == CeilDiv(n, d)
    <2>2. c \in Nat /\ c <= n
        BY CeilDivBounds
    <2>3. RoundedUp(n, d) = Word(c)
        BY <1>2, <2>1 DEF RoundedUp
    <2> HIDE DEF c
    <2>4. Fits(c)
        BY <2>2, ConfidentialPoolAssumption DEF Fits
    <2>5. Word(c) = c
        BY <2>2, <2>4, WordExact
    <2> QED
        BY <2>3, <2>5 DEF c
<1> QED
    BY <1>1, <1>2

-----------------------------------------------------------------------------
(* Arithmetic of the operations. *)

(* What a swap leaves on the output side is at most what was there, and    *)
(* keeps the product with the net input.                                   *)
LEMMA RetainedBounds ==
    ASSUME NEW x \in Nat \ {0}, NEW y \in Nat, NEW net \in Nat
    PROVE  /\ CeilDiv(x * y, x + net) \in Nat
           /\ CeilDiv(x * y, x + net) <= y
           /\ (x + net) * CeilDiv(x * y, x + net) >= x * y
<1> DEFINE kept == CeilDiv(x * y, x + net)
<1>1. kept = IF (x * y) % (x + net) = 0 THEN (x * y) \div (x + net)
                                         ELSE (x * y) \div (x + net) + 1
    BY DEF CeilDiv
<1> HIDE DEF kept
<1>2. kept \in Nat /\ kept <= y /\ (x + net) * kept >= x * y
    BY <1>1, RetainedReserve
<1> QED
    BY <1>2 DEF kept

(* An exit is paid at most its proportion, all of it exactly when nothing  *)
(* is left behind, and never all while something is.                       *)
LEMMA PayoutBounds ==
    ASSUME NEW r \in Nat \ {0}, NEW supply \in Nat \ {0}, NEW k \in 1 .. supply
    PROVE  /\ MulDiv(k, r, supply) \in Nat
           /\ MulDiv(k, r, supply) <= r
           /\ k = supply => MulDiv(k, r, supply) = r
           /\ k # supply => MulDiv(k, r, supply) < r
           /\ (r - MulDiv(k, r, supply)) * supply >= r * (supply - k)
<1> DEFINE n == k * r
           p == MulDiv(k, r, supply)
<1>1. n \in Nat /\ k \in Nat /\ k >= 1 /\ k <= supply
    BY SMTT(30)
<1>2. p \in Nat /\ supply * p <= n /\ n < supply * p + supply
    BY <1>1, DivBounds DEF MulDiv
<1>3. k = supply => n = supply * r
    OBVIOUS
<1>4. k # supply => n < supply * r
    BY <1>1, SMTT(30) DEF n
<1>5. n <= supply * r
    BY <1>1, SMTT(30) DEF n
<1> HIDE DEF p
<1>6. p <= r
    <2>1. SUFFICES ASSUME p >= r + 1 PROVE FALSE
        BY <1>2
    <2>2. supply * p >= supply * r + supply
        BY <1>2, <2>1, SMTT(30)
    <2> HIDE DEF n
    <2> QED
        BY <1>1, <1>2, <1>5, <2>2, SMTT(30)
<1>7. k # supply => p < r
    <2>1. SUFFICES ASSUME k # supply, p = r PROVE FALSE
        BY <1>2, <1>6
    <2> QED
        BY <1>2, <1>4, <2>1, SMTT(30)
<1>8. k = supply => p = r
    <2>1. SUFFICES ASSUME k = supply, p <= r - 1 PROVE FALSE
        BY <1>2, <1>6
    <2>2. supply * p <= supply * r - supply
        BY <1>2, <2>1, SMTT(30)
    <2> QED
        BY <1>2, <1>3, <2>1, <2>2, SMTT(30)
<1>9. (r - p) * supply >= r * (supply - k)
    BY <1>1, <1>2, <1>6, SMTT(30)
<1> QED
    BY <1>2, <1>6, <1>7, <1>8, <1>9 DEF p

(* A smaller product of words. *)
LEMMA SmallerProductFits ==
    ASSUME NEW a \in Nat, NEW b \in Nat, NEW c \in Nat, NEW d \in Nat,
           a <= c, b <= d, Fits(c * d)
    PROVE  a * b \in Nat /\ a * b <= c * d /\ Fits(a * b)
<1>1. a * b \in Nat /\ c * d \in Nat /\ a * b <= c * d
    BY SMTT(30)
<1> QED
    BY <1>1, ConfidentialPoolAssumption DEF Fits

-----------------------------------------------------------------------------
(* The invariant. *)

(* What each lock still holds, over all lock numbers there may be. *)
LiveAmountOf(records) ==
    [i \in 1 .. MaxLocks |->
        IF i \in DOMAIN records /\ ~records[i].released
        THEN records[i].amount ELSE 0]

LEMMA LiveAmountType ==
    ASSUME NEW records \in Seq(LockRecords)
    PROVE  LiveAmountOf(records) \in [1 .. MaxLocks -> Nat]
<1>1. ASSUME NEW i \in DOMAIN records
      PROVE  records[i].amount \in Nat
    <2>1. records[i] \in LockRecords
        OBVIOUS
    <2> QED
        BY <2>1 DEF LockRecords
<1> QED
    BY <1>1 DEF LiveAmountOf

(* Holders and live locks together have all the shares. *)
LedgerOf(holdings, records, total) ==
    \E held, locked \in Nat :
        /\ AddsUpTo(holdings, Users, held)
        /\ AddsUpTo(LiveAmountOf(records), 1 .. MaxLocks, locked)
        /\ held + locked = total

Ledger == LedgerOf(shares, locks, totalShares)

LocksBounded == Len(locks) <= MaxLocks

WithinBounds == initialized => OperationalBounds(reserve, totalShares)

Inv ==
    /\ TypeOK
    /\ Ledger
    /\ LocksBounded
    /\ RecordsAgree
    /\ WithinBounds

(* Fewer shares of smaller reserves are within bounds if anything is left. *)
LEMMA SmallerBounds ==
    ASSUME NEW r \in [Side -> Nat], NEW supply \in Nat, OperationalBounds(r, supply),
           NEW q \in [Side -> Nat \ {0}], NEW rest \in Nat \ {0},
           \A s \in Side : q[s] <= r[s], rest <= supply
    PROVE  OperationalBounds(q, rest)
<1>1. /\ r[0] \in Nat /\ r[1] \in Nat /\ q[0] \in Nat /\ q[1] \in Nat
      /\ q[0] > 0 /\ q[1] > 0 /\ rest > 0 /\ q[0] <= r[0] /\ q[1] <= r[1]
      /\ Scale[0] \in Nat /\ Scale[1] \in Nat /\ PriceScale \in Nat
    BY Sides, ConfidentialPoolAssumption
<1>2. /\ Fits(r[0] * r[1]) /\ Fits(supply * r[0]) /\ Fits(supply * r[1])
      /\ Fits(r[0] * Scale[0]) /\ Fits(r[1] * Scale[1])
      /\ Fits((r[1] * Scale[1]) * PriceScale)
    BY Sides DEF OperationalBounds
<1>3. Fits(q[0] * q[1]) /\ Fits(rest * q[0]) /\ Fits(rest * q[1])
    BY <1>1, <1>2, SmallerProductFits
<1>4. Fits(q[0] * Scale[0]) /\ Fits(q[1] * Scale[1])
    <2>1. Scale[0] <= Scale[0] /\ Scale[1] <= Scale[1]
        BY <1>1
    <2>2. Fits(q[0] * Scale[0])
        BY <1>1, <1>2, <2>1, SmallerProductFits
    <2>3. Fits(q[1] * Scale[1])
        BY <1>1, <1>2, <2>1, SmallerProductFits
    <2> QED
        BY <2>2, <2>3
<1>5. Fits((q[1] * Scale[1]) * PriceScale)
    <2>1. q[1] * Scale[1] \in Nat /\ r[1] * Scale[1] \in Nat
          /\ q[1] * Scale[1] <= r[1] * Scale[1]
        BY <1>1, <1>2, SmallerProductFits, SMTT(30)
    <2> QED
        BY <1>1, <1>2, <2>1, SmallerProductFits
<1> QED
    BY <1>1, <1>3, <1>4, <1>5, Sides DEF OperationalBounds

(* The reserves of an open pool are positive words, and so is their product. *)
LEMMA OpenReserves ==
    ASSUME Inv, initialized
    PROVE  /\ \A s \in Side : reserve[s] \in Nat \ {0} /\ Fits(reserve[s])
           /\ totalShares \in Nat \ {0}
           /\ reserve[0] * reserve[1] \in Nat /\ Fits(reserve[0] * reserve[1])
<1>1. reserve \in [Side -> Nat] /\ totalShares \in Nat
    BY DEF Inv, TypeOK
<1>2. OperationalBounds(reserve, totalShares)
    BY DEF Inv, WithinBounds
<1>3. /\ reserve[0] \in Nat \ {0} /\ reserve[1] \in Nat \ {0}
      /\ totalShares \in Nat \ {0} /\ Fits(reserve[0] * reserve[1])
    BY <1>1, <1>2, Sides DEF OperationalBounds
<1>4. /\ reserve[0] * reserve[1] \in Nat
      /\ reserve[0] <= reserve[0] * reserve[1]
      /\ reserve[1] <= reserve[0] * reserve[1]
    BY <1>3, SMTT(30)
<1>5. Fits(reserve[0]) /\ Fits(reserve[1])
    BY <1>3, <1>4, ConfidentialPoolAssumption DEF Fits
<1> QED
    BY <1>3, <1>4, <1>5, Sides

(* Nobody holds more than there is. *)
LEMMA HoldingBounded ==
    ASSUME Inv, NEW u \in Users
    PROVE  shares[u] \in Nat /\ shares[u] <= totalShares
<1>1. shares \in [Users -> Nat]
    BY DEF Inv, TypeOK
<1>2. PICK held \in Nat, locked \in Nat :
        AddsUpTo(shares, Users, held) /\ held + locked = totalShares
    BY DEF Inv, Ledger, LedgerOf
<1>3. shares[u] <= held
    BY <1>1, <1>2, PartOfTotal
<1> QED
    BY <1>1, <1>2, <1>3

-----------------------------------------------------------------------------
(* What each property says of a state follows from the invariant. *)

(* The ledger's measures are the sums over the holders and the live locks. *)
LEMMA BooksFollow == Inv => BooksAgree
<1> SUFFICES ASSUME Inv PROVE SharesAccounted
    BY DEF Inv, BooksAgree
<1> DEFINE live == LiveAmountOf(locks)
<1>1. /\ shares \in [Users -> Nat] /\ locks \in Seq(LockRecords)
      /\ Len(locks) <= MaxLocks /\ IsFiniteSet(Users) /\ MaxLocks \in Nat
    BY ConfidentialPoolAssumption DEF Inv, TypeOK, LocksBounded
<1>2. PICK held \in Nat, locked \in Nat :
        /\ AddsUpTo(shares, Users, held) /\ AddsUpTo(live, 1 .. MaxLocks, locked)
        /\ held + locked = totalShares
    BY DEF Inv, Ledger, LedgerOf
<1>3. SumFunction(shares) = held
    BY <1>1, <1>2, TotalIsSum
<1>4. live \in [1 .. MaxLocks -> Nat] /\ IsFiniteSet(1 .. MaxLocks)
    <2>1. 1 \in Int /\ MaxLocks \in Int
        BY <1>1
    <2>2. IsFiniteSet(1 .. MaxLocks)
        BY <2>1, FS_Interval
    <2> QED
        BY <1>1, <2>2, LiveAmountType
<1>5. Locked \in SUBSET (1 .. MaxLocks) /\ IsFiniteSet(Locked)
    <2>1. Locked \in SUBSET (1 .. MaxLocks)
        BY <1>1 DEF Locked
    <2> QED
        BY <1>4, <2>1, FS_Subset
<1>6. \A i \in (1 .. MaxLocks) \ Locked : live[i] = 0
    BY DEF LiveAmountOf, Locked
<1> HIDE DEF live
<1>7. AddsUpTo([i \in Locked |-> live[i]], Locked, locked)
    BY <1>2, <1>4, <1>5, <1>6, TotalOfPart
<1>8. [i \in Locked |-> live[i]] = [i \in Locked |-> locks[i].amount]
    BY <1>5 DEF live, LiveAmountOf, Locked
<1>9. [i \in Locked |-> live[i]] \in [Locked -> Nat]
    BY <1>4, <1>5
<1>10. SumFunction([i \in Locked |-> live[i]]) = locked
    BY <1>5, <1>7, <1>9, TotalIsSum
<1> QED
    BY <1>2, <1>3, <1>8, <1>10 DEF SharesAccounted

LEMMA ExitOpen == Inv => ExitNeverBlocked
<1> SUFFICES ASSUME Inv, NEW u \in Users, NEW k \in 1 .. shares[u]
             PROVE  RemovalAccepted(u, k)
    BY DEF ExitNeverBlocked
<1> DEFINE next == [s \in Side |-> reserve[s] - Payout(k, s)]
<1>1. /\ shares[u] \in Nat /\ shares[u] <= totalShares /\ totalShares \in Nat
      /\ reserve \in [Side -> Nat]
    BY HoldingBounded DEF Inv, TypeOK
<1>2. k \in Nat /\ k >= 1 /\ k <= totalShares /\ totalShares # 0
    BY <1>1
<1>3. initialized
    BY <1>2 DEF Inv, RecordsAgree
<1>4. \A s \in Side : reserve[s] \in Nat \ {0}
    BY <1>3, OpenReserves
<1>5. OperationalBounds(reserve, totalShares)
    BY <1>3 DEF Inv, WithinBounds
<1>6. \A s \in Side : /\ Payout(k, s) \in Nat /\ Payout(k, s) <= reserve[s]
                      /\ k # totalShares => Payout(k, s) < reserve[s]
    <2>1. totalShares \in Nat \ {0} /\ k \in 1 .. totalShares
        BY <1>1, <1>2
    <2> QED
        BY <1>4, <2>1, PayoutBounds DEF Payout
<1>7. \A s \in Side : Fits(k * reserve[s])
    <2> SUFFICES ASSUME NEW s \in Side PROVE Fits(k * reserve[s])
        OBVIOUS
    <2>1. Fits(totalShares * reserve[s])
        BY <1>5 DEF OperationalBounds
    <2>2. reserve[s] \in Nat /\ reserve[s] <= reserve[s]
        BY <1>4
    <2> QED
        BY <1>1, <1>2, <2>1, <2>2, SmallerProductFits
<1>8. k # totalShares => OperationalBounds(next, totalShares - k)
    <2> SUFFICES ASSUME k # totalShares
                 PROVE  OperationalBounds(next, totalShares - k)
        OBVIOUS
    <2>1. next \in [Side -> Nat \ {0}] /\ \A s \in Side : next[s] <= reserve[s]
        BY <1>4, <1>6
    <2>2. totalShares - k \in Nat \ {0} /\ totalShares - k <= totalShares
        BY <1>1, <1>2
    <2> HIDE DEF next
    <2> QED
        BY <1>1, <1>5, <2>1, <2>2, SmallerBounds
<1>9. k > 0 /\ totalShares > 0 /\ k <= shares[u]
    BY <1>1, <1>2
<1> QED
    BY <1>2, <1>5, <1>6, <1>7, <1>8, <1>9 DEF RemovalAccepted

(* The numbers of a swap on an open pool, accepted or not. *)
LEMMA SwapNumbers ==
    ASSUME Inv, initialized, NEW a \in Nat, NEW s \in Side
    PROVE  /\ Other(s) \in Side /\ Other(s) # s
           /\ NetAmount(a) \in Nat /\ NetAmount(a) <= a
           /\ ProtocolFee(a) \in Nat /\ ProtocolFee(a) <= a - NetAmount(a)
           /\ SwapOutput(a, s) \in Nat /\ SwapOutput(a, s) <= reserve[Other(s)]
           /\ CeilDiv(reserve[0] * reserve[1], reserve[s] + NetAmount(a)) \in Nat
           /\ CeilDiv(reserve[0] * reserve[1], reserve[s] + NetAmount(a))
                = reserve[Other(s)] - SwapOutput(a, s)
           /\ NextReserve(a, s) \in [Side -> Nat]
           /\ NextReserve(a, s)[s] = reserve[s] + (a - ProtocolFee(a))
           /\ NextReserve(a, s)[Other(s)] = reserve[Other(s)] - SwapOutput(a, s)
           /\ NextReserve(a, s)[0] * NextReserve(a, s)[1] >= reserve[0] * reserve[1]
<1> DEFINE o == Other(s)
           net == NetAmount(a)
           fee == ProtocolFee(a)
           kept == CeilDiv(reserve[0] * reserve[1], reserve[s] + net)
           out == SwapOutput(a, s)
           next == NextReserve(a, s)
<1>1. o \in Side /\ o # s /\ Side = {s, o}
    BY Sides
<1>2. net \in Nat /\ net <= a /\ fee \in Nat /\ fee <= a - net
    BY FeeBounds
<1>3. reserve[s] \in Nat \ {0} /\ reserve[o] \in Nat \ {0} /\ reserve \in [Side -> Nat]
    BY <1>1, OpenReserves DEF Inv, TypeOK
<1>4. reserve[0] * reserve[1] = reserve[s] * reserve[o]
    <2>1. CASE s = 0
        BY <2>1, Sides
    <2>2. CASE s = 1
        BY <1>3, <2>2, Sides, SMTT(30)
    <2> QED
        BY <2>1, <2>2, Sides
<1>5. kept \in Nat /\ kept <= reserve[o] /\ (reserve[s] + net) * kept >= reserve[s] * reserve[o]
    <2> HIDE DEF o, net
    <2>1. kept = CeilDiv(reserve[s] * reserve[o], reserve[s] + net)
        BY <1>4
    <2> HIDE DEF kept
    <2> QED
        BY <1>2, <1>3, <2>1, RetainedBounds
<1>6. out = reserve[o] - kept
    BY DEF SwapOutput
<1>7. next = [reserve EXCEPT ![s] = @ + (a - fee), ![o] = @ - out]
    BY DEF NextReserve
<1> HIDE DEF o, net, fee, kept, out, next
<1>8. out \in Nat /\ out <= reserve[o] /\ kept = reserve[o] - out
    BY <1>3, <1>5, <1>6
<1>9. a - fee \in Nat /\ a - fee >= net
    BY <1>2
<1>10. next[s] = reserve[s] + (a - fee) /\ next[o] = kept /\ next \in [Side -> Nat]
    <2>1. reserve[o] - out \in Nat /\ reserve[s] + (a - fee) \in Nat
        BY <1>3, <1>5, <1>8, <1>9
    <2> QED
        BY <1>1, <1>3, <1>7, <1>8, <2>1
<1>11. next[s] * next[o] >= reserve[s] * reserve[o]
    <2> DEFINE x == reserve[s]
               y == reserve[o]
               z == reserve[s] + (a - fee)
    <2>1. x \in Nat /\ y \in Nat /\ z \in Nat /\ z >= x + net
        BY <1>2, <1>3, <1>9
    <2>2. (x + net) * kept >= x * y
        BY <1>5
    <2>3. next[s] = z /\ next[o] = kept
        BY <1>10
    <2> HIDE DEF x, y, z
    <2>4. z * kept >= (x + net) * kept
        BY <1>2, <1>5, <2>1, SMTT(30)
    <2>5. z * kept \in Nat /\ (x + net) * kept \in Nat /\ x * y \in Nat
        BY <1>2, <1>5, <2>1, SMTT(30)
    <2>6. z * kept >= x * y
        BY <2>2, <2>4, <2>5
    <2> QED
        BY <2>3, <2>6 DEF x, y
<1>12. next[0] * next[1] = next[s] * next[o]
    <2>1. CASE s = 0
        BY <2>1, Sides DEF o
    <2>2. CASE s = 1
        <3>1. next[0] \in Nat /\ next[1] \in Nat
            BY <1>10, Sides
        <3> QED
            BY <2>2, <3>1, Sides, SMTT(30) DEF o
    <2> QED
        BY <2>1, <2>2, Sides
<1> QED
    BY <1>1, <1>2, <1>4, <1>5, <1>8, <1>10, <1>11, <1>12
    DEF o, net, fee, kept, out, next

(* Where a swap's first products fit, each word of the router's quote is   *)
(* the number the settlement computes.                                     *)
LEMMA QuoteExact ==
    ASSUME Inv, initialized, NEW a \in Nat, NEW s \in Side, Fits(a),
           Fits(a * (FeeDenominator - FeeBps)), Fits(reserve[s] + NetAmount(a))
    PROVE  LET w == QuoteWords(a, s)
           IN  /\ w.net = NetAmount(a)
               /\ w.fee = ProtocolFee(a)
               /\ w.retained = reserve[Other(s)] - SwapOutput(a, s)
               /\ w.output = SwapOutput(a, s)
               /\ Sub(a, w.fee) = a - ProtocolFee(a)
               /\ Fits(NextReserve(a, s)[s]) => w.next = NextReserve(a, s)
<1> DEFINE o == Other(s)
           net == NetAmount(a)
           fee == ProtocolFee(a)
           out == SwapOutput(a, s)
           next == NextReserve(a, s)
           left == FeeDenominator - FeeBps
           newReserve == Word(reserve[s] + net)
           product == reserve[0] * reserve[1]
           kept == CeilDiv(product, reserve[s] + net)
<1>1. /\ o \in Side /\ o # s /\ net \in Nat /\ net <= a
      /\ fee \in Nat /\ fee <= a - net /\ out \in Nat /\ out <= reserve[o]
      /\ kept \in Nat /\ kept = reserve[o] - out
      /\ next \in [Side -> Nat] /\ next[s] = reserve[s] + (a - fee)
      /\ next[o] = reserve[o] - out
    BY SwapNumbers
<1>2. /\ reserve[s] \in Nat \ {0} /\ reserve[o] \in Nat /\ Fits(reserve[o])
      /\ product \in Nat /\ Fits(product)
    BY <1>1, OpenReserves
<1>3. Word(a * left) \div FeeDenominator = net
    <2>1. a * left \in Nat
        <3>1. left \in Nat
            BY FeeAssumption
        <3> HIDE DEF left
        <3> QED
            BY <3>1, SMTT(30)
    <2>2. Word(a * left) = a * left
        BY <2>1, WordExact
    <2> QED
        BY <2>2 DEF NetAmount, MulDiv
<1>4. Sub(a, net) \div FeeShareDenominator = fee
    <2>1. Sub(a, net) = a - net
        BY <1>1, SubExact
    <2> QED
        BY <2>1 DEF ProtocolFee, ProtocolFeeFromTotal
<1>5. newReserve = reserve[s] + net /\ newReserve \in Nat \ {0}
    BY <1>1, <1>2, WordExact
<1>6. RoundedUp(Word(product), newReserve) = kept
    <2>1. Word(product) = product
        BY <1>2, WordExact
    <2> HIDE DEF product, newReserve
    <2>2. RoundedUp(product, newReserve) = CeilDiv(product, newReserve)
        BY <1>2, <1>5, RoundedUpExact
    <2> QED
        BY <1>5, <2>1, <2>2
<1>7. Sub(reserve[o], kept) = out
    <2>1. kept <= reserve[o] /\ reserve[o] - kept = out
        BY <1>1, <1>2
    <2> HIDE DEF kept
    <2> QED
        BY <1>1, <1>2, <2>1, SubExact
<1>8. Sub(a, fee) = a - fee
    <2>1. fee <= a
        BY <1>1
    <2> QED
        BY <1>1, <2>1, SubExact
<1>9. Sub(reserve[o], out) = reserve[o] - out
    BY <1>1, <1>2, SubExact
<1> DEFINE w == QuoteWords(a, s)
<1>10. w.net = net /\ w.fee = fee /\ w.retained = kept /\ w.output = out
    BY <1>3, <1>4, <1>5, <1>6, <1>7 DEF QuoteWords
<1>11. w.next = [t \in Side |-> IF t = s THEN Word(reserve[s] + (a - fee))
                                ELSE Sub(reserve[t], out)]
    BY <1>3, <1>4, <1>5, <1>6, <1>7, <1>8 DEF QuoteWords
<1> HIDE DEF o, net, fee, out, next, kept, w
<1>12. ASSUME Fits(next[s]) PROVE w.next = next
    <2>1. Word(reserve[s] + (a - fee)) = next[s]
        <3>1. next[s] \in Nat
            BY <1>1
        <3> QED
            BY <1>1, <1>12, <3>1, WordExact
    <2>2. Side = {s, o}
        BY Sides DEF o
    <2>3. \A t \in Side : w.next[t] = next[t]
        BY <1>1, <1>9, <1>11, <2>1, <2>2
    <2> QED
        BY <1>1, <1>11, <2>3
<1> QED
    BY <1>1, <1>8, <1>10, <1>12 DEF o, net, fee, out, next, w

LEMMA QuoteAgrees == Inv => QuoteMatchesSettlement
<1> SUFFICES ASSUME Inv, NEW a \in Amounts, NEW s \in Side
             PROVE  /\ QuoteValid(a, s) <=> SwapAccepted(a, s)
                    /\ SwapAccepted(a, s) => QuotedOutput(a, s) = SwapOutput(a, s)
    BY DEF QuoteMatchesSettlement
<1> DEFINE o == Other(s)
           w == QuoteWords(a, s)
           next == NextReserve(a, s)
           early == /\ initialized
                    /\ Fits(a * (FeeDenominator - FeeBps))
                    /\ Fits(reserve[s] + NetAmount(a))
<1>1. a \in Nat /\ Fits(a)
    BY ConfidentialPoolAssumption DEF Fits
<1>2. SwapAccepted(a, s) => early
    BY DEF SwapAccepted
<1>3. QuoteValid(a, s) => early
    <2> HIDE DEF w
    <2>1. QuoteValid(a, s) =>
            /\ initialized /\ Fits(a * (FeeDenominator - FeeBps))
            /\ Fits(reserve[s] + w.net)
        BY DEF QuoteValid, w
    <2>2. QuoteValid(a, s) => w.net = NetAmount(a)
        <3> SUFFICES ASSUME Fits(a * (FeeDenominator - FeeBps))
                     PROVE  w.net = NetAmount(a)
            BY <2>1
        <3> DEFINE left == FeeDenominator - FeeBps
        <3>1. a * left \in Nat
            <4>1. left \in Nat
                BY FeeAssumption
            <4> HIDE DEF left
            <4> QED
                BY <1>1, <4>1, SMTT(30)
        <3>2. Word(a * left) = a * left
            BY <3>1, WordExact
        <3>3. w.net = Word(a * left) \div FeeDenominator
            BY DEF w, QuoteWords
        <3> QED
            BY <3>2, <3>3 DEF NetAmount, MulDiv
    <2> QED
        BY <2>1, <2>2
<1>4. SUFFICES ASSUME early
               PROVE  /\ QuoteValid(a, s) <=> SwapAccepted(a, s)
                      /\ SwapAccepted(a, s) => QuotedOutput(a, s) = SwapOutput(a, s)
    BY <1>2, <1>3
<1>5. /\ w.net = NetAmount(a) /\ w.fee = ProtocolFee(a)
      /\ w.retained = reserve[o] - SwapOutput(a, s)
      /\ w.output = SwapOutput(a, s)
      /\ Sub(a, w.fee) = a - ProtocolFee(a)
      /\ Fits(next[s]) => w.next = next
    BY <1>1, <1>4, QuoteExact
<1>6. /\ o \in Side /\ NetAmount(a) \in Nat /\ NetAmount(a) <= a
      /\ ProtocolFee(a) \in Nat /\ ProtocolFee(a) <= a - NetAmount(a)
      /\ SwapOutput(a, s) \in Nat /\ SwapOutput(a, s) <= reserve[o]
      /\ next \in [Side -> Nat] /\ next[s] = reserve[s] + (a - ProtocolFee(a))
    BY <1>1, <1>4, SwapNumbers
<1>7. /\ \A t \in Side : reserve[t] \in Nat \ {0}
      /\ Fits(reserve[0] * reserve[1]) /\ totalShares \in Nat \ {0}
    BY <1>4, OpenReserves
<1> HIDE DEF o, w, next
<1>8. w.net <= a /\ w.retained <= reserve[o]
    BY <1>5, <1>6, <1>7
<1>9. SettlementBits(a, s, w) <=> Fits(next[s])
    <2>1. w.fee <= a /\ w.output <= reserve[o]
        BY <1>1, <1>5, <1>6
    <2> QED
        BY <1>5, <1>6, <2>1 DEF SettlementBits, o
<1>10. ASSUME Fits(next[s])
       PROVE  OperationalBits(s, w) <=>
                /\ Fits(protocolFees[s] + ProtocolFee(a)) /\ swapCount[s] < MaxCount
                /\ OperationalBounds(next, totalShares)
    <2>1. w.next = next /\ w.fee = ProtocolFee(a)
        BY <1>5, <1>10
    <2> DEFINE scaled == next[1] * Scale[1]
    <2>2. scaled \in Nat
        <3>1. next[1] \in Nat /\ Scale[1] \in Nat
            BY <1>6, Sides, ConfidentialPoolAssumption
        <3> QED
            BY <3>1, SMTT(30)
    <2>3. Fits(scaled) => Word(scaled) = scaled
        BY <2>2, WordExact
    <2> QED
        BY <2>1, <2>3 DEF OperationalBits, OperationalBounds
<1>11. QuoteValid(a, s) <=>
         /\ a > 0 /\ NetAmount(a) > 0 /\ ProtocolFee(a) > 0 /\ SwapOutput(a, s) > 0
         /\ SettlementBits(a, s, w) /\ OperationalBits(s, w)
    <2>1. reserve[0] > 0 /\ reserve[1] > 0
        BY <1>7, Sides
    <2> QED
        BY <1>4, <1>5, <1>7, <1>8, <2>1 DEF QuoteValid, w, o
<1>12. SwapAccepted(a, s) <=>
         /\ a > 0 /\ NetAmount(a) > 0 /\ ProtocolFee(a) > 0 /\ SwapOutput(a, s) > 0
         /\ Fits(next[s])
         /\ Fits(protocolFees[s] + ProtocolFee(a)) /\ swapCount[s] < MaxCount
         /\ OperationalBounds(next, totalShares)
    <2>1. reserve[0] > 0 /\ reserve[1] > 0
        BY <1>7, Sides
    <2> QED
        BY <1>4, <1>7, <2>1 DEF SwapAccepted, next
<1>13. QuoteValid(a, s) <=> SwapAccepted(a, s)
    BY <1>9, <1>10, <1>11, <1>12
<1>14. QuoteValid(a, s) => QuotedOutput(a, s) = SwapOutput(a, s)
    BY <1>5 DEF QuotedOutput, w
<1> QED
    BY <1>13, <1>14

(* Two floors and two ceilings: the offered deposit is worth the previewed *)
(* shares on both sides, and on the previewed one no more than that.       *)
LEMMA PreviewAgrees == Inv => PreviewHonoured
<1> SUFFICES ASSUME Inv, NEW m \in Amounts, NEW s \in Side, PreviewAccepted(m, s)
             PROVE  LET offer == PreviewedDeposits(m, s)
                    IN  /\ offer[s] <= m
                        /\ MintedFor(offer) = PreviewedShares(m, s)
                        /\ Deposits(MintedFor(offer)) = offer
    BY DEF PreviewHonoured
<1> DEFINE S == PreviewedShares(m, s)
           offer == PreviewedDeposits(m, s)
           n == totalShares
<1>1. initialized
    BY DEF PreviewAccepted
<1>2. /\ m \in Nat /\ n \in Nat \ {0}
      /\ \A t \in Side : reserve[t] \in Nat \ {0}
    BY <1>1, OpenReserves, ConfidentialPoolAssumption
<1>3. S \in Nat /\ reserve[s] * S <= m * n /\ m * n < reserve[s] * S + reserve[s]
    <2>1. m * n \in Nat
        BY <1>2, SMTT(30)
    <2> QED
        BY <1>2, <2>1, DivBounds DEF PreviewedShares, MulDiv
<1>4. offer = [t \in Side |-> CeilDiv(S * reserve[t], n)]
    BY DEF PreviewedDeposits, Deposits
<1> HIDE DEF S, offer, n
<1>5. \A t \in Side : /\ offer[t] \in Nat
                      /\ n * offer[t] >= S * reserve[t]
                      /\ n * offer[t] < S * reserve[t] + n
    <2> SUFFICES ASSUME NEW t \in Side
                 PROVE  /\ offer[t] \in Nat
                        /\ n * offer[t] >= S * reserve[t]
                        /\ n * offer[t] < S * reserve[t] + n
        OBVIOUS
    <2>1. S * reserve[t] \in Nat
        BY <1>2, <1>3, SMTT(30)
    <2> QED
        BY <1>2, <1>4, <2>1, CeilDivBounds
<1>6. offer[s] <= m
    <2> DEFINE c == offer[s]
               r == reserve[s]
    <2>1. /\ c \in Nat /\ r \in Nat \ {0} /\ n * c < S * r + n /\ r * S <= m * n
        BY <1>2, <1>3, <1>5
    <2> HIDE DEF c, r
    <2>2. SUFFICES ASSUME c >= m + 1 PROVE FALSE
        BY <1>2, <2>1 DEF c
    <2>3. n * c >= n * m + n
        BY <1>2, <2>1, <2>2, SMTT(30)
    <2>4. S * r = r * S /\ m * n = n * m /\ n * c \in Nat /\ r * S \in Nat /\ n * m \in Nat
        BY <1>2, <1>3, <2>1, SMTT(30)
    <2> QED
        BY <1>2, <2>1, <2>3, <2>4
<1>7. \A t \in Side : /\ MulDiv(offer[t], n, reserve[t]) \in Nat
                      /\ S <= MulDiv(offer[t], n, reserve[t])
    <2> SUFFICES ASSUME NEW t \in Side
                 PROVE  /\ MulDiv(offer[t], n, reserve[t]) \in Nat
                        /\ S <= MulDiv(offer[t], n, reserve[t])
        OBVIOUS
    <2> DEFINE c == offer[t]
               r == reserve[t]
               q == MulDiv(c, n, r)
    <2>1. c \in Nat /\ r \in Nat \ {0} /\ n * c >= S * r
        BY <1>2, <1>5
    <2> HIDE DEF c, r
    <2>2. c * n \in Nat
        BY <1>2, <2>1, SMTT(30)
    <2>3. q \in Nat /\ r * q <= c * n /\ c * n < r * q + r
        BY <2>1, <2>2, DivBounds DEF MulDiv
    <2> HIDE DEF q
    <2>4. SUFFICES ASSUME S >= q + 1 PROVE FALSE
        BY <1>3, <2>3 DEF q, c, r
    <2>5. r * S >= r * q + r
        BY <1>3, <2>1, <2>3, <2>4, SMTT(30)
    <2>6. S * r = r * S /\ n * c = c * n /\ r * S \in Nat /\ r * q \in Nat
        BY <1>2, <1>3, <2>1, <2>3, SMTT(30)
    <2> QED
        BY <2>1, <2>2, <2>3, <2>5, <2>6
<1>8. MulDiv(offer[s], n, reserve[s]) <= S
    <2> DEFINE c == offer[s]
               r == reserve[s]
               q == MulDiv(c, n, r)
    <2>1. c \in Nat /\ r \in Nat \ {0} /\ c <= m /\ m * n < r * S + r
        BY <1>2, <1>3, <1>5, <1>6
    <2> HIDE DEF c, r
    <2>2. c * n \in Nat /\ m * n \in Nat /\ c * n <= m * n
        BY <1>2, <2>1, SMTT(30)
    <2>3. q \in Nat /\ r * q <= c * n
        BY <2>1, <2>2, DivBounds DEF MulDiv
    <2> HIDE DEF q
    <2>4. SUFFICES ASSUME q >= S + 1 PROVE FALSE
        BY <1>3, <2>3 DEF q, c, r
    <2>5. r * q >= r * S + r
        BY <1>3, <2>1, <2>3, <2>4, SMTT(30)
    <2>6. r * S \in Nat /\ r * q \in Nat
        BY <1>3, <2>1, <2>3, SMTT(30)
    <2> QED
        BY <2>1, <2>2, <2>3, <2>5, <2>6
<1>9. MintedFor(offer) = S
    <2> DEFINE q0 == MulDiv(offer[0], n, reserve[0])
               q1 == MulDiv(offer[1], n, reserve[1])
    <2>1. q0 \in Nat /\ q1 \in Nat /\ S <= q0 /\ S <= q1 /\ (q0 <= S \/ q1 <= S)
        BY <1>7, <1>8, Sides
    <2>2. MintedFor(offer) = Least(q0, q1)
        BY DEF MintedFor, SharesFor, n
    <2> HIDE DEF q0, q1
    <2> QED
        BY <1>3, <2>1, <2>2 DEF Least
<1>10. Deposits(S) = offer
    BY DEF PreviewedDeposits, offer, S
<1> QED
    BY <1>6, <1>9, <1>10 DEF S, offer

-----------------------------------------------------------------------------
(* The ledger of holders and locks, under each way shares move.            *)

LEMMA LedgerMint ==
    ASSUME NEW h \in [Users -> Nat], NEW records, NEW total \in Nat,
           LedgerOf(h, records, total), NEW u \in Users, NEW a \in Nat
    PROVE  /\ [h EXCEPT ![u] = @ + a] \in [Users -> Nat]
           /\ LedgerOf([h EXCEPT ![u] = @ + a], records, total + a)
<1> DEFINE live == LiveAmountOf(records)
           more == [h EXCEPT ![u] = @ + a]
<1>1. PICK held \in Nat, locked \in Nat :
        /\ AddsUpTo(h, Users, held) /\ AddsUpTo(live, 1 .. MaxLocks, locked)
        /\ held + locked = total
    BY DEF LedgerOf
<1> HIDE DEF live
<1>2. AddsUpTo(more, Users, held + a)
    BY <1>1, RaiseTotal
<1>3. more \in [Users -> Nat]
    OBVIOUS
<1> HIDE DEF more
<1>4. held + a \in Nat /\ (held + a) + locked = total + a
    BY <1>1
<1> QED
    BY <1>1, <1>2, <1>3, <1>4 DEF LedgerOf, live, more

LEMMA LedgerBurn ==
    ASSUME NEW h \in [Users -> Nat], NEW records, NEW total \in Nat,
           LedgerOf(h, records, total), NEW u \in Users, NEW a \in 0 .. h[u]
    PROVE  /\ [h EXCEPT ![u] = @ - a] \in [Users -> Nat]
           /\ total - a \in Nat
           /\ LedgerOf([h EXCEPT ![u] = @ - a], records, total - a)
<1> DEFINE live == LiveAmountOf(records)
           less == [h EXCEPT ![u] = @ - a]
<1>1. PICK held \in Nat, locked \in Nat :
        /\ AddsUpTo(h, Users, held) /\ AddsUpTo(live, 1 .. MaxLocks, locked)
        /\ held + locked = total
    BY DEF LedgerOf
<1> HIDE DEF live
<1>2. held - a \in Nat /\ AddsUpTo(less, Users, held - a)
    BY <1>1, LowerTotal
<1>3. less \in [Users -> Nat]
    OBVIOUS
<1>4. a \in Nat
    OBVIOUS
<1> HIDE DEF less
<1>5. total - a \in Nat /\ (held - a) + locked = total - a
    BY <1>1, <1>2, <1>4
<1> QED
    BY <1>1, <1>2, <1>3, <1>5 DEF LedgerOf, live, less

LEMMA LedgerLock ==
    ASSUME NEW h, NEW records \in Seq(LockRecords), NEW total \in Nat,
           LedgerOf(h, records, total), Len(records) < MaxLocks,
           NEW record \in LockRecords, ~record.released
    PROVE  /\ Append(records, record) \in Seq(LockRecords)
           /\ Len(Append(records, record)) <= MaxLocks
           /\ LedgerOf(h, Append(records, record), total + record.amount)
<1> DEFINE live == LiveAmountOf(records)
           longer == Append(records, record)
           more == LiveAmountOf(longer)
           a == record.amount
           n == Len(records) + 1
<1>1. PICK held \in Nat, locked \in Nat :
        /\ AddsUpTo(h, Users, held) /\ AddsUpTo(live, 1 .. MaxLocks, locked)
        /\ held + locked = total
    BY DEF LedgerOf
<1>2. a \in Nat
    BY DEF LockRecords
<1>3. /\ longer \in Seq(LockRecords) /\ Len(longer) = n /\ n \in 1 .. MaxLocks
      /\ DOMAIN longer = 1 .. n /\ DOMAIN records = 1 .. Len(records)
      /\ longer[n] = record /\ \A i \in DOMAIN records : longer[i] = records[i]
    BY ConfidentialPoolAssumption
<1>4. live \in [1 .. MaxLocks -> Nat] /\ more \in [1 .. MaxLocks -> Nat]
    BY <1>3, LiveAmountType
<1> HIDE DEF longer
<1>5. more = [live EXCEPT ![n] = @ + a]
    <2>1. live[n] = 0 /\ more[n] = a
        BY <1>3 DEF LiveAmountOf
    <2>2. \A i \in 1 .. MaxLocks : i # n => more[i] = live[i]
        BY <1>3 DEF LiveAmountOf
    <2> QED
        BY <1>2, <1>3, <1>4, <2>1, <2>2
<1> HIDE DEF live, more, a
<1>6. AddsUpTo(more, 1 .. MaxLocks, locked + a)
    BY <1>1, <1>2, <1>3, <1>4, <1>5, RaiseTotal
<1>7. locked + a \in Nat /\ held + (locked + a) = total + a
    BY <1>1, <1>2
<1>8. Len(longer) <= MaxLocks
    BY <1>3, ConfidentialPoolAssumption
<1> QED
    BY <1>1, <1>3, <1>6, <1>7, <1>8 DEF LedgerOf, longer, more, a

LEMMA LedgerRelease ==
    ASSUME NEW h, NEW records \in Seq(LockRecords), NEW total \in Nat,
           LedgerOf(h, records, total), Len(records) <= MaxLocks,
           NEW i \in DOMAIN records, ~records[i].released
    PROVE  LET rest == [records EXCEPT ![i].released = TRUE]
               a == records[i].amount
           IN  /\ rest \in Seq(LockRecords) /\ Len(rest) = Len(records)
               /\ a \in Nat /\ total - a \in Nat
               /\ LedgerOf(h, rest, total - a)
<1> DEFINE rest == [records EXCEPT ![i].released = TRUE]
           a == records[i].amount
           live == LiveAmountOf(records)
           less == LiveAmountOf(rest)
<1>1. PICK held \in Nat, locked \in Nat :
        /\ AddsUpTo(h, Users, held) /\ AddsUpTo(live, 1 .. MaxLocks, locked)
        /\ held + locked = total
    BY DEF LedgerOf
<1>2. /\ records[i] \in LockRecords /\ DOMAIN records = 1 .. Len(records)
      /\ Len(records) \in Nat
    OBVIOUS
<1>3. a \in Nat
    BY <1>2 DEF LockRecords
<1>4. /\ rest \in Seq(LockRecords) /\ DOMAIN rest = DOMAIN records
      /\ Len(rest) = Len(records) /\ rest[i].released
      /\ \A k \in DOMAIN records : k # i => rest[k] = records[k]
    <2>1. [records[i] EXCEPT !.released = TRUE] \in LockRecords
        BY <1>2 DEF LockRecords
    <2>2. [records[i] EXCEPT !.released = TRUE].released
        BY <1>2 DEF LockRecords
    <2>3. rest = [records EXCEPT ![i] = [records[i] EXCEPT !.released = TRUE]]
        BY <1>2
    <2> QED
        BY <1>2, <2>1, <2>2, <2>3
<1> HIDE DEF rest
<1>5. live \in [1 .. MaxLocks -> Nat] /\ less \in [1 .. MaxLocks -> Nat]
    BY <1>4, LiveAmountType
<1>6. i \in 1 .. MaxLocks
    BY <1>2, ConfidentialPoolAssumption
<1>7. live[i] = a
    BY <1>6 DEF LiveAmountOf
<1>8. less = [live EXCEPT ![i] = @ - a]
    <2>1. less[i] = 0
        BY <1>4, <1>6 DEF LiveAmountOf
    <2>2. \A k \in 1 .. MaxLocks : k # i => less[k] = live[k]
        BY <1>4 DEF LiveAmountOf
    <2> QED
        BY <1>3, <1>5, <1>6, <1>7, <2>1, <2>2
<1> HIDE DEF live, less, a
<1>9. a \in 0 .. live[i]
    BY <1>3, <1>7
<1>10. locked - a \in Nat /\ AddsUpTo(less, 1 .. MaxLocks, locked - a)
    BY <1>1, <1>5, <1>6, <1>8, <1>9, LowerTotal
<1>11. held + (locked - a) = total - a /\ total - a \in Nat
    BY <1>1, <1>3, <1>10
<1> QED
    BY <1>1, <1>3, <1>4, <1>10, <1>11 DEF LedgerOf, rest, less, a

-----------------------------------------------------------------------------
(* No dilution: the two shapes a step can have.                            *)

LEMMA ProductKept ==
    ASSUME reserve \in [Side -> Nat], reserve' \in [Side -> Nat], totalShares \in Nat,
           UNCHANGED totalShares,
           reserve'[0] * reserve'[1] >= reserve[0] * reserve[1]
    PROVE  NoDilution
<1> DEFINE k == reserve'[0] * reserve'[1]
           l == reserve[0] * reserve[1]
           t == totalShares
<1>1. k \in Nat /\ l \in Nat /\ k >= l /\ t \in Nat
    <2>1. /\ reserve[0] \in Nat /\ reserve[1] \in Nat
          /\ reserve'[0] \in Nat /\ reserve'[1] \in Nat
        BY Sides
    <2> QED
        BY <2>1, SMTT(30)
<1> HIDE DEF k, l, t
<1>2. k * t >= l * t /\ k * t \in Nat /\ l * t \in Nat
    BY <1>1, SMTT(30)
<1>3. k * t * t >= l * t * t
    BY <1>1, <1>2, SMTT(30)
<1>4. totalShares' = t
    BY DEF t
<1> QED
    BY <1>3, <1>4 DEF NoDilution, k, l, t

LEMMA ProportionsKept ==
    ASSUME reserve \in [Side -> Nat], reserve' \in [Side -> Nat],
           totalShares \in Nat, totalShares' \in Nat,
           \A s \in Side : reserve'[s] * totalShares >= reserve[s] * totalShares'
    PROVE  NoDilution
<1> DEFINE p == reserve'[0]
           q == reserve'[1]
           x == reserve[0]
           y == reserve[1]
           n == totalShares
           t == totalShares'
<1>1. p \in Nat /\ q \in Nat /\ x \in Nat /\ y \in Nat /\ n \in Nat /\ t \in Nat
    BY Sides
<1>2. p * n >= x * t /\ q * n >= y * t
    BY Sides
<1> HIDE DEF p, q, x, y, n, t
<1>3. (p * q) * (n * n) >= (x * y) * (t * t)
    BY <1>1, <1>2, ProportionKeepsProduct
<1>4. p * q * n * n = (p * q) * (n * n) /\ x * y * t * t = (x * y) * (t * t)
    BY <1>1, SMTT(30)
<1> QED
    BY <1>3, <1>4 DEF NoDilution, p, q, x, y, n, t

-----------------------------------------------------------------------------
(* One lemma per operation: it keeps the invariant and dilutes no share.   *)

LEMMA InitInv == Init => Inv
<1> SUFFICES ASSUME Init PROVE Inv
    OBVIOUS
<1>1. TypeOK
    <2>1. locks \in Seq(LockRecords)
        BY DEF Init
    <2>2. 0 \in 0 .. MaxCount
        BY ConfidentialPoolAssumption
    <2> QED
        BY <2>1, <2>2 DEF Init, TypeOK, Both
<1>2. Ledger
    <2>1. LiveAmountOf(locks) = [i \in 1 .. MaxLocks |-> 0]
        BY DEF Init, LiveAmountOf
    <2>2. /\ AddsUpTo(shares, Users, 0) /\ totalShares = 0
          /\ AddsUpTo(LiveAmountOf(locks), 1 .. MaxLocks, 0)
        BY <2>1, NothingHeld DEF Init
    <2>3. 0 \in Nat /\ 0 + 0 = totalShares
        BY <2>2
    <2> QED
        BY <2>2, <2>3 DEF Ledger, LedgerOf
<1>3. LocksBounded
    <2>1. Len(locks) = 0
        BY DEF Init
    <2> QED
        BY <2>1, ConfidentialPoolAssumption DEF LocksBounded
<1>4. RecordsAgree /\ WithinBounds
    BY Sides DEF Init, RecordsAgree, WithinBounds, Both
<1> QED
    BY <1>1, <1>2, <1>3, <1>4 DEF Inv

LEMMA SwapStep ==
    ASSUME Inv, NEW a \in Nat, NEW s \in Side, Swap(a, s)
    PROVE  Inv' /\ NoDilution
<1> DEFINE o == Other(s)
           fee == ProtocolFee(a)
           out == SwapOutput(a, s)
           next == NextReserve(a, s)
<1>1. /\ initialized /\ fee > 0 /\ swapCount[s] < MaxCount
      /\ OperationalBounds(next, totalShares)
      /\ reserve' = next
      /\ protocolFees' = [protocolFees EXCEPT ![s] = @ + fee]
      /\ swapCount' = [swapCount EXCEPT ![s] = @ + 1]
      /\ balance' = [balance EXCEPT ![s] = @ + a, ![o] = @ - out]
      /\ UNCHANGED <<lifeVars, shareVars>>
    BY DEF Swap, SwapAccepted
<1>2. /\ o \in Side /\ o # s /\ Side = {s, o} /\ fee \in Nat /\ fee <= a
      /\ out \in Nat /\ out <= reserve[o]
      /\ next \in [Side -> Nat] /\ next[s] = reserve[s] + (a - fee)
      /\ next[o] = reserve[o] - out
      /\ next[0] * next[1] >= reserve[0] * reserve[1]
    <2>1. Side = {s, o}
        BY Sides
    <2>2. /\ NetAmount(a) \in Nat /\ fee \in Nat /\ fee <= a - NetAmount(a)
        BY FeeBounds
    <2>3. fee <= a
        BY <2>2
    <2> QED
        BY <1>1, <2>1, <2>3, SwapNumbers
<1> HIDE DEF o, fee, out, next
<1>3. /\ reserve \in [Side -> Nat] /\ protocolFees \in [Side -> Nat]
      /\ swapCount \in [Side -> 0 .. MaxCount] /\ balance \in [Side -> Nat]
      /\ totalShares \in Nat
      /\ \A t \in Side : balance[t] = reserve[t] + protocolFees[t]
    BY DEF Inv, TypeOK, RecordsAgree
<1>4. protocolFees' \in [Side -> Nat] /\ swapCount' \in [Side -> 0 .. MaxCount]
    BY <1>1, <1>2, <1>3, ConfidentialPoolAssumption
<1>5. /\ balance'[s] = balance[s] + a /\ balance'[o] = balance[o] - out
      /\ balance' \in [Side -> Nat]
    <2>1. balance[o] - out \in Nat /\ balance[s] + a \in Nat
        BY <1>2, <1>3
    <2> QED
        BY <1>1, <1>2, <1>3, <2>1
<1>6. TypeOK'
    BY <1>1, <1>2, <1>4, <1>5 DEF Inv, TypeOK, lifeVars, shareVars
<1>7. Ledger' /\ LocksBounded' /\ WithinBounds'
    BY <1>1 DEF Inv, Ledger, LocksBounded, WithinBounds, lifeVars, shareVars
<1>8. RecordsAgree'
    <2>1. balance'[s] = reserve'[s] + protocolFees'[s]
        <3>1. protocolFees'[s] = protocolFees[s] + fee
            BY <1>1, <1>3
        <3> QED
            BY <1>1, <1>2, <1>3, <1>5, <3>1
    <2>2. balance'[o] = reserve'[o] + protocolFees'[o]
        <3>1. protocolFees'[o] = protocolFees[o]
            BY <1>1, <1>2, <1>3
        <3> QED
            BY <1>1, <1>2, <1>3, <1>5, <3>1
    <2>3. \A t \in Side : protocolFees'[t] # 0 <=> swapCount'[t] # 0
        <3>1. protocolFees'[s] # 0 /\ swapCount'[s] # 0
            BY <1>1, <1>2, <1>3
        <3>2. protocolFees'[o] = protocolFees[o] /\ swapCount'[o] = swapCount[o]
            BY <1>1, <1>2, <1>3
        <3> QED
            BY <1>2, <3>1, <3>2 DEF Inv, RecordsAgree
    <2>4. initialized' /\ totalShares' # 0
        BY <1>1 DEF Inv, RecordsAgree, lifeVars, shareVars
    <2>5. \A t \in Side : reserve'[t] # 0
        <3>1. next[0] > 0 /\ next[1] > 0
            BY <1>1 DEF OperationalBounds
        <3> QED
            BY <1>1, <3>1, Sides
    <2> QED
        BY <1>2, <2>1, <2>2, <2>3, <2>4, <2>5 DEF RecordsAgree
<1>9. NoDilution
    BY <1>1, <1>2, <1>3, ProductKept DEF shareVars
<1> QED
    BY <1>6, <1>7, <1>8, <1>9 DEF Inv

(* The first liquidity, however its shares are given out. *)
LEMMA FirstLiquidityStep ==
    ASSUME Inv, NEW offer \in [Side -> Nat], InitialAccepted(offer),
           initialized' = TRUE, completed' \in BOOLEAN,
           reserve' = offer, totalShares' = InitialShares(offer),
           balance' = [s \in Side |-> balance[s] + offer[s]],
           locks' \in Seq(LockRecords), Len(locks') <= MaxLocks,
           shares' \in [Users -> Nat], Ledger', UNCHANGED feeVars
    PROVE  Inv' /\ NoDilution
<1>1. ~initialized /\ OperationalBounds(offer, InitialShares(offer))
    BY DEF InitialAccepted
<1>2. InitialShares(offer) \in Nat /\ InitialShares(offer) > 0
    <2>1. /\ offer[0] \in Nat /\ offer[1] \in Nat /\ Scale[0] \in Nat /\ Scale[1] \in Nat
        BY Sides, ConfidentialPoolAssumption
    <2>2. offer[0] * Scale[0] \in Nat /\ offer[1] * Scale[1] \in Nat
        BY <2>1, SMTT(30)
    <2>3. InitialShares(offer) \in Nat
        BY <2>2 DEF InitialShares, Least
    <2> QED
        BY <1>1, <2>3 DEF OperationalBounds
<1>3. /\ reserve \in [Side -> Nat] /\ balance \in [Side -> Nat]
      /\ \A s \in Side : balance[s] = 0 /\ protocolFees[s] = 0
    BY <1>1 DEF Inv, TypeOK, RecordsAgree
<1>4. balance' \in [Side -> Nat] /\ \A s \in Side : balance'[s] = offer[s]
    BY <1>3
<1>5. TypeOK'
    BY <1>2, <1>4 DEF Inv, TypeOK, feeVars
<1>6. WithinBounds' /\ LocksBounded'
    BY <1>1 DEF WithinBounds, LocksBounded
<1>7. RecordsAgree'
    <2>1. \A s \in Side : offer[s] # 0
        BY <1>1, Sides DEF OperationalBounds
    <2>2. \A s \in Side : balance'[s] = reserve'[s] + protocolFees'[s]
        BY <1>3, <1>4 DEF feeVars
    <2> QED
        BY <1>2, <2>1, <2>2 DEF Inv, RecordsAgree, feeVars
<1>8. NoDilution
    BY <1>1 DEF NoDilution
<1> QED
    BY <1>5, <1>6, <1>7, <1>8 DEF Inv

LEMMA InitializeStep ==
    ASSUME Inv, NEW u \in Users, NEW offer \in [Side -> Nat],
           InitializeLiquidity(u, offer)
    PROVE  Inv' /\ NoDilution
<1> DEFINE minted == InitialShares(offer)
<1>1. /\ InitialAccepted(offer) /\ Take(offer, minted)
      /\ shares' = [shares EXCEPT ![u] = @ + minted]
      /\ initialized' = TRUE /\ UNCHANGED <<completed, feeVars, locks>>
    BY DEF InitializeLiquidity
<1>2. ~initialized /\ totalShares = 0 /\ \A s \in Side : reserve[s] = 0
    BY <1>1 DEF InitialAccepted, Inv, RecordsAgree
<1>3. minted \in Nat
    <2>1. /\ offer[0] \in Nat /\ offer[1] \in Nat /\ Scale[0] \in Nat /\ Scale[1] \in Nat
        BY Sides, ConfidentialPoolAssumption
    <2>2. offer[0] * Scale[0] \in Nat /\ offer[1] * Scale[1] \in Nat
        BY <2>1, SMTT(30)
    <2> QED
        BY <2>2 DEF InitialShares, Least
<1>4. reserve' = offer
    BY <1>1, <1>2 DEF Take
<1> HIDE DEF minted
<1>5. shares' \in [Users -> Nat] /\ Ledger' /\ totalShares' = minted
    <2>1. shares \in [Users -> Nat] /\ totalShares \in Nat /\ LedgerOf(shares, locks, totalShares)
        BY DEF Inv, TypeOK, Ledger
    <2>2. shares' \in [Users -> Nat] /\ LedgerOf(shares', locks, totalShares + minted)
        BY <1>1, <1>3, <2>1, LedgerMint
    <2>3. totalShares' = totalShares + minted
        BY <1>1 DEF Take
    <2> QED
        BY <1>1, <1>2, <1>3, <2>2, <2>3 DEF Ledger
<1> QED
    BY <1>1, <1>4, <1>5, FirstLiquidityStep
    DEF minted, Take, Inv, TypeOK, LocksBounded

LEMMA BootstrapStep ==
    ASSUME Inv, NEW u \in Users, NEW offer \in [Side -> Nat], NEW disposition,
           Bootstrap(u, offer, disposition)
    PROVE  Inv' /\ NoDilution
<1> DEFINE minted == InitialShares(offer)
           record == LockRecord(u, minted, disposition = "permanent")
<1>1. /\ InitialAccepted(offer) /\ reserve' = offer
      /\ balance' = [s \in Side |-> balance[s] + offer[s]]
      /\ totalShares' = minted /\ initialized' = TRUE
      /\ completed' \in BOOLEAN /\ UNCHANGED feeVars
      /\ \/ /\ shares' = [shares EXCEPT ![u] = @ + minted]
            /\ UNCHANGED locks
         \/ /\ Len(locks) < MaxLocks
            /\ locks' = Append(locks, record)
            /\ UNCHANGED shares
    BY DEF Bootstrap
<1>2. totalShares = 0
    BY <1>1 DEF InitialAccepted, Inv, RecordsAgree
<1>3. minted \in Nat
    <2>1. /\ offer[0] \in Nat /\ offer[1] \in Nat /\ Scale[0] \in Nat /\ Scale[1] \in Nat
        BY Sides, ConfidentialPoolAssumption
    <2>2. offer[0] * Scale[0] \in Nat /\ offer[1] * Scale[1] \in Nat
        BY <2>1, SMTT(30)
    <2> QED
        BY <2>2 DEF InitialShares, Least
<1>4. /\ shares \in [Users -> Nat] /\ totalShares \in Nat /\ locks \in Seq(LockRecords)
      /\ Len(locks) <= MaxLocks /\ LedgerOf(shares, locks, totalShares)
    BY DEF Inv, TypeOK, Ledger, LocksBounded
<1>5. record \in LockRecords /\ ~record.released /\ record.amount = minted
    BY <1>3 DEF LockRecord, LockRecords
<1> HIDE DEF minted, record
<1>6. /\ shares' \in [Users -> Nat] /\ locks' \in Seq(LockRecords)
      /\ Len(locks') <= MaxLocks /\ LedgerOf(shares', locks', totalShares + minted)
    <2>1. CASE /\ shares' = [shares EXCEPT ![u] = @ + minted]
               /\ UNCHANGED locks
        BY <1>3, <1>4, <2>1, LedgerMint
    <2>2. CASE /\ Len(locks) < MaxLocks
               /\ locks' = Append(locks, record)
               /\ UNCHANGED shares
        BY <1>4, <1>5, <2>2, LedgerLock
    <2> QED
        BY <1>1, <2>1, <2>2
<1>7. Ledger'
    BY <1>1, <1>2, <1>3, <1>6 DEF Ledger
<1> QED
    BY <1>1, <1>6, <1>7, FirstLiquidityStep DEF minted

LEMMA IncreaseStep ==
    ASSUME Inv, NEW u \in Users, NEW offer \in [Side -> Nat],
           IncreaseLiquidity(u, offer)
    PROVE  Inv' /\ NoDilution
<1> DEFINE minted == MintedFor(offer)
           deposit == Deposits(minted)
           next == [s \in Side |-> reserve[s] + deposit[s]]
<1>1. /\ initialized /\ minted > 0
      /\ OperationalBounds(next, totalShares + minted)
      /\ reserve' = next
      /\ balance' = [s \in Side |-> balance[s] + deposit[s]]
      /\ totalShares' = totalShares + minted
      /\ shares' = [shares EXCEPT ![u] = @ + minted]
      /\ UNCHANGED <<lifeVars, feeVars, locks>>
    BY DEF IncreaseLiquidity, AdditionAccepted, Take
<1>2. /\ totalShares \in Nat \ {0} /\ \A s \in Side : reserve[s] \in Nat \ {0}
    BY <1>1, OpenReserves
<1>3. minted \in Nat
    <2>1. /\ offer[0] \in Nat /\ offer[1] \in Nat /\ reserve[0] \in Nat \ {0}
          /\ reserve[1] \in Nat \ {0} /\ totalShares \in Nat
        BY <1>2, Sides
    <2> QED
        BY <2>1, SharesForType DEF MintedFor
<1> HIDE DEF minted
<1>4. \A s \in Side : deposit[s] \in Nat /\ totalShares * deposit[s] >= minted * reserve[s]
    <2> SUFFICES ASSUME NEW s \in Side
                 PROVE  deposit[s] \in Nat /\ totalShares * deposit[s] >= minted * reserve[s]
        OBVIOUS
    <2>1. minted * reserve[s] \in Nat
        BY <1>2, <1>3, SMTT(30)
    <2> QED
        BY <1>2, <2>1, CeilDivBounds DEF Deposits
<1> HIDE DEF deposit
<1>5. /\ reserve \in [Side -> Nat] /\ balance \in [Side -> Nat]
      /\ shares \in [Users -> Nat] /\ LedgerOf(shares, locks, totalShares)
      /\ \A s \in Side : balance[s] = reserve[s] + protocolFees[s]
      /\ \A s \in Side : protocolFees[s] \in Nat
    BY DEF Inv, TypeOK, RecordsAgree, Ledger
<1>6. reserve' \in [Side -> Nat] /\ balance' \in [Side -> Nat] /\ totalShares' \in Nat
    BY <1>1, <1>2, <1>3, <1>4, <1>5
<1>7. shares' \in [Users -> Nat] /\ Ledger'
    <2>1. shares' \in [Users -> Nat] /\ LedgerOf(shares', locks, totalShares + minted)
        BY <1>1, <1>2, <1>3, <1>5, LedgerMint
    <2> QED
        BY <1>1, <2>1 DEF Ledger
<1>8. TypeOK' /\ LocksBounded' /\ WithinBounds'
    BY <1>1, <1>6, <1>7 DEF Inv, TypeOK, LocksBounded, WithinBounds, lifeVars, feeVars
<1>9. RecordsAgree'
    <2>1. \A s \in Side : balance'[s] = reserve'[s] + protocolFees'[s]
        BY <1>1, <1>2, <1>4, <1>5 DEF feeVars
    <2>2. \A s \in Side : reserve'[s] # 0
        BY <1>1, <1>2, <1>4
    <2>3. totalShares' # 0 /\ initialized'
        BY <1>1, <1>2, <1>3 DEF lifeVars
    <2> QED
        BY <1>1, <2>1, <2>2, <2>3 DEF Inv, RecordsAgree, feeVars
<1>10. NoDilution
    <2>1. ASSUME NEW s \in Side
          PROVE  reserve'[s] * totalShares >= reserve[s] * totalShares'
        <3> DEFINE r == reserve[s]
                   c == deposit[s]
                   t == totalShares
        <3>1. /\ r \in Nat /\ c \in Nat /\ t \in Nat /\ t * c >= minted * r
              /\ reserve'[s] = r + c /\ totalShares' = t + minted
            BY <1>1, <1>2, <1>4
        <3> HIDE DEF r, c, t
        <3>2. (r + c) * t >= r * (t + minted)
            BY <1>3, <3>1, SMTT(30)
        <3> QED
            BY <3>1, <3>2 DEF r, t
    <2> QED
        BY <1>2, <1>5, <1>6, <2>1, ProportionsKept
<1> QED
    BY <1>7, <1>8, <1>9, <1>10 DEF Inv

LEMMA RemoveStep ==
    ASSUME Inv, NEW u \in Users, NEW k \in Nat, RemoveLiquidity(u, k)
    PROVE  Inv' /\ NoDilution
<1> DEFINE paid == [s \in Side |-> Payout(k, s)]
           gone == TerminalSides(k)
<1>1. /\ k > 0 /\ totalShares > 0 /\ k <= shares[u] /\ k <= totalShares
      /\ k # totalShares =>
            OperationalBounds([s \in Side |-> reserve[s] - Payout(k, s)], totalShares - k)
      /\ totalShares' = totalShares - k
      /\ shares' = [shares EXCEPT ![u] = @ - k]
      /\ reserve' = [s \in Side |-> reserve[s] - Payout(k, s)]
      /\ initialized' = (initialized /\ k # totalShares)
      /\ DepositFees(gone, paid)
      /\ UNCHANGED <<completed, locks>>
    BY DEF RemoveLiquidity, RemovalAccepted, Burn
<1>2. /\ reserve \in [Side -> Nat] /\ balance \in [Side -> Nat] /\ totalShares \in Nat
      /\ protocolFees \in [Side -> Nat] /\ swapCount \in [Side -> 0 .. MaxCount]
      /\ shares \in [Users -> Nat] /\ LedgerOf(shares, locks, totalShares)
      /\ \A s \in Side : balance[s] = reserve[s] + protocolFees[s]
      /\ \A s \in Side : protocolFees[s] # 0 <=> swapCount[s] # 0
    BY DEF Inv, TypeOK, RecordsAgree, Ledger
<1>3. initialized
    BY <1>1, <1>2 DEF Inv, RecordsAgree
<1>4. \A s \in Side : reserve[s] \in Nat \ {0}
    BY <1>3, OpenReserves
<1>5. \A s \in Side : /\ paid[s] \in Nat /\ paid[s] <= reserve[s]
                      /\ k = totalShares => paid[s] = reserve[s]
                      /\ k # totalShares => paid[s] < reserve[s]
                      /\ (reserve[s] - paid[s]) * totalShares
                            >= reserve[s] * (totalShares - k)
    <2>1. totalShares \in Nat \ {0} /\ k \in 1 .. totalShares
        BY <1>1, <1>2
    <2> QED
        BY <1>4, <2>1, PayoutBounds DEF Payout
<1>6. reserve' = [s \in Side |-> reserve[s] - paid[s]]
    BY <1>1
<1>7. /\ protocolFees' = [s \in Side |-> IF s \in gone THEN 0 ELSE protocolFees[s]]
      /\ swapCount' = [s \in Side |-> IF s \in gone THEN 0 ELSE swapCount[s]]
      /\ balance' = [s \in Side |-> balance[s] - paid[s]
                        - (IF s \in gone THEN protocolFees[s] ELSE 0)]
    BY <1>1 DEF DepositFees
<1>8. k = totalShares => \A s \in Side : swapCount[s] # 0 => s \in gone
    BY DEF TerminalSides, Fed
<1> HIDE DEF paid, gone
<1>9. /\ reserve' \in [Side -> Nat] /\ protocolFees' \in [Side -> Nat]
      /\ swapCount' \in [Side -> 0 .. MaxCount] /\ balance' \in [Side -> Nat]
      /\ \A s \in Side : balance'[s] = reserve'[s] + protocolFees'[s]
    <2>1. \A s \in Side : reserve[s] - paid[s] \in Nat
        BY <1>2, <1>5
    <2>2. \A s \in Side :
            balance[s] - paid[s] - (IF s \in gone THEN protocolFees[s] ELSE 0)
              = (reserve[s] - paid[s]) + (IF s \in gone THEN 0 ELSE protocolFees[s])
        BY <1>2, <1>5
    <2>3. \A s \in Side : (IF s \in gone THEN 0 ELSE protocolFees[s]) \in Nat
        BY <1>2
    <2>4. \A s \in Side : (IF s \in gone THEN 0 ELSE swapCount[s]) \in 0 .. MaxCount
        BY <1>2, ConfidentialPoolAssumption
    <2>5. \A s \in Side :
            balance[s] - paid[s] - (IF s \in gone THEN protocolFees[s] ELSE 0) \in Nat
        BY <2>1, <2>2, <2>3
    <2> QED
        BY <1>6, <1>7, <2>1, <2>2, <2>3, <2>4, <2>5
<1>10. /\ shares' \in [Users -> Nat] /\ Ledger' /\ totalShares' \in Nat
    <2>1. k \in 0 .. shares[u]
        BY <1>1, <1>2
    <2>2. /\ shares' \in [Users -> Nat] /\ totalShares - k \in Nat
          /\ LedgerOf(shares', locks, totalShares - k)
        BY <1>1, <1>2, <2>1, LedgerBurn
    <2> QED
        BY <1>1, <2>2 DEF Ledger
<1>11. TypeOK' /\ LocksBounded'
    BY <1>1, <1>9, <1>10 DEF Inv, TypeOK, LocksBounded
<1>12. WithinBounds'
    BY <1>1 DEF WithinBounds
<1>13. RecordsAgree'
    <2>0. initialized' <=> k # totalShares
        BY <1>1, <1>3
    <2>1. initialized' <=> totalShares' # 0
        <3>1. k # totalShares <=> totalShares' # 0
            BY <1>1, <1>2
        <3> QED
            BY <2>0, <3>1
    <2>2. \A s \in Side : initialized' <=> reserve'[s] # 0
        <3>1. \A s \in Side : k # totalShares <=> reserve[s] - paid[s] # 0
            BY <1>4, <1>5
        <3>2. \A s \in Side : reserve'[s] = reserve[s] - paid[s]
            BY <1>6
        <3> QED
            BY <2>0, <3>1, <3>2
    <2>3. \A s \in Side : protocolFees'[s] # 0 <=> swapCount'[s] # 0
        BY <1>2, <1>7
    <2>4. ~initialized' => \A s \in Side : protocolFees'[s] = 0
        BY <1>1, <1>2, <1>3, <1>7, <1>8
    <2> QED
        BY <1>9, <2>1, <2>2, <2>3, <2>4 DEF RecordsAgree
<1>14. NoDilution
    <2>1. \A s \in Side : reserve'[s] * totalShares >= reserve[s] * totalShares'
        BY <1>1, <1>5, <1>6
    <2> QED
        BY <1>2, <1>9, <1>10, <2>1, ProportionsKept
<1> QED
    BY <1>10, <1>11, <1>12, <1>13, <1>14 DEF Inv

LEMMA CollectStep ==
    ASSUME Inv, NEW sides \in SUBSET Side, CollectProtocolFees(sides)
    PROVE  Inv' /\ NoDilution
<1>1. /\ protocolFees' = [s \in Side |-> IF s \in sides THEN 0 ELSE protocolFees[s]]
      /\ swapCount' = [s \in Side |-> IF s \in sides THEN 0 ELSE swapCount[s]]
      /\ balance' = [s \in Side |->
             balance[s] - 0 - (IF s \in sides THEN protocolFees[s] ELSE 0)]
      /\ UNCHANGED <<lifeVars, reserve, shareVars>>
    BY DEF CollectProtocolFees, DepositFees, Both
<1>2. /\ reserve \in [Side -> Nat] /\ balance \in [Side -> Nat] /\ totalShares \in Nat
      /\ protocolFees \in [Side -> Nat] /\ swapCount \in [Side -> 0 .. MaxCount]
      /\ \A s \in Side : balance[s] = reserve[s] + protocolFees[s]
    BY DEF Inv, TypeOK, RecordsAgree
<1>3. /\ protocolFees' \in [Side -> Nat] /\ swapCount' \in [Side -> 0 .. MaxCount]
      /\ balance' \in [Side -> Nat]
      /\ \A s \in Side : balance'[s] = reserve[s] + protocolFees'[s]
    <2>1. \A s \in Side :
            balance[s] - 0 - (IF s \in sides THEN protocolFees[s] ELSE 0)
              = reserve[s] + (IF s \in sides THEN 0 ELSE protocolFees[s])
        BY <1>2
    <2>2. \A s \in Side : (IF s \in sides THEN 0 ELSE protocolFees[s]) \in Nat
        BY <1>2
    <2>3. \A s \in Side : (IF s \in sides THEN 0 ELSE swapCount[s]) \in 0 .. MaxCount
        BY <1>2, ConfidentialPoolAssumption
    <2> QED
        BY <1>1, <1>2, <2>1, <2>2, <2>3
<1>4. TypeOK'
    BY <1>1, <1>3 DEF Inv, TypeOK, lifeVars, shareVars
<1>5. Ledger' /\ LocksBounded' /\ WithinBounds'
    BY <1>1 DEF Inv, Ledger, LocksBounded, WithinBounds, lifeVars, shareVars
<1>6. RecordsAgree'
    BY <1>1, <1>2, <1>3 DEF Inv, RecordsAgree, lifeVars, shareVars
<1>7. NoDilution
    <2>1. reserve[0] * reserve[1] \in Nat
        <3>1. reserve[0] \in Nat /\ reserve[1] \in Nat
            BY <1>2, Sides
        <3> QED
            BY <3>1, SMTT(30)
    <2> QED
        BY <1>1, <1>2, <2>1, ProductKept DEF shareVars
<1> QED
    BY <1>4, <1>5, <1>6, <1>7 DEF Inv

(* Steps of the LP token and the locks leave the pool's books alone. *)
LEMMA LedgerStep ==
    ASSUME Inv, locks' \in Seq(LockRecords), Len(locks') <= MaxLocks,
           shares' \in [Users -> Nat], LedgerOf(shares', locks', totalShares),
           UNCHANGED <<lifeVars, reserve, feeVars, totalShares, balance>>
    PROVE  Inv' /\ NoDilution
<1>1. TypeOK' /\ Ledger' /\ LocksBounded'
    BY DEF Inv, TypeOK, Ledger, LocksBounded, lifeVars, feeVars
<1>2. RecordsAgree' /\ WithinBounds'
    BY DEF Inv, RecordsAgree, WithinBounds, lifeVars, feeVars
<1>3. NoDilution
    <2>1. reserve \in [Side -> Nat] /\ totalShares \in Nat
        BY DEF Inv, TypeOK
    <2>2. reserve[0] * reserve[1] \in Nat
        <3>1. reserve[0] \in Nat /\ reserve[1] \in Nat
            BY <2>1, Sides
        <3> QED
            BY <3>1, SMTT(30)
    <2> QED
        BY <2>1, <2>2, ProductKept
<1> QED
    BY <1>1, <1>2, <1>3 DEF Inv

LEMMA LockStep ==
    ASSUME Inv, NEW u \in Users, NEW k \in Nat, NEW permanent \in BOOLEAN,
           LockShares(u, k, permanent)
    PROVE  Inv' /\ NoDilution
<1> DEFINE record == LockRecord(u, k, permanent)
<1>1. /\ k <= shares[u] /\ Len(locks) < MaxLocks
      /\ locks' = Append(locks, record)
      /\ shares' = [shares EXCEPT ![u] = @ - k]
      /\ UNCHANGED <<lifeVars, reserve, feeVars, totalShares, balance>>
    BY DEF LockShares, Burn
<1>2. /\ shares \in [Users -> Nat] /\ totalShares \in Nat /\ locks \in Seq(LockRecords)
      /\ LedgerOf(shares, locks, totalShares)
    BY DEF Inv, TypeOK, Ledger
<1>3. record \in LockRecords /\ ~record.released /\ record.amount = k
    BY DEF LockRecord, LockRecords
<1> HIDE DEF record
<1>4. /\ shares' \in [Users -> Nat] /\ totalShares - k \in Nat
      /\ LedgerOf(shares', locks, totalShares - k)
    <2>1. k \in 0 .. shares[u]
        BY <1>1, <1>2
    <2> QED
        BY <1>1, <1>2, <2>1, LedgerBurn
<1>5. /\ locks' \in Seq(LockRecords) /\ Len(locks') <= MaxLocks
      /\ LedgerOf(shares', locks', (totalShares - k) + k)
    BY <1>1, <1>2, <1>3, <1>4, LedgerLock
<1>6. (totalShares - k) + k = totalShares
    BY <1>2
<1> QED
    BY <1>1, <1>4, <1>5, <1>6, LedgerStep

LEMMA UnlockStep ==
    ASSUME Inv, NEW i \in DOMAIN locks, UnlockShares(i)
    PROVE  Inv' /\ NoDilution
<1> DEFINE a == locks[i].amount
           owner == locks[i].owner
<1>1. /\ ~locks[i].released
      /\ locks' = [locks EXCEPT ![i].released = TRUE]
      /\ shares' = [shares EXCEPT ![owner] = @ + a]
      /\ UNCHANGED <<lifeVars, reserve, feeVars, totalShares, balance>>
    BY DEF UnlockShares
<1>2. /\ shares \in [Users -> Nat] /\ totalShares \in Nat /\ locks \in Seq(LockRecords)
      /\ LedgerOf(shares, locks, totalShares) /\ Len(locks) <= MaxLocks
    BY DEF Inv, TypeOK, Ledger, LocksBounded
<1>3. owner \in Users
    <2>1. locks[i] \in LockRecords
        BY <1>2
    <2> QED
        BY <2>1 DEF LockRecords
<1>4. /\ locks' \in Seq(LockRecords) /\ Len(locks') = Len(locks)
      /\ a \in Nat /\ totalShares - a \in Nat
      /\ LedgerOf(shares, locks', totalShares - a)
    BY <1>1, <1>2, LedgerRelease
<1> HIDE DEF a, owner
<1>5. shares' \in [Users -> Nat] /\ LedgerOf(shares', locks', (totalShares - a) + a)
    BY <1>1, <1>2, <1>3, <1>4, LedgerMint
<1>6. (totalShares - a) + a = totalShares
    BY <1>2, <1>4
<1> QED
    BY <1>1, <1>2, <1>4, <1>5, <1>6, LedgerStep

LEMMA TransferStep ==
    ASSUME Inv, NEW u \in Users, NEW v \in Users, NEW k \in Nat, TransferShares(u, v, k)
    PROVE  Inv' /\ NoDilution
<1> DEFINE less == [shares EXCEPT ![u] = @ - k]
<1>1. /\ k <= shares[u]
      /\ shares' = [less EXCEPT ![v] = @ + k]
      /\ UNCHANGED <<lifeVars, reserve, feeVars, totalShares, locks, balance>>
    BY DEF TransferShares
<1>2. /\ shares \in [Users -> Nat] /\ totalShares \in Nat /\ locks \in Seq(LockRecords)
      /\ LedgerOf(shares, locks, totalShares) /\ Len(locks) <= MaxLocks
    BY DEF Inv, TypeOK, Ledger, LocksBounded
<1>3. /\ less \in [Users -> Nat] /\ totalShares - k \in Nat
      /\ LedgerOf(less, locks, totalShares - k)
    <2>1. k \in 0 .. shares[u]
        BY <1>1, <1>2
    <2> QED
        BY <1>2, <2>1, LedgerBurn
<1> HIDE DEF less
<1>4. shares' \in [Users -> Nat] /\ LedgerOf(shares', locks, (totalShares - k) + k)
    BY <1>1, <1>3, LedgerMint
<1>5. (totalShares - k) + k = totalShares
    BY <1>2
<1> QED
    BY <1>1, <1>2, <1>4, <1>5, LedgerStep

LEMMA NextStep == Inv /\ [Next]_vars => Inv' /\ NoDilution
<1> SUFFICES ASSUME Inv, [Next]_vars PROVE Inv' /\ NoDilution
    OBVIOUS
<1>1. ASSUME NEW a \in Amounts, NEW s \in Side, Swap(a, s)
      PROVE  Inv' /\ NoDilution
    <2>1. a \in Nat
        BY ConfidentialPoolAssumption
    <2> QED
        BY <1>1, <2>1, SwapStep
<1>2. CASE Provide
    <2>1. PICK u \in Users, offer \in Offers :
            \/ InitializeLiquidity(u, offer)
            \/ IncreaseLiquidity(u, offer)
            \/ \E d \in Dispositions : Bootstrap(u, offer, d)
        BY <1>2 DEF Provide
    <2>2. offer \in [Side -> Nat]
        <3>1. Amounts \subseteq Nat
            BY ConfidentialPoolAssumption
        <3> QED
            BY <2>1, <3>1 DEF Offers
    <2> QED
        BY <2>1, <2>2, InitializeStep, IncreaseStep, BootstrapStep
<1>3. CASE Withdraw
    <2>0. PICK u \in Users : \E k \in 1 .. shares[u] : RemoveLiquidity(u, k)
        BY <1>3 DEF Withdraw
    <2>1. PICK k \in 1 .. shares[u] : RemoveLiquidity(u, k)
        BY <2>0
    <2>2. k \in Nat
        OBVIOUS
    <2> QED
        BY <2>1, <2>2, RemoveStep
<1>4. CASE Hold
    <2>0. PICK u \in Users : \E k \in 1 .. shares[u] :
            \/ \E permanent \in BOOLEAN : LockShares(u, k, permanent)
            \/ \E v \in Users : TransferShares(u, v, k)
        BY <1>4 DEF Hold
    <2>1. PICK k \in 1 .. shares[u] :
            \/ \E permanent \in BOOLEAN : LockShares(u, k, permanent)
            \/ \E v \in Users : TransferShares(u, v, k)
        BY <2>0
    <2>2. k \in Nat
        OBVIOUS
    <2> QED
        BY <2>1, <2>2, LockStep, TransferStep
<1>5. CASE UNCHANGED vars
    BY <1>5, LedgerStep
    DEF vars, shareVars, Inv, TypeOK, LocksBounded, Ledger
<1> QED
    BY <1>1, <1>2, <1>3, <1>4, <1>5, CollectStep, UnlockStep DEF Next

LEMMA Invariance == Spec => []Inv
<1>1. Inv /\ [Next]_vars => Inv'
    BY NextStep
<1> QED
    BY InitInv, <1>1, PTL DEF Spec

-----------------------------------------------------------------------------

(* Type correctness: no reserve, fee, balance or holding is ever driven    *)
(* below zero, and the swap counters stay in their 32 bits.                *)
THEOREM ConfidentialPoolTypeCorrect == Spec => []TypeOK
<1>1. Inv => TypeOK
    BY DEF Inv
<1> QED
    BY <1>1, Invariance, PTL

(* The shares of all holders and of the live locks add up to the total,    *)
(* and flag, shares, reserves, fees, counters and tokens agree, in every   *)
(* reachable state.                                                        *)
THEOREM BooksAlwaysAgree == Spec => []BooksAgree
BY BooksFollow, Invariance, PTL

(* The router's blind quote and the settlement accept the same swaps and   *)
(* pay the same output, whatever the width of a word.                      *)
THEOREM QuoteTheorem == Spec => []QuoteMatchesSettlement
BY QuoteAgrees, Invariance, PTL

(* No history of swaps, additions, exits and locks closes the exit to      *)
(* anybody who holds a share.                                              *)
THEOREM ExitTheorem == Spec => []ExitNeverBlocked
BY ExitOpen, Invariance, PTL

(* Offering the previewed deposit mints the previewed shares.              *)
THEOREM PreviewTheorem == Spec => []PreviewHonoured
BY PreviewAgrees, Invariance, PTL

(* No sequence of operations lets one holder dilute another's shares.      *)
THEOREM ConfidentialNoDilution == Spec => ShareValueNeverDiluted
<1>1. Inv /\ [Next]_vars => [NoDilution]_vars
    BY NextStep
<1> QED
    BY <1>1, Invariance, PTL DEF Spec, ShareValueNeverDiluted
-----------------------------------------------------------------------------
(* ObservableConfidentialCPMM: the public bucket beside the pool. *)

(* A quantum is positive and at most the lower end of the range around its  *)
(* price, since twice OBSERVATION_BUCKET_BPS is at most FEE_DENOMINATOR:   *)
(* no price in that range is rounded to zero.                              *)
LEMMA QuantumFits ==
    ASSUME NEW p \in Nat
    PROVE  /\ PriceQuantum(p) \in Nat \ {0}
           /\ ReferenceLower(p) \in Nat \ {0}
           /\ PriceQuantum(p) <= ReferenceLower(p)
<1> DEFINE f == p \div FeeDenominator
           m == p % FeeDenominator
           part == (m * BucketBps) \div FeeDenominator
           q == f * BucketBps + part
           h == p \div 2
<1>1. /\ FeeDenominator \in Nat \ {0} /\ BucketBps \in Nat \ {0}
      /\ 2 * BucketBps <= FeeDenominator
    BY FeeAssumption, ObservablePoolAssumption
<1>2. f \in Nat /\ m \in Nat /\ p = FeeDenominator * f + m
    BY <1>1, DivBounds, SMTT(30)
<1>3. m * BucketBps \in Nat
    BY <1>1, <1>2, SMTT(30)
<1>4. part \in Nat /\ FeeDenominator * part <= m * BucketBps
    BY <1>1, <1>3, DivBounds
<1>5. h \in Nat /\ p < 2 * h + 2
    BY DivBounds
<1> HIDE DEF f, m, part, h
<1>6. 2 * part <= m
    <2>1. SUFFICES ASSUME 2 * part >= m + 1 PROVE FALSE
        BY <1>2, <1>4
    <2>2. FeeDenominator * (2 * part) >= FeeDenominator * (m + 1)
        BY <1>1, <1>2, <1>4, <2>1, SMTT(30)
    <2>3. /\ FeeDenominator * (2 * part) = 2 * (FeeDenominator * part)
          /\ FeeDenominator * (m + 1) = m * FeeDenominator + FeeDenominator
          /\ m * (2 * BucketBps) = 2 * (m * BucketBps)
        BY <1>1, <1>2, <1>4, SMTT(30)
    <2>4. m * (2 * BucketBps) <= m * FeeDenominator
        BY <1>1, <1>2, SMTT(30)
    <2>5. FeeDenominator * part \in Nat /\ m * FeeDenominator \in Nat
        BY <1>1, <1>2, <1>4, SMTT(30)
    <2> QED
        BY <1>1, <1>3, <1>4, <2>2, <2>3, <2>4, <2>5
<1>7. f * BucketBps \in Nat /\ 2 * (f * BucketBps) <= FeeDenominator * f
    BY <1>1, <1>2, SMTT(30)
<1>8. q \in Nat /\ 2 * q <= p
    BY <1>1, <1>2, <1>4, <1>6, <1>7, SMT
<1>9. PriceQuantum(p) = IF q = 0 THEN 1 ELSE q
    BY DEF PriceQuantum, f, m, part
<1>10. ReferenceLower(p) = IF h = 0 THEN 1 ELSE h
    BY DEF ReferenceLower, h
<1> HIDE DEF q
<1>11. q <= h
    BY <1>5, <1>8
<1> QED
    BY <1>5, <1>8, <1>9, <1>10, <1>11

(* Rounding to a quantum keeps what is at least the quantum positive. *)
LEMMA QuantizedPositive ==
    ASSUME NEW p \in Nat, NEW q \in Nat \ {0}, q <= p
    PROVE  Quantized(p, q) \in Nat \ {0}
<1> DEFINE n == p \div q
<1>1. n \in Nat /\ p < q * n + q
    BY DivBounds
<1> HIDE DEF n
<1>2. n # 0
    <2>1. ASSUME n = 0 PROVE q * n = 0
        BY <2>1
    <2> QED
        BY <1>1, <2>1
<1>3. n * q \in Nat \ {0}
    BY <1>1, <1>2, SMTT(30)
<1> QED
    BY <1>3 DEF Quantized, n

(* Whatever the reserves, the next bucket can be published. *)
LEMMA NextBucketPositive ==
    ASSUME bucket \in Nat, NEW r, Price(r) \in Nat
    PROVE  NextBucket(r) \in Nat \ {0}
<1> DEFINE low == ReferenceLower(bucket)
           high == ReferenceUpper(bucket)
<1>1. /\ low \in Nat \ {0} /\ PriceQuantum(bucket) \in Nat \ {0}
      /\ PriceQuantum(bucket) <= low
    BY QuantumFits
<1>2. high \in Nat
    BY ConfidentialPoolAssumption DEF ReferenceUpper
<1> HIDE DEF low, high
<1>3. Least(Price(r), high) \in Nat
    BY <1>2 DEF Least
<1>4. Clamped(Price(r)) \in Nat /\ low <= Clamped(Price(r))
    BY <1>1, <1>3 DEF Clamped, low, high
<1>5. PriceQuantum(bucket) <= Clamped(Price(r))
    BY <1>1, <1>4
<1> QED
    BY <1>1, <1>4, <1>5, QuantizedPositive DEF NextBucket

(* Reserves of which there is something have a price. *)
LEMMA PriceType ==
    ASSUME NEW r \in [Side -> Nat], r[0] > 0
    PROVE  Price(r) \in Nat
<1>1. /\ r[0] \in Nat \ {0} /\ r[1] \in Nat /\ Scale[0] \in Nat \ {0}
      /\ Scale[1] \in Nat /\ PriceScale \in Nat
    BY Sides, ConfidentialPoolAssumption
<1>2. r[0] * Scale[0] \in Nat \ {0}
    BY <1>1, SMTT(30)
<1>3. (r[1] * Scale[1]) * PriceScale \in Nat
    BY <1>1
<1> QED
    BY <1>2, <1>3, DivBounds DEF Price

(* The bucket is public exactly while the pool is open. *)
PublicWhileOpen ==
    /\ reference \in Nat /\ bucket \in Nat
    /\ initialized <=> bucket # 0
    /\ initialized <=> reference # 0

ObservableInv == Inv /\ PublicWhileOpen

LEMMA NeverBlocks == ObservableInv => PublishingNeverBlocks
<1> SUFFICES ASSUME ObservableInv, NEW a \in Amounts, NEW s \in Side, QuoteValid(a, s)
             PROVE  NextBucket(NextReserve(a, s)) # 0
    BY DEF ObservableInv, PublicWhileOpen, PublishingNeverBlocks
<1>1. SwapAccepted(a, s)
    BY QuoteAgrees DEF ObservableInv, QuoteMatchesSettlement
<1>2. initialized /\ NextReserve(a, s)[0] > 0 /\ a \in Nat
    BY <1>1, ConfidentialPoolAssumption DEF SwapAccepted, OperationalBounds
<1>3. NextReserve(a, s) \in [Side -> Nat]
    BY <1>2, SwapNumbers DEF ObservableInv
<1>4. Price(NextReserve(a, s)) \in Nat
    BY <1>2, <1>3, PriceType
<1> QED
    BY <1>4, NextBucketPositive DEF ObservableInv, PublicWhileOpen

(* Every operation of the observable pool is one of the pool in it. *)
LEMMA ObservableStepIsStep == [ObservableNext]_observableVars => [Next]_vars
<1>1. ASSUME ObservedSwap PROVE Next
    BY <1>1 DEF ObservedSwap, Next
<1>2. ASSUME ObservedStart PROVE Next
    BY <1>2 DEF ObservedStart, Next, Provide
<1>3. ASSUME ObservedRemoval PROVE Next
    BY <1>3 DEF ObservedRemoval, Next, Withdraw
<1>4. ASSUME Unobserved PROVE Next
    BY <1>4 DEF Unobserved, Next, Provide
<1> QED
    BY <1>1, <1>2, <1>3, <1>4 DEF ObservableNext, observableVars

LEMMA PublicStep ==
    ObservableInv /\ [ObservableNext]_observableVars => PublicWhileOpen'
<1> SUFFICES ASSUME ObservableInv, [ObservableNext]_observableVars
             PROVE  PublicWhileOpen'
    OBVIOUS
<1>0. PublicWhileOpen /\ Inv
    BY DEF ObservableInv
<1>1. CASE ObservedSwap
    <2>1. PICK a \in Amounts, s \in Side : Swap(a, s) /\ RecordSwap(NextReserve(a, s))
        BY <1>1 DEF ObservedSwap
    <2>2. /\ SwapAccepted(a, s) /\ initialized' = initialized
          /\ reference' = reference
          /\ bucket' = bucket \/ (bucket' = NextBucket(NextReserve(a, s)) /\ bucket' # 0)
        BY <2>1 DEF Swap, lifeVars, RecordSwap, Publish
    <2>3. initialized /\ NextReserve(a, s)[0] > 0 /\ a \in Nat
        BY <2>2, ConfidentialPoolAssumption DEF SwapAccepted, OperationalBounds
    <2>4. NextReserve(a, s) \in [Side -> Nat]
        BY <1>0, <2>3, SwapNumbers
    <2>5. NextBucket(NextReserve(a, s)) \in Nat \ {0}
        BY <1>0, <2>3, <2>4, PriceType, NextBucketPositive DEF PublicWhileOpen
    <2> QED
        BY <1>0, <2>2, <2>3, <2>5 DEF PublicWhileOpen
<1>2. CASE ObservedStart
    <2>1. PICK u \in Users, offer \in Offers, named \in References :
            /\ InitializeObservation(named, offer)
            /\ \/ InitializeLiquidity(u, offer)
               \/ \E d \in Dispositions : Bootstrap(u, offer, d)
        BY <1>2 DEF ObservedStart
    <2>2. initialized' /\ InitialAccepted(offer)
        BY <2>1 DEF InitializeLiquidity, Bootstrap
    <2>3. /\ reference' = named
          /\ bucket' = Quantized(Price(offer), PriceQuantum(named)) /\ bucket' # 0
        BY <2>1 DEF InitializeObservation, Publish
    <2>4. named \in Nat \ {0}
        BY ConfidentialPoolAssumption, ObservablePoolAssumption
    <2>5. Price(offer) \in Nat
        <3>1. Amounts \subseteq Nat
            BY ConfidentialPoolAssumption
        <3>2. offer \in [Side -> Nat]
            BY <3>1 DEF Offers
        <3>3. offer[0] > 0
            BY <2>2, Sides DEF InitialAccepted
        <3> QED
            BY <3>2, <3>3, PriceType
    <2>6. PriceQuantum(named) \in Nat \ {0}
        BY <2>4, QuantumFits
    <2>7. bucket' \in Nat
        <3>1. Price(offer) \div PriceQuantum(named) \in Nat
            BY <2>5, <2>6, DivBounds
        <3> QED
            BY <2>3, <2>6, <3>1 DEF Quantized
    <2> QED
        BY <2>2, <2>3, <2>4, <2>7 DEF PublicWhileOpen
<1>3. CASE ObservedRemoval
    <2>0. PICK u \in Users : \E k \in 1 .. shares[u] :
            RemoveLiquidity(u, k) /\ ClearObservation(k)
        BY <1>3 DEF ObservedRemoval
    <2>1. PICK k \in 1 .. shares[u] : RemoveLiquidity(u, k) /\ ClearObservation(k)
        BY <2>0
    <2>2. initialized' = (initialized /\ k # totalShares)
        BY <2>1 DEF RemoveLiquidity
    <2>3. CASE k = totalShares
        <3>1. ~initialized' /\ reference' = 0 /\ bucket' = 0
            BY <2>1, <2>2, <2>3 DEF ClearObservation
        <3> QED
            BY <3>1 DEF PublicWhileOpen
    <2>4. CASE k # totalShares
        <3>1. initialized' = initialized /\ reference' = reference /\ bucket' = bucket
            BY <1>0, <2>1, <2>2, <2>4 DEF ClearObservation, publicVars, Inv, TypeOK
        <3> QED
            BY <1>0, <3>1 DEF PublicWhileOpen
    <2> QED
        BY <2>3, <2>4
<1>4. CASE Unobserved
    <2>1. reference' = reference /\ bucket' = bucket
        BY <1>4 DEF Unobserved, publicVars
    <2>2. initialized' = initialized
        BY <1>4 DEF Unobserved, IncreaseLiquidity, Hold, LockShares, TransferShares,
            CollectProtocolFees, UnlockShares, lifeVars
    <2> QED
        BY <1>0, <2>1, <2>2 DEF PublicWhileOpen
<1>5. CASE UNCHANGED observableVars
    BY <1>0, <1>5 DEF PublicWhileOpen, observableVars, vars, lifeVars, publicVars
<1> QED
    BY <1>1, <1>2, <1>3, <1>4, <1>5 DEF ObservableNext

(* The observable pool implements the plain one, so every theorem above     *)
(* holds of it too.                                                        *)
THEOREM ObservablePoolIsConfidentialPool == ObservableSpec => Spec
BY ObservableStepIsStep, PTL DEF ObservableSpec, ObservableInit, Spec

(* Whatever the bucket width, the scales and the references callers name,   *)
(* an open pool has a bucket to compare with, a closed one has none, and   *)
(* no swap that the router's quote accepts is rejected because its price   *)
(* could not be published.                                                 *)
THEOREM PublishingTheorem == ObservableSpec => []PublishingNeverBlocks
<1>1. ObservableInit => ObservableInv
    BY InitInv DEF ObservableInit, ObservableInv, PublicWhileOpen, Init
<1>2. ObservableInv /\ [ObservableNext]_observableVars => ObservableInv'
    BY PublicStep, ObservableStepIsStep, NextStep DEF ObservableInv
<1> QED
    BY <1>1, <1>2, NeverBlocks, PTL DEF ObservableSpec
=============================================================================
