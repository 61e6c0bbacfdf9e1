----------------------------- MODULE NumberFacts -----------------------------
(***************************************************************************)
(* What the proofs need to know of numbers, for every value: how           *)
(* Math.mulDiv rounds, when a word of the confidential pools is exact, how *)
(* a total follows the values it is the sum of, and what a loop hands on   *)
(* from step to step, written as a recursive function.                     *)
(***************************************************************************)
EXTENDS FullMath, Integers, Functions, FiniteSetTheorems, TLAPS

-----------------------------------------------------------------------------
(* Rounding *)

(* Floor division brackets its dividend. *)
LEMMA DivBounds ==
    ASSUME NEW n \in Nat, NEW d \in Nat \ {0}
    PROVE  /\ n \div d \in Nat
           /\ d * (n \div d) <= n
           /\ n < d * (n \div d) + d
<1>1. n \div d \in Int /\ n % d \in 0 .. d - 1 /\ n = d * (n \div d) + (n % d)
    BY SMTT(30)
<1>2. n \div d >= 0
    BY SMTT(30)
<1> QED
    BY <1>1, <1>2, SMTT(30)

(* A product with a sum is the sum of the products.                        *)
LEMMA Distributes ==
    ASSUME NEW a \in Int, NEW b \in Int, NEW c \in Int
    PROVE  /\ c * (a + b) = c * a + c * b /\ (a + b) * c = a * c + b * c
           /\ c * (a - b) = c * a - c * b /\ (a - b) * c = a * c - b * c
           /\ c * a \in Int /\ c * b \in Int /\ a * c = c * a /\ a * c \in Int
    BY SMT

(* Quotient and remainder.                                                 *)
LEMMA Divided ==
    ASSUME NEW n \in Nat, NEW d \in Nat \ {0}
    PROVE  /\ n \div d \in Nat /\ n % d \in 0 .. d - 1
           /\ n = d * (n \div d) + (n % d)
<1>1. n \div d \in Nat
    BY DivBounds
<1>2. n \div d \in Int /\ n % d \in 0 .. d - 1 /\ n = d * (n \div d) + (n % d)
    BY SMTT(30)
<1> QED
    BY <1>1, <1>2

(* Products of naturals follow their factors.                              *)
LEMMA Grows ==
    ASSUME NEW a \in Nat, NEW b \in Nat, NEW c \in Nat, a <= b
    PROVE  c * a <= c * b /\ c * a \in Nat /\ a * c <= b * c
<1>1. PICK d \in Nat : b = a + d
    <2>1. b - a \in Nat /\ b = a + (b - a)
        BY SMT
    <2> QED
        BY <2>1
<1>2. c * b = c * a + c * d
    BY <1>1, Distributes
<1>3. c * d \in Nat /\ c * a \in Nat /\ a * c = c * a /\ b * c = c * b
    BY SMT
<1> QED
    BY <1>2, <1>3

(* Math.mulDiv of the contracts: the quotient never exceeds the exact one. *)
LEMMA MulDivBounds ==
    ASSUME NEW a \in Nat, NEW b \in Nat, NEW d \in Nat \ {0}
    PROVE  /\ MulDiv(a, b, d) \in Nat
           /\ d * MulDiv(a, b, d) <= a * b
<1>1. a * b \in Nat
    BY SMT
<1> QED
    BY <1>1, DivBounds DEF MulDiv

(* Math.mulDiv with Rounding.Ceil never falls below the exact quotient.    *)
LEMMA MulDivUpBounds ==
    ASSUME NEW a \in Nat, NEW b \in Nat, NEW d \in Nat \ {0}
    PROVE  /\ MulDivUp(a, b, d) \in Nat
           /\ d * MulDivUp(a, b, d) >= a * b
           /\ d * MulDivUp(a, b, d) < a * b + d
<1> DEFINE n == a * b + (d - 1)
<1>1. n \in Nat /\ a * b \in Nat
    BY SMT
<1>2. /\ n \div d \in Nat
      /\ d * (n \div d) <= n
      /\ n < d * (n \div d) + d
    BY <1>1, DivBounds
<1>3. d * (n \div d) \in Nat
    BY <1>2, SMT
<1>4. n = a * b + d - 1
    BY <1>1, SMT
<1> HIDE DEF n
<1>5. d * (n \div d) >= a * b /\ d * (n \div d) < a * b + d
    BY <1>1, <1>2, <1>3, <1>4, SMT
<1> QED
    BY <1>2, <1>5 DEF MulDivUp, n

(* A fee of bps of a whole: what is left of an amount after it, and the    *)
(* share-th part of what was taken, never exceed their wholes.             *)
LEMMA FeeSplit ==
    ASSUME NEW amount \in Nat, NEW whole \in Nat \ {0}, NEW bps \in 0 .. whole,
           NEW share \in Nat \ {0}
    PROVE  LET net == MulDiv(amount, whole - bps, whole)
               fee == (amount - net) \div share
           IN  /\ net \in Nat /\ net <= amount
               /\ fee \in Nat /\ fee <= amount - net
<1> DEFINE net == MulDiv(amount, whole - bps, whole)
<1>1. whole - bps \in Nat /\ whole - bps <= whole
    BY SMT
<1>2. net \in Nat /\ whole * net <= amount * (whole - bps)
    BY <1>1, MulDivBounds
<1> HIDE DEF net
<1>3. whole * net <= whole * amount
    BY <1>1, <1>2, SMTT(30)
<1>4. net <= amount
    BY <1>2, <1>3, SMTT(30)
<1> DEFINE taken == amount - net
           q == taken \div share
<1>5. taken \in Nat
    BY <1>2, <1>4, SMT
<1> HIDE DEF taken
<1>6. q \in Nat /\ share * q <= taken
    BY <1>5, DivBounds
<1> HIDE DEF q
<1>7. q <= taken
    BY <1>5, <1>6, SMTT(30)
<1> QED
    BY <1>2, <1>4, <1>6, <1>7, Zenon DEF net, taken, q

(* Two reserves that each keep their proportion to the supply keep the     *)
(* product's proportion to its square.                                     *)
LEMMA ProportionKeepsProduct ==
    ASSUME NEW p \in Nat, NEW q \in Nat, NEW x \in Nat, NEW y \in Nat,
           NEW s \in Nat, NEW t \in Nat, p * s >= x * t, q * s >= y * t
    PROVE  (p * q) * (s * s) >= (x * y) * (t * t)
BY SMTT(30)

-----------------------------------------------------------------------------
(* Words, and the division of the confidential pools that rounds up. *)

(* A number within the word is its own word. *)
LEMMA SmallWord ==
    ASSUME NEW max \in Nat, NEW n \in 0 .. max
    PROVE  n % (max + 1) = n
<1> DEFINE w == max + 1
           q == n \div w
           rest == n % w
<1>1. w \in Nat \ {0} /\ n < w /\ n \in Nat
    OBVIOUS
<1> HIDE DEF w
<1>2. q \in Nat /\ rest \in 0 .. w - 1 /\ n = w * q + rest
    BY <1>1, Divided
<1> HIDE DEF q, rest
<1>3. q = 0
    <2>1. SUFFICES ASSUME q >= 1 PROVE FALSE
        BY <1>2
    <2>2. w * q >= w
        BY <1>1, <1>2, <2>1, SMTT(30)
    <2> QED
        BY <1>1, <1>2, <2>2
<1>4. rest = n
    BY <1>1, <1>2, <1>3
<1> QED
    BY <1>4 DEF w, rest

(* So is a difference of words that does not go below zero. *)
LEMMA SmallDifference ==
    ASSUME NEW max \in Nat, NEW a \in 0 .. max, NEW b \in 0 .. a
    PROVE  (a + (max + 1) - b) % (max + 1) = a - b
<1> DEFINE w == max + 1
           n == a + w - b
           q == n \div w
           rest == n % w
<1>1. w \in Nat \ {0} /\ a < w /\ a \in Nat /\ b \in Nat /\ b <= a
    OBVIOUS
<1> HIDE DEF w
<1>2. n \in Nat /\ n >= w /\ n < w + w /\ n = (a - b) + w
    BY <1>1
<1> HIDE DEF n
<1>3. q \in Nat /\ rest \in 0 .. w - 1 /\ n = w * q + rest
    BY <1>1, <1>2, Divided
<1> HIDE DEF q, rest
<1>4. q = 1
    <2>1. ASSUME q >= 2 PROVE FALSE
        <3>1. w * q >= w + w
            BY <1>1, <1>3, <2>1, SMTT(30)
        <3> QED
            BY <1>1, <1>2, <1>3, <3>1
    <2>2. ASSUME q = 0 PROVE FALSE
        BY <1>1, <1>2, <1>3, <2>2
    <2> QED
        BY <1>3, <2>1, <2>2
<1>5. rest = a - b
    BY <1>1, <1>2, <1>3, <1>4
<1> QED
    BY <1>5 DEF w, n, rest

(* Dividing and rounding up: never below the quotient, never a unit above, *)
(* never above the dividend.                                               *)
LEMMA RoundingUp ==
    ASSUME NEW n \in Nat, NEW d \in Nat \ {0}, NEW c,
           c = IF n % d = 0 THEN n \div d ELSE n \div d + 1
    PROVE  c \in Nat /\ d * c >= n /\ d * c < n + d /\ c <= n
<1> DEFINE q == n \div d
           rest == n % d
<1>1. q \in Nat /\ rest \in 0 .. d - 1 /\ n = d * q + rest
    BY Divided
<1>2. c = IF rest = 0 THEN q ELSE q + 1
    OBVIOUS
<1> HIDE DEF q, rest
<1>3. q <= d * q /\ d * q \in Nat
    BY <1>1, SMTT(30)
<1>4. CASE rest = 0
    BY <1>1, <1>2, <1>3, <1>4
<1>5. CASE rest # 0
    <2>1. d * (q + 1) = d * q + d
        BY <1>1
    <2> QED
        BY <1>1, <1>2, <1>3, <1>5, <2>1
<1> QED
    BY <1>4, <1>5

(* What a swap leaves on the output side is at most what was there, and    *)
(* keeps the product with the net input.                                   *)
LEMMA RetainedReserve ==
    ASSUME NEW x \in Nat \ {0}, NEW y \in Nat, NEW net \in Nat, NEW kept,
           kept = IF (x * y) % (x + net) = 0 THEN (x * y) \div (x + net)
                                             ELSE (x * y) \div (x + net) + 1
    PROVE  kept \in Nat /\ kept <= y /\ (x + net) * kept >= x * y
<1> DEFINE n == x * y
           d == x + net
<1>1. n \in Nat /\ d \in Nat \ {0} /\ n <= d * y
    BY SMTT(30)
<1>2. kept = IF n % d = 0 THEN n \div d ELSE n \div d + 1
    OBVIOUS
<1> HIDE DEF n, d
<1>3. kept \in Nat /\ d * kept >= n /\ d * kept < n + d
    BY <1>1, <1>2, RoundingUp
<1>4. kept <= y
    <2>1. SUFFICES ASSUME kept >= y + 1 PROVE FALSE
        BY <1>3
    <2>2. d * kept >= d * y + d
        BY <1>1, <1>3, <2>1, SMTT(30)
    <2>3. d * kept \in Nat /\ d * y \in Nat
        BY <1>1, <1>3, SMTT(30)
    <2> QED
        BY <1>1, <1>3, <2>2, <2>3
<1> QED
    BY <1>3, <1>4 DEF n, d

-----------------------------------------------------------------------------
(* Sums over a set without summing: an additive measure of f on S gives    *)
(* every subset of S a number, 0 to the empty set, f[h] more once h joins. *)
(* A ledger's total is the measure of the whole set.  Invariants that say  *)
(* "some measure of the balances has the recorded total" are preserved by  *)
(* first-order reasoning, where a recursive sum would need an induction    *)
(* for each step.                                                          *)

IsMeasure(p, f, S) ==
    /\ p \in [SUBSET S -> Nat]
    /\ p[{}] = 0
    /\ \A T \in SUBSET S, h \in S : h \notin T => p[T \cup {h}] = p[T] + f[h]
    /\ \A T, U \in SUBSET S : T \subseteq U => p[T] <= p[U]

(* total is what the values of f on S add up to. *)
AddsUpTo(f, S, total) == \E p : IsMeasure(p, f, S) /\ p[S] = total

(* No single holding exceeds the total. *)
LEMMA PartOfTotal ==
    ASSUME NEW S, NEW f \in [S -> Nat], NEW total \in Nat,
           AddsUpTo(f, S, total), NEW h \in S
    PROVE  f[h] <= total
<1>1. PICK p : IsMeasure(p, f, S) /\ p[S] = total
    BY DEF AddsUpTo
<1>2. p[{} \cup {h}] = p[{}] + f[h] /\ {} \cup {h} = {h}
    BY <1>1 DEF IsMeasure
<1>3. p[{h}] <= p[S]
    BY <1>1 DEF IsMeasure
<1> QED
    BY <1>1, <1>2, <1>3, SMT DEF IsMeasure

(* A new holding raises the total by as much. *)
LEMMA RaiseTotal ==
    ASSUME NEW S, NEW f \in [S -> Nat], NEW total \in Nat,
           AddsUpTo(f, S, total), NEW h \in S, NEW a \in Nat
    PROVE  AddsUpTo([f EXCEPT ![h] = @ + a], S, total + a)
<1> DEFINE g == [f EXCEPT ![h] = @ + a]
<1>1. PICK p : IsMeasure(p, f, S) /\ p[S] = total
    BY DEF AddsUpTo
<1> DEFINE q == [T \in SUBSET S |-> p[T] + (IF h \in T THEN a ELSE 0)]
<1>2. q \in [SUBSET S -> Nat] /\ q[{}] = 0 /\ q[S] = total + a
    BY <1>1 DEF IsMeasure
<1>3. \A T \in SUBSET S, x \in S : x \notin T => q[T \cup {x}] = q[T] + g[x]
    <2> SUFFICES ASSUME NEW T \in SUBSET S, NEW x \in S, x \notin T
                 PROVE  q[T \cup {x}] = q[T] + g[x]
        OBVIOUS
    <2>1. p[T \cup {x}] = p[T] + f[x] /\ T \cup {x} \in SUBSET S
        BY <1>1 DEF IsMeasure
    <2>2. p[T] \in Nat /\ p[T \cup {x}] \in Nat
        BY <1>1, <2>1 DEF IsMeasure
    <2>3. CASE x = h
        BY <2>1, <2>2, <2>3
    <2>4. CASE x # h
        BY <2>1, <2>2, <2>4
    <2> QED
        BY <2>3, <2>4
<1>4. \A T, U \in SUBSET S : T \subseteq U => q[T] <= q[U]
    BY <1>1 DEF IsMeasure
<1> QED
    BY <1>2, <1>3, <1>4 DEF AddsUpTo, IsMeasure

(* A holding can be spent down to nothing, and the total follows. *)
LEMMA LowerTotal ==
    ASSUME NEW S, NEW f \in [S -> Nat], NEW total \in Nat,
           AddsUpTo(f, S, total), NEW h \in S, NEW a \in 0 .. f[h]
    PROVE  /\ total - a \in Nat
           /\ AddsUpTo([f EXCEPT ![h] = @ - a], S, total - a)
<1> DEFINE g == [f EXCEPT ![h] = @ - a]
<1>1. PICK p : IsMeasure(p, f, S) /\ p[S] = total
    BY DEF AddsUpTo
<1> DEFINE q == [T \in SUBSET S |-> p[T] - (IF h \in T THEN a ELSE 0)]
<1>2. \A T \in SUBSET S : p[T] \in Nat /\ (h \in T => f[h] <= p[T])
    <2> SUFFICES ASSUME NEW T \in SUBSET S, h \in T
                 PROVE  f[h] <= p[T]
        BY <1>1 DEF IsMeasure
    <2>1. p[{} \cup {h}] = p[{}] + f[h] /\ {} \cup {h} = {h}
        BY <1>1 DEF IsMeasure
    <2>2. p[{h}] <= p[T]
        BY <1>1 DEF IsMeasure
    <2> QED
        BY <1>1, <2>1, <2>2, SMT DEF IsMeasure
<1>3. q \in [SUBSET S -> Nat] /\ q[{}] = 0 /\ q[S] = total - a /\ total - a \in Nat
    BY <1>1, <1>2 DEF IsMeasure
<1>4. \A T \in SUBSET S, x \in S : x \notin T => q[T \cup {x}] = q[T] + g[x]
    <2> SUFFICES ASSUME NEW T \in SUBSET S, NEW x \in S, x \notin T
                 PROVE  q[T \cup {x}] = q[T] + g[x]
        OBVIOUS
    <2>1. p[T \cup {x}] = p[T] + f[x] /\ T \cup {x} \in SUBSET S
        BY <1>1 DEF IsMeasure
    <2>2. CASE x = h
        BY <1>2, <2>1, <2>2
    <2>3. CASE x # h
        BY <1>2, <2>1, <2>3
    <2> QED
        BY <2>2, <2>3
<1>5. \A T, U \in SUBSET S : T \subseteq U => q[T] <= q[U]
    <2> SUFFICES ASSUME NEW T \in SUBSET S, NEW U \in SUBSET S, T \subseteq U
                 PROVE  q[T] <= q[U]
        OBVIOUS
    <2>1. p[T] <= p[U]
        BY <1>1 DEF IsMeasure
    <2>2. CASE h \in T <=> h \in U
        BY <1>2, <2>1, <2>2
    <2>3. CASE h \notin T /\ h \in U
        <3>1. p[T \cup {h}] = p[T] + f[h] /\ p[T \cup {h}] <= p[U]
            BY <1>1, <2>3 DEF IsMeasure
        <3> QED
            BY <1>2, <2>3, <3>1
    <2> QED
        BY <2>2, <2>3
<1> QED
    BY <1>3, <1>4, <1>5 DEF AddsUpTo, IsMeasure

(* When only what h holds changes, the total changes by as much. *)
LEMMA ChangeTotal ==
    ASSUME NEW S, NEW f \in [S -> Nat], NEW g \in [S -> Nat], NEW total \in Nat,
           AddsUpTo(f, S, total), NEW h \in S, \A x \in S : x # h => g[x] = f[x]
    PROVE  /\ (total - f[h]) + g[h] \in Nat
           /\ AddsUpTo(g, S, (total - f[h]) + g[h])
<1> DEFINE none == [f EXCEPT ![h] = @ - f[h]]
           some == [none EXCEPT ![h] = @ + g[h]]
<1>1. f[h] \in Nat /\ g[h] \in Nat /\ f[h] \in 0 .. f[h] /\ f[h] - f[h] = 0
    OBVIOUS
<1>2. total - f[h] \in Nat /\ AddsUpTo(none, S, total - f[h])
    BY <1>1, LowerTotal
<1>3. none \in [S -> Nat] /\ none[h] = 0
    BY <1>1
<1>4. \A x \in S : some[x] = g[x]
    BY <1>1
<1> HIDE DEF none
<1>5. some \in [S -> Nat]
    BY <1>1, <1>3
<1>6. AddsUpTo(some, S, (total - f[h]) + g[h])
    BY <1>1, <1>2, <1>3, RaiseTotal
<1> HIDE DEF some
<1>7. some = g
    BY <1>4, <1>5
<1> QED
    BY <1>1, <1>2, <1>6, <1>7

(* The totals of two ledgers are the total of both together. *)
LEMMA TotalsAdd ==
    ASSUME NEW S, NEW f \in [S -> Nat], NEW g \in [S -> Nat], NEW m \in Nat, NEW n \in Nat,
           AddsUpTo(f, S, m), AddsUpTo(g, S, n)
    PROVE  AddsUpTo([x \in S |-> f[x] + g[x]], S, m + n)
<1> DEFINE both == [x \in S |-> f[x] + g[x]]
<1>1. PICK p : IsMeasure(p, f, S) /\ p[S] = m
    BY DEF AddsUpTo
<1>2. PICK q : IsMeasure(q, g, S) /\ q[S] = n
    BY DEF AddsUpTo
<1> DEFINE r == [T \in SUBSET S |-> p[T] + q[T]]
<1>3. p \in [SUBSET S -> Nat] /\ q \in [SUBSET S -> Nat] /\ p[{}] = 0 /\ q[{}] = 0
    BY <1>1, <1>2 DEF IsMeasure
<1>4. r \in [SUBSET S -> Nat] /\ r[{}] = 0 /\ r[S] = m + n
    BY <1>1, <1>2, <1>3
<1>5. ASSUME NEW T \in SUBSET S, NEW h \in S, h \notin T
      PROVE  r[T \cup {h}] = r[T] + both[h]
    <2>1. p[T \cup {h}] = p[T] + f[h] /\ q[T \cup {h}] = q[T] + g[h]
        BY <1>1, <1>2, <1>5 DEF IsMeasure
    <2>2. T \cup {h} \in SUBSET S
        OBVIOUS
    <2>3. p[T] \in Nat /\ q[T] \in Nat /\ f[h] \in Nat /\ g[h] \in Nat
        BY <1>3
    <2> QED
        BY <2>1, <2>2, <2>3
<1>6. ASSUME NEW T \in SUBSET S, NEW U \in SUBSET S, T \subseteq U
      PROVE  r[T] <= r[U]
    <2>1. p[T] <= p[U] /\ q[T] <= q[U]
        BY <1>1, <1>2, <1>6 DEF IsMeasure
    <2>2. p[T] \in Nat /\ q[T] \in Nat /\ p[U] \in Nat /\ q[U] \in Nat
        BY <1>3
    <2> QED
        BY <2>1, <2>2
<1> HIDE DEF r, both
<1>7. IsMeasure(r, both, S)
    BY <1>4, <1>5, <1>6 DEF IsMeasure
<1> QED
    BY <1>4, <1>7 DEF AddsUpTo, both

(* Every value times k adds up to the total times k. *)
LEMMA ScaledTotal ==
    ASSUME NEW S, NEW f \in [S -> Nat], NEW total \in Nat, NEW k \in Nat,
           AddsUpTo(f, S, total)
    PROVE  total * k \in Nat /\ AddsUpTo([x \in S |-> f[x] * k], S, total * k)
<1> DEFINE scaled == [x \in S |-> f[x] * k]
<1>1. PICK p : IsMeasure(p, f, S) /\ p[S] = total
    BY DEF AddsUpTo
<1> DEFINE q == [T \in SUBSET S |-> p[T] * k]
<1>2. p \in [SUBSET S -> Nat] /\ p[{}] = 0
    BY <1>1 DEF IsMeasure
<1>3. \A n \in Nat : n * k \in Nat /\ n * k = k * n
    BY Grows
<1>4. q \in [SUBSET S -> Nat] /\ q[{}] = 0 /\ q[S] = total * k
    BY <1>1, <1>2, <1>3
<1>5. ASSUME NEW T \in SUBSET S, NEW h \in S, h \notin T
      PROVE  q[T \cup {h}] = q[T] + scaled[h]
    <2>1. p[T \cup {h}] = p[T] + f[h] /\ T \cup {h} \in SUBSET S
        BY <1>1, <1>5 DEF IsMeasure
    <2>2. p[T] \in Nat /\ f[h] \in Nat
        BY <1>2
    <2>3. (p[T] + f[h]) * k = p[T] * k + f[h] * k
        BY <2>2, SMT
    <2> QED
        BY <2>1, <2>3
<1>6. ASSUME NEW T \in SUBSET S, NEW U \in SUBSET S, T \subseteq U
      PROVE  q[T] <= q[U]
    <2>1. p[T] <= p[U] /\ p[T] \in Nat /\ p[U] \in Nat
        BY <1>1, <1>2, <1>6 DEF IsMeasure
    <2>2. k * p[T] <= k * p[U]
        BY <2>1, Grows
    <2> QED
        BY <1>3, <2>1, <2>2
<1> HIDE DEF q, scaled
<1>7. IsMeasure(q, scaled, S)
    BY <1>4, <1>5, <1>6 DEF IsMeasure
<1> QED
    BY <1>3, <1>4, <1>7 DEF AddsUpTo, scaled

(* Nothing held adds up to nothing. *)
LEMMA NothingHeld ==
    ASSUME NEW S
    PROVE  AddsUpTo([h \in S |-> 0], S, 0)
<1> DEFINE p == [T \in SUBSET S |-> 0]
<1>1. IsMeasure(p, [h \in S |-> 0], S) /\ p[S] = 0
    BY DEF IsMeasure
<1> QED
    BY <1>1 DEF AddsUpTo

-----------------------------------------------------------------------------
(* The measure of a finite set is the sum the models write, SumFunction:   *)
(* no induction on an operator, but a smallest subset on which two         *)
(* foldings differ.                                                        *)

(* What Functions!SumFunction(f) unfolds to: a function on the subsets of  *)
(* the domain that gives the empty set 0 and every other set the value at  *)
(* one member more than the rest of it.                                    *)
Folding(g, f, S) ==
    g = [s \in SUBSET S |-> IF s = {} THEN 0
                            ELSE f[CHOOSE x \in s : TRUE] + g[s \ {CHOOSE x \in s : TRUE}]]

LEMMA SumIsFolding ==
    ASSUME NEW f, NEW p, Folding(p, f, DOMAIN f)
    PROVE  \E g : Folding(g, f, DOMAIN f) /\ SumFunction(f) = g[DOMAIN f]
<1> DEFINE g == CHOOSE g : Folding(g, f, DOMAIN f)
<1>1. Folding(g, f, DOMAIN f)
    BY Zenon
<1>2. SumFunction(f) = g[DOMAIN f]
    BY DEF SumFunction, SumFunctionOnSet, FoldFunctionOnSet, MapThenFoldSet, Folding
<1> QED
    BY <1>1, <1>2

(* A set of naturals has a least member. *)
LEMMA LeastOf ==
    ASSUME NEW T \in SUBSET Nat, T # {}
    PROVE  \E x \in T : \A y \in T : x <= y
<1> DEFINE R == OpToRel(<, Nat)
<1>1. \A x, y \in Nat : y < x => <<y, x>> \in R
    BY DEF OpToRel
<1>2. IsWellFoundedOn(R, Nat)
    BY NatLessThanWellFounded
<1> HIDE DEF R
<1>3. PICK x \in T : \A y \in T : ~(<<y, x>> \in R)
    BY <1>2, WFMin
<1>4. ASSUME NEW y \in T PROVE x <= y
    <2>1. x \in Nat /\ y \in Nat /\ ~(y < x)
        BY <1>1, <1>3
    <2> QED
        BY <2>1
<1> QED
    BY <1>4

(* A set of subsets of a finite set has a member none of whose proper      *)
(* subsets is in it.                                                       *)
LEMMA SmallestSubset ==
    ASSUME NEW S, IsFiniteSet(S), NEW D \in SUBSET (SUBSET S), D # {}
    PROVE  \E s \in D : \A t \in D : t \subseteq s => t = s
<1> DEFINE R == StrictSubsetOrdering(S)
<1>1. IsWellFoundedOn(R, SUBSET S)
    BY FS_StrictSubsetOrderingWellFounded, FS_FiniteSubsetsOfFinite, Zenon
<1> HIDE DEF R
<1>2. PICK s \in D : \A t \in D : ~(<<t, s>> \in R)
    BY <1>1, WFMin
<1>3. ASSUME NEW t \in D, t \subseteq s PROVE t = s
    BY <1>2, <1>3 DEF R, StrictSubsetOrdering
<1> QED
    BY <1>3

(* Foldings of the same function are the same. *)
LEMMA FoldingUnique ==
    ASSUME NEW S, IsFiniteSet(S), NEW f, NEW g, NEW p, Folding(g, f, S), Folding(p, f, S)
    PROVE  g[S] = p[S]
<1> DEFINE D == {s \in SUBSET S : g[s] # p[s]}
<1>1. SUFFICES ASSUME D # {} PROVE FALSE
    OBVIOUS
<1>2. PICK s \in D : \A t \in D : t \subseteq s => t = s
    <2>1. D \in SUBSET (SUBSET S)
        OBVIOUS
    <2> HIDE DEF D
    <2> QED
        BY <1>1, <2>1, SmallestSubset
<1> DEFINE x == CHOOSE x \in s : TRUE
           rest == s \ {x}
<1>3. s # {}
    BY <1>2 DEF Folding
<1>4. x \in s
    BY <1>3
<1>5. rest \in SUBSET S /\ rest # s /\ rest \subseteq s
    BY <1>2, <1>4
<1>6. g[rest] = p[rest]
    BY <1>2, <1>5
<1>7. g[s] = f[x] + g[rest]
    BY <1>2, <1>3 DEF Folding
<1>8. p[s] = f[x] + p[rest]
    BY <1>2, <1>3 DEF Folding
<1> QED
    BY <1>2, <1>6, <1>7, <1>8

(* On a finite set, what a measure gives the whole set is the sum. *)
LEMMA TotalIsSum ==
    ASSUME NEW S, IsFiniteSet(S), NEW f \in [S -> Nat], NEW total, AddsUpTo(f, S, total)
    PROVE  SumFunction(f) = total
<1>1. PICK p : IsMeasure(p, f, S) /\ p[S] = total
    BY DEF AddsUpTo
<1>2. Folding(p, f, S)
    <2>1. ASSUME NEW s \in SUBSET S, s # {}
          PROVE  p[s] = f[CHOOSE x \in s : TRUE] + p[s \ {CHOOSE x \in s : TRUE}]
        <3> DEFINE x == CHOOSE x \in s : TRUE
                   rest == s \ {x}
        <3>1. x \in s
            BY <2>1
        <3> HIDE DEF x
        <3>2. rest \in SUBSET S /\ x \in S /\ x \notin rest /\ rest \cup {x} = s
            BY <3>1
        <3>3. p[s] = p[rest] + f[x]
            BY <1>1, <3>2 DEF IsMeasure
        <3>4. p[rest] \in Nat /\ f[x] \in Nat
            BY <1>1, <3>2 DEF IsMeasure
        <3> HIDE DEF rest
        <3>5. p[s] = f[x] + p[rest]
            BY <3>3, <3>4
        <3> QED
            BY <3>5 DEF x, rest
    <2>2. p[{}] = 0 /\ p \in [SUBSET S -> Nat]
        BY <1>1 DEF IsMeasure
    <2> DEFINE q == [s \in SUBSET S |-> IF s = {} THEN 0
                     ELSE f[CHOOSE x \in s : TRUE] + p[s \ {CHOOSE x \in s : TRUE}]]
    <2>3. \A s \in SUBSET S : p[s] = q[s]
        BY <2>1, <2>2
    <2>4. p = q
        <3>1. DOMAIN q = SUBSET S /\ DOMAIN p = SUBSET S
            BY <2>2
        <3>2. p = [s \in SUBSET S |-> p[s]] /\ q = [s \in SUBSET S |-> q[s]]
            BY <2>2
        <3> HIDE DEF q
        <3> QED
            BY <2>3, <3>2
    <2> QED
        BY <2>4, Zenon DEF Folding
<1>3. DOMAIN f = S
    OBVIOUS
<1>4. PICK g : Folding(g, f, S) /\ SumFunction(f) = g[S]
    BY <1>2, <1>3, SumIsFolding
<1>5. g[S] = p[S]
    BY <1>2, <1>4, FoldingUnique
<1> QED
    BY <1>1, <1>4, <1>5

(* Where everything outside T is zero, T has the whole total. *)
LEMMA TotalOfPart ==
    ASSUME NEW S, IsFiniteSet(S), NEW T \in SUBSET S, NEW f \in [S -> Nat],
           NEW total \in Nat, AddsUpTo(f, S, total), \A x \in S \ T : f[x] = 0
    PROVE  AddsUpTo([x \in T |-> f[x]], T, total)
<1>1. PICK p : IsMeasure(p, f, S) /\ p[S] = total
    BY DEF AddsUpTo
<1> DEFINE q == [U \in SUBSET T |-> p[U]]
           D == {U \in SUBSET (S \ T) : p[T \cup U] # p[T]}
<1>2. IsFiniteSet(S \ T)
    BY FS_Difference
<1>3. D = {}
    <2>1. SUFFICES ASSUME D # {} PROVE FALSE
        OBVIOUS
    <2>2. PICK U \in D : \A V \in D : V \subseteq U => V = U
        <3>1. D \in SUBSET (SUBSET (S \ T))
            OBVIOUS
        <3> HIDE DEF D
        <3> QED
            BY <1>2, <2>1, <3>1, SmallestSubset
    <2>3. U \in SUBSET (S \ T) /\ p[T \cup U] # p[T]
        BY <2>2
    <2>4. PICK x \in U : TRUE
        <3>1. T \cup {} = T
            OBVIOUS
        <3> QED
            BY <2>3, <3>1
    <2> DEFINE V == U \ {x}
    <2>5. V \in SUBSET (S \ T) /\ V # U /\ V \subseteq U
        BY <2>3, <2>4
    <2>6. p[T \cup V] = p[T]
        BY <2>2, <2>5
    <2>7. x \in S \ T /\ x \notin T \cup V /\ T \cup V \in SUBSET S
        BY <2>3, <2>4, <2>5
    <2>8. (T \cup V) \cup {x} = T \cup U
        BY <2>4
    <2>9. p[(T \cup V) \cup {x}] = p[T \cup V] + f[x]
        BY <1>1, <2>7 DEF IsMeasure
    <2>10. p[T] \in Nat /\ f[x] = 0
        BY <1>1, <2>7 DEF IsMeasure
    <2> QED
        BY <2>3, <2>6, <2>8, <2>9, <2>10
<1>4. p[T] = total
    <2>1. T \cup (S \ T) = S
        OBVIOUS
    <2> QED
        BY <1>1, <1>3, <2>1
<1>5. IsMeasure(q, [x \in T |-> f[x]], T)
    BY <1>1 DEF IsMeasure
<1> QED
    BY <1>4, <1>5 DEF AddsUpTo

-----------------------------------------------------------------------------
(* Loops: recursive functions over an interval of indexes.  Their values are *)
(* followed index by index, by the least index at which something fails.   *)

(* A step T of a loop takes an index and a value of S to a value of S, and *)
(* f is a run of it: base at the first index, and then step by step.       *)
IsStep(T, S) == \A n \in Nat, x \in S : T[<<n, x>>] \in S

IsRun(f, T, S, base, first, last) ==
    /\ f \in [first .. last -> S]
    /\ f[first] = base
    /\ \A n \in first + 1 .. last : f[n] = T[<<n, f[n - 1]>>]

(* A loop has a run: if some bound had none, the least such bound would    *)
(* have its predecessor's, one step longer.                                *)
LEMMA LoopRuns ==
    ASSUME NEW S, NEW base \in S, NEW T, IsStep(T, S),
           NEW first \in Nat, NEW last \in Nat, first <= last
    PROVE  \E f : IsRun(f, T, S, base, first, last)
<1> DEFINE Runs(m) == \E f : IsRun(f, T, S, base, first, m)
           D == {m \in Nat : first <= m /\ ~Runs(m)}
<1>1. SUFFICES ASSUME D # {} PROVE FALSE
    OBVIOUS
<1>2. PICK m \in D : \A y \in D : m <= y
    <2>1. D \in SUBSET Nat
        OBVIOUS
    <2> HIDE DEF D
    <2> QED
        BY <1>1, <2>1, LeastOf
<1>3. m \in Nat /\ first <= m
    BY <1>2
<1> HIDE DEF Runs
<1>4. ~Runs(m)
    BY <1>2
<1>5. m # first
    <2> SUFFICES ASSUME m = first PROVE FALSE
        OBVIOUS
    <2> DEFINE f == [n \in first .. first |-> base]
    <2>1. first .. first = {first} /\ first + 1 .. first = {}
        OBVIOUS
    <2>2. f \in [first .. first -> S] /\ f[first] = base
        BY <2>1
    <2> HIDE DEF f
    <2>3. Runs(first)
        BY <2>1, <2>2 DEF Runs, IsRun
    <2> QED
        BY <1>4, <2>3
<1>6. m - 1 \in Nat /\ first <= m - 1 /\ m - 1 < m
    BY <1>3, <1>5
<1> HIDE DEF D
<1>7. Runs(m - 1)
    <2>1. m - 1 \notin D
        BY <1>2, <1>3, <1>6
    <2> QED
        BY <1>6, <2>1 DEF D
<1>8. PICK g : IsRun(g, T, S, base, first, m - 1)
    BY <1>7 DEF Runs
<1> DEFINE f == [n \in first .. m |-> IF n = m THEN T[<<m, g[m - 1]>>] ELSE g[n]]
<1>9. /\ \A n \in first .. m - 1 : f[n] = g[n] /\ g[n] \in S
      /\ f[m] = T[<<m, g[m - 1]>>]
    BY <1>3, <1>6, <1>8 DEF IsRun
<1>10. f \in [first .. m -> S]
    <2>1. g[m - 1] \in S
        <3>1. m - 1 \in first .. m - 1
            BY <1>3, <1>6
        <3> HIDE DEF f
        <3> QED
            BY <1>9, <3>1
    <2>2. T[<<m, g[m - 1]>>] \in S
        BY <1>3, <2>1 DEF IsStep
    <2>3. \A n \in first .. m : n = m \/ n \in first .. m - 1
        BY <1>3, <1>6
    <2> QED
        BY <1>9, <2>2, <2>3
<1> HIDE DEF f
<1>11. ASSUME NEW n \in first + 1 .. m PROVE f[n] = T[<<n, f[n - 1]>>]
    <2>1. f[n - 1] = g[n - 1]
        BY <1>3, <1>6, <1>9
    <2>2. CASE n = m
        BY <1>9, <2>1, <2>2
    <2>3. CASE n # m
        <3>1. n \in first + 1 .. m - 1 /\ n \in first .. m - 1
            BY <1>3, <1>6, <2>3
        <3> QED
            BY <1>8, <1>9, <2>1, <3>1 DEF IsRun
    <2> QED
        BY <2>2, <2>3
<1>12. f[first] = base
    BY <1>3, <1>6, <1>8, <1>9 DEF IsRun
<1>13. Runs(m)
    BY <1>10, <1>11, <1>12 DEF Runs, IsRun
<1> QED
    BY <1>4, <1>13

(* What holds at the first index and is handed on by every step holds at   *)
(* every index: the set of the indexes where it holds is all of them.      *)
LEMMA HandedOn ==
    ASSUME NEW first \in Nat, NEW last \in Nat, NEW Good, first \in Good,
           \A n \in first + 1 .. last : n - 1 \in Good => n \in Good
    PROVE  first .. last \subseteq Good
<1> DEFINE D == {n \in first .. last : n \notin Good}
<1>1. SUFFICES ASSUME D # {} PROVE FALSE
    OBVIOUS
<1>2. PICK m \in D : \A y \in D : m <= y
    <2>1. D \in SUBSET Nat
        OBVIOUS
    <2> HIDE DEF D
    <2> QED
        BY <1>1, <2>1, LeastOf
<1>3. m \in first + 1 .. last /\ m - 1 \in first .. last
    BY <1>2
<1>4. m - 1 \in Good
    BY <1>2, <1>3
<1> QED
    BY <1>2, <1>3, <1>4
=============================================================================
