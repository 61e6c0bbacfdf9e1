----------------------- MODULE LpFeeAccounting_proofs -----------------------
(***************************************************************************)
(* What the fee accounting of the LP tokens promises, proved for every     *)
(* scale, every number of holders and every amount.                        *)
(*                                                                         *)
(* Worth is the argument: what a holder is owed, in fractions of a unit,   *)
(* is a linear function of the growth per share, whether or not it has     *)
(* been settled.  So a settlement changes nobody's worth, an advance of    *)
(* the growth gives each holder its balance times as much, and the sum of  *)
(* all follows the sum of the balances.                                    *)
(***************************************************************************)
EXTENDS LpFeeAccounting, NumberFacts

-----------------------------------------------------------------------------
(* The two limbs of a growth. *)

(* A growth per share as one number of fractions.                          *)
Value(g) == Scale * g.whole + g.fraction

LEMMA ValueTyped ==
  ASSUME NEW g \in Growth
  PROVE  Value(g) \in Nat
<1>1. g.whole \in Nat /\ g.fraction \in 0 .. Scale - 1 /\ Scale \in Nat
  BY LpFeeAssumption DEF Growth
<1>2. Scale * g.whole \in Nat
  BY <1>1, Grows
<1> QED
  BY <1>1, <1>2 DEF Value

(* Plus carries from the fraction into the whole.                          *)
LEMMA PlusAdds ==
  ASSUME NEW g \in Growth, NEW f \in Nat
  PROVE  Plus(g, f) \in Growth /\ Value(Plus(g, f)) = Value(g) + f
<1> DEFINE n == g.fraction + f
<1>1. /\ Scale \in Nat \ {0} /\ g.whole \in Nat /\ g.fraction \in 0 .. Scale - 1
      /\ n \in Nat
  BY LpFeeAssumption DEF Growth
<1>2. /\ n \div Scale \in Nat /\ n % Scale \in 0 .. Scale - 1
      /\ n = Scale * (n \div Scale) + (n % Scale)
  BY <1>1, Divided
<1> DEFINE q == n \div Scale
           r == n % Scale
<1>3. Plus(g, f) = [whole |-> g.whole + q, fraction |-> r]
  BY DEF Plus
<1> HIDE DEF q, r
<1>4. q \in Nat /\ r \in 0 .. Scale - 1 /\ n = Scale * q + r
  BY <1>2, Zenon DEF q, r
<1>5. Scale * (g.whole + q) = Scale * g.whole + Scale * q
      /\ Scale * g.whole \in Int /\ Scale * q \in Int
  BY <1>1, <1>4, Distributes
<1>6. g.whole + q \in Nat
  BY <1>1, <1>4
<1>7. Plus(g, f) \in Growth
  BY <1>3, <1>4, <1>6 DEF Growth
<1>8. Value(Plus(g, f)) = Scale * (g.whole + q) + r
  BY <1>3 DEF Value
<1> QED
  BY <1>1, <1>4, <1>5, <1>7, <1>8 DEF Value

(* The two limbs of a difference of growths, with at most one borrow.      *)
LEMMA DeltaParts ==
  ASSUME NEW g \in Growth, NEW c \in Growth, Value(c) <= Value(g),
         NEW borrow, borrow = IF g.fraction < c.fraction THEN 1 ELSE 0
  PROVE  LET W == g.whole - c.whole - borrow
             F == g.fraction - c.fraction + borrow * Scale
         IN  /\ W \in Nat /\ F \in 0 .. Scale - 1
             /\ Scale * W + F = Value(g) - Value(c)
             /\ ~GrowthBefore(g, c)
<1> DEFINE W == g.whole - c.whole - borrow
           F == g.fraction - c.fraction + borrow * Scale
<1>1. /\ Scale \in Nat \ {0} /\ g.whole \in Nat /\ g.fraction \in 0 .. Scale - 1
      /\ c.whole \in Nat /\ c.fraction \in 0 .. Scale - 1 /\ borrow \in {0, 1}
  BY LpFeeAssumption DEF Growth
<1>2. borrow * Scale = (IF borrow = 1 THEN Scale ELSE 0) /\ borrow * Scale = Scale * borrow
  BY <1>1
<1>3. F \in 0 .. Scale - 1 /\ W \in Int
  BY <1>1, <1>2
<1>4. /\ Scale * W = Scale * (g.whole - c.whole) - Scale * borrow
      /\ Scale * (g.whole - c.whole) = Scale * g.whole - Scale * c.whole
      /\ Scale * g.whole \in Int /\ Scale * c.whole \in Int /\ Scale * borrow \in Int
  BY <1>1, Distributes
<1>5. Scale * W + F = Value(g) - Value(c)
  BY <1>1, <1>2, <1>4 DEF Value
<1>6. Value(g) \in Nat /\ Value(c) \in Nat
  BY ValueTyped
<1> HIDE DEF W, F
<1>7. W \in Nat
  <2> SUFFICES ASSUME W <= 0 - 1 PROVE FALSE
    BY <1>3
  <2>1. 0 - W - 1 \in Nat /\ Scale * (0 - W - 1) \in Nat
    BY <1>1, <1>3, Grows
  <2>2. Scale * (0 - W - 1) = Scale * (0 - W) - Scale * 1 /\ Scale * (0 - W) = Scale * 0 - Scale * W
        /\ Scale * W \in Int
    BY <1>1, <1>3, Distributes
  <2> QED
    BY <1>1, <1>3, <1>5, <1>6, <2>1, <2>2
<1>8. ~GrowthBefore(g, c)
  BY <1>1, <1>7 DEF GrowthBefore, W
<1> QED
  BY <1>3, <1>5, <1>7, <1>8 DEF W, F

(* A settlement splits balance times growth into units and a carry.        *)
Splits(b, W, F, ca, cl, n) ==
    /\ b * W \in Nat /\ n \in 0 .. MaxWord
    /\ n \div Scale \in Nat /\ n % Scale \in 0 .. Scale - 1
    /\ Scale * (cl + (b * W + n \div Scale)) + (n % Scale)
           = Scale * cl + ca + b * (Scale * W + F)

LEMMA SettleParts ==
  ASSUME NEW b \in 0 .. Scale - 1, NEW W \in Nat, NEW F \in 0 .. Scale - 1,
         NEW ca \in 0 .. Scale - 1, NEW cl \in Nat, NEW n, n = b * F + ca
  PROVE  Splits(b, W, F, ca, cl, n)
<1>1. Scale \in Nat \ {0} /\ b \in Nat /\ F \in Nat /\ ca \in Nat
  BY LpFeeAssumption
<1>2. b * W \in Nat /\ b * F \in Nat /\ n \in Nat
  BY <1>1, Grows
<1>3. n <= MaxWord
  <2>1. b * F <= b * (Scale - 1) /\ (Scale - 1) * b <= (Scale - 1) * (Scale - 1)
    BY <1>1, Grows
  <2>2. b * (Scale - 1) = (Scale - 1) * b
        /\ (Scale - 1) * (Scale - 1) = Scale * Scale - Scale - Scale + 1
        /\ Scale * Scale \in Int /\ (Scale - 1) * b \in Int
    BY <1>1, SMT
  <2>3. MaxWord = Scale * Scale - 1
    BY LpFeeAssumption
  <2> QED
    BY <1>1, <1>2, <2>1, <2>2, <2>3
<1>4. /\ n \div Scale \in Nat /\ n % Scale \in 0 .. Scale - 1
      /\ n = Scale * (n \div Scale) + (n % Scale)
  BY <1>1, <1>2, Divided
<1> DEFINE q == n \div Scale
           r == n % Scale
<1> HIDE DEF q, r
<1>5. q \in Nat /\ r \in Nat /\ b * F + ca = Scale * q + r
  BY <1>1, <1>4 DEF q, r
<1>6. /\ Scale * (cl + (b * W + q)) = Scale * cl + Scale * (b * W + q)
      /\ Scale * (b * W + q) = Scale * (b * W) + Scale * q
      /\ Scale * cl \in Int /\ Scale * (b * W) \in Int /\ Scale * q \in Int
  BY <1>1, <1>2, <1>5, Distributes
<1>7. /\ b * (Scale * W + F) = b * (Scale * W) + b * F
      /\ b * (Scale * W) = Scale * (b * W)
  BY <1>1, SMT
<1>8. Scale * (cl + (b * W + q)) + r = Scale * cl + ca + b * (Scale * W + F)
  BY <1>1, <1>2, <1>5, <1>6, <1>7
<1>9. n \in 0 .. MaxWord
  BY <1>2, <1>3, LpFeeAssumption
<1> QED
  BY <1>2, <1>4, <1>8, <1>9, Zenon DEF q, r, Splits

-----------------------------------------------------------------------------
(* What a holder is worth, and the invariant. *)

(* What a holder is owed at growth g, in fractions: its claims, its carry, *)
(* and its balance times the growth since its checkpoint.                  *)
Worth(h, s, g) ==
    Scale * h.claimable[s] + h.carry[s]
        + h.balance * (Value(g) - Value(h.checkpoint[s]))

(* A holder was never settled beyond the growth of its pool, and without   *)
(* shares it carries no fraction.                                          *)
Sound(h, s, g) ==
    /\ Value(h.checkpoint[s]) <= Value(g)
    /\ h.balance = 0 => h.carry[s] = 0

Balances == [a \in Accounts |-> holder[a].balance]

Worths(s) == [a \in Accounts |-> Worth(holder[a], s, side[s].growth)]

(* The fractions of a side's liability that are somebody's.                *)
Allotted(st) == Scale * st.liability - st.globalRemainder

SideBooks(s) ==
    /\ Allotted(side[s]) \in Nat
    /\ AddsUpTo(Worths(s), Accounts, Allotted(side[s]))
    /\ side[s].liability = side[s].accrued - side[s].paid

LpInv ==
    /\ TypeOK
    /\ \A a \in Accounts, s \in Side : Sound(holder[a], s, side[s].growth)
    /\ AddsUpTo(Balances, Accounts, total)
    /\ \A s \in Side : SideBooks(s)

LEMMA HolderTyped ==
  ASSUME NEW h \in HolderState, NEW s \in Side
  PROVE  /\ Scale \in Nat \ {0} /\ h.balance \in 0 .. Scale - 1 /\ h.balance \in Nat
         /\ h.checkpoint[s] \in Growth /\ h.carry[s] \in 0 .. Scale - 1
         /\ h.carry[s] \in Nat /\ h.claimable[s] \in Nat
         /\ h.checkpoint \in [Side -> Growth] /\ h.carry \in [Side -> 0 .. Scale - 1]
         /\ h.claimable \in [Side -> Nat]
BY LpFeeAssumption DEF HolderState

LEMMA SideTyped ==
  ASSUME NEW st \in SideState
  PROVE  /\ st.growth \in Growth /\ st.globalRemainder \in 0 .. Scale - 1
         /\ st.globalRemainder \in Nat /\ st.accrued \in 0 .. MaxWord /\ st.accrued \in Nat
         /\ st.paid \in Nat /\ st.liability \in Nat /\ Allotted(st) \in Int
<1>1. /\ st.growth \in Growth /\ st.globalRemainder \in 0 .. Scale - 1
      /\ st.accrued \in 0 .. MaxWord /\ st.paid \in Nat /\ st.liability \in Nat
      /\ Scale \in Nat
  BY LpFeeAssumption DEF SideState
<1>2. Scale * st.liability \in Nat
  BY <1>1, Grows
<1> QED
  BY <1>1, <1>2 DEF Allotted

LEMMA WorthTyped ==
  ASSUME NEW h \in HolderState, NEW s \in Side, NEW g \in Growth,
         Value(h.checkpoint[s]) <= Value(g)
  PROVE  Worth(h, s, g) \in Nat
<1>1. /\ Scale \in Nat /\ h.balance \in Nat /\ h.claimable[s] \in Nat /\ h.carry[s] \in Nat
      /\ h.checkpoint[s] \in Growth
  BY HolderTyped
<1>2. Value(g) - Value(h.checkpoint[s]) \in Nat
  BY <1>1, ValueTyped
<1>3. Scale * h.claimable[s] \in Nat /\ h.balance * (Value(g) - Value(h.checkpoint[s])) \in Nat
  BY <1>1, <1>2, Grows
<1> QED
  BY <1>1, <1>3 DEF Worth

(* Growth adds its own multiple of the balance to what a holder is worth.  *)
LEMMA WorthGrows ==
  ASSUME NEW h \in HolderState, NEW s \in Side, NEW g \in Growth, NEW g2 \in Growth,
         NEW k \in Int, Value(g2) = Value(g) + k
  PROVE  Worth(h, s, g2) = Worth(h, s, g) + h.balance * k
<1> DEFINE c == Value(h.checkpoint[s])
           v == Value(g)
<1>1. /\ Scale \in Nat /\ h.balance \in Nat /\ h.claimable[s] \in Nat /\ h.carry[s] \in Nat
      /\ v \in Int /\ c \in Int
  BY HolderTyped, ValueTyped
<1>2. Worth(h, s, g) = Scale * h.claimable[s] + h.carry[s] + h.balance * (v - c)
      /\ Worth(h, s, g2) = Scale * h.claimable[s] + h.carry[s] + h.balance * ((v + k) - c)
  BY DEF Worth
<1> HIDE DEF c, v
<1>3. (v + k) - c = (v - c) + k /\ v - c \in Int
  BY <1>1
<1>4. h.balance * ((v - c) + k) = h.balance * (v - c) + h.balance * k
      /\ h.balance * (v - c) \in Int /\ h.balance * k \in Int
  BY <1>1, <1>3, Distributes
<1>5. Scale * h.claimable[s] \in Nat
  BY <1>1, Grows
<1> QED
  BY <1>1, <1>2, <1>3, <1>4, <1>5

(* At its checkpoint a holder is worth its claims and its carry, whatever  *)
(* it holds.                                                               *)
LEMMA WorthSettled ==
  ASSUME NEW h \in HolderState, NEW s \in Side, NEW g \in Growth, h.checkpoint[s] = g
  PROVE  Worth(h, s, g) = Scale * h.claimable[s] + h.carry[s]
<1>1. /\ Scale \in Nat /\ h.balance \in Nat /\ h.claimable[s] \in Nat /\ h.carry[s] \in Nat
      /\ Value(g) \in Nat
  BY HolderTyped, ValueTyped
<1>2. h.balance * (Value(g) - Value(g)) = 0 /\ Scale * h.claimable[s] \in Nat
  BY <1>1, Grows
<1> QED
  BY <1>1, <1>2 DEF Worth

(* settleFeeGrowth keeps the balance and the worth and moves the           *)
(* checkpoint; what it multiplies fits a word.                             *)
LEMMA SettleHolder ==
  ASSUME NEW h \in HolderState, side \in [Side -> SideState],
         \A s \in Side : Value(h.checkpoint[s]) <= Value(side[s].growth)
  PROVE  /\ Settled(h) \in HolderState /\ Settled(h).balance = h.balance
         /\ \A s \in Side :
                /\ Settled(h).checkpoint[s] = side[s].growth
                /\ Scale * Settled(h).claimable[s] + Settled(h).carry[s]
                       = Worth(h, s, side[s].growth)
                /\ h.balance = 0 => Settled(h).carry[s] = h.carry[s]
                /\ ~GrowthBefore(side[s].growth, h.checkpoint[s])
                /\ h.balance * WholeDelta(h, s) \in Nat
                /\ h.balance * WholeDelta(h, s) <= NewClaim(h, s)
                /\ NewClaim(h, s) \in Nat
                /\ HolderNumerator(h, s) \in 0 .. MaxWord
                /\ Settled(h).claimable[s] = h.claimable[s] + NewClaim(h, s)
<1>1. ASSUME NEW s \in Side
      PROVE  /\ WholeDelta(h, s) \in Nat /\ FractionDelta(h, s) \in 0 .. Scale - 1
             /\ Scale * WholeDelta(h, s) + FractionDelta(h, s)
                    = Value(side[s].growth) - Value(h.checkpoint[s])
             /\ ~GrowthBefore(side[s].growth, h.checkpoint[s])
  <2> DEFINE borrow == Borrow(h, s)
  <2>1. side[s].growth \in Growth /\ h.checkpoint[s] \in Growth
    BY HolderTyped, SideTyped
  <2>2. borrow = IF side[s].growth.fraction < h.checkpoint[s].fraction THEN 1 ELSE 0
    BY DEF Borrow
  <2> HIDE DEF borrow
  <2>3. LET W == side[s].growth.whole - h.checkpoint[s].whole - borrow
            F == side[s].growth.fraction - h.checkpoint[s].fraction + borrow * Scale
        IN  /\ W \in Nat /\ F \in 0 .. Scale - 1
            /\ Scale * W + F = Value(side[s].growth) - Value(h.checkpoint[s])
            /\ ~GrowthBefore(side[s].growth, h.checkpoint[s])
    BY <2>1, <2>2, DeltaParts
  <2> QED
    BY <2>3, Zenon DEF WholeDelta, FractionDelta, borrow
<1>2. ASSUME NEW s \in Side
      PROVE  /\ h.balance * WholeDelta(h, s) \in Nat
             /\ HolderNumerator(h, s) \in 0 .. MaxWord
             /\ HolderNumerator(h, s) \div Scale \in Nat
             /\ HolderNumerator(h, s) % Scale \in 0 .. Scale - 1
             /\ Scale * (h.claimable[s] + NewClaim(h, s)) + (HolderNumerator(h, s) % Scale)
                    = Worth(h, s, side[s].growth)
  <2> DEFINE W == WholeDelta(h, s)
             F == FractionDelta(h, s)
             b == h.balance
             ca == h.carry[s]
             cl == h.claimable[s]
             n == HolderNumerator(h, s)
  <2>1. /\ b \in 0 .. Scale - 1 /\ ca \in 0 .. Scale - 1 /\ cl \in Nat
        /\ W \in Nat /\ F \in 0 .. Scale - 1
    BY <1>1, HolderTyped
  <2>2. n = b * F + ca
    BY DEF HolderNumerator
  <2> HIDE DEF W, F, b, ca, cl, n
  <2>3. Splits(b, W, F, ca, cl, n)
    BY <2>1, <2>2, SettleParts
  <2>4. Scale * W + F = Value(side[s].growth) - Value(h.checkpoint[s])
    BY <1>1 DEF W, F
  <2>5. Worth(h, s, side[s].growth) = Scale * cl + ca + b * (Scale * W + F)
    BY <2>4, Zenon DEF Worth, cl, ca, b
  <2> QED
    BY <2>3, <2>5, Zenon DEF Splits, n, NewClaim, W, F, b, ca, cl
<1>3. ASSUME NEW s \in Side
      PROVE  NewClaim(h, s) \in Nat /\ h.balance * WholeDelta(h, s) <= NewClaim(h, s)
  BY <1>2 DEF NewClaim
<1> DEFINE cp == [s \in Side |-> side[s].growth]
           cy == [s \in Side |-> HolderNumerator(h, s) % Scale]
           cl == [s \in Side |-> h.claimable[s] + NewClaim(h, s)]
<1>4. Settled(h) = [h EXCEPT !.checkpoint = cp, !.carry = cy, !.claimable = cl]
  BY Zenon DEF Settled
<1>5. cp \in [Side -> Growth] /\ cy \in [Side -> 0 .. Scale - 1] /\ cl \in [Side -> Nat]
  <2>1. \A s \in Side : side[s].growth \in Growth
    BY SideTyped
  <2>2. \A s \in Side : h.claimable[s] + NewClaim(h, s) \in Nat
    BY <1>3, HolderTyped
  <2>3. \A s \in Side : HolderNumerator(h, s) % Scale \in 0 .. Scale - 1
    BY <1>2
  <2> QED
    BY <2>1, <2>2, <2>3, Zenon
<1>6. ASSUME NEW s \in Side
      PROVE  /\ cp[s] = side[s].growth /\ cy[s] = HolderNumerator(h, s) % Scale
             /\ cl[s] = h.claimable[s] + NewClaim(h, s)
  BY Zenon
<1> HIDE DEF cp, cy, cl
<1>7. Settled(h) \in HolderState
  BY <1>4, <1>5 DEF HolderState
<1>8. /\ Settled(h).balance = h.balance /\ Settled(h).checkpoint = cp
      /\ Settled(h).carry = cy /\ Settled(h).claimable = cl
  BY <1>4, <1>5 DEF HolderState
<1>9. ASSUME NEW s \in Side, h.balance = 0 PROVE Settled(h).carry[s] = h.carry[s]
  <2>1. HolderNumerator(h, s) = h.carry[s]
    BY <1>1, <1>9, HolderTyped DEF HolderNumerator
  <2>2. \A n \in 0 .. Scale - 1 : n % Scale = n
    BY LpFeeAssumption
  <2> QED
    BY <1>6, <1>8, <2>1, <2>2, HolderTyped
<1> QED
  BY <1>1, <1>2, <1>3, <1>6, <1>7, <1>8, <1>9

(* The invariant is what the properties say of a state.                    *)
LEMMA EntitlementIsWorth ==
  LpInv => \A a \in Accounts, s \in Side :
               Entitlement(a, s) = Worth(holder[a], s, side[s].growth)
<1> SUFFICES ASSUME LpInv, NEW a \in Accounts, NEW s \in Side
             PROVE  Entitlement(a, s) = Worth(holder[a], s, side[s].growth)
  OBVIOUS
<1>1. /\ holder[a] \in HolderState /\ side \in [Side -> SideState]
      /\ \A r \in Side : Value(holder[a].checkpoint[r]) <= Value(side[r].growth)
  BY DEF LpInv, TypeOK, Sound
<1> QED
  BY <1>1, SettleHolder DEF Entitlement

LEMMA WorthsTyped ==
  LpInv => \A s \in Side :
               /\ Worths(s) \in [Accounts -> Nat]
               /\ \A a \in Accounts : Worths(s)[a] = Worth(holder[a], s, side[s].growth)
<1> SUFFICES ASSUME LpInv, NEW s \in Side, NEW a \in Accounts
             PROVE  Worth(holder[a], s, side[s].growth) \in Nat
  BY DEF Worths
<1>1. /\ holder[a] \in HolderState /\ side[s] \in SideState
      /\ Value(holder[a].checkpoint[s]) <= Value(side[s].growth)
  BY DEF LpInv, TypeOK, Sound
<1> QED
  BY <1>1, SideTyped, WorthTyped

(* Nobody is owed more than the liability, and what is owed fits a word.   *)
LEMMA SettleFits ==
  LpInv => \A a \in Accounts :
               /\ CanSettle(holder[a])
               /\ \A s \in Side : Settled(holder[a]).claimable[s] <= side[s].liability
<1> SUFFICES ASSUME LpInv, NEW a \in Accounts
             PROVE  /\ CanSettle(holder[a])
                    /\ \A s \in Side : Settled(holder[a]).claimable[s] <= side[s].liability
  OBVIOUS
<1> DEFINE h == holder[a]
<1>1. /\ h \in HolderState /\ side \in [Side -> SideState]
      /\ \A s \in Side : Value(h.checkpoint[s]) <= Value(side[s].growth)
  BY DEF LpInv, TypeOK, Sound
<1> HIDE DEF h
<1>2. ASSUME NEW s \in Side
      PROVE  /\ Settled(h).claimable[s] <= side[s].liability
             /\ side[s].liability <= MaxWord /\ side[s].liability \in Nat
             /\ Settled(h).claimable[s] \in Nat
  <2> DEFINE cl == Settled(h).claimable[s]
             ca == Settled(h).carry[s]
             liab == side[s].liability
             rest == side[s].globalRemainder
  <2>1. /\ Settled(h) \in HolderState
        /\ Scale * cl + ca = Worth(h, s, side[s].growth)
    BY <1>1, SettleHolder
  <2>2. cl \in Nat /\ ca \in Nat /\ Scale \in Nat \ {0}
    BY <2>1, HolderTyped
  <2>3. /\ side[s] \in SideState /\ liab \in Nat /\ rest \in Nat
        /\ side[s].accrued <= MaxWord /\ side[s].accrued \in Nat /\ side[s].paid \in Nat
        /\ MaxWord \in Nat
    <3>1. side[s] \in SideState
      BY <1>1
    <3>2. MaxWord \in Nat
      <4>1. Scale \in Nat /\ Scale >= 1 /\ Scale * Scale \in Nat /\ Scale * 1 <= Scale * Scale
        BY LpFeeAssumption, Grows
      <4> QED
        BY <4>1, LpFeeAssumption
    <3> QED
      BY <3>1, <3>2, SideTyped
  <2>4. Worth(h, s, side[s].growth) <= Allotted(side[s])
    <3> DEFINE w == Worths(s)
    <3>1. w \in [Accounts -> Nat] /\ w[a] = Worth(h, s, side[s].growth)
      BY WorthsTyped DEF h
    <3>2. AddsUpTo(w, Accounts, Allotted(side[s])) /\ Allotted(side[s]) \in Nat
      BY DEF LpInv, SideBooks
    <3> HIDE DEF w
    <3> QED
      BY <3>1, <3>2, PartOfTotal
  <2>5. Allotted(side[s]) = Scale * liab - rest
    BY DEF Allotted
  <2>6. liab = side[s].accrued - side[s].paid
    BY DEF LpInv, SideBooks
  <2> HIDE DEF cl, ca, liab, rest
  <2>7. Scale * cl <= Scale * liab
    <3>1. Scale * cl \in Nat /\ Scale * liab \in Nat
      BY <2>2, <2>3, Grows
    <3> QED
      BY <2>1, <2>2, <2>3, <2>4, <2>5, <3>1
  <2>8. cl <= liab
    <3> SUFFICES ASSUME liab + 1 <= cl PROVE FALSE
      BY <2>2, <2>3
    <3>1. Scale * (liab + 1) <= Scale * cl /\ Scale * (liab + 1) = Scale * liab + Scale * 1
          /\ Scale * liab \in Int /\ Scale * cl \in Int
      BY <2>2, <2>3, Grows, Distributes
    <3> QED
      BY <2>2, <2>7, <3>1
  <2> QED
    BY <2>2, <2>3, <2>6, <2>8 DEF cl, liab
<1>3. CanSettle(h)
  <2> SUFFICES ASSUME NEW s \in Side
               PROVE  /\ ~GrowthBefore(side[s].growth, h.checkpoint[s])
                      /\ h.balance * WholeDelta(h, s) <= MaxWord
                      /\ HolderNumerator(h, s) <= MaxWord
                      /\ h.claimable[s] + NewClaim(h, s) <= MaxWord
    BY DEF CanSettle
  <2>1. /\ ~GrowthBefore(side[s].growth, h.checkpoint[s])
        /\ h.balance * WholeDelta(h, s) \in Nat
        /\ h.balance * WholeDelta(h, s) <= NewClaim(h, s)
        /\ NewClaim(h, s) \in Nat
        /\ HolderNumerator(h, s) \in 0 .. MaxWord
        /\ Settled(h).claimable[s] = h.claimable[s] + NewClaim(h, s)
    BY <1>1, SettleHolder
  <2>2. h.claimable[s] \in Nat /\ MaxWord \in Int
    BY <1>1, HolderTyped, LpFeeAssumption
  <2> QED
    BY <1>2, <2>1, <2>2
<1> QED
  BY <1>2, <1>3 DEF h

LEMMA InvIsEnough == LpInv => FeesConserved /\ NoDormantFractions
<1> SUFFICES ASSUME LpInv PROVE FeesConserved /\ NoDormantFractions
  OBVIOUS
<1>1. ASSUME NEW s \in Side
      PROVE  /\ SumFunction([a \in Accounts |-> Entitlement(a, s)])
                    + side[s].globalRemainder = Scale * side[s].liability
             /\ side[s].liability = side[s].accrued - side[s].paid
             /\ side[s].globalRemainder < Scale
  <2> DEFINE w == Worths(s)
  <2>1. [a \in Accounts |-> Entitlement(a, s)] = w
    BY EntitlementIsWorth DEF Worths
  <2>2. w \in [Accounts -> Nat] /\ AddsUpTo(w, Accounts, Allotted(side[s]))
    BY WorthsTyped DEF LpInv, SideBooks
  <2>3. IsFiniteSet(Accounts)
    BY LpFeeAssumption
  <2> HIDE DEF w
  <2>4. SumFunction(w) = Allotted(side[s])
    BY <2>2, <2>3, TotalIsSum
  <2>5. side[s] \in SideState
    BY DEF LpInv, TypeOK
  <2>6. /\ side[s].globalRemainder \in 0 .. Scale - 1 /\ side[s].liability \in Nat
        /\ Scale \in Nat /\ Scale * side[s].liability \in Nat
    BY <2>5, SideTyped, Grows, LpFeeAssumption
  <2>7. SumFunction([a \in Accounts |-> Entitlement(a, s)]) = Allotted(side[s])
    BY <2>1, <2>4
  <2>8. side[s].liability = side[s].accrued - side[s].paid
    BY DEF LpInv, SideBooks
  <2> QED
    BY <2>6, <2>7, <2>8 DEF Allotted
<1>2. ASSUME NEW s \in Side, NEW a \in Accounts, holder[a].balance = 0
      PROVE  Settled(holder[a]).carry[s] = 0
  <2>1. /\ holder[a] \in HolderState /\ side \in [Side -> SideState] /\ holder[a].carry[s] = 0
        /\ \A r \in Side : Value(holder[a].checkpoint[r]) <= Value(side[r].growth)
    BY <1>2 DEF LpInv, TypeOK, Sound
  <2> QED
    BY <1>2, <2>1, SettleHolder
<1>3. FeesConserved
  BY <1>1, SettleFits DEF FeesConserved
<1>4. NoDormantFractions
  BY <1>1, <1>2 DEF NoDormantFractions
<1> QED
  BY <1>3, <1>4

LEMMA InitLpInv == Init => LpInv
<1> SUFFICES ASSUME Init PROVE LpInv
  OBVIOUS
<1>1. /\ Scale \in Nat \ {0, 1} /\ 0 \in 0 .. Scale - 1 /\ NoGrowth \in Growth
      /\ NoLock \in LockRecord /\ 0 \in 0 .. MaxWord
  <2>1. Scale \in Nat /\ Scale >= 2 /\ Scale * Scale \in Nat /\ Scale * 1 <= Scale * Scale
    BY LpFeeAssumption, Grows
  <2> QED
    BY <2>1, LpFeeAssumption DEF NoGrowth, Growth, NoLock, LockRecord
<1>2. TypeOK
  <2>1. holder \in [Accounts -> HolderState]
    BY <1>1 DEF Init, HolderState
  <2>2. side \in [Side -> SideState]
    BY <1>1 DEF Init, SideState
  <2> QED
    BY <1>1, <2>1, <2>2 DEF Init, TypeOK
<1>3. ASSUME NEW a \in Accounts, NEW s \in Side
      PROVE  Sound(holder[a], s, side[s].growth) /\ Worth(holder[a], s, side[s].growth) = 0
             /\ holder[a].balance = 0
  <2>1. /\ holder[a].checkpoint[s] = NoGrowth /\ side[s].growth = NoGrowth
        /\ holder[a].balance = 0 /\ holder[a].carry[s] = 0 /\ holder[a].claimable[s] = 0
    BY DEF Init
  <2>2. Value(NoGrowth) = 0
    BY <1>1 DEF Value, NoGrowth
  <2> QED
    BY <1>1, <2>1, <2>2 DEF Sound, Worth
<1>4. AddsUpTo([a \in Accounts |-> 0], Accounts, 0)
  BY NothingHeld
<1>5. AddsUpTo(Balances, Accounts, total)
  <2>1. Balances = [a \in Accounts |-> 0] /\ total = 0
    BY DEF Init, Balances
  <2> QED
    BY <1>4, <2>1
<1>6. ASSUME NEW s \in Side PROVE SideBooks(s)
  <2>1. Worths(s) = [a \in Accounts |-> 0]
    BY <1>3 DEF Worths
  <2>2. Allotted(side[s]) = 0 /\ side[s].liability = side[s].accrued - side[s].paid
    BY <1>1 DEF Init, Allotted
  <2> QED
    BY <1>4, <2>1, <2>2 DEF SideBooks
<1> QED
  BY <1>2, <1>3, <1>5, <1>6 DEF LpInv

-----------------------------------------------------------------------------
(* Steps.  An operation gives one holder a change of its worth and every   *)
(* share the same growth; the rest is arithmetic on the books of a side.   *)

(* At the growth before the step, a is worth change more, all others what  *)
(* they were.                                                              *)
Restated(s, a, change) ==
    \A x \in Accounts :
        /\ Sound(holder'[x], s, side[s].growth)
        /\ Worth(holder'[x], s, side[s].growth)
               = Worth(holder[x], s, side[s].growth) + (IF x = a THEN change ELSE 0)

(* The books of the side record that change, and grown for every share.    *)
Posted(s, change, grown) ==
    /\ change \in Int /\ grown \in Nat
    /\ Value(side'[s].growth) = Value(side[s].growth) + grown
    /\ Allotted(side'[s]) = Allotted(side[s]) + change + total' * grown
    /\ side'[s].liability = side'[s].accrued - side'[s].paid

(* a loses nothing, but what its own claim pays or its last share leaves;  *)
(* and without a fee the gain is less than two units.                      *)
Harmless(s, a, change, grown) ==
    /\ side'[s].paid = side[s].paid =>
           change >= IF holder'[a].balance = 0 THEN 1 - Scale ELSE 0
    /\ side'[s].paid # side[s].paid =>
           /\ ConsumeClaim(a, s) /\ side'[s].paid - side[s].paid \in Nat
           /\ change + Scale * (side'[s].paid - side[s].paid) = 0
    /\ side'[s].accrued = side[s].accrued =>
           /\ total' * grown < 2 * Scale
           /\ change <= 0 \/ (grown = 0 /\ change < 2 * Scale)

Effect(s) ==
    \E a, change, grown :
        /\ a \in Accounts \/ change = 0
        /\ Restated(s, a, change) /\ Posted(s, change, grown)
        /\ Harmless(s, a, change, grown)

(* The gain of a holder stays within what EntitlementKept allows.          *)
GainAllowed(s, x) ==
    LET gain == Worth(holder'[x], s, side'[s].growth) - Worth(holder[x], s, side[s].growth)
    IN  /\ gain + Scale * PaidTo(x, s) >= IF holder'[x].balance = 0 THEN 1 - Scale ELSE 0
        /\ side'[s].accrued = side[s].accrued => gain < 2 * Scale

(* Every worth after a step is the one before, the change, and the growth  *)
(* of its shares.                                                          *)
LEMMA WorthsAfter ==
  ASSUME LpInv, TypeOK', NEW s \in Side, NEW a, NEW change, NEW grown,
         Restated(s, a, change), Posted(s, change, grown), NEW x \in Accounts
  PROVE  /\ Sound(holder'[x], s, side'[s].growth)
         /\ Worth(holder'[x], s, side'[s].growth) \in Nat
         /\ Worth(holder'[x], s, side'[s].growth)
                = Worth(holder[x], s, side[s].growth) + holder'[x].balance * grown
                      + (IF x = a THEN change ELSE 0)
<1> DEFINE h == holder'[x]
           g == side[s].growth
           g2 == side'[s].growth
<1>1. /\ h \in HolderState /\ g \in Growth /\ g2 \in Growth /\ grown \in Nat
      /\ Value(g2) = Value(g) + grown /\ Sound(h, s, g)
      /\ Worth(h, s, g) = Worth(holder[x], s, g) + (IF x = a THEN change ELSE 0)
  <2>1. side[s] \in SideState /\ side'[s] \in SideState /\ h \in HolderState
    BY DEF LpInv, TypeOK
  <2> QED
    BY <2>1, SideTyped DEF Restated, Posted
<1>2. /\ Worth(holder[x], s, g) \in Int /\ change \in Int
      /\ h.balance \in Nat /\ h.balance * grown \in Nat
  <2>1. Worth(holder[x], s, g) \in Nat
    BY WorthsTyped
  <2>2. h.balance \in Nat /\ h.balance * grown \in Nat
    BY <1>1, HolderTyped, Grows
  <2> QED
    BY <2>1, <2>2 DEF Posted
<1> HIDE DEF h, g, g2
<1>3. h.checkpoint[s] \in Growth /\ Value(g) \in Nat /\ Value(g2) \in Nat
      /\ Value(h.checkpoint[s]) \in Nat
  BY <1>1, HolderTyped, ValueTyped
<1>4. Sound(h, s, g2)
  BY <1>1, <1>3 DEF Sound
<1>5. Worth(h, s, g2) = Worth(h, s, g) + h.balance * grown
  <2>1. grown \in Int
    BY <1>1
  <2> QED
    BY <1>1, <2>1, WorthGrows
<1>6. Worth(h, s, g2) \in Nat
  BY <1>1, <1>4, WorthTyped DEF Sound
<1> QED
  BY <1>1, <1>2, <1>4, <1>5, <1>6 DEF h, g, g2

(* The books of a side stay balanced, and nobody's fees are taken.         *)
LEMMA SideKeeps ==
  ASSUME LpInv, TypeOK', AddsUpTo(Balances', Accounts, total'), NEW s \in Side, Effect(s)
  PROVE  /\ \A x \in Accounts : Sound(holder'[x], s, side'[s].growth) /\ GainAllowed(s, x)
         /\ SideBooks(s)'
<1>1. PICK a, change, grown :
          /\ a \in Accounts \/ change = 0
          /\ Restated(s, a, change) /\ Posted(s, change, grown)
          /\ Harmless(s, a, change, grown)
  BY Zenon DEF Effect
<1> DEFINE w == Worths(s)
           w2 == [x \in Accounts |-> Worth(holder'[x], s, side'[s].growth)]
           b == Balances'
           m == Allotted(side[s])
<1>2. /\ w \in [Accounts -> Nat] /\ m \in Nat /\ AddsUpTo(w, Accounts, m)
      /\ \A x \in Accounts : w[x] = Worth(holder[x], s, side[s].growth)
  BY WorthsTyped DEF LpInv, SideBooks
<1>3. /\ b \in [Accounts -> Nat] /\ total' \in Nat /\ AddsUpTo(b, Accounts, total')
      /\ \A x \in Accounts : b[x] = holder'[x].balance
  <2>1. /\ \A x \in Accounts : holder'[x] \in HolderState
        /\ total' \in 0 .. Scale - 1 /\ Scale \in Nat
    BY LpFeeAssumption DEF TypeOK
  <2>2. \A x \in Accounts : holder'[x].balance \in Nat
    BY <2>1 DEF HolderState
  <2> QED
    BY <2>1, <2>2 DEF Balances
<1>4. \A x \in Accounts :
          /\ Sound(holder'[x], s, side'[s].growth) /\ w2[x] \in Nat
          /\ w2[x] = w[x] + b[x] * grown + (IF x = a THEN change ELSE 0)
  BY <1>1, <1>2, <1>3, WorthsAfter
<1>5. /\ change \in Int /\ grown \in Nat
      /\ Allotted(side'[s]) = m + change + total' * grown
      /\ side'[s].liability = side'[s].accrued - side'[s].paid
  BY <1>1 DEF Posted
<1>6. Scale \in Nat \ {0, 1}
  BY LpFeeAssumption
<1>7. w2 \in [Accounts -> Nat]
  BY <1>4
<1>8. \A x \in Accounts : w2[x] = Worth(holder'[x], s, side'[s].growth)
  OBVIOUS
<1> HIDE DEF w, w2, b, m
<1> DEFINE f == [x \in Accounts |-> b[x] * grown]
           e == [x \in Accounts |-> w[x] + f[x]]
<1>9. /\ total' * grown \in Nat /\ AddsUpTo(f, Accounts, total' * grown)
  BY <1>3, <1>5, ScaledTotal
<1>10. \A x \in Accounts : f[x] \in Nat /\ f[x] = b[x] * grown /\ f[x] <= total' * grown
  <2> SUFFICES ASSUME NEW x \in Accounts
               PROVE  b[x] * grown \in Nat /\ b[x] * grown <= total' * grown
    OBVIOUS
  <2>1. b[x] <= total' /\ b[x] \in Nat
    BY <1>3, PartOfTotal
  <2>2. grown * b[x] <= grown * total' /\ grown * b[x] \in Nat
    BY <1>3, <1>5, <2>1, Grows
  <2>3. grown * b[x] = b[x] * grown /\ grown * total' = total' * grown
    BY <1>3, <1>5, <2>1
  <2> QED
    BY <2>2, <2>3
<1>11. f \in [Accounts -> Nat]
  BY <1>10
<1> HIDE DEF f
<1>12. e \in [Accounts -> Nat] /\ AddsUpTo(e, Accounts, m + total' * grown)
       /\ \A x \in Accounts : e[x] = w[x] + f[x]
  BY <1>2, <1>9, <1>11, TotalsAdd
<1>13. AddsUpTo(w2, Accounts, Allotted(side'[s])) /\ Allotted(side'[s]) \in Nat
  <2> HIDE DEF e
  <2>1. CASE a \in Accounts
    <3>1. \A x \in Accounts : x # a => w2[x] = e[x]
      BY <1>2, <1>4, <1>10, <1>12
    <3>2. m + total' * grown \in Nat
      BY <1>2, <1>9
    <3> DEFINE n == m + total' * grown
    <3>3. /\ (n - e[a]) + w2[a] \in Nat /\ AddsUpTo(w2, Accounts, (n - e[a]) + w2[a])
      <4> HIDE DEF n
      <4>1. n \in Nat /\ AddsUpTo(e, Accounts, n)
        BY <1>12, <3>2 DEF n
      <4> QED
        BY <1>7, <1>12, <2>1, <3>1, <4>1, ChangeTotal
    <3>4. (n - e[a]) + w2[a] = Allotted(side'[s])
      BY <1>2, <1>4, <1>5, <1>9, <1>10, <1>12, <2>1
    <3> QED
      BY <3>3, <3>4
  <2>2. CASE change = 0
    <3>1. \A x \in Accounts : w2[x] = e[x]
      BY <1>2, <1>4, <1>10, <1>12, <2>2
    <3>2. w2 = e
      BY <1>7, <1>12, <3>1
    <3>3. Allotted(side'[s]) = m + total' * grown
      BY <1>2, <1>5, <1>9, <2>2
    <3> QED
      BY <1>2, <1>9, <1>12, <3>2, <3>3
  <2> QED
    BY <1>1, <2>1, <2>2
<1>14. \A x \in Accounts : GainAllowed(s, x)
  <2> SUFFICES ASSUME NEW x \in Accounts PROVE GainAllowed(s, x)
    OBVIOUS
  <2> DEFINE gain == Worth(holder'[x], s, side'[s].growth)
                         - Worth(holder[x], s, side[s].growth)
  <2>1. gain = f[x] + (IF x = a THEN change ELSE 0)
    BY <1>2, <1>4, <1>5, <1>8, <1>10
  <2> HIDE DEF gain
  <2> DEFINE lost == IF holder'[x].balance = 0 THEN 1 - Scale ELSE 0
             paid == side'[s].paid - side[s].paid
  <2>a. /\ gain \in Int /\ lost \in Int /\ lost <= 0
        /\ f[x] \in Nat /\ Scale * 0 = 0
    BY <1>5, <1>6, <1>10, <2>1
  <2>b. side'[s].paid \in Nat /\ side[s].paid \in Nat
    BY DEF LpInv, TypeOK, SideState
  <2>2. gain + Scale * PaidTo(x, s) >= lost
    <3>1. CASE side'[s].paid = side[s].paid
      <4>1. PaidTo(x, s) = 0
        BY <2>b, <3>1 DEF PaidTo
      <4>2. gain >= lost
        BY <1>1, <1>5, <1>6, <1>10, <2>1, <3>1 DEF Harmless
      <4> HIDE DEF lost
      <4> QED
        BY <2>a, <4>1, <4>2
    <3>2. CASE side'[s].paid # side[s].paid
      <4>1. ConsumeClaim(a, s) /\ paid \in Nat /\ change + Scale * paid = 0
        BY <1>1, <3>2 DEF Harmless
      <4>2. Scale * paid \in Nat
        BY <1>6, <4>1
      <4>3. PaidTo(x, s) = 0 \/ PaidTo(x, s) = paid
        BY DEF PaidTo
      <4>4. x = a => PaidTo(x, s) = paid
        BY <2>b, <3>2, <4>1 DEF PaidTo
      <4> HIDE DEF lost, paid
      <4>5. CASE x = a
        <5>1. gain + Scale * paid = f[x]
          BY <1>5, <2>1, <2>a, <4>1, <4>2, <4>5
        <5> QED
          BY <2>a, <4>4, <4>5, <5>1
      <4>6. CASE x # a
        <5>1. gain = f[x]
          BY <2>1, <2>a, <4>6
        <5>2. Scale * PaidTo(x, s) \in Nat
          BY <2>a, <4>2, <4>3
        <5> QED
          BY <2>a, <5>1, <5>2
      <4> QED
        BY <4>5, <4>6
    <3> QED
      BY <3>1, <3>2
  <2>3. ASSUME side'[s].accrued = side[s].accrued PROVE gain < 2 * Scale
    <3>1. total' * grown < 2 * Scale /\ (change <= 0 \/ (grown = 0 /\ change < 2 * Scale))
      BY <1>1, <2>3 DEF Harmless
    <3>2. grown = 0 => f[x] = 0
      BY <1>3, <1>10
    <3> QED
      BY <1>5, <1>6, <1>9, <1>10, <2>1, <3>1, <3>2
  <2> QED
    BY <2>2, <2>3 DEF GainAllowed, gain
<1>15. Worths(s)' = w2
  BY DEF Worths, w2
<1> QED
  BY <1>4, <1>5, <1>13, <1>14, <1>15 DEF SideBooks

(* What every operation is shown to do.                                    *)
StepEffect ==
    /\ TypeOK'
    /\ AddsUpTo(Balances, Accounts, total)'
    /\ \A s \in Side : Effect(s)

LEMMA StepKeeps ==
  ASSUME LpInv, StepEffect
  PROVE  LpInv' /\ \A a \in Accounts, s \in Side : GainAllowed(s, a)
<1>1. TypeOK' /\ AddsUpTo(Balances', Accounts, total')
  BY DEF StepEffect
<1>2. ASSUME NEW s \in Side
      PROVE  /\ \A x \in Accounts : Sound(holder'[x], s, side'[s].growth) /\ GainAllowed(s, x)
             /\ SideBooks(s)'
  <2>1. Effect(s)
    BY DEF StepEffect
  <2> QED
    BY <1>1, <2>1, SideKeeps
<1> QED
  BY <1>1, <1>2 DEF LpInv

(* A holder as its settlement leaves it, for side s and altogether, its    *)
(* balance aside.                                                          *)
SettledAt(h2, h, s) ==
    /\ h2.checkpoint[s] = side[s].growth
    /\ h2.carry[s] = Settled(h).carry[s]
    /\ h2.claimable[s] = Settled(h).claimable[s]
    /\ h2.balance = 0 => h2.carry[s] = 0

AsSettled(h2, h) == h2 \in HolderState /\ \A s \in Side : SettledAt(h2, h, s)

(* A settlement takes nothing and gives nothing.                           *)
LEMMA SettledKeeps ==
  ASSUME LpInv, NEW x \in Accounts, NEW s \in Side,
         NEW h2 \in HolderState, SettledAt(h2, holder[x], s)
  PROVE  /\ Sound(h2, s, side[s].growth)
         /\ Worth(h2, s, side[s].growth) = Worth(holder[x], s, side[s].growth)
<1>1. /\ holder[x] \in HolderState /\ side \in [Side -> SideState]
      /\ \A r \in Side : Value(holder[x].checkpoint[r]) <= Value(side[r].growth)
  BY DEF LpInv, TypeOK, Sound
<1>2. Scale * Settled(holder[x]).claimable[s] + Settled(holder[x]).carry[s]
          = Worth(holder[x], s, side[s].growth)
  BY <1>1, SettleHolder
<1>3. side[s].growth \in Growth /\ h2.checkpoint[s] = side[s].growth
  BY <1>1, SideTyped DEF SettledAt
<1>4. Worth(h2, s, side[s].growth) = Scale * h2.claimable[s] + h2.carry[s]
  BY <1>3, WorthSettled
<1>5. Value(side[s].growth) <= Value(side[s].growth)
  <2>1. Value(side[s].growth) \in Nat
    BY <1>3, ValueTyped
  <2> QED
    BY <2>1
<1> QED
  BY <1>2, <1>3, <1>4, <1>5 DEF SettledAt, Sound

(* Who gets shares is settled before, and so gets nothing of the past.     *)
Taken(a, n) == [Settled(holder[a]) EXCEPT !.balance = @ + n]

LEMMA TakenTyped ==
  ASSUME LpInv, NEW a \in Accounts, NEW n \in 1 .. Scale - 1, holder[a].balance + n < Scale
  PROVE  /\ AsSettled(Taken(a, n), holder[a])
         /\ Taken(a, n).balance = holder[a].balance + n
<1>1. /\ holder[a] \in HolderState /\ side \in [Side -> SideState]
      /\ \A r \in Side : Value(holder[a].checkpoint[r]) <= Value(side[r].growth)
  BY DEF LpInv, TypeOK, Sound
<1> DEFINE t == Settled(holder[a])
           h2 == Taken(a, n)
<1>2. /\ t \in HolderState /\ t.balance = holder[a].balance
      /\ \A s \in Side : t.checkpoint[s] = side[s].growth
  BY <1>1, SettleHolder
<1>3. t.balance + n \in 0 .. Scale - 1 /\ t.balance + n # 0
  <2>1. t.balance \in Nat /\ Scale \in Nat
    BY <1>2, HolderTyped, LpFeeAssumption DEF HolderState
  <2> QED
    BY <1>2, <2>1
<1>4. h2 = [t EXCEPT !.balance = t.balance + n]
  BY <1>2 DEF Taken, HolderState
<1> HIDE DEF h2
<1>5. /\ h2 \in HolderState /\ h2.balance = t.balance + n /\ h2.checkpoint = t.checkpoint
      /\ h2.carry = t.carry /\ h2.claimable = t.claimable
  <2> HIDE DEF t
  <2> QED
    BY <1>2, <1>3, <1>4 DEF HolderState
<1> QED
  BY <1>2, <1>3, <1>5 DEF AsSettled, SettledAt, h2

(* Settled and nothing else: locks and looks.                              *)
LEMMA OnlySettled ==
  ASSUME LpInv, NEW x \in Accounts
  PROVE  /\ AsSettled(Settled(holder[x]), holder[x])
         /\ Settled(holder[x]).balance = holder[x].balance
<1>1. /\ holder[x] \in HolderState /\ side \in [Side -> SideState]
      /\ \A r \in Side : Value(holder[x].checkpoint[r]) <= Value(side[r].growth)
      /\ \A r \in Side : holder[x].balance = 0 => holder[x].carry[r] = 0
  BY DEF LpInv, TypeOK, Sound
<1>2. /\ Settled(holder[x]) \in HolderState
      /\ Settled(holder[x]).balance = holder[x].balance
      /\ \A s \in Side :
             /\ Settled(holder[x]).checkpoint[s] = side[s].growth
             /\ holder[x].balance = 0 => Settled(holder[x]).carry[s] = holder[x].carry[s]
  BY <1>1, SettleHolder
<1> QED
  BY <1>1, <1>2 DEF AsSettled, SettledAt

(* Settlements restate nobody's worth.                                     *)
LEMMA SettlementsRestate ==
  ASSUME LpInv, NEW s \in Side, NEW a,
         \A x \in Accounts : holder'[x] = holder[x] \/ AsSettled(holder'[x], holder[x])
  PROVE  Restated(s, a, 0)
<1> SUFFICES ASSUME NEW x \in Accounts
             PROVE  /\ Sound(holder'[x], s, side[s].growth)
                    /\ Worth(holder'[x], s, side[s].growth)
                           = Worth(holder[x], s, side[s].growth)
  <2>1. \A x \in Accounts : Worth(holder[x], s, side[s].growth) \in Nat
    BY WorthsTyped
  <2> QED
    BY <2>1 DEF Restated
<1>1. CASE holder'[x] = holder[x]
  BY <1>1 DEF LpInv
<1>2. CASE AsSettled(holder'[x], holder[x])
  BY <1>2, SettledKeeps DEF AsSettled
<1> QED
  BY <1>1, <1>2

(* A side that does not change is posted with nothing.                     *)
LEMMA SameSide ==
  ASSUME LpInv, NEW s \in Side, side'[s] = side[s], total' \in Nat
  PROVE  /\ Posted(s, 0, 0)
         /\ \A a : Harmless(s, a, 0, 0)
<1>1. side[s] \in SideState
  BY DEF LpInv, TypeOK
<1>2. Value(side[s].growth) \in Nat /\ Allotted(side[s]) \in Int
  BY <1>1, SideTyped, ValueTyped
<1>3. side[s].liability = side[s].accrued - side[s].paid
  BY DEF LpInv, SideBooks
<1>4. /\ total' * 0 = 0
      /\ Scale \in Nat /\ 0 < 2 * Scale /\ 1 - Scale <= 0
  <2>1. \A n \in Nat : n * 0 = 0
    BY SMT
  <2>2. Scale \in Nat /\ 0 < 2 * Scale /\ 1 - Scale <= 0
    BY LpFeeAssumption
  <2> QED
    BY <2>1, <2>2
<1>5. Posted(s, 0, 0)
  BY <1>2, <1>3, <1>4 DEF Posted
<1>6. ASSUME NEW a PROVE Harmless(s, a, 0, 0)
  <2>1. 0 >= IF holder'[a].balance = 0 THEN 1 - Scale ELSE 0
    BY <1>4
  <2>2. total' * 0 < 2 * Scale /\ 0 <= 0
    <3>1. 0 <= 0
      OBVIOUS
    <3> QED
      BY <1>4, <3>1, Zenon
  <2>3. side'[s].paid = side[s].paid
    OBVIOUS
  <2> QED
    BY <2>1, <2>2, <2>3, Zenon DEF Harmless
<1> QED
  BY <1>5, <1>6

(* Steps that settle and touch no side.                                    *)
LEMMA HoldersSettled ==
  ASSUME LpInv, UNCHANGED side, total' \in Nat,
         \A x \in Accounts : holder'[x] = holder[x] \/ AsSettled(holder'[x], holder[x])
  PROVE  \A s \in Side : Effect(s)
<1> SUFFICES ASSUME NEW s \in Side PROVE Effect(s)
  OBVIOUS
<1> DEFINE none == CHOOSE z : z \notin Accounts
<1>1. Restated(s, none, 0)
  BY SettlementsRestate
<1>2. Posted(s, 0, 0) /\ Harmless(s, none, 0, 0)
  BY SameSide
<1> QED
  BY <1>1, <1>2, Zenon DEF Effect

-----------------------------------------------------------------------------
(* What redistributeGlobalRemainder gives each share, and the units it     *)
(* gives the last holder.                                                  *)
GrownBy(s, left, supply) == IF supply = 0 THEN 0 ELSE Unallocated(s, left) \div supply

UnitsFreed(s, left, supply) == IF supply = 0 THEN Unallocated(s, left) \div Scale ELSE 0

Redistribution(s, left, supply) ==
    LET st == Redistributed(left, supply)[s]
        grown == GrownBy(s, left, supply)
        units == UnitsFreed(s, left, supply)
    IN  /\ st \in SideState /\ grown \in Nat /\ units \in Nat
        /\ Value(st.growth) = Value(side[s].growth) + grown
        /\ Allotted(st) = Allotted(side[s]) - left[s] + Scale * units + supply * grown
        /\ st.liability = side[s].liability /\ st.accrued = side[s].accrued
        /\ st.paid = side[s].paid
        /\ Scale * units \in Nat /\ Scale * units < 2 * Scale
        /\ supply * grown \in Nat /\ supply * grown < 2 * Scale
        /\ supply = 0 => grown = 0

LEMMA RedistributionAdds ==
  ASSUME side \in [Side -> SideState], NEW s \in Side,
         NEW left \in [Side -> 0 .. Scale - 1], NEW supply \in 0 .. Scale - 1
  PROVE  Redistribution(s, left, supply)
<1> DEFINE st == side[s]
           u == Unallocated(s, left)
           rest == st.globalRemainder
           mine == left[s]
<1>1. /\ st \in SideState /\ st.growth \in Growth /\ rest \in Nat /\ rest <= Scale - 1
      /\ st.liability \in Nat /\ Scale * st.liability \in Nat
      /\ mine \in Nat /\ mine <= Scale - 1 /\ Scale \in Nat \ {0} /\ supply \in Nat
      /\ supply <= Scale - 1
  BY SideTyped, Grows, LpFeeAssumption
<1>2. u = rest + mine /\ u \in Nat /\ u < 2 * Scale
  BY <1>1 DEF Unallocated
<1>3. Allotted(st) = Scale * st.liability - rest
  BY DEF Allotted
<1> DEFINE st2 == Redistributed(left, supply)[s]
<1>4. st2 = IF supply = 0 THEN [st EXCEPT !.globalRemainder = u % Scale]
            ELSE [st EXCEPT !.globalRemainder = u % supply, !.growth = Plus(@, u \div supply)]
  BY Zenon DEF Redistributed
<1> HIDE DEF st, u, rest, mine, st2
<1>5. CASE supply = 0
  <2>1. GrownBy(s, left, supply) = 0 /\ UnitsFreed(s, left, supply) = u \div Scale
    BY <1>5 DEF GrownBy, UnitsFreed, u
  <2> DEFINE q == u \div Scale
             r == u % Scale
  <2>2. q \in Nat /\ r \in 0 .. Scale - 1 /\ u = Scale * q + r
    BY <1>1, <1>2, Divided
  <2>3. st2 = [st EXCEPT !.globalRemainder = r]
    BY <1>4, <1>5
  <2> HIDE DEF q, r
  <2>4. /\ st2 \in SideState /\ st2.growth = st.growth /\ st2.globalRemainder = r
        /\ st2.liability = st.liability /\ st2.accrued = st.accrued /\ st2.paid = st.paid
    BY <1>1, <2>2, <2>3 DEF SideState
  <2>5. Scale * q \in Nat /\ Value(st.growth) \in Nat /\ supply * 0 = 0
    BY <1>1, <2>2, Grows, ValueTyped
  <2>6. Allotted(st2) = Scale * st.liability - r
    BY <2>4 DEF Allotted
  <2>7. Allotted(st2) = Allotted(st) - mine + Scale * q + supply * 0
    BY <1>1, <1>2, <1>3, <2>2, <2>5, <2>6
  <2>8. Scale * q < 2 * Scale /\ 0 < 2 * Scale
    BY <1>1, <1>2, <2>2, <2>5
  <2>9. Value(st2.growth) = Value(st.growth) + 0 /\ 0 \in Nat /\ supply * 0 \in Nat
        /\ supply * 0 < 2 * Scale
    <3>1. Value(st2.growth) = Value(st.growth) + 0
      BY <2>4, <2>5
    <3>2. 0 \in Nat
      OBVIOUS
    <3> QED
      BY <2>5, <2>8, <3>1, <3>2, Zenon
  <2> QED
    BY <2>1, <2>2, <2>4, <2>5, <2>7, <2>8, <2>9, Zenon
       DEF Redistribution, st, st2, mine, q
<1>6. CASE supply # 0
  <2>1. GrownBy(s, left, supply) = u \div supply /\ UnitsFreed(s, left, supply) = 0
    BY <1>6 DEF GrownBy, UnitsFreed, u
  <2> DEFINE q == u \div supply
             r == u % supply
  <2>2. q \in Nat /\ r \in 0 .. supply - 1 /\ u = supply * q + r
    BY <1>1, <1>2, <1>6, Divided
  <2>3. st2 = [st EXCEPT !.globalRemainder = r, !.growth = Plus(@, q)]
    BY <1>4, <1>6
  <2> HIDE DEF q, r
  <2>4. Plus(st.growth, q) \in Growth /\ Value(Plus(st.growth, q)) = Value(st.growth) + q
    BY <1>1, <2>2, PlusAdds
  <2>5. /\ st2 \in SideState /\ st2.growth = Plus(st.growth, q) /\ st2.globalRemainder = r
        /\ st2.liability = st.liability /\ st2.accrued = st.accrued /\ st2.paid = st.paid
    <3>1. r \in 0 .. Scale - 1
      BY <1>1, <2>2
    <3> QED
      BY <1>1, <2>3, <2>4, <3>1 DEF SideState
  <2>6. supply * q \in Nat /\ Scale * 0 = 0
    BY <1>1, <2>2, Grows
  <2>7. Allotted(st2) = Scale * st.liability - r
    BY <2>5 DEF Allotted
  <2>8. Allotted(st2) = Allotted(st) - mine + Scale * 0 + supply * q
    BY <1>1, <1>2, <1>3, <2>2, <2>6, <2>7
  <2>9. supply * q < 2 * Scale /\ 0 < 2 * Scale /\ 0 \in Nat
    BY <1>1, <1>2, <2>2, <2>6
  <2>10. Scale * 0 \in Nat /\ Scale * 0 < 2 * Scale
    BY <2>6, <2>9, Zenon
  <2> QED
    BY <1>6, <2>1, <2>2, <2>4, <2>5, <2>6, <2>8, <2>9, <2>10, Zenon
       DEF Redistribution, st, st2, mine, q
<1> QED
  BY <1>5, <1>6

(* The books after a redistribution of what a holder left.                 *)
LEMMA RedistributionPosts ==
  ASSUME LpInv, NEW s \in Side, NEW left \in [Side -> 0 .. Scale - 1],
         NEW supply \in 0 .. Scale - 1, total' = supply,
         side'[s] = Redistributed(left, supply)[s]
  PROVE  LET grown == GrownBy(s, left, supply)
             change == Scale * UnitsFreed(s, left, supply) - left[s]
         IN  /\ Posted(s, change, grown)
             /\ \A a : holder'[a].balance = 0 \/ (left[s] = 0 /\ supply # 0)
                          => Harmless(s, a, change, grown)
<1> DEFINE grown == GrownBy(s, left, supply)
           units == UnitsFreed(s, left, supply)
           mine == left[s]
           change == Scale * units - mine
<1>1. side \in [Side -> SideState] /\ side[s] \in SideState
  BY DEF LpInv, TypeOK
<1>2. Redistribution(s, left, supply)
  BY <1>1, RedistributionAdds
<1>3. /\ grown \in Nat /\ units \in Nat
      /\ Value(side'[s].growth) = Value(side[s].growth) + grown
      /\ Allotted(side'[s]) = Allotted(side[s]) - mine + Scale * units + supply * grown
      /\ side'[s].liability = side[s].liability /\ side'[s].accrued = side[s].accrued
      /\ side'[s].paid = side[s].paid
      /\ Scale * units \in Nat /\ Scale * units < 2 * Scale
      /\ supply * grown \in Nat /\ supply * grown < 2 * Scale
      /\ supply = 0 => grown = 0
  BY <1>2, Zenon DEF Redistribution
<1>4. mine \in Nat /\ mine <= Scale - 1 /\ Scale \in Nat /\ Allotted(side[s]) \in Int
  BY <1>1, SideTyped, LpFeeAssumption
<1>5. side[s].liability = side[s].accrued - side[s].paid
  BY DEF LpInv, SideBooks
<1>6. supply # 0 => Scale * units = 0
  <2>1. \A n \in Nat : n * 0 = 0
    BY SMT
  <2> QED
    BY <1>4, <2>1 DEF UnitsFreed
<1> HIDE DEF grown, units, mine
<1>7. Posted(s, change, grown)
  BY <1>3, <1>4, <1>5 DEF Posted
<1>8. ASSUME NEW a, holder'[a].balance = 0 \/ (mine = 0 /\ supply # 0)
      PROVE  Harmless(s, a, change, grown)
  <2>1. change >= IF holder'[a].balance = 0 THEN 1 - Scale ELSE 0
    BY <1>3, <1>4, <1>6, <1>8
  <2>2. total' * grown < 2 * Scale
    BY <1>3
  <2>3. change <= 0 \/ (grown = 0 /\ change < 2 * Scale)
    BY <1>3, <1>4, <1>6
  <2> QED
    BY <1>3, <2>1, <2>2, <2>3, Zenon DEF Harmless
<1> QED
  BY <1>7, <1>8 DEF grown, units, mine

(* Who gives shares away, settled: with shares left it is settled like     *)
(* everybody, without it leaves its fraction to the others.                *)
Given(a, n) == [Settled(holder[a]) EXCEPT !.balance = @ - n]

LEMMA GivenTyped ==
  ASSUME LpInv, NEW a \in Accounts, NEW n \in 1 .. Scale - 1, n <= holder[a].balance
  PROVE  /\ Given(a, n) \in HolderState /\ Given(a, n).balance = holder[a].balance - n
         /\ holder[a].balance \in Nat
         /\ Given(a, n).balance # 0 => AsSettled(Given(a, n), holder[a])
         /\ \A s \in Side : /\ Given(a, n).checkpoint[s] = side[s].growth
                            /\ Scale * Given(a, n).claimable[s] + Given(a, n).carry[s]
                                   = Worth(holder[a], s, side[s].growth)
<1> DEFINE t == Settled(holder[a])
           h == Given(a, n)
<1>1. /\ holder[a] \in HolderState /\ side \in [Side -> SideState]
      /\ \A r \in Side : Value(holder[a].checkpoint[r]) <= Value(side[r].growth)
  BY DEF LpInv, TypeOK, Sound
<1>2. /\ t \in HolderState /\ t.balance = holder[a].balance
      /\ \A s \in Side : /\ t.checkpoint[s] = side[s].growth
                         /\ Scale * t.claimable[s] + t.carry[s]
                                = Worth(holder[a], s, side[s].growth)
  BY <1>1, SettleHolder
<1>3. /\ t.balance - n \in 0 .. Scale - 1 /\ t.balance \in Nat
  <2>1. t.balance \in 0 .. Scale - 1 /\ Scale \in Nat
    BY <1>2, LpFeeAssumption DEF HolderState
  <2> QED
    BY <1>2, <2>1
<1>4. h = [t EXCEPT !.balance = t.balance - n]
  BY <1>2 DEF Given, HolderState
<1> HIDE DEF h
<1>5. /\ h \in HolderState /\ h.balance = t.balance - n
      /\ h.checkpoint = t.checkpoint /\ h.carry = t.carry /\ h.claimable = t.claimable
  <2> HIDE DEF t
  <2> QED
    BY <1>2, <1>3, <1>4 DEF HolderState
<1>6. h.balance # 0 => AsSettled(h, holder[a])
  BY <1>2, <1>5 DEF AsSettled, SettledAt
<1> QED
  BY <1>2, <1>3, <1>5, <1>6 DEF h

(* The last share leaves: every side.                                      *)
LEMMA EmptyHolder ==
  ASSUME LpInv, NEW a \in Accounts, NEW h \in HolderState, h.balance = 0,
         NEW supply \in 0 .. Scale - 1, NEW s \in Side,
         h.checkpoint[s] = side[s].growth,
         Scale * h.claimable[s] + h.carry[s] = Worth(holder[a], s, side[s].growth)
  PROVE  LET h2 == Emptied(h, supply)
             change == Scale * UnitsFreed(s, h.carry, supply) - h.carry[s]
         IN  /\ h2.balance = 0 /\ Sound(h2, s, side[s].growth)
             /\ Worth(h2, s, side[s].growth) = Worth(holder[a], s, side[s].growth) + change
             /\ h2 \in HolderState
<1> DEFINE u == [r \in Side |-> UnitsFreed(r, h.carry, supply)]
           cl == [r \in Side |-> h.claimable[r] + u[r]]
           h2 == Emptied(h, supply)
<1>1. side \in [Side -> SideState] /\ Scale \in Nat \ {0} /\ 0 \in 0 .. Scale - 1
  BY LpFeeAssumption DEF LpInv, TypeOK
<1>2. /\ h.carry \in [Side -> 0 .. Scale - 1] /\ h.claimable \in [Side -> Nat]
      /\ h.checkpoint \in [Side -> Growth]
  BY DEF HolderState
<1>3. \A r \in Side : u[r] \in Nat /\ u[r] = UnitsFreed(r, h.carry, supply)
  <2> SUFFICES ASSUME NEW r \in Side PROVE UnitsFreed(r, h.carry, supply) \in Nat
    OBVIOUS
  <2>1. Redistribution(r, h.carry, supply)
    BY <1>1, <1>2, RedistributionAdds
  <2> QED
    BY <2>1, Zenon DEF Redistribution
<1>4. h2 = [h EXCEPT !.carry = NothingLeft, !.claimable = cl]
  <2>1. cl = [r \in Side |-> h.claimable[r]
                 + IF supply = 0 THEN Unallocated(r, h.carry) \div Scale ELSE 0]
    BY Zenon DEF UnitsFreed
  <2>2. h.claimable = [r \in Side |-> h.claimable[r]]
    BY <1>2
  <2> QED
    BY <2>1 DEF Emptied, HolderState
<1> HIDE DEF u
<1>5. cl \in [Side -> Nat] /\ NothingLeft \in [Side -> 0 .. Scale - 1]
      /\ cl[s] = h.claimable[s] + u[s] /\ NothingLeft[s] = 0
  BY <1>1, <1>2, <1>3 DEF NothingLeft
<1> HIDE DEF cl, h2
<1>6. /\ h2 \in HolderState /\ h2.balance = 0 /\ h2.checkpoint = h.checkpoint
      /\ h2.carry = NothingLeft /\ h2.claimable = cl
  BY <1>4, <1>5 DEF HolderState
<1>7. side[s].growth \in Growth /\ Value(side[s].growth) \in Nat
  <2>1. side[s] \in SideState
    BY <1>1
  <2> QED
    BY <2>1, SideTyped, ValueTyped
<1>8. Sound(h2, s, side[s].growth)
  BY <1>5, <1>6, <1>7 DEF Sound
<1>9. Worth(h2, s, side[s].growth) = Scale * (h.claimable[s] + u[s]) + 0
  <2>1. h2.checkpoint[s] = side[s].growth
    BY <1>6
  <2> QED
    BY <1>5, <1>6, <1>7, <2>1, WorthSettled
<1>10. /\ Scale * (h.claimable[s] + u[s]) = Scale * h.claimable[s] + Scale * u[s]
       /\ Scale * h.claimable[s] \in Int /\ Scale * u[s] \in Int
       /\ h.carry[s] \in Nat
  <2>1. h.claimable[s] \in Nat /\ u[s] \in Nat /\ h.carry[s] \in Nat
    BY <1>2, <1>3
  <2> QED
    BY <1>1, <2>1, Distributes
<1>11. Worth(h2, s, side[s].growth)
           = Worth(holder[a], s, side[s].growth) + (Scale * u[s] - h.carry[s])
  BY <1>9, <1>10
<1> QED
  BY <1>3, <1>6, <1>8, <1>11 DEF h2

LEMMA Leaves ==
  ASSUME LpInv, NEW a \in Accounts, NEW n \in 1 .. Scale - 1, n <= holder[a].balance,
         NEW supply \in 0 .. Scale - 1, total' = supply,
         NEW others \in [Accounts -> HolderState],
         \A x \in Accounts :
             x # a => others[x] = holder[x] \/ AsSettled(others[x], holder[x]),
         Leave(a, Given(a, n), supply, others)
  PROVE  /\ holder' \in [Accounts -> HolderState] /\ side' \in [Side -> SideState]
         /\ \A x \in Accounts :
                holder'[x].balance = IF x = a THEN holder[a].balance - n
                                     ELSE others[x].balance
         /\ \A s \in Side : Effect(s)
<1> DEFINE h == Given(a, n)
<1>1. /\ h \in HolderState /\ h.balance = holder[a].balance - n
      /\ h.balance # 0 => AsSettled(h, holder[a])
      /\ \A s \in Side :
             /\ h.checkpoint[s] = side[s].growth
             /\ Scale * h.claimable[s] + h.carry[s] = Worth(holder[a], s, side[s].growth)
  BY GivenTyped
<1>2. side \in [Side -> SideState] /\ total' \in Nat
  BY LpFeeAssumption DEF LpInv, TypeOK
<1>3. Leave(a, h, supply, others)
  OBVIOUS
<1> HIDE DEF h
<1>4. CASE h.balance # 0
  <2>1. holder' = [others EXCEPT ![a] = h] /\ UNCHANGED side
    BY <1>3, <1>4 DEF Leave
  <2>2. \A x \in Accounts : holder'[x] = holder[x] \/ AsSettled(holder'[x], holder[x])
    BY <1>1, <1>4, <2>1
  <2>3. \A s \in Side : Effect(s)
    BY <1>2, <2>1, <2>2, HoldersSettled
  <2> QED
    BY <1>1, <1>2, <2>1, <2>3
<1>5. CASE h.balance = 0
  <2> DEFINE h2 == Emptied(h, supply)
  <2>1. holder' = [others EXCEPT ![a] = h2] /\ side' = Redistributed(h.carry, supply)
    BY <1>3, <1>5 DEF Leave
  <2> DEFINE change(s) == Scale * UnitsFreed(s, h.carry, supply) - h.carry[s]
             grown(s) == GrownBy(s, h.carry, supply)
  <2>2. h.carry \in [Side -> 0 .. Scale - 1]
    BY <1>1 DEF HolderState
  <2>3. ASSUME NEW s \in Side
        PROVE  /\ h2 \in HolderState /\ h2.balance = 0 /\ Sound(h2, s, side[s].growth)
               /\ Worth(h2, s, side[s].growth)
                      = Worth(holder[a], s, side[s].growth) + change(s)
    BY <1>1, <1>5, EmptyHolder
  <2>4. h2 \in HolderState /\ h2.balance = 0
    <3>1. CASE Side = {}
      <4>1. h2 = [h EXCEPT !.carry = NothingLeft,
                           !.claimable = [s \in Side |-> h.claimable[s]
                               + IF supply = 0 THEN Unallocated(s, h.carry) \div Scale ELSE 0]]
        BY <1>1 DEF Emptied, HolderState
      <4>2. /\ NothingLeft \in [Side -> 0 .. Scale - 1]
            /\ [s \in Side |-> h.claimable[s]
                    + IF supply = 0 THEN Unallocated(s, h.carry) \div Scale ELSE 0]
                   \in [Side -> Nat]
        BY <3>1 DEF NothingLeft
      <4> QED
        BY <1>1, <1>5, <4>1, <4>2 DEF HolderState
    <3>2. CASE Side # {}
      BY <2>3, <3>2
    <3> QED
      BY <3>1, <3>2
  <2> HIDE DEF h2
  <2>5. /\ holder' \in [Accounts -> HolderState] /\ holder'[a] = h2
        /\ \A x \in Accounts : x # a => holder'[x] = others[x]
    BY <2>1, <2>4
  <2>6. side' \in [Side -> SideState]
    <3>1. ASSUME NEW s \in Side PROVE side'[s] \in SideState
      <4>1. Redistribution(s, h.carry, supply)
        BY <1>2, <2>2, RedistributionAdds
      <4> QED
        BY <2>1, <4>1, Zenon DEF Redistribution
    <3>2. side' = [s \in Side |-> side'[s]]
      BY <2>1 DEF Redistributed
    <3> QED
      BY <3>1, <3>2
  <2>7. ASSUME NEW s \in Side PROVE Effect(s)
    <3>1. Restated(s, a, change(s))
      <4> SUFFICES ASSUME NEW x \in Accounts
                   PROVE  /\ Sound(holder'[x], s, side[s].growth)
                          /\ Worth(holder'[x], s, side[s].growth)
                                 = Worth(holder[x], s, side[s].growth)
                                       + (IF x = a THEN change(s) ELSE 0)
        BY DEF Restated
      <4>1. CASE x = a
        BY <2>3, <2>5, <4>1
      <4>2. CASE x # a
        <5>1. holder'[x] = holder[x] \/ AsSettled(holder'[x], holder[x])
          BY <2>5, <4>2
        <5>2. Worth(holder[x], s, side[s].growth) \in Nat
          BY WorthsTyped
        <5>3. /\ Sound(holder'[x], s, side[s].growth)
              /\ Worth(holder'[x], s, side[s].growth) = Worth(holder[x], s, side[s].growth)
          <6>1. CASE holder'[x] = holder[x]
            BY <6>1 DEF LpInv
          <6>2. CASE AsSettled(holder'[x], holder[x])
            BY <6>2, SettledKeeps DEF AsSettled
          <6> QED
            BY <5>1, <6>1, <6>2
        <5> QED
          BY <4>2, <5>2, <5>3
      <4> QED
        BY <4>1, <4>2
    <3>2. /\ Posted(s, change(s), grown(s))
          /\ \A z : holder'[z].balance = 0 \/ (h.carry[s] = 0 /\ supply # 0)
                       => Harmless(s, z, change(s), grown(s))
      <4>1. side'[s] = Redistributed(h.carry, supply)[s]
        BY <2>1
      <4> QED
        BY <2>2, <4>1, RedistributionPosts
    <3>3. Harmless(s, a, change(s), grown(s))
      BY <2>4, <2>5, <3>2
    <3> HIDE DEF change, grown
    <3> QED
      BY <3>1, <3>2, <3>3, Zenon DEF Effect
  <2> QED
    BY <1>1, <1>5, <2>4, <2>5, <2>6, <2>7
<1> QED
  BY <1>4, <1>5

-----------------------------------------------------------------------------
(* The operations. *)

LEMMA BalancesTyped ==
  LpInv => /\ Balances \in [Accounts -> Nat] /\ AddsUpTo(Balances, Accounts, total)
           /\ \A x \in Accounts : Balances[x] = holder[x].balance /\ Balances[x] <= total
           /\ total \in Nat /\ total <= Scale - 1 /\ Scale \in Nat /\ 1 < Scale
<1> SUFFICES ASSUME LpInv
             PROVE  /\ Balances \in [Accounts -> Nat] /\ AddsUpTo(Balances, Accounts, total)
                    /\ \A x \in Accounts : Balances[x] = holder[x].balance /\ Balances[x] <= total
                    /\ total \in Nat /\ total <= Scale - 1 /\ Scale \in Nat /\ 1 < Scale
  OBVIOUS
<1>1. total \in Nat /\ total <= Scale - 1 /\ Scale \in Nat /\ 1 < Scale
  BY LpFeeAssumption DEF LpInv, TypeOK
<1>2. \A x \in Accounts : Balances[x] = holder[x].balance
  BY DEF Balances
<1>3. \A x \in Accounts : holder[x].balance \in Nat
  BY DEF LpInv, TypeOK, HolderState
<1>4. Balances \in [Accounts -> Nat] /\ AddsUpTo(Balances, Accounts, total)
  BY <1>3 DEF Balances, LpInv
<1>5. \A x \in Accounts : Balances[x] <= total
  <2> DEFINE b == Balances
  <2> HIDE DEF b
  <2>1. b \in [Accounts -> Nat] /\ AddsUpTo(b, Accounts, total)
    BY <1>4 DEF b
  <2>2. \A x \in Accounts : b[x] <= total
    BY <1>1, <2>1, PartOfTotal
  <2> QED
    BY <2>2 DEF b
<1> QED
  BY <1>1, <1>2, <1>4, <1>5

LEMMA AmountTyped == ASSUME NEW n \in Amounts PROVE n \in 1 .. Scale - 1 /\ n \in Nat /\ n >= 1
BY LpFeeAssumption

LEMMA MintStep ==
  ASSUME LpInv, NEW a \in Accounts, NEW n \in Amounts, Mint(a, n)
  PROVE  StepEffect
<1> DEFINE t == Taken(a, n)
           b == Balances
<1>1. /\ b \in [Accounts -> Nat] /\ AddsUpTo(b, Accounts, total)
      /\ b[a] = holder[a].balance /\ b[a] <= total /\ b[a] \in Nat
      /\ total \in Nat /\ Scale \in Nat /\ total + n < Scale /\ n \in 1 .. Scale - 1
      /\ n \in Nat
  <2>1. b \in [Accounts -> Nat] /\ b[a] = holder[a].balance /\ b[a] <= total
        /\ AddsUpTo(b, Accounts, total) /\ total \in Nat /\ Scale \in Nat
    BY BalancesTyped
  <2>2. b[a] \in Nat
    BY <2>1
  <2> QED
    BY <2>1, <2>2, AmountTyped DEF Mint
<1>2. AsSettled(t, holder[a]) /\ t.balance = holder[a].balance + n /\ t \in HolderState
  <2>1. holder[a].balance + n < Scale
    BY <1>1
  <2> QED
    BY <1>1, <2>1, TakenTyped DEF AsSettled
<1>3. /\ total' = total + n /\ total' \in 0 .. Scale - 1
      /\ holder' = [holder EXCEPT ![a] = t]
      /\ holder \in [Accounts -> HolderState] /\ side \in [Side -> SideState]
      /\ UNCHANGED <<allowance, locks>>
  <2>1. /\ total' = total + n /\ holder' = [holder EXCEPT ![a] = t]
        /\ holder \in [Accounts -> HolderState] /\ side \in [Side -> SideState]
        /\ UNCHANGED <<allowance, locks>>
    BY Zenon DEF Mint, Taken, LpInv, TypeOK
  <2> QED
    BY <1>1, <2>1
<1> HIDE DEF t
<1>4. /\ holder' \in [Accounts -> HolderState]
      /\ \A x \in Accounts : holder'[x] = holder[x] \/ AsSettled(holder'[x], holder[x])
      /\ \A x \in Accounts : holder'[x] = IF x = a THEN t ELSE holder[x]
  BY <1>2, <1>3
<1>5. AddsUpTo(Balances, Accounts, total)'
  <2>1. Balances' = [b EXCEPT ![a] = @ + n]
    BY <1>1, <1>2, <1>4 DEF Balances
  <2> HIDE DEF b
  <2>2. AddsUpTo([b EXCEPT ![a] = @ + n], Accounts, total + n)
    BY <1>1, RaiseTotal
  <2> QED
    BY <1>3, <2>1, <2>2
<1>6. CASE total # 0
  <2>1. UNCHANGED side
    BY <1>6 DEF Mint
  <2>2. \A s \in Side : Effect(s)
    <3>1. total' \in Nat
      BY <1>3
    <3> QED
      BY <1>4, <2>1, <3>1, HoldersSettled
  <2>3. TypeOK'
    BY <1>3, <1>4, <2>1 DEF TypeOK, LpInv
  <2> QED
    BY <1>5, <2>2, <2>3 DEF StepEffect
<1>7. CASE total = 0
  <2>1. side' = Redistributed(NothingLeft, n) /\ total' = n
    BY <1>1, <1>3, <1>7 DEF Mint
  <2>2. NothingLeft \in [Side -> 0 .. Scale - 1] /\ n \in 0 .. Scale - 1 /\ n # 0
    BY <1>1 DEF NothingLeft
  <2>3. side' \in [Side -> SideState]
    <3>1. ASSUME NEW s \in Side PROVE side'[s] \in SideState
      <4>1. Redistribution(s, NothingLeft, n)
        BY <1>3, <2>2, RedistributionAdds
      <4> QED
        BY <2>1, <4>1, Zenon DEF Redistribution
    <3>2. side' = [s \in Side |-> side'[s]]
      BY <2>1 DEF Redistributed
    <3> QED
      BY <3>1, <3>2
  <2>4. ASSUME NEW s \in Side PROVE Effect(s)
    <3> DEFINE grown == GrownBy(s, NothingLeft, n)
               change == Scale * UnitsFreed(s, NothingLeft, n) - NothingLeft[s]
    <3>1. /\ Posted(s, change, grown)
          /\ \A z : holder'[z].balance = 0 \/ (NothingLeft[s] = 0 /\ n # 0)
                       => Harmless(s, z, change, grown)
      <4>1. side'[s] = Redistributed(NothingLeft, n)[s]
        BY <2>1
      <4> QED
        BY <2>1, <2>2, <4>1, RedistributionPosts
    <3>2. change = 0 /\ NothingLeft[s] = 0
      BY <1>1, <2>2 DEF UnitsFreed, NothingLeft
    <3>3. Restated(s, a, 0)
      BY <1>4, SettlementsRestate
    <3> HIDE DEF change, grown
    <3>4. Harmless(s, a, change, grown)
      BY <2>2, <3>1, <3>2
    <3> QED
      BY <3>1, <3>2, <3>3, <3>4, Zenon DEF Effect
  <2>5. TypeOK'
    BY <1>3, <1>4, <2>3 DEF TypeOK, LpInv
  <2> QED
    BY <1>5, <2>4, <2>5 DEF StepEffect
<1> QED
  BY <1>6, <1>7

LEMMA BurnStep ==
  ASSUME LpInv, NEW a \in Accounts, NEW n \in Amounts, Burn(a, n)
  PROVE  StepEffect
<1> DEFINE b == Balances
<1>1. /\ b \in [Accounts -> Nat] /\ AddsUpTo(b, Accounts, total)
      /\ b[a] = holder[a].balance /\ n \in 0 .. b[a] /\ n <= holder[a].balance
      /\ total \in Nat /\ total <= Scale - 1 /\ Scale \in Nat /\ n \in 1 .. Scale - 1
  <2>1. /\ b \in [Accounts -> Nat] /\ b[a] = holder[a].balance
        /\ AddsUpTo(b, Accounts, total) /\ total \in Nat /\ total <= Scale - 1
        /\ Scale \in Nat /\ n <= holder[a].balance
    BY BalancesTyped DEF Burn, MaySpend
  <2>2. b[a] \in Nat
    BY <2>1
  <2> QED
    BY <2>1, <2>2, AmountTyped
<1>2. /\ holder \in [Accounts -> HolderState] /\ total' = total - n
      /\ Leave(a, Given(a, n), total - n, holder) /\ UNCHANGED <<allowance, locks>>
  BY Zenon DEF Burn, Given, LpInv, TypeOK
<1> HIDE DEF b
<1>3. total - n \in Nat /\ AddsUpTo([b EXCEPT ![a] = @ - n], Accounts, total - n)
  BY <1>1, LowerTotal
<1>4. total - n \in 0 .. Scale - 1
  BY <1>1, <1>3
<1>5. /\ holder' \in [Accounts -> HolderState] /\ side' \in [Side -> SideState]
      /\ \A x \in Accounts :
             holder'[x].balance = IF x = a THEN holder[a].balance - n ELSE holder[x].balance
      /\ \A s \in Side : Effect(s)
  BY <1>1, <1>2, <1>4, Leaves
<1>6. Balances' = [b EXCEPT ![a] = @ - n]
  BY <1>5 DEF Balances, b
<1>7. TypeOK'
  BY <1>2, <1>4, <1>5 DEF TypeOK, LpInv
<1> QED
  BY <1>2, <1>3, <1>5, <1>6, <1>7 DEF StepEffect

LEMMA MoveStep ==
  ASSUME LpInv, NEW a \in Accounts, NEW c \in Accounts, NEW n \in Amounts, Move(a, c, n),
         UNCHANGED <<total, locks>>, allowance' \in [Accounts -> [Spenders -> Nat]]
  PROVE  StepEffect
<1> DEFINE b == Balances
           others == [holder EXCEPT ![c] = Taken(c, n)]
           less == [b EXCEPT ![a] = @ - n]
           moved == [less EXCEPT ![c] = @ + n]
<1>1. /\ b \in [Accounts -> Nat] /\ AddsUpTo(b, Accounts, total)
      /\ \A x \in Accounts : b[x] = holder[x].balance
      /\ n \in 0 .. b[a] /\ n <= holder[a].balance
      /\ total \in Nat /\ total <= Scale - 1 /\ Scale \in Nat /\ n \in 1 .. Scale - 1
      /\ n \in Nat /\ a # c
  <2>1. /\ b \in [Accounts -> Nat] /\ \A x \in Accounts : b[x] = holder[x].balance
        /\ AddsUpTo(b, Accounts, total) /\ total \in Nat /\ total <= Scale - 1
        /\ Scale \in Nat /\ n <= holder[a].balance /\ a # c
    BY BalancesTyped DEF Move, MaySpend
  <2>2. b[a] \in Nat
    BY <2>1
  <2> QED
    BY <2>1, <2>2, AmountTyped
<1>2. /\ holder \in [Accounts -> HolderState] /\ total' = total
      /\ Leave(a, Given(a, n), total, others)
  BY Zenon DEF Move, Given, Taken, LpInv, TypeOK
<1> HIDE DEF b
<1>3. total - n \in Nat /\ AddsUpTo(less, Accounts, total - n) /\ less \in [Accounts -> Nat]
  <2>1. less \in [Accounts -> Nat]
    BY <1>1
  <2> QED
    BY <1>1, <2>1, LowerTotal
<1>4. moved \in [Accounts -> Nat] /\ AddsUpTo(moved, Accounts, total)
  <2> HIDE DEF less
  <2>1. AddsUpTo(moved, Accounts, (total - n) + n)
    BY <1>1, <1>3, RaiseTotal
  <2>2. (total - n) + n = total
    BY <1>1
  <2>3. moved \in [Accounts -> Nat]
    BY <1>1, <1>3
  <2> QED
    BY <2>1, <2>2, <2>3
<1>5. \A x \in Accounts : moved[x] = IF x = a THEN b[a] - n
                                     ELSE IF x = c THEN b[c] + n ELSE b[x]
  BY <1>1
<1>6. holder[c].balance + n < Scale
  <2> HIDE DEF moved
  <2>1. moved[c] <= total
    BY <1>1, <1>4, PartOfTotal
  <2> QED
    BY <1>1, <1>5, <2>1
<1>7. AsSettled(Taken(c, n), holder[c]) /\ Taken(c, n).balance = holder[c].balance + n
  BY <1>1, <1>6, TakenTyped
<1>8. /\ others \in [Accounts -> HolderState]
      /\ \A x \in Accounts : x # a => others[x] = holder[x] \/ AsSettled(others[x], holder[x])
      /\ \A x \in Accounts : others[x].balance = IF x = c THEN holder[c].balance + n
                                                 ELSE holder[x].balance
  BY <1>2, <1>7 DEF AsSettled
<1> HIDE DEF others
<1>9. /\ holder' \in [Accounts -> HolderState] /\ side' \in [Side -> SideState]
      /\ \A x \in Accounts :
             holder'[x].balance = IF x = a THEN holder[a].balance - n ELSE others[x].balance
      /\ \A s \in Side : Effect(s)
  <2>1. total \in 0 .. Scale - 1
    BY <1>1
  <2> QED
    BY <1>1, <1>2, <1>8, <2>1, Leaves
<1>10. Balances' = moved
  <2>1. \A x \in Accounts : Balances'[x] = moved[x]
    BY <1>1, <1>5, <1>8, <1>9 DEF Balances
  <2>2. Balances' = [x \in Accounts |-> Balances'[x]] /\ moved = [x \in Accounts |-> moved[x]]
    BY <1>4 DEF Balances
  <2> HIDE DEF moved
  <2> QED
    BY <2>1, <2>2
<1>11. TypeOK'
  BY <1>2, <1>9 DEF TypeOK, LpInv
<1> QED
  BY <1>2, <1>4, <1>9, <1>10, <1>11 DEF StepEffect

(* Approvals and unlocks touch neither holders nor sides.                  *)
LEMMA UntouchedStep ==
  ASSUME LpInv, UNCHANGED <<holder, side, total>>,
         allowance' \in [Accounts -> [Spenders -> Nat]], locks' \in [LockIds -> LockRecord]
  PROVE  StepEffect
<1>1. total' \in Nat
  BY LpFeeAssumption DEF LpInv, TypeOK
<1>2. \A s \in Side : Effect(s)
  BY <1>1, HoldersSettled
<1>3. Balances' = Balances
  BY DEF Balances
<1> QED
  BY <1>2, <1>3 DEF StepEffect, TypeOK, LpInv

(* Locks and looks settle one holder.                                      *)
LEMMA SettleStep ==
  ASSUME LpInv, NEW a \in Accounts, holder' = [holder EXCEPT ![a] = Settled(@)],
         UNCHANGED <<side, total, allowance>>, locks' \in [LockIds -> LockRecord]
  PROVE  StepEffect
<1> DEFINE t == Settled(holder[a])
<1>1. AsSettled(t, holder[a]) /\ t.balance = holder[a].balance /\ t \in HolderState
  BY OnlySettled DEF AsSettled
<1>2. holder \in [Accounts -> HolderState] /\ holder' = [holder EXCEPT ![a] = t]
  BY DEF LpInv, TypeOK
<1> HIDE DEF t
<1>3. /\ holder' \in [Accounts -> HolderState]
      /\ \A x \in Accounts : holder'[x] = holder[x] \/ AsSettled(holder'[x], holder[x])
      /\ \A x \in Accounts : holder'[x].balance = holder[x].balance
  BY <1>1, <1>2
<1>4. total' \in Nat
  BY LpFeeAssumption DEF LpInv, TypeOK
<1>5. \A s \in Side : Effect(s)
  BY <1>3, <1>4, HoldersSettled
<1>6. Balances' = Balances
  BY <1>3 DEF Balances
<1> QED
  BY <1>3, <1>5, <1>6 DEF StepEffect, TypeOK, LpInv

(* advanceFeeGrowth divides the fee among the shares to the last fraction. *)
LEMMA AdvanceAdds ==
  ASSUME NEW st \in SideState, NEW fee \in Fees, total \in 1 .. Scale - 1,
         st.accrued + fee <= MaxWord
  PROVE  LET grown == Scale * (fee \div total) + (FeeNumerator(st, fee) \div total)
         IN  /\ Advance(st, fee) \in SideState /\ grown \in Nat
             /\ Value(Advance(st, fee).growth) = Value(st.growth) + grown
             /\ Allotted(Advance(st, fee)) = Allotted(st) + total * grown
             /\ Advance(st, fee).liability = st.liability + fee
             /\ Advance(st, fee).accrued = st.accrued + fee
             /\ Advance(st, fee).paid = st.paid
<1> DEFINE q1 == fee \div total
           r1 == fee % total
           n == FeeNumerator(st, fee)
           q2 == n \div total
           r2 == n % total
           rest == st.globalRemainder
           g1 == [st.growth EXCEPT !.whole = @ + q1]
           st2 == Advance(st, fee)
<1>1. /\ Scale \in Nat \ {0} /\ total \in Nat \ {0} /\ total <= Scale - 1 /\ fee \in Nat
      /\ st.growth \in Growth /\ rest \in Nat /\ st.accrued \in Nat /\ st.paid \in Nat
      /\ st.liability \in Nat
  BY LpFeeAssumption, SideTyped
<1>2. q1 \in Nat /\ r1 \in 0 .. total - 1 /\ fee = total * q1 + r1
  BY <1>1, Divided
<1>3. n = r1 * Scale + rest
  BY DEF FeeNumerator
<1> HIDE DEF q1, r1, n
<1>4. n \in Nat /\ r1 * Scale = Scale * r1 /\ Scale * r1 \in Nat
  <2>1. r1 \in Nat /\ r1 * Scale = Scale * r1
    BY <1>1, <1>2
  <2>2. Scale * r1 \in Nat
    BY <1>1, <2>1, Grows
  <2> QED
    BY <1>1, <1>3, <2>1, <2>2
<1>5. q2 \in Nat /\ r2 \in 0 .. total - 1 /\ n = total * q2 + r2
  BY <1>1, <1>4, Divided
<1>6. st2 = [st EXCEPT !.growth = Plus(g1, q2), !.globalRemainder = r2,
                       !.accrued = st.accrued + fee, !.liability = st.liability + fee]
  <2>1. st2 = [st EXCEPT !.growth = Plus([st.growth EXCEPT !.whole = @ + fee \div total],
                                         FeeNumerator(st, fee) \div total),
                         !.globalRemainder = FeeNumerator(st, fee) % total,
                         !.accrued = st.accrued + fee, !.liability = st.liability + fee]
    BY DEF Advance, SideState
  <2> QED
    BY <2>1, Zenon DEF q1, q2, r2, n
<1> HIDE DEF q2, r2, rest, st2
<1>7. g1 \in Growth /\ Value(g1) = Value(st.growth) + Scale * q1 /\ Scale * q1 \in Nat
  <2>1. st.growth.whole \in Nat /\ st.growth.fraction \in 0 .. Scale - 1
    BY <1>1 DEF Growth
  <2>2. /\ g1.whole = st.growth.whole + q1 /\ g1.fraction = st.growth.fraction
        /\ g1 \in Growth
    BY <1>1, <1>2, <2>1 DEF Growth
  <2>3. /\ Scale * (st.growth.whole + q1) = Scale * st.growth.whole + Scale * q1
        /\ Scale * st.growth.whole \in Int
    BY <1>1, <1>2, <2>1, Distributes
  <2>4. Scale * q1 \in Nat
    BY <1>1, <1>2, Grows
  <2> HIDE DEF g1
  <2> QED
    BY <2>1, <2>2, <2>3, <2>4 DEF Value
<1> HIDE DEF g1
<1>8. Plus(g1, q2) \in Growth /\ Value(Plus(g1, q2)) = Value(g1) + q2
  BY <1>5, <1>7, PlusAdds
<1>9. /\ st2 \in SideState /\ st2.growth = Plus(g1, q2) /\ st2.globalRemainder = r2
      /\ st2.accrued = st.accrued + fee /\ st2.liability = st.liability + fee
      /\ st2.paid = st.paid
  <2>1. /\ r2 \in 0 .. Scale - 1 /\ st.accrued + fee \in 0 .. MaxWord
        /\ st.liability + fee \in Nat
    BY <1>1, <1>5, LpFeeAssumption
  <2> QED
    BY <1>6, <1>8, <2>1 DEF SideState
<1>10. Value(st2.growth) = Value(st.growth) + (Scale * q1 + q2) /\ Scale * q1 + q2 \in Nat
  <2>1. Value(st.growth) \in Nat
    BY <1>1, ValueTyped
  <2> QED
    BY <1>5, <1>7, <1>8, <1>9, <2>1
<1>11. Allotted(st2) = Allotted(st) + total * (Scale * q1 + q2)
  <2>1. /\ Scale * (st.liability + fee) = Scale * st.liability + Scale * fee
        /\ Scale * st.liability \in Int /\ Scale * fee \in Int
    BY <1>1, Distributes
  <2>2. /\ Scale * fee = Scale * (total * q1) + Scale * r1
        /\ Scale * (total * q1) = total * (Scale * q1)
    <3>1. total * q1 \in Int /\ r1 \in Int
      BY <1>1, <1>2, Distributes
    <3>2. Scale * (total * q1 + r1) = Scale * (total * q1) + Scale * r1
      BY <1>1, <3>1, Distributes
    <3>3. Scale * (total * q1) = total * (Scale * q1)
      BY <1>1, <1>2, SMT
    <3> QED
      BY <1>2, <3>2, <3>3
  <2>3. /\ total * (Scale * q1 + q2) = total * (Scale * q1) + total * q2
        /\ total * (Scale * q1) \in Int /\ total * q2 \in Int
    BY <1>1, <1>5, <1>7, Distributes
  <2>4. Allotted(st) = Scale * st.liability - rest
        /\ Allotted(st2) = Scale * (st.liability + fee) - r2
    BY <1>9 DEF Allotted, rest
  <2> QED
    BY <1>1, <1>3, <1>4, <1>5, <2>1, <2>2, <2>3, <2>4
<1> QED
  BY <1>9, <1>10, <1>11 DEF st2, q1, q2, n

LEMMA FeeStep ==
  ASSUME LpInv, NEW s \in Side, NEW fee \in Fees, RecordSwapFees(s, fee)
  PROVE  StepEffect
<1> DEFINE st == side[s]
           grown == Scale * (fee \div total) + (FeeNumerator(st, fee) \div total)
<1>1. /\ side \in [Side -> SideState] /\ st \in SideState /\ fee \in Nat /\ fee >= 1
      /\ Scale \in Nat
  BY LpFeeAssumption DEF LpInv, TypeOK
<1>2. /\ side' = [side EXCEPT ![s] = Advance(st, fee)] /\ total # 0
      /\ Advance(st, fee).accrued <= MaxWord
      /\ UNCHANGED <<holder, total, allowance, locks>>
  BY DEF RecordSwapFees, CanAdvance
<1>3. total \in 1 .. Scale - 1 /\ total' = total /\ total' \in Nat
  BY <1>2, LpFeeAssumption DEF LpInv, TypeOK
<1>4. st.accrued + fee <= MaxWord
  BY <1>1, <1>2 DEF Advance, SideState
<1>5. /\ Advance(st, fee) \in SideState /\ grown \in Nat
      /\ Value(Advance(st, fee).growth) = Value(st.growth) + grown
      /\ Allotted(Advance(st, fee)) = Allotted(st) + total * grown
      /\ Advance(st, fee).liability = st.liability + fee
      /\ Advance(st, fee).accrued = st.accrued + fee
      /\ Advance(st, fee).paid = st.paid
  BY <1>1, <1>3, <1>4, AdvanceAdds
<1> HIDE DEF grown, st
<1>6. /\ side' \in [Side -> SideState] /\ side'[s] = Advance(st, fee)
      /\ \A r \in Side : r # s => side'[r] = side[r]
  BY <1>1, <1>2, <1>5
<1>7. ASSUME NEW r \in Side PROVE Effect(r)
  <2> DEFINE none == CHOOSE z : z \notin Accounts
  <2>1. Restated(r, none, 0)
    BY <1>2, SettlementsRestate
  <2>2. CASE r # s
    <3>1. Posted(r, 0, 0) /\ Harmless(r, none, 0, 0)
      BY <1>3, <1>6, <2>2, SameSide
    <3> QED
      BY <2>1, <3>1, Zenon DEF Effect
  <2>3. CASE r = s
    <3>1. /\ st.liability = st.accrued - st.paid /\ st.accrued \in Nat /\ st.paid \in Nat
          /\ Allotted(st) \in Int /\ total * grown \in Nat
      <4>1. total * grown \in Nat
        BY <1>3, <1>5, Grows
      <4> QED
        BY <1>1, <4>1, SideTyped DEF LpInv, SideBooks, st
    <3>2. Posted(s, 0, grown)
      BY <1>1, <1>3, <1>5, <1>6, <3>1 DEF Posted, st
    <3>3. side'[s].accrued # side[s].accrued /\ 0 >= IF holder'[none].balance = 0
                                                    THEN 1 - Scale ELSE 0
      BY <1>1, <1>5, <1>6, <3>1, LpFeeAssumption DEF st
    <3>a. side'[s].paid = side[s].paid
      BY <1>6 DEF Advance, st
    <3>4. Harmless(s, none, 0, grown)
      BY <3>3, <3>a, Zenon DEF Harmless
    <3> QED
      BY <2>1, <2>3, <3>2, <3>4, Zenon DEF Effect
  <2> QED
    BY <2>2, <2>3
<1>8. Balances' = Balances
  BY <1>2 DEF Balances
<1> QED
  BY <1>2, <1>6, <1>7, <1>8 DEF StepEffect, TypeOK, LpInv

(* A claim takes from the liability what it takes from the holder.         *)
LEMMA ClaimStep ==
  ASSUME LpInv, NEW a \in Accounts, NEW s \in Side, ConsumeClaim(a, s)
  PROVE  StepEffect
<1> DEFINE t == Settled(holder[a])
           amount == t.claimable[s]
           h2 == [t EXCEPT !.claimable[s] = 0]
           st == side[s]
           st2 == [st EXCEPT !.liability = @ - amount, !.paid = @ + amount]
<1>1. /\ side \in [Side -> SideState] /\ holder \in [Accounts -> HolderState]
      /\ st \in SideState /\ Scale \in Nat \ {0} /\ total \in Nat
      /\ side[s].liability = side[s].accrued - side[s].paid
  BY LpFeeAssumption DEF LpInv, TypeOK, SideBooks
<1>2. AsSettled(t, holder[a]) /\ t.balance = holder[a].balance /\ t \in HolderState
  BY OnlySettled DEF AsSettled
<1>3. /\ amount <= st.liability /\ holder' = [holder EXCEPT ![a] = h2]
      /\ UNCHANGED <<total, allowance, locks>>
      /\ side' = [side EXCEPT ![s].liability = @ - amount, ![s].paid = @ + amount]
  BY DEF ConsumeClaim
<1>4. /\ amount \in Nat /\ t.carry[s] \in Nat /\ st.liability \in Nat /\ st.paid \in Nat
      /\ st.accrued \in Nat /\ st.globalRemainder \in Nat /\ st.growth \in Growth
      /\ t.claimable \in [Side -> Nat]
  BY <1>1, <1>2, HolderTyped, SideTyped
<1>5. /\ side' = [side EXCEPT ![s] = st2]
      /\ st2 \in SideState /\ st2.growth = st.growth
      /\ st2.globalRemainder = st.globalRemainder /\ st2.liability = st.liability - amount
      /\ st2.paid = st.paid + amount /\ st2.accrued = st.accrued
  <2> HIDE DEF amount
  <2>1. side' = [side EXCEPT ![s] = st2]
    BY <1>1, <1>3 DEF SideState
  <2>2. st.liability - amount \in Nat /\ st.paid + amount \in Nat
    BY <1>3, <1>4
  <2> QED
    BY <1>1, <2>1, <2>2 DEF SideState
<1>6. /\ h2 \in HolderState /\ h2.balance = t.balance /\ h2.carry = t.carry
      /\ h2.checkpoint = t.checkpoint /\ h2.claimable = [t.claimable EXCEPT ![s] = 0]
  <2> HIDE DEF t
  <2>1. [t.claimable EXCEPT ![s] = 0] \in [Side -> Nat]
    BY <1>4
  <2> QED
    BY <1>2, <2>1 DEF HolderState
<1> HIDE DEF h2, st2
<1>7. /\ side' \in [Side -> SideState] /\ side'[s] = st2
      /\ \A r \in Side : r # s => side'[r] = side[r]
      /\ holder' \in [Accounts -> HolderState] /\ holder'[a] = h2
      /\ \A x \in Accounts : x # a => holder'[x] = holder[x]
      /\ \A x \in Accounts : holder'[x].balance = holder[x].balance
  BY <1>1, <1>2, <1>3, <1>5, <1>6
<1>8. ASSUME NEW r \in Side, NEW x \in Accounts, x # a \/ r # s
      PROVE  /\ Sound(holder'[x], r, side[r].growth)
             /\ Worth(holder'[x], r, side[r].growth) = Worth(holder[x], r, side[r].growth)
  <2>1. CASE x # a
    BY <1>7, <2>1 DEF LpInv
  <2>2. CASE x = a /\ r # s
    <3>1. SettledAt(h2, holder[x], r)
      BY <1>2, <1>4, <1>6, <2>2 DEF SettledAt, AsSettled
    <3> QED
      BY <1>6, <1>7, <2>2, <3>1, SettledKeeps
  <2> QED
    BY <1>8, <2>1, <2>2
<1>9. /\ Sound(h2, s, st.growth)
      /\ Worth(h2, s, st.growth) = Worth(holder[a], s, st.growth) - Scale * amount
      /\ Scale * amount \in Nat
  <2>1. /\ Sound(t, s, st.growth) /\ Worth(t, s, st.growth) = Worth(holder[a], s, st.growth)
    BY <1>2, SettledKeeps DEF AsSettled
  <2>2. t.checkpoint[s] = st.growth /\ h2.checkpoint[s] = st.growth
    BY <1>2, <1>6 DEF AsSettled, SettledAt
  <2>3. Worth(t, s, st.growth) = Scale * amount + t.carry[s]
    BY <1>2, <1>4, <2>2, WorthSettled
  <2>4. Worth(h2, s, st.growth) = Scale * 0 + t.carry[s]
    <3>1. h2.claimable[s] = 0 /\ h2.carry[s] = t.carry[s]
      BY <1>4, <1>6
    <3> QED
      BY <1>4, <1>6, <2>2, <3>1, WorthSettled
  <2>5. Scale * 0 = 0 /\ Scale * amount \in Nat
    BY <1>1, <1>4, Grows
  <2>6. Sound(h2, s, st.growth)
    BY <1>6, <2>1 DEF Sound
  <2> HIDE DEF amount, t, st
  <2> QED
    BY <1>4, <2>1, <2>3, <2>4, <2>5, <2>6
<1> HIDE DEF amount, t
<1>10. ASSUME NEW r \in Side, r # s PROVE Effect(r)
  <2> DEFINE none == CHOOSE z : z \notin Accounts
  <2>1. Restated(r, none, 0)
    <3>1. \A x \in Accounts : Worth(holder[x], r, side[r].growth) \in Nat
      BY WorthsTyped
    <3> QED
      BY <1>8, <1>10, <3>1 DEF Restated
  <2>2. Posted(r, 0, 0) /\ Harmless(r, none, 0, 0)
    <3>1. side'[r] = side[r] /\ total' \in Nat
      BY <1>1, <1>3, <1>7, <1>10
    <3> QED
      BY <3>1, SameSide
  <2> QED
    BY <2>1, <2>2, Zenon DEF Effect
<1>11. Effect(s)
  <2> DEFINE change == 0 - Scale * amount
  <2>1. change \in Int /\ change <= 0
    BY <1>9
  <2>2. Restated(s, a, change)
    <3> SUFFICES ASSUME NEW x \in Accounts
                 PROVE  /\ Sound(holder'[x], s, side[s].growth)
                        /\ Worth(holder'[x], s, side[s].growth)
                               = Worth(holder[x], s, side[s].growth)
                                     + (IF x = a THEN change ELSE 0)
      BY DEF Restated
    <3>1. Worth(holder[x], s, side[s].growth) \in Nat
      BY WorthsTyped
    <3>2. CASE x = a
      BY <1>7, <1>9, <3>1, <3>2 DEF st
    <3>3. CASE x # a
      BY <1>8, <3>1, <3>3
    <3> QED
      BY <3>2, <3>3
  <2>3. total' * 0 = 0 /\ 0 < 2 * Scale
    <3>1. \A n \in Nat : n * 0 = 0
      BY SMT
    <3> QED
      BY <1>1, <1>3, <3>1
  <2>4. Posted(s, change, 0)
    <3>1. Allotted(st2) = Allotted(st) + change
      <4>1. /\ Scale * (st.liability - amount) = Scale * st.liability - Scale * amount
            /\ Scale * st.liability \in Int
        BY <1>1, <1>4, Distributes
      <4>2. Allotted(st2) = Scale * (st.liability - amount) - st.globalRemainder
            /\ Allotted(st) = Scale * st.liability - st.globalRemainder
        BY <1>5 DEF Allotted
      <4> QED
        BY <1>4, <1>9, <4>1, <4>2
    <3>2. Value(st.growth) \in Nat /\ Allotted(st) \in Int
      BY <1>1, <1>4, SideTyped, ValueTyped
    <3>3. st2.liability = st2.accrued - st2.paid
      BY <1>1, <1>4, <1>5 DEF st
    <3>4. /\ Value(side'[s].growth) = Value(side[s].growth) + 0
          /\ Allotted(side'[s]) = Allotted(side[s]) + change + total' * 0
          /\ side'[s].liability = side'[s].accrued - side'[s].paid
      BY <1>5, <1>7, <2>1, <2>3, <3>1, <3>2, <3>3 DEF st
    <3>5. 0 \in Nat
      OBVIOUS
    <3> HIDE DEF change
    <3> QED
      BY <2>1, <3>4, <3>5, Zenon DEF Posted
  <2>5. Harmless(s, a, change, 0)
    <3>1. side'[s].paid = side[s].paid => change >= IF holder'[a].balance = 0
                                                    THEN 1 - Scale ELSE 0
      <4>1. side'[s].paid = side[s].paid => amount = 0
        BY <1>4, <1>5, <1>7 DEF st
      <4>2. amount = 0 => Scale * amount = 0
        BY <1>1
      <4> QED
        BY <1>1, <4>1, <4>2
    <3>2. total' * 0 < 2 * Scale
      BY <2>3, Zenon
    <3>3. /\ side'[s].paid - side[s].paid \in Nat
          /\ change + Scale * (side'[s].paid - side[s].paid) = 0
      <4>1. side'[s].paid - side[s].paid = amount
        BY <1>4, <1>5, <1>7 DEF st
      <4> QED
        BY <1>4, <1>9, <4>1
    <3>4. ConsumeClaim(a, s)
      OBVIOUS
    <3> HIDE DEF change
    <3> QED
      BY <2>1, <3>1, <3>2, <3>3, <3>4, Zenon DEF Harmless
  <2> HIDE DEF change
  <2> QED
    BY <2>2, <2>4, <2>5, Zenon DEF Effect
<1>12. Balances' = Balances
  BY <1>7 DEF Balances
<1> QED
  BY <1>3, <1>7, <1>10, <1>11, <1>12 DEF StepEffect, TypeOK, LpInv

(* Every operation does to the books what StepEffect says.                 *)
LEMMA NextStep ==
  ASSUME LpInv, Next
  PROVE  StepEffect
<1>1. /\ allowance \in [Accounts -> [Spenders -> Nat]] /\ locks \in [LockIds -> LockRecord]
      /\ Allowances \subseteq Nat
  BY LpFeeAssumption DEF LpInv, TypeOK
<1>2. ASSUME NEW a \in Accounts, NEW n \in Amounts, Mint(a, n) PROVE StepEffect
  BY <1>2, MintStep
<1>3. ASSUME NEW a \in Accounts, NEW n \in Amounts, Burn(a, n) PROVE StepEffect
  BY <1>3, BurnStep
<1>4. ASSUME NEW a \in Accounts, NEW c \in Accounts, NEW n \in Amounts, Transfer(a, c, n)
      PROVE  StepEffect
  BY <1>1, <1>4, MoveStep DEF Transfer
<1>5. ASSUME NEW a \in Accounts, NEW p \in Spenders, NEW n \in Allowances, Approve(a, p, n)
      PROVE  StepEffect
  <2>1. /\ allowance' = [allowance EXCEPT ![a][p] = n] /\ n \in Nat
        /\ UNCHANGED <<holder, side, total>> /\ UNCHANGED locks
    BY <1>1, <1>5 DEF Approve
  <2>2. allowance' \in [Accounts -> [Spenders -> Nat]]
    BY <1>1, <2>1
  <2> QED
    BY <1>1, <2>1, <2>2, UntouchedStep
<1>6. ASSUME NEW a \in Accounts, NEW p \in Spenders, NEW c \in Accounts, NEW n \in Amounts,
             TransferFrom(p, a, c, n)
      PROVE  StepEffect
  <2>1. /\ allowance' = [allowance EXCEPT ![a][p] = @ - n] /\ n <= allowance[a][p]
        /\ Move(a, c, n) /\ UNCHANGED <<total, locks>>
    BY <1>6 DEF TransferFrom
  <2>2. allowance[a][p] \in Nat /\ n \in Nat
    BY <1>1, AmountTyped
  <2>3. allowance[a][p] - n \in Nat
    BY <2>1, <2>2
  <2>4. allowance' \in [Accounts -> [Spenders -> Nat]]
    BY <1>1, <2>1, <2>3
  <2> QED
    BY <2>1, <2>4, MoveStep
<1>7. ASSUME NEW l \in LockIds, NEW a \in Accounts, NEW n \in Amounts, NEW p \in BOOLEAN,
             Lock(l, a, n, p)
      PROVE  StepEffect
  <2>1. /\ holder' = [holder EXCEPT ![a] = Settled(@)] /\ UNCHANGED <<side, total, allowance>>
        /\ locks' = [locks EXCEPT ![l] = [owner |-> a, amount |-> n,
                                          permanent |-> p, active |-> TRUE]]
    BY <1>7 DEF Lock
  <2>2. n \in Nat
    BY AmountTyped
  <2>3. locks' \in [LockIds -> LockRecord]
    BY <1>1, <2>1, <2>2 DEF LockRecord
  <2> QED
    BY <2>1, <2>3, SettleStep
<1>8. ASSUME NEW l \in LockIds, Unlock(l) PROVE StepEffect
  <2>1. /\ locks' = [locks EXCEPT ![l].active = FALSE] /\ UNCHANGED <<holder, side, total>>
        /\ UNCHANGED allowance
    BY <1>8 DEF Unlock
  <2>2. locks' \in [LockIds -> LockRecord]
    BY <1>1, <2>1 DEF LockRecord
  <2> QED
    BY <1>1, <2>1, <2>2, UntouchedStep
<1>9. ASSUME NEW s \in Side, NEW fee \in Fees, RecordSwapFees(s, fee) PROVE StepEffect
  BY <1>9, FeeStep
<1>10. ASSUME NEW a \in Accounts, NEW s \in Side, ConsumeClaim(a, s) PROVE StepEffect
  BY <1>10, ClaimStep
<1>11. ASSUME NEW a \in Accounts, Look(a) PROVE StepEffect
  BY <1>1, <1>11, SettleStep DEF Look
<1> QED
  BY <1>2, <1>3, <1>4, <1>5, <1>6, <1>7, <1>8, <1>9, <1>10, <1>11, Zenon DEF Next

-----------------------------------------------------------------------------
(* Theorems. *)

LEMMA NextLpInv ==
  ASSUME LpInv, [Next]_vars
  PROVE  LpInv'
<1>1. CASE Next
  BY <1>1, NextStep, StepKeeps
<1>2. CASE UNCHANGED vars
  <2>1. TypeOK'
    BY <1>2 DEF vars, LpInv, TypeOK
  <2>2. UNCHANGED <<holder, side, total>>
    BY <1>2 DEF vars
  <2> QED
    BY <2>1, <2>2 DEF LpInv, SideBooks, Worths, Balances
<1> QED
  BY <1>1, <1>2

THEOREM LpInvariant == Spec => []LpInv
<1>1. Init => LpInv
  BY InitLpInv
<1>2. LpInv /\ [Next]_vars => LpInv'
  BY NextLpInv
<1> QED
  BY <1>1, <1>2, PTL DEF Spec

(* No share, claim or liability of the accounting goes below zero, and     *)
(* every fraction stays below a unit.                                      *)
THEOREM LpTypesCorrect == Spec => []TypeOK
<1>1. LpInv => TypeOK
  BY DEF LpInv
<1> QED
  BY <1>1, LpInvariant, PTL

(* No order of mints, burns, transfers and claims makes or loses a         *)
(* fraction of a fee, and no bound keeps a holder from what it is owed.    *)
THEOREM FeesConservedAlways == Spec => []FeesConserved
<1>1. LpInv => FeesConserved
  BY InvIsEnough
<1> QED
  BY <1>1, LpInvariant, PTL

(* Fractions never stay with a holder without shares, and what nobody      *)
(* holds is less than a unit.                                              *)
THEOREM NothingDormant == Spec => []NoDormantFractions
<1>1. LpInv => NoDormantFractions
  BY InvIsEnough
<1> QED
  BY <1>1, LpInvariant, PTL

(* Nobody's operation takes accrued fees from anybody else.                *)
THEOREM FeesStayTheorem == Spec => FeesStayWithHolders
<1> DEFINE Entitled == \A a \in Accounts, s \in Side :
                           Entitlement(a, s) = Worth(holder[a], s, side[s].growth)
<1>1. LpInv => Entitled
  BY EntitlementIsWorth
<1>2. (LpInv => Entitled)'
  BY <1>1, PTL
<1>3. LpInv /\ LpInv' /\ Next => EntitlementKept
  <2> SUFFICES ASSUME LpInv, LpInv', Next, NEW a \in Accounts, NEW s \in Side
               PROVE  LET gain == Entitlement(a, s)' - Entitlement(a, s)
                      IN  /\ gain + Scale * PaidTo(a, s)
                                 >= IF holder'[a].balance = 0 THEN 1 - Scale ELSE 0
                          /\ side'[s].accrued = side[s].accrued => gain < 2 * Scale
    BY DEF EntitlementKept
  <2>1. GainAllowed(s, a)
    BY NextStep, StepKeeps
  <2>2. Entitlement(a, s) = Worth(holder[a], s, side[s].growth)
    BY <1>1
  <2>3. Entitlement(a, s)' = Worth(holder'[a], s, side'[s].growth)
    BY <1>2
  <2> QED
    BY <2>1, <2>2, <2>3, Zenon DEF GainAllowed
<1>4. LpInv /\ LpInv' /\ [Next]_vars => [EntitlementKept]_vars
  BY <1>3
<1> QED
  BY <1>4, LpInvariant, PTL DEF Spec, FeesStayWithHolders
=============================================================================
