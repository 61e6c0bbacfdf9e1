-------------------------- MODULE LpFeeAccounting --------------------------
(***************************************************************************)
(* FungibleLpFeeModel: the accounting of swap fees the next generation of  *)
(* LP tokens is to carry out.  Fees are not added to the reserves but owed *)
(* to whoever held LP shares when they accrued.  Per side of the pool a    *)
(* growth per share in two limbs is advanced with each fee; a holder is    *)
(* settled against it before its balance changes, keeps the fraction of a  *)
(* unit it is owed as its carry, and leaves that fraction to the others    *)
(* when its balance comes to zero.                                         *)
(*                                                                         *)
(* One action per public mutation.  Each is a transaction: a mutation that *)
(* throws restores its snapshot and is not enabled here.  Calls by others  *)
(* than the pool are rejected and left out, and so are the principal, the  *)
(* protocol's share and the custody total, which only ever add up.         *)
(***************************************************************************)
EXTENDS Integers, FiniteSetsExt

CONSTANTS
    Accounts,
    Side,           \* the two tokens of the pool
    Scale,          \* FEE_GROWTH_SCALE; shares and fees stay below it
    MaxWord,        \* UINT256_MAX
    Amounts,        \* bound: shares minted, burnt, moved, locked
    Fees,           \* bound: LP fees of one swap
    LockIds,        \* bound: the locks ever made
    Spenders,       \* bound: who is ever approved
    Allowances,     \* bound: the allowances approved
    MaxAccrued      \* bound: LP fees of a side in a behaviour

ASSUME LpFeeAssumption ==
    /\ IsFiniteSet(Accounts)
    /\ Scale \in Nat \ {0, 1} /\ MaxWord = Scale * Scale - 1
    /\ Amounts \subseteq 1 .. Scale - 1 /\ Fees \subseteq 1 .. Scale - 1
    /\ Allowances \subseteq Nat /\ MaxAccrued \in Nat

VARIABLES
    holder,     \* holder[a]: HolderState
    side,       \* side[s]: SideState
    total,      \* totalShares
    allowance,  \* allowance[owner][spender]
    locks       \* locks[id]: LockRecord, or NoLock

vars == <<holder, side, total, allowance, locks>>

Growth == [whole : Nat, fraction : 0 .. Scale - 1]

HolderState ==
    [balance : 0 .. Scale - 1, checkpoint : [Side -> Growth],
     carry : [Side -> 0 .. Scale - 1], claimable : [Side -> Nat]]

SideState ==
    [growth : Growth, globalRemainder : 0 .. Scale - 1, accrued : 0 .. MaxWord,
     paid : Nat, liability : Nat]

LockRecord ==
    [owner : Accounts \cup {"none"}, amount : Nat, permanent : BOOLEAN, active : BOOLEAN]

NoGrowth == [whole |-> 0, fraction |-> 0]
NoLock == [owner |-> "none", amount |-> 0, permanent |-> FALSE, active |-> FALSE]

Init ==
    /\ holder = [a \in Accounts |->
           [balance |-> 0, checkpoint |-> [s \in Side |-> NoGrowth],
            carry |-> [s \in Side |-> 0], claimable |-> [s \in Side |-> 0]]]
    /\ side = [s \in Side |-> [growth |-> NoGrowth, globalRemainder |-> 0,
                               accrued |-> 0, paid |-> 0, liability |-> 0]]
    /\ total = 0
    /\ allowance = [o \in Accounts |-> [a \in Spenders |-> 0]]
    /\ locks = [l \in LockIds |-> NoLock]

(* An operator named for a slip (MoveUnsettled, EmptiedWithCarry...) is        *)
(* the definition after it with that slip made: the mutant a property must *)
(* catch.  No behaviour of Spec uses one.                                  *)
-----------------------------------------------------------------------------
(* advanceFeeGrowth: the fee is divided by the shares before anything is    *)
(* scaled, so that no product exceeds a word.                              *)

Plus(g, fraction) ==
    [whole |-> g.whole + (g.fraction + fraction) \div Scale,
     fraction |-> (g.fraction + fraction) % Scale]

FeeNumerator(st, fee) == (fee % total) * Scale + st.globalRemainder

AdvanceRemainderKept(st, fee) ==
    [st EXCEPT !.growth = Plus([st.growth EXCEPT !.whole = @ + fee \div total],
                               FeeNumerator(st, fee) \div total),
               !.accrued = @ + fee, !.liability = @ + fee]

Advance(st, fee) ==
    [st EXCEPT !.growth = Plus([st.growth EXCEPT !.whole = @ + fee \div total],
                               FeeNumerator(st, fee) \div total),
               !.globalRemainder = FeeNumerator(st, fee) % total,
               !.accrued = @ + fee, !.liability = @ + fee]

CanAdvance(st, fee) ==
    /\ total # 0
    /\ st.globalRemainder < Scale
    /\ FeeNumerator(st, fee) <= MaxWord
    /\ Advance(st, fee).growth.whole <= MaxWord
    /\ Advance(st, fee).accrued <= MaxWord
    /\ Advance(st, fee).growth.whole <= Advance(st, fee).accrued

-----------------------------------------------------------------------------
(* settleFeeGrowth: what the growth since its checkpoint gives a holder,    *)
(* with one borrow between the limbs.                                      *)

GrowthBefore(g, h) == g.whole < h.whole \/ (g.whole = h.whole /\ g.fraction < h.fraction)

Borrow(h, s) == IF side[s].growth.fraction < h.checkpoint[s].fraction THEN 1 ELSE 0

WholeDelta(h, s) == side[s].growth.whole - h.checkpoint[s].whole - Borrow(h, s)

FractionDelta(h, s) ==
    side[s].growth.fraction - h.checkpoint[s].fraction + Borrow(h, s) * Scale

HolderNumerator(h, s) == h.balance * FractionDelta(h, s) + h.carry[s]

NewClaim(h, s) == h.balance * WholeDelta(h, s) + HolderNumerator(h, s) \div Scale

Settled(h) ==
    [h EXCEPT !.checkpoint = [s \in Side |-> side[s].growth],
              !.carry = [s \in Side |-> HolderNumerator(h, s) % Scale],
              !.claimable = [s \in Side |-> h.claimable[s] + NewClaim(h, s)]]

CanSettle(h) ==
    \A s \in Side :
        /\ ~GrowthBefore(side[s].growth, h.checkpoint[s])
        /\ h.balance * WholeDelta(h, s) <= MaxWord
        /\ HolderNumerator(h, s) <= MaxWord
        /\ h.claimable[s] + NewClaim(h, s) <= MaxWord

-----------------------------------------------------------------------------
(* redistributeGlobalRemainder, of the old remainder and the carries a     *)
(* leaving holder left; at zero supply whole units go to that holder.      *)

Unallocated(s, left) == side[s].globalRemainder + left[s]

Redistributed(left, supply) ==
    [s \in Side |->
        IF supply = 0
        THEN [side[s] EXCEPT !.globalRemainder = Unallocated(s, left) % Scale]
        ELSE [side[s] EXCEPT !.globalRemainder = Unallocated(s, left) % supply,
                             !.growth = Plus(@, Unallocated(s, left) \div supply)]]

CanRedistribute(left, supply) ==
    \A s \in Side :
        /\ Unallocated(s, left) <= MaxWord
        /\ LET grown == Redistributed(left, supply)[s].growth.whole
           IN  supply = 0 \/ Unallocated(s, left) < supply
                 \/ (grown <= MaxWord /\ grown <= side[s].accrued)

NothingLeft == [s \in Side |-> 0]

(* recycleCarryIfEmpty *)
EmptiedWithCarry(h, supply) ==
    [h EXCEPT !.claimable = [s \in Side |->
                  @[s] + IF supply = 0 THEN Unallocated(s, h.carry) \div Scale ELSE 0]]

Emptied(h, supply) ==
    [h EXCEPT !.carry = NothingLeft,
              !.claimable = [s \in Side |->
                  @[s] + IF supply = 0 THEN Unallocated(s, h.carry) \div Scale ELSE 0]]

(* h is the holder, settled, after its balance was lowered, and supply the *)
(* shares left; others is what else became of the holders.                 *)
Leave(a, h, supply, others) ==
    IF h.balance # 0
    THEN /\ holder' = [others EXCEPT ![a] = h]
         /\ UNCHANGED side
    ELSE /\ CanRedistribute(h.carry, supply)
         /\ holder' = [others EXCEPT ![a] = Emptied(h, supply)]
         /\ side' = Redistributed(h.carry, supply)

-----------------------------------------------------------------------------
(* The mutations. *)

Locked(a) ==
    LET ids == {l \in LockIds : locks[l].active /\ locks[l].owner = a}
    IN  SumFunction([l \in ids |-> locks[l].amount])

Unlocked(a) == holder[a].balance - Locked(a)

(* requireUnlocked; its first half follows, as no lock is negative. *)
MaySpend(a, amount) == amount <= holder[a].balance /\ amount <= Unlocked(a)

Mint(a, amount) ==
    /\ CanSettle(holder[a])
    /\ total + amount < Scale
    /\ total' = total + amount
    /\ holder' = [holder EXCEPT ![a] = [Settled(holder[a]) EXCEPT !.balance = @ + amount]]
    /\ IF total = 0
       THEN /\ CanRedistribute(NothingLeft, amount)
            /\ side' = Redistributed(NothingLeft, amount)
       ELSE UNCHANGED side
    /\ UNCHANGED <<allowance, locks>>

Burn(a, amount) ==
    /\ CanSettle(holder[a])
    /\ MaySpend(a, amount)
    /\ total' = total - amount
    /\ Leave(a, [Settled(holder[a]) EXCEPT !.balance = @ - amount], total - amount, holder)
    /\ UNCHANGED <<allowance, locks>>

MoveUnsettled(sender, recipient, amount) ==
    /\ sender # recipient
    /\ CanSettle(holder[sender])
    /\ MaySpend(sender, amount)
    /\ Leave(sender, [Settled(holder[sender]) EXCEPT !.balance = @ - amount], total,
             [holder EXCEPT ![recipient].balance = @ + amount])

Move(sender, recipient, amount) ==
    /\ sender # recipient
    /\ CanSettle(holder[sender]) /\ CanSettle(holder[recipient])
    /\ MaySpend(sender, amount)
    /\ Leave(sender, [Settled(holder[sender]) EXCEPT !.balance = @ - amount], total,
             [holder EXCEPT ![recipient] =
                 [Settled(holder[recipient]) EXCEPT !.balance = @ + amount]])

Transfer(sender, recipient, amount) ==
    /\ Move(sender, recipient, amount)
    /\ UNCHANGED <<total, allowance, locks>>

Approve(owner, spender, amount) ==
    /\ allowance' = [allowance EXCEPT ![owner][spender] = amount]
    /\ UNCHANGED <<holder, side, total, locks>>

TransferFrom(spender, owner, recipient, amount) ==
    /\ amount <= allowance[owner][spender]
    /\ allowance' = [allowance EXCEPT ![owner][spender] = @ - amount]
    /\ Move(owner, recipient, amount)
    /\ UNCHANGED <<total, locks>>

Lock(l, a, amount, permanent) ==
    /\ locks[l] = NoLock
    /\ CanSettle(holder[a])
    /\ MaySpend(a, amount)
    /\ holder' = [holder EXCEPT ![a] = Settled(@)]
    /\ locks' = [locks EXCEPT ![l] = [owner |-> a, amount |-> amount,
                                      permanent |-> permanent, active |-> TRUE]]
    /\ UNCHANGED <<side, total, allowance>>

(* unlock, once the time of the lock has come *)
Unlock(l) ==
    /\ locks[l].active /\ ~locks[l].permanent
    /\ locks' = [locks EXCEPT ![l].active = FALSE]
    /\ UNCHANGED <<holder, side, total, allowance>>

RecordSwapFees(s, fee) ==
    /\ side[s].accrued + fee <= MaxAccrued
    /\ CanAdvance(side[s], fee)
    /\ side' = [side EXCEPT ![s] = Advance(@, fee)]
    /\ UNCHANGED <<holder, total, allowance, locks>>

ConsumeClaim(a, s) ==
    LET h == Settled(holder[a])
        amount == h.claimable[s]
    IN  /\ CanSettle(holder[a])
        /\ amount <= side[s].liability
        /\ holder' = [holder EXCEPT ![a] = [h EXCEPT !.claimable[s] = 0]]
        /\ side' = [side EXCEPT ![s].liability = @ - amount, ![s].paid = @ + amount]
        /\ UNCHANGED <<total, allowance, locks>>

(* claimableOf, carryOf and audit settle whom they look at. *)
Look(a) ==
    /\ CanSettle(holder[a])
    /\ holder' = [holder EXCEPT ![a] = Settled(@)]
    /\ UNCHANGED <<side, total, allowance, locks>>

Next ==
    \/ \E a \in Accounts, n \in Amounts : Mint(a, n) \/ Burn(a, n)
    \/ \E a, b \in Accounts, n \in Amounts : Transfer(a, b, n)
    \/ \E a \in Accounts, b \in Spenders :
           \/ \E n \in Allowances : Approve(a, b, n)
           \/ \E c \in Accounts, n \in Amounts : TransferFrom(b, a, c, n)
    \/ \E l \in LockIds, a \in Accounts, n \in Amounts, p \in BOOLEAN : Lock(l, a, n, p)
    \/ \E l \in LockIds : Unlock(l)
    \/ \E s \in Side, fee \in Fees : RecordSwapFees(s, fee)
    \/ \E a \in Accounts, s \in Side : ConsumeClaim(a, s)
    \/ \E a \in Accounts : Look(a)

Spec == Init /\ [][Next]_vars
-----------------------------------------------------------------------------
(* Properties. *)

(* Every variable has its type: no share, claim or liability is driven     *)
(* below zero, and every fraction stays below one unit.                    *)
TypeOK ==
    /\ holder \in [Accounts -> HolderState]
    /\ side \in [Side -> SideState]
    /\ total \in 0 .. Scale - 1
    /\ allowance \in [Accounts -> [Spenders -> Nat]]
    /\ locks \in [LockIds -> LockRecord]

(* What a holder would be owed if it were settled now, in fractions. *)
Entitlement(a, s) == Scale * Settled(holder[a]).claimable[s] + Settled(holder[a]).carry[s]

(* No fraction of a fee is made or lost by any order of mints, burns,      *)
(* transfers, claims and generations of holders: what holders are owed and *)
(* the remainder nobody holds yet are the liability to the last fraction;  *)
(* and no bound stands between a holder and its fees: every settlement a   *)
(* claim needs fits a word and is covered by the liability.                *)
FeesConserved ==
    \A s \in Side :
        /\ SumFunction([a \in Accounts |-> Entitlement(a, s)])
               + side[s].globalRemainder = Scale * side[s].liability
        /\ side[s].liability = side[s].accrued - side[s].paid
        /\ \A a \in Accounts :
               CanSettle(holder[a]) /\ Settled(holder[a]).claimable[s] <= side[s].liability

(* Nothing is stranded: who holds no shares is owed whole units only, and  *)
(* what belongs to nobody is less than one unit of the token.              *)
NoDormantFractions ==
    \A s \in Side :
        /\ side[s].globalRemainder < Scale
        /\ \A a \in Accounts : holder[a].balance = 0 => Settled(holder[a]).carry[s] = 0

(* What a step pays to a holder, in units: only its own claim pays it.     *)
PaidTo(a, s) ==
    IF side'[s].paid > side[s].paid /\ ConsumeClaim(a, s) THEN side'[s].paid - side[s].paid ELSE 0

(* Nobody's operation takes fees from anybody: an entitlement only falls   *)
(* by what its holder's own claim pays, or by the fraction of a unit the   *)
(* holder leaves behind with its last share; and minted or received shares *)
(* bring their new owner no part of the past, but for that same fraction   *)
(* and remainder.                                                          *)
EntitlementKept ==
    \A a \in Accounts, s \in Side :
        LET gain == Entitlement(a, s)' - Entitlement(a, s)
        IN  /\ gain + Scale * PaidTo(a, s)
                   >= IF holder'[a].balance = 0 THEN 1 - Scale ELSE 0
            /\ side'[s].accrued = side[s].accrued => gain < 2 * Scale

FeesStayWithHolders == [][EntitlementKept]_vars

=============================================================================
