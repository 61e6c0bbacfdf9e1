------------------------------- MODULE Custody -------------------------------
(***************************************************************************)
(* What an escrow contract promises to the people whose assets it holds:   *)
(* every operation of its own moves what it holds and what it owes         *)
(* together, and the one operation that does not, the surplus sweep, takes *)
(* exactly what nobody is owed.  Assets in Losing may shrink in custody    *)
(* (a rebasing token); all may grow by gifts.                              *)
(***************************************************************************)
EXTENDS Integers

CONSTANTS Asset, Losing

VARIABLES
    held,       \* held[a]: the contract's balance of a
    owed        \* owed[a]: the sum of all claims on it

Surplus(a) == held[a] - owed[a]

Init ==
    /\ held = [a \in Asset |-> 0]
    /\ owed = [a \in Asset |-> 0]

(* Deposits, payouts and conversions of one asset into another. *)
Serve == \A a \in Asset : Surplus(a)' = Surplus(a)

SweepSurplus(a) ==
    /\ Surplus(a) > 0
    /\ held' = [held EXCEPT ![a] = owed[a]]
    /\ UNCHANGED owed

(* Somebody gives the contract an asset, or a losing asset shrinks. *)
ChangeFromOutside(a) ==
    /\ \A b \in Asset \ {a} : held'[b] = held[b]
    /\ held'[a] >= held[a] \/ a \in Losing
    /\ UNCHANGED owed

Next ==
    \/ Serve
    \/ \E a \in Asset : SweepSurplus(a) \/ ChangeFromOutside(a)

Spec == Init /\ [][Next]_<<held, owed>>

(* While nothing it holds loses value by itself, the contract is solvent:  *)
(* every claim on it is backed.                                            *)
Solvent == \A a \in Asset \ Losing : held[a] >= owed[a]
=============================================================================
