-------------------------- MODULE AggregateRelease --------------------------
(***************************************************************************)
(* What confidential fee collection promises to traders, token by token:   *)
(* the fee of every swap reaches the beneficiary at most once, and only in *)
(* a sum over the fees of at least Minimum swaps.                          *)
(***************************************************************************)
EXTENDS FiniteSets, Integers

CONSTANTS Token, Swaps, Minimum

VARIABLES
    pending,    \* pending[t]: swaps whose fees are still inside the protocol
    released    \* released[t]: swaps whose fees are in a sum already paid out

Init ==
    /\ pending = [t \in Token |-> {}]
    /\ released = [t \in Token |-> {}]

Accrue(t, s) ==
    /\ \A u \in Token : s \notin pending[u] \cup released[u]
    /\ pending' = [pending EXCEPT ![t] = @ \cup {s}]
    /\ UNCHANGED released

Release(t, sum) ==
    /\ sum \subseteq pending[t]
    /\ Cardinality(sum) >= Minimum
    /\ pending' = [pending EXCEPT ![t] = @ \ sum]
    /\ released' = [released EXCEPT ![t] = @ \cup sum]

Next ==
    \E t \in Token :
        \/ \E s \in Swaps : Accrue(t, s)
        \/ \E sum \in SUBSET pending[t] : Release(t, sum)

Spec == Init /\ [][Next]_<<pending, released>>
=============================================================================
