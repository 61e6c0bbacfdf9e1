----------------------------- MODULE SubmittedOnce -----------------------------
(***************************************************************************)
(* What the funded runners promise about one signer, with no processes,    *)
(* journals or retries: an operation is submitted at one nonce, no two     *)
(* share a nonce, the chain decides them in order, and what is put on      *)
(* record about one is what the chain decided, for good.                   *)
(***************************************************************************)
EXTENDS Naturals

VARIABLES
    sent,   \* operation -> its nonce, once it is submitted
    fate,   \* operation -> what the chain decided
    told    \* operation -> what the record says of it

Extend(f, o, x) == [p \in DOMAIN f \cup {o} |-> IF p = o THEN x ELSE f[p]]
Distinct(f) == \A o, p \in DOMAIN f : f[o] = f[p] => o = p

Init == Distinct(sent) /\ DOMAIN fate = {} /\ DOMAIN told = {}

Submit ==
    /\ \E o \in DOMAIN sent' \ DOMAIN sent :
         sent' = Extend(sent, o, sent'[o]) /\ \A p \in DOMAIN sent : sent[p] # sent'[o]
    /\ UNCHANGED <<fate, told>>

Decide ==
    /\ \E o \in DOMAIN sent \ DOMAIN fate :
         /\ \A p \in DOMAIN sent : sent[p] < sent[o] => p \in DOMAIN fate
         /\ \E s \in {"success", "failure"} : fate' = Extend(fate, o, s)
    /\ UNCHANGED <<sent, told>>

Tell ==
    /\ \E o \in DOMAIN fate \ DOMAIN told : told' = Extend(told, o, fate[o])
    /\ UNCHANGED <<sent, fate>>

Next == Submit \/ Decide \/ Tell

Spec == Init /\ [][Next]_<<sent, fate, told>>
================================================================================
