----------------------- MODULE CipherDEXFeeVaultPublic -----------------------
(***************************************************************************)
(* The ordinary ERC-20 side of CipherDEXFeeVault: per-token fee claims     *)
(* beside the vault's raw token balance.  The two variables belong to the  *)
(* module that instantiates this one; a pool's collection and the vault's  *)
(* deposit are one atomic call.                                            *)
(***************************************************************************)
EXTENDS Integers

CONSTANT Token

VARIABLES
    publicFees,     \* publicFees[token]: what the beneficiary may sweep
    vaultBalance    \* the vault's raw balance of the token

FeeVaultInit ==
    /\ publicFees = [t \in Token |-> 0]
    /\ vaultBalance = [t \in Token |-> 0]

(* depositPublicFees, for every token of one pool call at once: the claim  *)
(* grows by what arrived, not by what the pool was debited.  A token       *)
(* outside the call has received[t] = 0.                                   *)
DepositPublicFees(received) ==
    /\ publicFees' = [t \in Token |-> publicFees[t] + received[t]]
    /\ vaultBalance' = [t \in Token |-> vaultBalance[t] + received[t]]

(* sweepPublicToken, called by the beneficiary: a claim the balance no     *)
(* longer covers is written down to the balance before it is paid out.     *)
SweepWithoutReset(t) ==     \* a mutant: the claim survives its payment
    /\ publicFees[t] # 0
    /\ LET amount == IF vaultBalance[t] < publicFees[t]
                     THEN vaultBalance[t] ELSE publicFees[t]
       IN  vaultBalance' = [vaultBalance EXCEPT ![t] = @ - amount]
    /\ UNCHANGED publicFees

SweepPublicToken(t) ==
    /\ publicFees[t] # 0
    /\ LET amount == IF vaultBalance[t] < publicFees[t]
                     THEN vaultBalance[t] ELSE publicFees[t]
       IN  vaultBalance' = [vaultBalance EXCEPT ![t] = @ - amount]
    /\ publicFees' = [publicFees EXCEPT ![t] = 0]
=============================================================================
