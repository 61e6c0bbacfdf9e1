------------------------- MODULE MCLpFeeAccounting -------------------------
(* LpFeeAccounting on a small instance: constants for TLC. *)
EXTENDS LpFeeAccounting, TLC

MCSymmetry == Permutations(Accounts)
=============================================================================
