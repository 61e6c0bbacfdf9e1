------------------------- MODULE MCConfidentialFees -------------------------
(* ConfidentialFees on a small instance: constants for TLC. *)
EXTENDS ConfidentialFees, TLC

MCSymmetry == Permutations(Pools) \cup Permutations(Token)
=============================================================================
