---------------------------- MODULE MCPublicCPMM ----------------------------
(* PublicCPMM on a small instance: constants for TLC. *)
EXTENDS PublicCPMM, TLC

MCScale == [s \in Side |-> 1]
MCPriceBounds == {<<1, 2>>}
MCSymmetry == Permutations(Users)
=============================================================================
