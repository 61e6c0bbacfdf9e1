--------------------- MODULE MCPublicCPMMLimitOrderBook ---------------------
(* PublicCPMMLimitOrderBook on a small instance: constants for TLC. *)
EXTENDS PublicCPMMLimitOrderBook, TLC

MCSymmetry == Permutations(Accounts)
=============================================================================
