--------------------------- MODULE MCProcessLease ---------------------------
(* ProcessLease on a small instance: constants for TLC. *)
EXTENDS ProcessLease, TLC

MCSymmetry == Permutations(Process)
=============================================================================
