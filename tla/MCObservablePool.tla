-------------------------- MODULE MCObservablePool --------------------------
(* ObservablePool, and the ConfidentialPool in it, on a small instance.     *)
EXTENDS ObservablePool, TLC

MCScale == [s \in Side |-> 2 - s]
MCSymmetry == Permutations(Users)
=============================================================================
