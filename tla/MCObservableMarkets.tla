------------------------ MODULE MCObservableMarkets ------------------------
(* ObservableMarkets, and the ConfidentialMarkets in it, on a small instance. *)
EXTENDS ObservableMarkets, TLC

MCTiers == <<1, 2>>
MCScale == [s \in Side |-> 1]
MCOffers == {[s \in Side |-> 2], [s \in Side |-> 2 + 2 * s]}
MCSymmetry == Permutations(LaunchIds)
=============================================================================
