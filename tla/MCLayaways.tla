----------------------------- MODULE MCLayaways -----------------------------
(* Layaways on a small instance: one sale and the requests about it.        *)
EXTENDS Layaways, TLC

MCTotal == [s \in Sale |-> 2]
MCAmounts == {1}
MCSymmetry == Permutations(Txn) \cup Permutations(Intent)
=============================================================================
