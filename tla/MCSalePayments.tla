--------------------------- MODULE MCSalePayments ---------------------------
(* SalePayments on a small instance: one sale, requests racing on it.       *)
EXTENDS SalePayments, TLC

MCTotal == [s \in Sale |-> 2]
MCAmounts == {1, 2}
MCSymmetry == Permutations(Txn) \cup Permutations(Intent)
=============================================================================
