----------------------------- MODULE MCRefunds ------------------------------
(* Two refunds of a sale of a part and its labour, whose tax is an odd      *)
(* penny.                                                                   *)
EXTENDS Refunds, TLC

MCSold == [i \in Item |-> 1]
MCPrice == [i \in Item |-> 1]
MCAmounts == {2, 3}
MCSymmetry == Permutations(Txn) \cup Permutations(Refund) \cup Permutations(Session)
=============================================================================
