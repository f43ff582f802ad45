---------------------------- MODULE MCStocktakes ----------------------------
(* One stocktake of two positions, and two baskets, one of which asks for   *)
(* more of a position than there may be.                                   *)
EXTENDS Stocktakes, TLC

MCRoute == <<>>
MCBaskets == {<<1, 1>>, <<1, 2>>}
MCAmounts == {}
MCOpening == <<1, 1>>
MCSymmetry == Permutations(Txn)
=============================================================================
