---------------------------- MODULE MCPurchasing ----------------------------
(* One order of two items, two or three overlapping requests.               *)
EXTENDS Purchasing, TLC

MCSymmetry == Permutations(Req) \cup Permutations(Item)
=============================================================================
