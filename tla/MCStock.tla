------------------------------ MODULE MCStock ------------------------------
EXTENDS Stock, TLC

CONSTANTS t1, t2, x1

\* One variant at two locations; the transfer's source has the later lock
\* key.  (A basket of both positions stands for one of two variants.)
MCRoute == (x1 :> <<1, -1>>)
MCBaskets == {<<1, 1>>, <<1, 0>>}
MCAmounts == {-1, 1}
MCOpening == <<1, 1>>
MCSymmetry == Permutations(Txn)

=============================================================================
