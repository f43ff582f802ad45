--------------------------- MODULE MCCardTerminals ---------------------------
(* CardTerminals on a small instance: one sale and the requests about it.   *)
EXTENDS CardTerminals, TLC

MCTotal == [s \in Sale |-> 1]
MCAmounts == {1}
\* Two sessions with a live provider and one in mock mode, where tenders are
\* also deleted and listed.
MCMaxSessions == [m \in BOOLEAN |-> IF m THEN 1 ELSE 2]
MCBeside == [m \in BOOLEAN |-> {"addTender", "complete", "captureWaits", "reopen"} \cup
                               IF m THEN {"deleteTender", "list"} ELSE {"createIntent"}]
MCSymmetry == Permutations(Txn) \cup Permutations(Intent)
=============================================================================
