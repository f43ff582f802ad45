---------------------------- MODULE MCPrintQueue ----------------------------
(* PrintQueue on small instances: jobs for one printer, one or two          *)
(* processes, a fault anywhere.                                             *)
EXTENDS PrintQueue, TLC

MCPrinterOf == [j \in Job |-> CHOOSE p \in Printer : TRUE]
MCSymmetry == Permutations(Job) \cup Permutations(Node) \cup Permutations(Staff)
=============================================================================
