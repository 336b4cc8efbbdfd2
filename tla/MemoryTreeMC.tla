---------------------------- MODULE MemoryTreeMC ----------------------------
(***************************************************************************)
(* MemoryTree with every order of a few keys.                              *)
(***************************************************************************)
EXTENDS MemoryTree

MCOrder == [table |-> 3, index |-> 4]
MCPairs == [table |-> {<<k, 0>> : k \in 1..6}, index |-> {<<1, 1>>, <<2, 1>>, <<2, 2>>, <<3, 1>>, <<4, 2>>}]
=============================================================================
