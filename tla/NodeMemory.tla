----------------------------- MODULE NodeMemory -----------------------------
(***************************************************************************)
(* What read_node and write_node of server-side/diskio/diskio.c promise:   *)
(* a memory of nodes in which a read returns the last node written at that *)
(* address.  A restart may fall back to the state before the last write.   *)
(***************************************************************************)
CONSTANTS Page,         \* addresses
          Node,         \* what an address may hold
          Unwritten     \* what it holds at first

VARIABLES mem,          \* the node at every address
          safe,         \* the same before the last write: what a kill leaves
          freed,        \* the pages given back with remove_node
          result        \* what the last read returned, and from where

vars == <<mem, safe, freed, result>>

Init == /\ mem = [p \in Page |-> Unwritten]
        /\ safe = mem
        /\ freed = {}
        /\ result = [addr |-> CHOOSE p \in Page : TRUE, node |-> Unwritten]

Read(p) == /\ p \notin freed
           /\ result' = [addr |-> p, node |-> mem[p]]
           /\ safe' \in {safe, mem}
           /\ UNCHANGED <<mem, freed>>

Write(p, n) == /\ mem' = [mem EXCEPT ![p] = n]
               /\ safe' = mem
               /\ freed' = freed \ {p}
               /\ UNCHANGED result

Remove(p) == /\ mem' \in {[mem EXCEPT ![p] = n] : n \in Node}
             /\ safe' = mem
             /\ freed' = freed \union {p}
             /\ UNCHANGED result

Restart == /\ mem' \in {safe, mem}
           /\ safe' = mem'
           /\ UNCHANGED <<freed, result>>

Next == \/ \E p \in Page : Read(p) \/ Remove(p) \/ \E n \in Node : Write(p, n)
        \/ Restart

Spec == Init /\ [][Next]_vars
=============================================================================
