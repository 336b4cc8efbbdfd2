-------------------------------- MODULE Table --------------------------------
(***************************************************************************)
(* What a table promises (insert_row, select of server-side/schema): rows  *)
(* numbered by ascending ids that are never handed out again once a row    *)
(* has one, inserted whole.  When the process ends, an insert in progress   *)
(* happens or does not, and a kill may undo the last write.                *)
(***************************************************************************)
EXTENDS Integers

CONSTANT MaxKey

VARIABLES rows,         \* the ids of the rows a search finds
          next_id,      \* the id of the next row
          pending       \* an insert is in progress, of the id before next_id

vars == <<rows, next_id, pending>>

Last == next_id - 1

Init == rows = {} /\ next_id = 0 /\ pending = FALSE

TakeId == /\ ~pending /\ next_id <= MaxKey
          /\ next_id' = next_id + 1
          /\ pending' = TRUE
          /\ UNCHANGED rows

Insert == /\ pending
          /\ rows' = rows \union {Last}
          /\ pending' = FALSE
          /\ UNCHANGED next_id

End == /\ rows' \in {rows, rows \ {Last}} \union (IF pending THEN {rows \union {Last}} ELSE {})
       /\ next_id' \in {next_id} \union (IF rows' \subseteq 0..(Last - 1) THEN {Last} ELSE {})
       /\ pending' = FALSE

Next == TakeId \/ Insert \/ End

Spec == Init /\ [][Next]_vars
=============================================================================
