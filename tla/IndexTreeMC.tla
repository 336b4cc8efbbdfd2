----------------------------- MODULE IndexTreeMC -----------------------------
(***************************************************************************)
(* IndexTree with values arriving in every order, all different but one,   *)
(* and with the values COLUMNS_TIDX gets: the ids of tables, each once for *)
(* every column of the table.                                              *)
(***************************************************************************)
EXTENDS IndexTree

MCSome == 1..7
MCTables == 0..11

\* At most one value comes twice.
OneRepeated(before, value) == value \notin ToSet(before) \/ IsInjective(before)

\* TABLES has one column, COLUMNS two and every later table one or two.
FirstIds == <<0, 1, 1>>
OneOrTwo(before, value) ==
  IF Len(before) < Len(FirstIds) THEN value = FirstIds[Len(before) + 1]
  ELSE \/ value = Last(before) + 1
       \/ value = Last(before) /\ value > 1 /\ Cardinality({i \in DOMAIN before : before[i] = value}) = 1
=============================================================================
