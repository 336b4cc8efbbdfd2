----------------------------- MODULE TableTreeMC -----------------------------
(***************************************************************************)
(* TableTree with the ORDER of the code, enough rows for several splits of *)
(* the root, and with or without crashes.                                  *)
(***************************************************************************)
EXTENDS TableTree
=============================================================================
