----------------------------- MODULE PageStoreMC -----------------------------
(***************************************************************************)
(* PageStore on a file of a few pages; the mutants are the slips a change   *)
(* to diskio.c could make.                                                  *)
(***************************************************************************)
EXTENDS PageStore

MCFirstWord == {-1, 0, 2}
=============================================================================
