------------------------------ MODULE ServerMC -------------------------------
(***************************************************************************)
(* Server with two or three clients.                                       *)
(***************************************************************************)
EXTENDS Server

CONSTANTS c1, c2, c3

MCTwo == {c1, c2}
MCThree == {c1, c2, c3}
=============================================================================
