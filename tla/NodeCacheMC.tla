----------------------------- MODULE NodeCacheMC -----------------------------
(***************************************************************************)
(* NodeCache with a cache smaller than the file, so that entries are       *)
(* evicted.                                                                *)
(***************************************************************************)
EXTENDS NodeCache

CONSTANTS p1, p2, p3, n1, big

MCPage == {p1, p2, p3}
MCNode == {n1}
MCBig == {big}
=============================================================================
