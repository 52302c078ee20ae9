--------------------------- MODULE MCLifecycleNode ---------------------------
(* Instances of LifecycleNode for TLC: the requestId n reads as an integer. *)
EXTENDS LifecycleNode, TLC

CONSTANTS n, x, y, e1, e2, e3

MCRank == n :> 7
=============================================================================
