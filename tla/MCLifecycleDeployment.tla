------------------------ MODULE MCLifecycleDeployment ------------------------
(* Instances of LifecycleDeployment for TLC: the requestId n reads as an   *)
(* integer.                                                                *)
EXTENDS LifecycleDeployment, TLC

CONSTANTS n, x, y, e1, e2, demo

MCRank == n :> 7
=============================================================================
