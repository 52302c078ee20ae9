-------------------------- MODULE MCSessionBoundary --------------------------
(* Instances of SessionBoundary for TLC. *)
EXTENDS SessionBoundary, TLC

CONSTANTS c1, c2, l1, l2, r1, r2, sso1, sso2

=============================================================================
