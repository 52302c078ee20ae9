--------------------------- MODULE MCLogoutReplay ---------------------------
(* Instances of LogoutReplay for TLC. *)
EXTENDS LogoutReplay, TLC

CONSTANTS t1, t2

Tokens == Permutations(Token)
=============================================================================
