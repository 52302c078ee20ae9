------------------------- MODULE MCAdmissionVerifier -------------------------
(* Instances of AdmissionVerifier for TLC. *)
EXTENDS AdmissionRefinement

CONSTANTS a, b, r1, r2, f1, f2, c1, c2

(* r1 admits both; under r2 a's key is gone and b's repository is not      *)
(* listed.                                                                 *)
MCAllowed == [r \in Revision |-> IF r = r1 THEN Image \cap {a, b} ELSE Image \cap {a}]
MCSigned == [r \in Revision |-> IF r = r1 THEN Image \cap {a, b} ELSE {}]
=============================================================================
