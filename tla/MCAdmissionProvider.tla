------------------------- MODULE MCAdmissionProvider -------------------------
(* Instances of AdmissionProvider for TLC. *)
EXTENDS AdmissionProvider, TLC

CONSTANTS a, b, r0, r1, r2, f1, f2, q1, q2

MCCaller == Request \X Image

(* r0 is the empty policy; r1 admits both images; under r2 a's key is gone *)
(* and b's repository is not listed.                                       *)
MCAllowed == [r \in Revision |-> CASE r = r0 -> {} [] r = r1 -> Image [] OTHER -> Image \cap {a}]
MCSigned == [r \in Revision |-> IF r = r1 THEN Image ELSE {}]

MCSymmetry == Permutations(Flight) \cup Permutations(Request)
=============================================================================
