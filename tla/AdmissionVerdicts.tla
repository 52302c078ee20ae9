-------------------------- MODULE AdmissionVerdicts --------------------------
(***************************************************************************)
(* The verdicts of internal/cosignverify: which answer an image deserves   *)
(* under a revision of the trust policy.  A revision stands for the whole  *)
(* content of the policy (its repositories and its keys), because the      *)
(* code's revision is the hash of the policy file.  What the registry says *)
(* of an image at a given moment is abstracted to two facts: the evidence  *)
(* that would satisfy a revision exists or never will (Signed), and it has *)
(* been pushed already or not yet (published).                             *)
(***************************************************************************)
EXTENDS Naturals, FiniteSets

CONSTANTS
    Image,           \* image references, well formed or not
    Revision,        \* contents of the trust policy
    WellFormed,      \* the references host/repository@sha256:<digest>
    Allowed,         \* [Revision -> SUBSET Image]: repositories the policy lists
    Signed,          \* [Revision -> SUBSET Image]: evidence good under its keys
    Late,            \* the images whose evidence is pushed during the behaviour
    None             \* no value

(* A verdict, as opposed to an infrastructure failure.  "refused" stands   *)
(* for the seven codes of the pipeline (ADM-UNSIGNED ... ADM-ATTESTATION-  *)
(* INVALID): all of them deny and are cached the same way.                 *)
Verdict == {"verified", "refused"}

Answer == Verdict \cup {"not-digest", "registry-denied", "provider-down"}

ASSUME VerdictsAssumption ==
    /\ WellFormed \subseteq Image
    /\ Late \subseteq Image
    /\ Allowed \in [Revision -> SUBSET Image]
    /\ Signed \in [Revision -> SUBSET Image]
    /\ None \notin Image \cup Revision \cup Answer

(* What verify() finds when the registry answers: the first failed check,  *)
(* or success.                                                             *)
Finding(rev, i, pushed) ==
    IF i \in Signed[rev] /\ i \in pushed THEN "verified" ELSE "refused"

(* An answer a caller may get to a question about i asked under rev.       *)
(* Evidence appears at most once, so a refusal that was right when it was  *)
(* computed can only be out of date for an image of Late.                  *)
Sound(a, rev, i, pushed) ==
    /\ a = "not-digest" <=> i \notin WellFormed
    /\ a = "registry-denied" => i \notin Allowed[rev]
    /\ a \in Verdict \cup {"provider-down"} => i \in Allowed[rev]
    /\ a = "verified" => i \in Signed[rev] \cap pushed
    /\ a = "refused" => i \notin Signed[rev] \/ i \in Late
=============================================================================
