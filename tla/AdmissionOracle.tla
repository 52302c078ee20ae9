--------------------------- MODULE AdmissionOracle ---------------------------
(***************************************************************************)
(* What image verification promises to its callers, with no cache, no      *)
(* shared verification and no registry: a call that asks about an image is *)
(* answered with the verdict of the trust policy that was in force when    *)
(* it asked, or with "provider-down", which admits nothing.                *)
(***************************************************************************)
EXTENDS AdmissionVerdicts

CONSTANT Caller      \* concurrent calls of VerifyImage

VARIABLES
    inForce,         \* the revision of the trust policy in force
    published,       \* the images whose evidence the registry holds
    request          \* what each caller has asked and been answered

oracleVars == <<inForce, published, request>>

NoRequest == [st |-> "idle", image |-> None, rev |-> None, answer |-> None]

OracleInit ==
    /\ inForce \in Revision
    /\ published = Image \ Late
    /\ request = [c \in Caller |-> NoRequest]

(* A caller asks; an answer that needs no registry may come at once.       *)
Ask(c, i) ==
    /\ request[c].st = "idle"
    /\ \/ request' = [request EXCEPT ![c] =
             [st |-> "pending", image |-> i, rev |-> inForce, answer |-> None]]
       \/ \E a \in Answer :
             /\ Sound(a, inForce, i, published)
             /\ request' = [request EXCEPT ![c] =
                   [st |-> "answered", image |-> i, rev |-> inForce, answer |-> a]]
    /\ UNCHANGED <<inForce, published>>

(* The answer is one the policy in force when the caller asked supports.   *)
Reply(c) ==
    /\ request[c].st = "pending"
    /\ \E a \in Answer :
          /\ Sound(a, request[c].rev, request[c].image, published)
          /\ request' = [request EXCEPT ![c] =
                [st |-> "answered", image |-> @.image, rev |-> @.rev, answer |-> a]]
    /\ UNCHANGED <<inForce, published>>

Forget(c) ==
    /\ request[c].st = "answered"
    /\ request' = [request EXCEPT ![c] = NoRequest]
    /\ UNCHANGED <<inForce, published>>

ChangePolicy ==
    /\ inForce' \in Revision
    /\ UNCHANGED <<published, request>>

EvidenceAppears ==
    /\ \E i \in Image : published' = published \cup {i}
    /\ UNCHANGED <<inForce, request>>

OracleNext ==
    \/ \E c \in Caller : Reply(c) \/ Forget(c) \/ \E i \in Image : Ask(c, i)
    \/ ChangePolicy
    \/ EvidenceAppears

OracleSpec == OracleInit /\ [][OracleNext]_oracleVars
=============================================================================
