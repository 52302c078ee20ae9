------------------------- MODULE AdmissionRefinement -------------------------
(***************************************************************************)
(* AdmissionVerifier implements AdmissionOracle.  The cache, the flights   *)
(* and the semaphore disappear; a call is pending from the moment it has   *)
(* loaded its policy until VerifyImage knows its answer.                   *)
(***************************************************************************)
EXTENDS AdmissionVerifier

Requested(c) ==
    IF call[c].pc = "idle" THEN [st |-> "idle", image |-> None, rev |-> None, answer |-> None]
    ELSE [st     |-> IF call[c].pc = "answered" THEN "answered" ELSE "pending",
          image  |-> call[c].image,
          rev    |-> call[c].policy.rev,
          answer |-> IF call[c].pc = "answered" THEN call[c].answer ELSE None]

Oracle == INSTANCE AdmissionOracle WITH
              inForce   <- policy.rev,
              request   <- [c \in Caller |-> Requested(c)]

(* Every behaviour of the verifier is one of the oracle: whatever calls,   *)
(* flights, cached verdicts and policy changes interleave, a call is       *)
(* answered by the policy in force when it asked, or not admitted.         *)
ImplementsOracle == Oracle!OracleSpec
=============================================================================
