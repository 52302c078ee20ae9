--------------------------- MODULE MCJourneyEngine ---------------------------
(* Instances of JourneyEngine for TLC: one plan of each kind the fixtures  *)
(* have, with fewer steps.                                                 *)
EXTENDS JourneyEngine, TLC

CONSTANTS a, b

Fixtures ==
    "success" :> <<"Pass", "Pass">> @@ "permission" :> <<"Pass", "Fail", "Pass">>
    @@ "atlas-call" :> <<"Pass", "Pass">> @@ "atlas-revoked" :> <<"Pass", "Pass", "Fail">>
    @@ "atlas-unpresented" :> <<"Skipped", "Fail">>
    @@ "resource-unavailable" :> <<"Pass", "Unavailable">>

MCExpected == [p \in Plan |-> Fixtures[p]]

MCStarted == [p \in Plan |-> IF p = "atlas-unpresented" THEN 2 ELSE 1]
=============================================================================
