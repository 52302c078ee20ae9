------------------------------ MODULE SharedRun ------------------------------
(***************************************************************************)
(* The shared demonstration run as a page can see it: how many runs there  *)
(* were, and how far the last one is.  This is what flows/demonstrator/    *)
(* journey-engine.js promises to those who read it; JourneyEngine          *)
(* implements it, and ControlUI shows it.                                  *)
(***************************************************************************)
EXTENDS Naturals

CONSTANTS
    MaxRuns,         \* bound: runs started
    MaxSteps         \* steps of the longest journey

ASSUME SharedAssumption == MaxRuns \in Nat /\ MaxSteps \in Nat \ {0}

VARIABLE shared      \* replyState: the run's number, its phase and its activeStep

Phase == {"none", "active", "pending", "over"}
Snapshot == [id : 0..MaxRuns, phase : Phase, step : 0..MaxSteps]

At(id, phase, step) == [id |-> id, phase |-> phase, step |-> step]

(* The order in which a run, and the runs after it, can be seen. *)
Rank == [p \in Phase |->
            CASE p = "active" -> 1 [] p = "pending" -> 2 [] p = "over" -> 3 [] p = "none" -> 4]

AtLeast(s, t) ==
    \/ s.id > t.id
    \/ s.id = t.id /\ Rank[s.phase] > Rank[t.phase]
    \/ s.id = t.id /\ s.phase = t.phase /\ s.step >= t.step

-----------------------------------------------------------------------------
SharedInit == shared = At(0, "none", 0)

(* A start needs that no run is in progress; one whose request is pending  *)
(* past its deadline is over by the time the start is considered.          *)
Start ==
    /\ shared.phase # "active"
    /\ shared.id < MaxRuns
    /\ \/ \E k \in 1..MaxSteps : shared' = At(shared.id + 1, "active", k)
       \/ shared' = At(shared.id + 1, "over", 0)

(* A next: another step, the wait for a response, or the end. *)
Advance ==
    /\ shared.phase = "active"
    /\ \/ /\ shared.step < MaxSteps
          /\ shared' = At(shared.id, "active", shared.step + 1)
       \/ \E p \in {"pending", "over"} : shared' = At(shared.id, p, 0)

(* The response, or the deadline. *)
Resolve ==
    /\ shared.phase = "pending"
    /\ shared' = At(shared.id, "over", 0)

Reset == shared' = At(shared.id, "none", 0)

SharedNext == Start \/ Advance \/ Resolve \/ Reset

SharedSpec == SharedInit /\ [][SharedNext]_shared
=============================================================================
