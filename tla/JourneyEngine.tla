---------------------------- MODULE JourneyEngine ----------------------------
(***************************************************************************)
(* flows/demonstrator/journey-engine.js and the nodes behind it: the one   *)
(* run of a demonstration journey that all operators share, advanced by    *)
(* their commands, completed by a fixture or by a sample HTTP request, and *)
(* given up when no response came before the deadline.                     *)
(*                                                                         *)
(* Each function node runs its message to the end; between the engine, the *)
(* HTTP request and the nodes that validate and commit its response there  *)
(* are messages, so these are steps of their own.  A run makes at most one *)
(* request: the run's id stands for the request's.                         *)
(***************************************************************************)
EXTENDS Naturals, Sequences, SequencesExt

CONSTANTS
    Command,         \* commandIds
    Plan,            \* the journeys that can be started
    Atlas,           \* those of the atlas catalogue; the others are samples
    Local,           \* those of it that are fixtures in every mode
    Expected,        \* the outcome of each step of a plan, by its fixture
    Started,         \* how many of them starting it evaluates
    HistoryLimit,    \* 100: the commandIds remembered
    MaxSteps,        \* steps of the longest plan
    MaxRuns,         \* bound: runs started
    MaxRedeploys,    \* bound: changes of the adapter's configuration
    None

Status == {"Not evaluated", "Pass", "Fail", "Unavailable", "Skipped", "Pending", "Error"}
Outcome == {"success", "denied", "unavailable", "error"}
Mode == {"fixture", "http-sample", "error"}
RunId == 1..MaxRuns
Result == {"success", "failure", "denied", "unavailable", "error"}
Run == [id : RunId, plan : Plan, overHttp : BOOLEAN, step : Nat, checks : Seq(Status),
        request : {"none", "pending", "completed"}, result : Result \cup {None},
        completed : Nat]

ASSUME JourneyAssumption ==
    /\ Atlas \subseteq Plan /\ Local \subseteq Atlas
    /\ Expected \in [Plan -> Seq({"Pass", "Fail", "Unavailable", "Skipped"}) \ {<<>>}]
    /\ Started \in [Plan -> Nat \ {0}]
    /\ HistoryLimit \in Nat \ {0} /\ MaxSteps \in Nat /\ MaxRuns \in Nat /\ MaxRedeploys \in Nat
    /\ None \notin Run /\ None \notin Result
    /\ \A p \in Plan :
          /\ Started[p] <= Len(Expected[p]) /\ Len(Expected[p]) <= MaxSteps
          /\ Last(Expected[p]) \in {"Pass", "Fail", "Unavailable"}
          /\ p \in Atlas =>
                /\ \A i \in 1..(Len(Expected[p]) - 1) : Expected[p][i] \in {"Pass", "Skipped"}
                /\ Last(Expected[p]) = "Pass" => "Skipped" \notin Range(Expected[p])
          /\ p \notin Atlas => /\ Started[p] = 1 /\ Len(Expected[p]) > 1 /\ Expected[p][1] = "Pass"
                               /\ "Skipped" \notin Range(Expected[p])

VARIABLES
    run,             \* states[userId]: the shared run, or None
    runs,            \* the runs started so far
    history,         \* journeyCommandHistory[userId]
    mode,            \* journeyAdapterConfig
    redeploys,
    http,            \* the request of a run: "none", "sent" or "over"
    late,            \* runs whose request's deadline has passed
    inbox            \* results on their way to be committed

vars == <<run, runs, history, mode, redeploys, http, late, inbox>>

TypeOK ==
    /\ run \in Run \cup {None}
    /\ runs \in 0..MaxRuns
    /\ history \in Seq(Command)
    /\ mode \in Mode
    /\ redeploys \in 0..MaxRedeploys
    /\ http \in [RunId -> {"none", "sent", "over"}]
    /\ late \subseteq RunId
    /\ inbox \subseteq [run : RunId, outcome : Outcome]

Steps(p) == Len(Expected[p])
Verdict(status) ==
    CASE status = "Pass" -> "success" [] status = "Unavailable" -> "unavailable"
      [] OTHER -> "failure"

-----------------------------------------------------------------------------
Init ==
    /\ run = None
    /\ runs = 0
    /\ history = <<>>
    /\ mode \in Mode
    /\ redeploys = 0
    /\ http = [r \in RunId |-> "none"]
    /\ late = {}
    /\ inbox = {}

Finished(r, result) == [r EXCEPT !.result = result, !.completed = @ + 1]

LastCheck(r, status) == [r EXCEPT !.checks[Len(r.checks)] = status]

(* Defect variant: a request is never given up. *)
SeenPatiently(r) == r

(* What a message of any kind makes of the run first: a request that is    *)
(* pending past its deadline is given up.                                  *)
Seen(r) ==
    IF r # None /\ r.request = "pending" /\ r.id \in late
    THEN [Finished(LastCheck(r, "Unavailable"), "unavailable") EXCEPT !.request = "completed"]
    ELSE r

current == Seen(run)

(* A status, a command that the adapter's error, a missing commandId or a  *)
(* duplicate refuses: the run is looked at, and nothing more.              *)
Look ==
    /\ run' = current
    /\ UNCHANGED <<runs, history, mode, redeploys, http, late, inbox>>

(* The commandId of a command is recorded before the rest is validated. *)
Record(c) ==
    /\ mode # "error"
    /\ c \notin Range(history)
    /\ LET all == Append(history, c)
       IN  history' = IF Len(all) > HistoryLimit THEN Tail(all) ELSE all

(* A scenario, a variant, a profile or a runId that is refused. *)
Reject(c) ==
    /\ Record(c)
    /\ run' = current
    /\ UNCHANGED <<runs, mode, redeploys, http, late, inbox>>

-----------------------------------------------------------------------------
(* start *)

Free == current # None => current.result # None

NewRun(p) ==
    [id |-> runs + 1, plan |-> p, overHttp |-> mode = "http-sample" /\ p \notin Local,
     step |-> Started[p], request |-> "none", result |-> None, completed |-> 0,
     checks |-> [i \in 1..Steps(p) |->
                   IF i <= Started[p] THEN Expected[p][i] ELSE "Not evaluated"]]

(* Defect variant: a run in progress is replaced. *)
StartOver(c, p) ==
    /\ runs < MaxRuns
    /\ Record(c)
    /\ run' = IF Started[p] = Steps(p) THEN Finished(NewRun(p), Verdict(Last(Expected[p])))
              ELSE NewRun(p)
    /\ runs' = runs + 1
    /\ UNCHANGED <<mode, redeploys, http, late, inbox>>

(* The first step is evaluated at once, in one variant every step is.      *)
Start(c, p) ==
    /\ runs < MaxRuns
    /\ Record(c)
    /\ Free
    /\ run' = IF Started[p] = Steps(p) THEN Finished(NewRun(p), Verdict(Last(Expected[p])))
              ELSE NewRun(p)
    /\ runs' = runs + 1
    /\ UNCHANGED <<mode, redeploys, http, late, inbox>>

-----------------------------------------------------------------------------
(* reset, with the run's id or without a run *)

Reset(c) ==
    /\ Record(c)
    /\ run' = None
    /\ UNCHANGED <<runs, mode, redeploys, http, late, inbox>>

-----------------------------------------------------------------------------
(* next, with the run's id *)

Active(c) ==
    /\ Record(c)
    /\ current # None
    /\ current.result = None
    /\ current.request # "pending"

next == current.step + 1
AtLast == next = Steps(current.plan)
Evaluated == [current EXCEPT !.step = next, !.checks[next] = Expected[current.plan][next]]
OfAtlas == current.plan \in Atlas

(* The last step of a run that is completed over HTTP: an atlas run by the *)
(* mode it was started in, a sample run by the mode of this moment.        *)
ByHttp ==
    /\ AtLast
    /\ Expected[current.plan][next] = "Pass"
    /\ IF OfAtlas THEN current.overHttp ELSE mode = "http-sample"

NextPending(c) ==
    /\ Active(c)
    /\ ByHttp
    /\ run' = [current EXCEPT !.step = next, !.checks[next] = "Pending", !.request = "pending"]
    /\ http' = [http EXCEPT ![current.id] = "sent"]
    /\ UNCHANGED <<runs, mode, redeploys, late, inbox>>

(* A step of an atlas fixture, and the end of the run with the last one. *)
NextAtlas(c) ==
    /\ Active(c)
    /\ OfAtlas /\ ~ByHttp
    /\ run' = IF AtLast THEN Finished(Evaluated, Verdict(Expected[current.plan][next]))
              ELSE Evaluated
    /\ UNCHANGED <<runs, mode, redeploys, http, late, inbox>>

(* A step of a sample that passes; the last one grants. *)
NextSample(c) ==
    /\ Active(c)
    /\ ~OfAtlas /\ ~ByHttp
    /\ Expected[current.plan][next] = "Pass"
    /\ run' = IF AtLast THEN Finished(Evaluated, "success") ELSE Evaluated
    /\ UNCHANGED <<runs, mode, redeploys, http, late, inbox>>

(* Defect variant: the run goes on after a check that failed. *)
NextSampleFailsOn(c) ==
    /\ Active(c)
    /\ ~OfAtlas
    /\ Expected[current.plan][next] # "Pass"
    /\ run' = IF AtLast THEN Finished(Evaluated, "success") ELSE Evaluated
    /\ UNCHANGED <<runs, mode, redeploys, http, late, inbox>>

(* One that fails ends the run and skips the rest. *)
NextSampleFails(c) ==
    /\ Active(c)
    /\ ~OfAtlas
    /\ Expected[current.plan][next] # "Pass"
    /\ LET skipped == [i \in 1..Steps(current.plan) |->
                          IF i > next THEN "Skipped" ELSE Evaluated.checks[i]]
       IN  run' = Finished([Evaluated EXCEPT !.checks = skipped],
                           Verdict(Expected[current.plan][next]))
    /\ UNCHANGED <<runs, mode, redeploys, http, late, inbox>>

-----------------------------------------------------------------------------
(* The sample request. *)

(* A response, validated; what does not match the request is an error. *)
Respond(r, outcome) ==
    /\ http[r] = "sent"
    /\ http' = [http EXCEPT ![r] = "over"]
    /\ inbox' = inbox \cup {[run |-> r, outcome |-> outcome]}
    /\ UNCHANGED <<run, runs, history, mode, redeploys, late>>

(* A transport failure goes to the catch node and, since senderr is off,   *)
(* on to the validation as well.                                           *)
TransportFails(r) ==
    /\ http[r] = "sent"
    /\ http' = [http EXCEPT ![r] = "over"]
    /\ inbox' = inbox \cup {[run |-> r, outcome |-> "unavailable"], [run |-> r, outcome |-> "error"]}
    /\ UNCHANGED <<run, runs, history, mode, redeploys, late>>

DeadlinePasses(r) ==
    /\ http[r] # "none"
    /\ late' = late \cup {r}
    /\ UNCHANGED <<run, runs, history, mode, redeploys, http, inbox>>

Check(outcome) ==
    CASE outcome = "success" -> "Pass" [] outcome = "denied" -> "Fail"
      [] outcome = "unavailable" -> "Unavailable" [] OTHER -> "Error"

(* Defect variant: a completed request is completed again. *)
WaitingStill(r) == run # None /\ run.id = r /\ run.overHttp

Waiting(r) == run # None /\ run.id = r /\ run.overHttp /\ run.request = "pending"

(* Defect variant: the deadline is left to the engine. *)
InTimeAlways(m) == m.outcome

InTime(m) == IF m.run \in late THEN "unavailable" ELSE m.outcome

(* journey-http-complete: what is not the answer that the run waits for is *)
(* discarded.                                                              *)
Complete(m) ==
    /\ m \in inbox
    /\ inbox' = inbox \ {m}
    /\ run' = IF Waiting(m.run)
              THEN [Finished(LastCheck(run, Check(InTime(m))), InTime(m))
                       EXCEPT !.request = "completed"]
              ELSE run
    /\ UNCHANGED <<runs, history, mode, redeploys, http, late>>

(* The flow is deployed again with another configuration; the runs stay,   *)
(* and requests in flight may be lost with the old nodes.                  *)
Redeploy(m, lost) ==
    /\ redeploys < MaxRedeploys
    /\ redeploys' = redeploys + 1
    /\ mode' = m
    /\ http' = [r \in RunId |-> IF r \in lost /\ http[r] = "sent" THEN "over" ELSE http[r]]
    /\ UNCHANGED <<run, runs, history, late, inbox>>

-----------------------------------------------------------------------------
Next ==
    \/ Look
    \/ \E c \in Command :
          \/ Reject(c) \/ Reset(c)
          \/ \E p \in Plan : Start(c, p)
          \/ NextPending(c) \/ NextAtlas(c) \/ NextSample(c) \/ NextSampleFails(c)
    \/ \E r \in RunId :
          \/ \E outcome \in Outcome : Respond(r, outcome)
          \/ TransportFails(r) \/ DeadlinePasses(r)
    \/ \E m \in [run : RunId, outcome : Outcome] : Complete(m)
    \/ \E m \in Mode, lost \in SUBSET RunId : Redeploy(m, lost)

Spec == Init /\ [][Next]_vars

(* Deadlines pass, and a UI that shows a run polls its status. *)
FairSpec == Spec /\ WF_vars(Look) /\ \A r \in RunId : WF_vars(DeadlinePasses(r))

-----------------------------------------------------------------------------
(* PROPERTIES *)

(* A run completes once: by its last step, by the response, by a transport *)
(* failure that arrives twice or by the deadline, never by two of them.    *)
CompletedOnce ==
    run # None =>
        /\ run.completed = (IF run.result = None THEN 0 ELSE 1)
        /\ run.request = "pending" => run.result = None

(* "late response after reset cannot resurrect a run": what has completed  *)
(* is final, a run that was reset or replaced does not come back, and one  *)
(* in progress is dropped by a reset with its id, never by another start.  *)
VerdictFinal ==
    [][/\ run # None /\ run.result # None /\ run' # None /\ run'.id = run.id => run' = run
       /\ run' # None /\ (run = None \/ run'.id # run.id) => run'.id > runs
       /\ run # None /\ run.result = None /\ run' # None /\ run'.id # run.id
             => run.id \in late]_vars

(* A journey is granted only when none of its checks failed, was skipped   *)
(* or was not evaluated; a completed one leaves no check open.             *)
GrantedByAllChecks ==
    run # None /\ run.result # None =>
        /\ Range(run.checks) \cap {"Not evaluated", "Pending"} = {}
        /\ run.result = "success" => Range(run.checks) = {"Pass"}

(* "deadline cannot produce success": a run that waits for a response      *)
(* succeeds only by a success of its own request, in time.                 *)
SuccessIsAnswered ==
    [][(run # None /\ run.request = "pending" /\ run' # None /\ run'.id = run.id
            /\ run'.result = "success")
         => /\ [run |-> run.id, outcome |-> "success"] \in inbox
            /\ run.id \notin late]_vars

(* What a reader of the run sees is a run of SharedRun: one at a time, in  *)
(* the order of its steps, over for good, whatever commands, responses,    *)
(* deadlines and redeployments interleave.                                 *)
Visible ==
    [id    |-> runs,
     phase |-> IF run = None THEN "none"
               ELSE IF run.result # None THEN "over"
               ELSE IF run.request = "pending" THEN "pending" ELSE "active",
     step  |-> IF run # None /\ run.result = None /\ run.request # "pending"
               THEN run.step ELSE 0]

Shared == INSTANCE SharedRun WITH shared <- Visible

ImplementsSharedRun == Shared!SharedSpec

(* A run does not wait for its request forever: whatever was lost, the     *)
(* next look after the deadline ends it.                                   *)
WaitsFor(r) == run # None /\ run.id = r /\ run.request = "pending"

PendingResolves == \A r \in RunId : WaitsFor(r) ~> ~WaitsFor(r)
=============================================================================
