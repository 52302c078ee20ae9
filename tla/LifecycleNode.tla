---------------------------- MODULE LifecycleNode ----------------------------
(***************************************************************************)
(* ui/nodes/ztd-lifecycle/ztd-lifecycle.js: the Builder node that accepts  *)
(* deployment commands, runs scripts/lifecycle.sh for each in a child      *)
(* process, and keeps progress and final results in the flow context,      *)
(* lifecycle.jobs[requestId], at most KEPT_JOBS of them.                   *)
(*                                                                         *)
(* One action per turn of the event loop: an input message, a chunk of the *)
(* child's output, the child's end.                                        *)
(***************************************************************************)
EXTENDS Naturals, Sequences, SequencesExt

CONSTANTS
    RequestId,       \* the requestIds callers choose
    Numeral,         \* those that read as integers
    Rank,            \* the integer each of these reads as
    Exec,            \* the child processes that may ever be started (bound)
    None,
    KeptJobs,        \* KEPT_JOBS
    MaxEvents,       \* bound: progress lines of one child
    MaxFaults        \* bound: values files that cannot be written

(* A result is an execution's outcome, or the refusal of a command. *)
Outcome == {"ok", "failed", "systemError"}
Refusal == [outcome |-> "refused", by |-> None]
Result == [outcome : Outcome, by : Exec] \cup {Refusal}
Job == [events : Nat, result : Result \cup {None}]

ASSUME LifecycleAssumption ==
    /\ Numeral \subseteq RequestId
    /\ Rank \in [Numeral -> Nat]
    /\ \A i, j \in Numeral : Rank[i] = Rank[j] => i = j
    /\ KeptJobs \in Nat \ {0}
    /\ MaxEvents \in Nat
    /\ MaxFaults \in Nat
    /\ None \notin RequestId \cup Exec \cup Outcome
    /\ None \notin Result /\ None \notin Job

VARIABLES
    jobs,            \* lifecycle.jobs: a record per requestId, or None
    order,           \* Object.keys(lifecycle.jobs)
    exec,            \* the child processes
    faults,          \* values files that could not be written so far
    pruned           \* history: requestIds whose record was ever dropped

vars == <<jobs, order, exec, faults, pruned>>

NewJob == [events |-> 0, result |-> None]

Unused == [st |-> "unused", id |-> None, script |-> None, events |-> 0]
Child == [st : {"running", "over"}, id : RequestId, events : 0..MaxEvents,
          script : Outcome \cup {None}]

TypeOK ==
    /\ jobs \in [RequestId -> Job \cup {None}]
    /\ order \in Seq(RequestId)
    /\ exec \in [Exec -> Child \cup {Unused}]
    /\ faults \in 0..MaxFaults
    /\ pruned \subseteq RequestId

Keys == {order[i] : i \in 1..Len(order)}

-----------------------------------------------------------------------------
(* Where JavaScript puts a new key: integers first, in their order, then   *)
(* the other keys as they came.                                            *)
Before(j, id) == IF id \in Numeral THEN j \in Numeral /\ Rank[j] < Rank[id] ELSE TRUE

Place(id) == 1 + Cardinality({i \in 1..Len(order) : Before(order[i], id)})

Inserted(id) == IF id \in Keys THEN order ELSE InsertAt(order, Place(id), id)

(* Defect variant: one record too many is kept. *)
StoreOneMore(id, job) ==
    LET keys == Inserted(id)
        excess == IF Len(keys) > KeptJobs + 1 THEN Len(keys) - KeptJobs - 1 ELSE 0
        gone == {keys[i] : i \in 1..excess}
    IN  /\ order' = SubSeq(keys, excess + 1, Len(keys))
        /\ jobs' = [i \in RequestId |->
                      IF i \in gone THEN None ELSE IF i = id THEN job ELSE jobs[i]]
        /\ pruned' = pruned \cup gone

(* store: the record is updated, and the first keys beyond KEPT_JOBS go. *)
Store(id, job) ==
    LET keys == Inserted(id)
        excess == IF Len(keys) > KeptJobs THEN Len(keys) - KeptJobs ELSE 0
        gone == {keys[i] : i \in 1..excess}
    IN  /\ order' = SubSeq(keys, excess + 1, Len(keys))
        /\ jobs' = [i \in RequestId |->
                      IF i \in gone THEN None ELSE IF i = id THEN job ELSE jobs[i]]
        /\ pruned' = pruned \cup gone

JobOf(id) == IF jobs[id] = None THEN NewJob ELSE jobs[id]

(* finish: the result replaces whatever the record holds. *)
Finish(id, result) == Store(id, [JobOf(id) EXCEPT !.result = result])

(* fromScript: what the script reported, or a systemError of the node. *)
FromScript(e) ==
    [outcome |-> IF exec[e].script = None THEN "systemError" ELSE exec[e].script, by |-> e]

-----------------------------------------------------------------------------
Init ==
    /\ jobs = [i \in RequestId |-> None]
    /\ order = <<>>
    /\ exec = [e \in Exec |-> Unused]
    /\ faults = 0
    /\ pruned = {}

(* An invalid command that carries a usable requestId.  (One without leaves *)
(* no trace, and neither does a valid one whose requestId has a record.)    *)
Refuse(id) ==
    /\ Finish(id, Refusal)
    /\ UNCHANGED <<exec, faults>>

(* Defect variant: a finished requestId may be run again. *)
AcceptIfNotRunning(e, id) ==
    /\ exec[e] = Unused
    /\ jobs[id] # None => jobs[id].result # None
    /\ Store(id, NewJob)
    /\ exec' = [exec EXCEPT ![e] = [st |-> "running", id |-> id, script |-> None, events |-> 0]]
    /\ UNCHANGED faults

(* A valid command under a requestId without a record: it is acknowledged, *)
(* and its child is spawned.                                               *)
Accept(e, id) ==
    /\ exec[e] = Unused
    /\ jobs[id] = None
    /\ Store(id, NewJob)
    /\ exec' = [exec EXCEPT ![e] = [st |-> "running", id |-> id, script |-> None, events |-> 0]]
    /\ UNCHANGED faults

(* The same, when the values of a deployment cannot be written to their    *)
(* file: the handler throws after its acknowledgement, before the child.   *)
AcceptThrows(id) ==
    /\ jobs[id] = None
    /\ faults < MaxFaults
    /\ faults' = faults + 1
    /\ Store(id, NewJob)
    /\ UNCHANGED exec

(* The child's output, line by line. *)
Progress(e) ==
    /\ exec[e].st = "running"
    /\ exec[e].events < MaxEvents
    /\ exec' = [exec EXCEPT ![e].events = @ + 1]
    /\ Store(exec[e].id, [JobOf(exec[e].id) EXCEPT !.events = @ + 1])
    /\ UNCHANGED faults

ResultLine(e, r) ==
    /\ exec[e].st = "running"
    /\ exec' = [exec EXCEPT ![e].script = r]
    /\ UNCHANGED <<jobs, order, faults, pruned>>

(* Defect variant: only a child that reported is finished. *)
CompleteReported(e) ==
    /\ exec[e].st = "running"
    /\ IF exec[e].script = None THEN UNCHANGED <<jobs, order, pruned>>
       ELSE Finish(exec[e].id, FromScript(e))
    /\ exec' = [exec EXCEPT ![e].st = "over"]
    /\ UNCHANGED faults

(* complete: the child has closed, or could not be spawned (its error and  *)
(* its close then complete it once).                                       *)
Complete(e) ==
    /\ exec[e].st = "running"
    /\ Finish(exec[e].id, FromScript(e))
    /\ exec' = [exec EXCEPT ![e].st = "over"]
    /\ UNCHANGED faults

Next ==
    \/ \E id \in RequestId :
          \/ Refuse(id) \/ AcceptThrows(id)
          \/ \E e \in Exec : Accept(e, id)
    \/ \E e \in Exec :
          \/ Progress(e) \/ Complete(e)
          \/ \E r \in Outcome \cup {None} : ResultLine(e, r)

Spec == Init /\ [][Next]_vars

(* Every child ends: helm runs under its own timeout. *)
FairSpec == Spec /\ \A e \in Exec : WF_vars(Complete(e))

-----------------------------------------------------------------------------
(* PROPERTIES *)

(* The records are the KEPT_JOBS last keys, each once. *)
RecordsBounded ==
    /\ Len(order) <= KeptJobs
    /\ Keys = {i \in RequestId : jobs[i] # None}
    /\ \A i, j \in 1..Len(order) : order[i] = order[j] => i = j

(* "A requestId names one execution: a repeat is refused, whether it is    *)
(* still running or finished": two children run for one requestId only if  *)
(* its record was pruned in between.                                       *)
OneExecutionWhileRecorded ==
    \A e, f \in Exec :
        exec[e].id # None /\ exec[e].id = exec[f].id => e = f \/ exec[e].id \in pruned

(* What holds of "so a recorded result can never be overwritten": as long  *)
(* as its record was never pruned, the recorded outcome of an execution is *)
(* only ever replaced by a refusal, and only an invalid command does that; *)
(* a result never turns into a run in progress.                            *)
OutcomeOnlyRefused ==
    [][\A i \in RequestId \ pruned :
          jobs[i] # None /\ jobs'[i] # None /\ jobs[i].result # None
              => \/ jobs'[i].result = jobs[i].result
                 \/ jobs'[i].result = Refusal /\ exec' = exec
                 \/ jobs[i].result = Refusal]_vars

Pending(i) == jobs[i] # None /\ jobs[i].result = None

(* "The final result follows in the ORCE flow context": an accepted        *)
(* command is not left without an outcome.                                 *)
EveryAcceptedFinishes == \A i \in RequestId : Pending(i) ~> ~Pending(i)

(* What does hold: a command whose child was spawned is not left pending,  *)
(* nor is a record that a child's late output brings back after pruning.   *)
EverySpawnedFinishes ==
    \A i \in RequestId :
        (Pending(i) /\ \E e \in Exec : exec[e].id = i /\ exec[e].st = "running") ~> ~Pending(i)
=============================================================================
