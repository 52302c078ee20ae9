------------------------- MODULE LifecycleDeployment -------------------------
(***************************************************************************)
(* scripts/lifecycle.sh as the Builder node's child: a Helm release        *)
(* deployed or uninstalled, and reported to the node line by line.         *)
(*                                                                         *)
(* A step of the script ends with the line it prints, which the node reads *)
(* in a turn of its own; the script never looks at the node, so that both  *)
(* are one step here.  Helm and the cluster are external: an operation     *)
(* begins only on a release with none under way, and then it completes, or *)
(* fails and is rolled back.                                               *)
(***************************************************************************)
EXTENDS LifecycleNode

CONSTANTS
    Release,         \* the releases commands name
    MaxKills         \* bound: scripts killed together with their helm

ASSUME DeploymentAssumption == MaxKills \in Nat /\ None \notin Release

VARIABLES
    script,          \* of each child: its command, where it is, what Helm did for it
    helm,            \* of each release: whether it is deployed, and the
                     \* child whose operation is under way
    kills

dvars == <<jobs, order, exec, faults, pruned, script, helm, kills>>
outside == <<helm, kills>>

Actions == {"deploy", "uninstall"}
NoScript == [action |-> None, release |-> None, at |-> "none", did |-> FALSE]

At(e, step) == script[e].at = step
ReleaseOf(e) == helm[script[e].release]

(* The script goes on to step; s is what else its record holds. *)
Goes(e, step) == script' = [script EXCEPT ![e].at = step]

-----------------------------------------------------------------------------
DeploymentInit ==
    /\ Init
    /\ script = [e \in Exec |-> NoScript]
    /\ helm = [r \in Release |-> [deployed |-> FALSE, busy |-> None]]
    /\ kills = 0

(* A command of the node's, and the spawn of its script. *)
Spawn(e, id, r, a) ==
    /\ Accept(e, id)
    /\ script' = [script EXCEPT ![e] = [NoScript EXCEPT !.action = a, !.release = r, !.at = "start"]]
    /\ UNCHANGED outside

(* The parameters are as the node checked them. *)
Validate(e) ==
    /\ At(e, "start")
    /\ Goes(e, "namespace")
    /\ Progress(e)
    /\ UNCHANGED outside

(* The namespace is there: on to helm uninstall, or to the dry-run. *)
Proceeds(e) ==
    /\ At(e, "namespace")
    /\ Goes(e, IF script[e].action = "deploy" THEN "dry-run" ELSE "uninstall")
    /\ Progress(e)
    /\ UNCHANGED outside

DryRun(e) ==
    /\ At(e, "dry-run")
    /\ Goes(e, "deploy")
    /\ Progress(e)
    /\ UNCHANGED outside

HelmBegins(e) ==
    /\ At(e, "deploy") /\ ReleaseOf(e).busy = None
    /\ helm' = [helm EXCEPT ![script[e].release].busy = e]
    /\ Goes(e, "upgrading")
    /\ UNCHANGED <<vars, kills>>

(* The release is ready; its inventory is still to be read. *)
HelmUpgrades(e) ==
    /\ At(e, "upgrading") /\ ReleaseOf(e).busy = e
    /\ helm' = [helm EXCEPT ![script[e].release] = [deployed |-> TRUE, busy |-> None]]
    /\ script' = [script EXCEPT ![e].at = "inventory", ![e].did = TRUE]
    /\ UNCHANGED <<vars, kills>>

(* Defect variant: the exit status of helm is lost, as in a pipe. *)
RollbackUnnoticed(e) ==
    /\ At(e, "upgrading")
    /\ helm' = [helm EXCEPT ![script[e].release].busy = IF @ = e THEN None ELSE @]
    /\ Goes(e, "inventory")
    /\ UNCHANGED <<vars, kills>>

(* --rollback-on-failure: the release is what it was, or is gone. *)
HelmRollsBack(e) ==
    /\ At(e, "upgrading")
    /\ helm' = [helm EXCEPT ![script[e].release].busy = IF @ = e THEN None ELSE @]
    /\ Goes(e, "failed")
    /\ Progress(e)
    /\ UNCHANGED kills

(* helm get manifest, kubectl get, helm status: all of the release as it   *)
(* is by then.                                                             *)
ReadInventory(e) ==
    /\ At(e, "inventory") /\ ReleaseOf(e).deployed
    /\ Goes(e, "done")
    /\ Progress(e)
    /\ UNCHANGED outside

(* helm uninstall removes the record, of an upgrade under way too. *)
Uninstall(e) ==
    /\ At(e, "uninstall")
    /\ ReleaseOf(e).deployed \/ ReleaseOf(e).busy # None
    /\ helm' = [helm EXCEPT ![script[e].release] = [deployed |-> FALSE, busy |-> None]]
    /\ script' = [script EXCEPT ![e].at = "done", ![e].did = TRUE]
    /\ Progress(e)
    /\ UNCHANGED kills

(* fail: the namespace, the chart, the release to uninstall, the schema,   *)
(* the dry-run, or Helm, which also refuses a release that is busy.        *)
Fails(e) ==
    /\ script[e].at \in {"namespace", "uninstall", "dry-run", "deploy"}
    /\ Goes(e, "failed")
    /\ Progress(e)
    /\ UNCHANGED outside

(* result: the line, and an exit with its status. *)
Reports(e) ==
    /\ script[e].at \in {"done", "failed"}
    /\ ResultLine(e, IF At(e, "done") THEN "ok" ELSE "failed")
    /\ Goes(e, "exit")
    /\ UNCHANGED outside

(* The trap: a digest cannot be computed, or the inventory of a release    *)
(* that is ready cannot be read.                                           *)
StopsUnexpectedly(e) ==
    /\ At(e, "inventory") \/ (At(e, "namespace") /\ script[e].action = "deploy")
    /\ ResultLine(e, "systemError")
    /\ Goes(e, "exit")
    /\ UNCHANGED outside

(* The script is killed with its helm, or was never spawned: no line, and  *)
(* a release may stay busy.                                                *)
Killed(e) ==
    /\ kills < MaxKills
    /\ kills' = kills + 1
    /\ exec[e].st = "running" /\ ~At(e, "exit")
    /\ Goes(e, "exit")
    /\ UNCHANGED <<vars, helm>>

Ends(e) ==
    /\ At(e, "exit")
    /\ Complete(e)
    /\ UNCHANGED <<script, outside>>

Step(e) ==
    \/ Validate(e) \/ Proceeds(e) \/ DryRun(e)
    \/ HelmBegins(e) \/ HelmUpgrades(e) \/ HelmRollsBack(e) \/ ReadInventory(e)
    \/ Uninstall(e) \/ Fails(e) \/ Reports(e) \/ StopsUnexpectedly(e) \/ Ends(e)

DeploymentNext ==
    \/ \E id \in RequestId :
          \/ Refuse(id) /\ UNCHANGED <<script, outside>>
          \/ AcceptThrows(id) /\ UNCHANGED <<script, outside>>
          \/ \E e \in Exec, r \in Release, a \in Actions : Spawn(e, id, r, a)
    \/ \E e \in Exec : Step(e) \/ Killed(e)

DeploymentSpec == DeploymentInit /\ [][DeploymentNext]_dvars

(* Every step of a script ends: helm runs under its own timeout. *)
DeploymentFairSpec == DeploymentSpec /\ \A e \in Exec : WF_dvars(Step(e))

-----------------------------------------------------------------------------
(* PROPERTIES *)

(* A result in the context is that of a child of its own requestId, and it *)
(* is true of the cluster: a success means that Helm did what this very    *)
(* command asked, and a failure reported as the deployment's that Helm did *)
(* not; a systemError says neither.  Whatever other commands, refusals,    *)
(* pruned records, kills and failing reads came in between.                *)
ResultIsTrue ==
    \A i \in RequestId :
        jobs[i] # None /\ jobs[i].result # None =>
            LET r == jobs[i].result
            IN  r.by # None => /\ exec[r.by].st = "over" /\ exec[r.by].id = i
                               /\ r.outcome = "ok" => script[r.by].did
                               /\ r.outcome = "failed" => ~script[r.by].did
=============================================================================
