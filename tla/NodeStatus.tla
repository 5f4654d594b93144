----------------------------- MODULE NodeStatus -----------------------------
(***************************************************************************)
(* The status of one node of a workflow (types.go) and the assessment of   *)
(* that status from the node's pod (operator.go, assessNodeStatus and      *)
(* inferFailedReason).  Messages, timestamps, outputs and the pod's IP are *)
(* left out: no decision of the operator depends on them.                  *)
(***************************************************************************)
EXTENDS Naturals

(* The zero value of a phase: a workflow nobody has operated on yet, a     *)
(* node that has no entry in the workflow's status.                        *)
Unset == ""

NodePhase == {"Running", "Succeeded", "Skipped", "Failed", "Error"}

(* "children" counts the children recorded so far: the operator records    *)
(* them in the order of the template, so the count says which they are.    *)
NodeStatusType == [phase    : NodePhase \cup {Unset},
                   daemoned : BOOLEAN,
                   children : Nat]

NoStatus == [phase |-> Unset, daemoned |-> FALSE, children |-> 0]

Exists(node) == node.phase # Unset

(* Mutant: an error is not taken for an outcome. *)
Completed_NotError(node) == node.phase \in {"Succeeded", "Failed", "Skipped"}

Completed(node) == node.phase \in {"Succeeded", "Failed", "Error", "Skipped"}

Successful(node) == node.phase \in {"Succeeded", "Skipped"}

CanRetry(node) == Completed(node) /\ ~Successful(node)

-----------------------------------------------------------------------------
(* What the operator can tell of a pod.  "Ready": running, a daemon, every *)
(* container ready.  "Failed" and "Errored": the pod failed because of its *)
(* main container or a sidecar, or because of the init or wait container.  *)
(* "Unknown": a phase the operator does not expect, reported while the     *)
(* kubelet cannot be reached.                                              *)
PodPhase == {"Absent", "Pending", "Running", "Ready",
             "Succeeded", "Failed", "Errored", "Unknown"}

PodTerminated == {"Succeeded", "Failed", "Errored"}

(* A failed init container or wait container is the executor's failure and *)
(* makes the node an Error; every other failure makes it Failed.           *)
inferFailedReason(podPhase) == IF podPhase = "Errored" THEN "Error" ELSE "Failed"

(* Mutant: the pod's phase is copied to the node. *)
assessNodeStatus_Copies(podPhase, node) ==
  IF podPhase = "Absent" THEN node ELSE [node EXCEPT !.phase = podPhase]

(* Mutant: the test for a daemon is missing. *)
assessNodeStatus_AnyRunning(podPhase, node) ==
  CASE podPhase \in PodTerminated -> [node EXCEPT !.phase = podPhase, !.daemoned = FALSE]
    [] podPhase \in {"Running", "Ready"} ->
         [node EXCEPT !.phase = "Succeeded", !.daemoned = TRUE]
    [] OTHER -> node

(* Mutant: a pending pod falls into the default case. *)
assessNodeStatus_PendingFails(podPhase, node) ==
  CASE podPhase = "Succeeded" -> [node EXCEPT !.phase = "Succeeded", !.daemoned = FALSE]
    [] podPhase \in {"Failed", "Errored", "Pending"} ->
         [node EXCEPT !.phase = "Error", !.daemoned = FALSE]
    [] OTHER -> node

(* Mutant: a pod in a phase nobody expected counts as successful. *)
assessNodeStatus_UnknownSucceeds(podPhase, node) ==
  IF podPhase \in {"Absent", "Pending", "Running"} THEN node
  ELSE [node EXCEPT !.phase = IF podPhase \in {"Failed", "Errored"} THEN "Failed"
                              ELSE "Succeeded"]

(* The new status of a node whose pod is in the given phase.  A pending    *)
(* pod, and a running one that is not a ready daemon, change nothing.      *)
assessNodeStatus(podPhase, node) ==
  CASE podPhase = "Succeeded" ->
         [node EXCEPT !.phase = "Succeeded", !.daemoned = FALSE]
    [] podPhase \in {"Failed", "Errored"} ->
         [node EXCEPT !.phase = inferFailedReason(podPhase), !.daemoned = FALSE]
    [] podPhase = "Ready" ->
         [node EXCEPT !.phase = "Succeeded", !.daemoned = TRUE]
    [] podPhase = "Unknown" ->
         [node EXCEPT !.phase = "Error"]
    [] OTHER -> node
=============================================================================
