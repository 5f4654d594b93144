--------------------------- MODULE PodContainers ----------------------------
(***************************************************************************)
(* The pod of one step as createWorkflowPod lays it out: the main          *)
(* container, the wait container with the executor, sidecars, and an init  *)
(* container when there is something to stage; none of them is restarted.  *)
(* The main container of a resource template runs the executor itself.     *)
(* Docker's view of the containers runs ahead of the status that the       *)
(* kubelet reports to the API server, and the controller draws its verdict *)
(* from the latter.                                                        *)
(***************************************************************************)
EXTENDS NodeStatus

CONSTANTS
  Sidecar,     \* the sidecars' names
  Template     \* the templates considered

Container == {"init", "main", "wait"} \cup Sidecar

Output == {"artifacts", "parameters", "result"}

Condition == {"success", "failure"}

(* What a template asks for; the action is "none" unless it is a resource  *)
(* template, which has the conditions it states.                           *)
TemplateType ==
  [init : BOOLEAN, daemon : BOOLEAN, sidecars : SUBSET Sidecar, outputs : SUBSET Output,
   action : {"none", "get", "create", "apply", "delete", "replace"},
   conditions : SUBSET Condition]

ASSUME ContainerAssumption ==
  /\ Sidecar \cap {"init", "main", "wait"} = {}
  /\ Template \subseteq TemplateType
  /\ \A t \in Template : t.action # "none" =>
       ~t.init /\ ~t.daemon /\ t.outputs \subseteq {"parameters"}

VARIABLES
  tmpl,      \* the step's template
  ctr,       \* the containers as docker has them
  evicted,   \* the kubelet gave up on the pod
  status,    \* the pod's status in the API server
  term       \* the containers that somebody told to stop

containers == <<tmpl, ctr, evicted, status, term>>

ContainerState == {"waiting", "running", "zero", "nonzero"}

Ended(state) == state \in {"zero", "nonzero"}

(* The containers beside the init container. *)
Regular == Container \ {"init"}

IsResource == tmpl.action # "none"

(* The container that runs the executor to the end of the step. *)
Host == IF IsResource THEN "main" ELSE "wait"

Present == {"main", Host} \cup tmpl.sidecars \cup {c \in {"init"} : tmpl.init}

(* A container that the pod does not have counts as one that ended well. *)
ContainersInit ==
  /\ tmpl \in Template
  /\ ctr = [c \in Container |-> IF c \in Present THEN "waiting" ELSE "zero"]
  /\ evicted = FALSE
  /\ status = [containers |-> ctr, message |-> FALSE]
  /\ term = {}

(* "docker kill --signal TERM" of containers by the IDs in the pod's       *)
(* status, which are empty for a container that waits: those that run get  *)
(* the signal, and the command fails unless all of them do.                *)
Reached(c) == status.containers[c] # "waiting" /\ ctr[c] = "running"
Terminate(cs) == term' = term \cup {c \in cs : Reached(c)}

(* A container with a process of its own ends when it likes, whether it    *)
(* was told to stop or not.                                                *)
ContainerEnds(c) ==
  /\ c \in Regular \ {Host}
  /\ ctr[c] = "running"
  /\ \E code \in {"zero", "nonzero"} : ctr' = [ctr EXCEPT ![c] = code]
  /\ UNCHANGED <<tmpl, evicted, status, term>>

(* The kubelet's report: a snapshot of all the containers. *)
Report ==
  /\ status # [containers |-> ctr, message |-> evicted]
  /\ status' = [containers |-> ctr, message |-> evicted]
  /\ UNCHANGED <<tmpl, ctr, evicted, term>>

-----------------------------------------------------------------------------
(* What the controller makes of the status.                                *)

Some(s, cs) == \E c \in cs : s.containers[c] = "nonzero"

Phase(s) ==
  IF s.message \/ Some(s, {"init"}) THEN "Failed"
  ELSE IF \A c \in Regular : Ended(s.containers[c])
       THEN IF Some(s, Regular) THEN "Failed" ELSE "Succeeded"
  ELSE IF \E c \in Regular : s.containers[c] = "waiting" THEN "Pending"
  ELSE "Running"

(* The containers are looked at in the order of preference init, main,     *)
(* wait, sidecars, and a message of the kubelet comes before all of them.  *)
FailedReason(s) ==
  IF s.message THEN "Failed"
  ELSE IF Some(s, {"init"}) THEN "Error"
  ELSE IF Some(s, {"main"}) THEN "Failed"
  ELSE IF Some(s, {"wait"}) THEN "Error"
  ELSE "Failed"

(* The pod as the model of the operation sees it. *)
PodPhaseOf(s) ==
  CASE Phase(s) = "Failed" -> IF FailedReason(s) = "Error" THEN "Errored" ELSE "Failed"
    [] Phase(s) = "Running" ->
         IF tmpl.daemon /\ \A c \in Regular \cap Present : s.containers[c] = "running" THEN "Ready"
         ELSE "Running"
    [] OTHER -> Phase(s)

(* The phase of the step's node, once its pod has ended. *)
Verdict == assessNodeStatus(PodPhaseOf(status), [NoStatus EXCEPT !.phase = "Running"]).phase
=============================================================================
