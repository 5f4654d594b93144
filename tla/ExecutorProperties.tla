-------------------------- MODULE ExecutorProperties -------------------------
(***************************************************************************)
(* What the executor owes to the step whose pod it accompanies.            *)
(***************************************************************************)
EXTENDS ResourceExecutor

(* Every variable has its type: what is saved is an output of the template,*)
(* and a container that is to be killed by force is the main container or  *)
(* a sidecar (the struct WorkflowExecutor and the pod it belongs to).      *)
TypeOK ==
  /\ tmpl \in Template /\ ctr \in [Container -> ContainerState] /\ evicted \in BOOLEAN
  /\ status \in [containers : [Container -> ContainerState], message : BOOLEAN]
  /\ term \subseteq {"main"} \cup Sidecar
  /\ execution \in BOOLEAN /\ file \in BOOLEAN /\ outputs \subseteq saved /\ message \in BOOLEAN
  /\ signal \in {"none", "sent", "pending"} /\ event \in BOOLEAN
  /\ pc \in Step /\ errors \in BOOLEAN /\ saved \subseteq tmpl.outputs
  /\ targets \subseteq Sidecar /\ exit \in {"zero", "nonzero"}
  /\ cancelled \in BOOLEAN /\ watching \in BOOLEAN /\ execCtl \in BOOLEAN
  /\ monitor \in {"off", "select", "sendFile", "sendSignal", "reload", "stopped"}
  /\ deadline \in {"off", "poll", "killing", "stopped"}
  /\ force \subseteq {"main"} \cup Sidecar
  /\ budget \in [Fault -> Nat]
  /\ resource \in Version /\ feed \in Seq(Version) /\ attempts \in 0..Attempts
  /\ shown \subseteq [success : BOOLEAN, failure : BOOLEAN]

Struck(fault) == budget[fault] < Budget[fault]

(* A step only succeeds, unless as a daemon, with all of its outputs in    *)
(* the annotation, each copied from a main container that had ended,       *)
(* although saving may fail half way, sidecars may refuse to end and the   *)
(* pod may be evicted (waitContainer, inferFailedReason).  It may succeed  *)
(* without some of them if a docker command failed, or the API server did  *)
(* not answer while the wait command waited for the main container: those  *)
(* errors are dropped, or annotated to a pod that does not fail.  And a    *)
(* parameter that jq takes from a resource that is gone is empty.          *)
SuccessHasOutputs ==
  Verdict = "Succeeded" /\ PodPhaseOf(status) # "Ready"
    => \/ outputs = tmpl.outputs \/ Struck("docker") \/ Struck("api")
       \/ IsResource /\ ~resource.exists

(* The main container is only told to stop when the controller cancelled   *)
(* the step, however events, signals and reloads interleave, and a sidecar *)
(* only once the main container has ended, or after an error               *)
(* (monitorDeadline, Wait).                                                *)
StoppedForReason ==
  /\ "main" \in term => execution
  /\ term \cap Sidecar # {} => Ended(ctr["main"]) \/ errors

(* The wait command ends after the main container, even if a sidecar       *)
(* ignores the signal, the API server and docker fail, or the goroutine    *)
(* that watches the annotations is stuck in a send that nobody receives    *)
(* (Wait, killContainers).                                                 *)
ExecutorEnds == Ended(ctr["main"]) ~> Ended(ctr["wait"])

(* A cancellation after the watch was set up ends the main container, by   *)
(* the file if the signal is lost, unless a docker command failed          *)
(* (monitorAnnotations, monitorDeadline).                                  *)
CancelIsNoticed ==
  watching /\ execution /\ ~file ~> Ended(ctr["main"]) \/ Struck("docker")

(* When the main container has ended, each sidecar that the API server     *)
(* reports as running by then ends, or is at least told to, unless a call  *)
(* fails (killSidecars).                                                   *)
SidecarsTold ==
  \A s \in Sidecar :
    Ended(ctr["main"]) /\ pc = "dockerWait" /\ status.containers[s] = "running"
      ~> Ended(ctr[s]) \/ s \in term \/ Struck("docker") \/ Struck("api")

(* A resource template with conditions only succeeds on a version that met *)
(* the one for success, and never after a version that met the one for     *)
(* failure was printed, however often kubectl was started again            *)
(* (WaitResource, checkResourceState).                                     *)
SuccessWasShown ==
  IsResource /\ tmpl.conditions # {} /\ Verdict = "Succeeded" =>
    /\ \E v \in shown : v.success
    /\ \A v \in shown : ~v.failure

Decided(v) == v.exists /\ (MeetsFailure(v) \/ MeetsSuccess(v))

(* The wait for a resource ends unless the resource meets neither          *)
(* condition now and again, or is deleted: even if the versions that met   *)
(* one before were missed between two watches (WaitResource).              *)
ResourceWaitEnds ==
  pc \in {"watch", "readJSON"}
    ~> Ended(ctr["main"]) \/ ~Decided(resource)
=============================================================================
