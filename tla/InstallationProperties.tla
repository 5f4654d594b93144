----------------------- MODULE InstallationProperties ------------------------
(***************************************************************************)
(* What the install command and the configuration of the controller        *)
(* promise each other.                                                     *)
(***************************************************************************)
EXTENDS ControllerProcess

TypeOK ==
  /\ crd \in {"absent", "created", "established"}
  /\ accounts \subseteq Part \X Namespace
  /\ role \in [Part -> Release \cup {0}]
  /\ binding \in [Part -> Namespace \cup {NoNamespace}]
  /\ configMaps \in [Namespace -> Seq(Config)]
  /\ deployments \in [Namespace -> [release : 0..2, account : {"", "own", "tasker"}]]
  /\ step \in [Installer -> Step] /\ part \in [Installer -> Part]
  /\ read \in [Installer -> Nat]
  /\ moved \subseteq Namespace
  /\ proc \in [Namespace -> ProcType]
  /\ making \in [Namespace -> BuildType]

(* The deployment comes last: when it is there, so is all that its process *)
(* needs, whichever of several commands that ran at once, failed or were   *)
(* run again made it (Install).  The binding is cluster wide and may be    *)
(* another namespace's.                                                    *)
DeployedLast ==
  \A n \in Namespace : deployments[n].release # 0 =>
    /\ crd = "established"
    /\ configMaps[n] # <<>>
    /\ Authorised(n) \/ binding["controller"] \in Namespace \ {n}

(* A command that replaces a config map loses no administrator's edit of a *)
(* field it knows, however commands and edits overlap: it takes over the   *)
(* fields of the version just before but for the image, and only with      *)
(* --upgrade (installConfigMap, by way of the resource version).  What the *)
(* map said besides - other keys, other fields, comments - is dropped.     *)
KnownFieldsSurvive ==
  [][\A i \in Installer : step[i] # step'[i] =>
       \A n \in Namespace : configMaps'[n] # configMaps[n] /\ configMaps[n] # <<>> =>
         /\ Flags[i].upgrade
         /\ configMaps'[n] = Append(configMaps[n],
                                    [Known(Current(n)) EXCEPT !.image = Flags[i].release])]_vars

(* The valid versions of the config map a process may have seen. *)
Versions(n) == {v \in proc[n].since..proc[n].seen : Valid(configMaps[n][v])}

(* The image of each executor's container was valid in the config map      *)
(* since the process started, though the map may have become invalid       *)
(* meanwhile (updateConfig, newExecContainer).                             *)
ImagesFromConfigMap ==
  \A n \in Namespace : making[n].at \notin {"none", "label", "image"} =>
    \E v \in Versions(n) : configMaps[n][v].image = making[n].image

(* The pod informer sees every pod the controller makes, unless an         *)
(* administrator changed the instance id: upgrades keep it, whatever       *)
(* instance id they are run with (newWorkflowPodWatch, createWorkflowPod). *)
PodsWatched ==
  \A n \in Namespace :
    making[n].at = "created" => making[n].instance = proc[n].selector \/ n \in moved

(* A worker only panics over the executor's resources if they were removed *)
(* from the map since the process started (newExecContainer).              *)
PanicsOnRemoval ==
  \A n \in Namespace : making[n].at = "panicked" =>
    \E v, w \in Versions(n) :
      /\ v < w
      /\ configMaps[n][v].resources # "none"
      /\ configMaps[n][w].resources = "none"

(* Once the config map is valid and no longer changes, the controller runs *)
(* with it, whether it was up all along or had to be started again, unless *)
(* it crashes again and again (ResyncConfig, watchControllerConfigMap).    *)
ConfigTaken ==
  \A n \in Namespace :
    \/ []<>(deployments[n].release # 0 /\ Authorised(n) /\ Valid(Current(n)) =>
               proc[n].phase = "running" /\ proc[n].config = Known(Current(n)))
    \/ []<><<Crash(n)>>_vars
=============================================================================
