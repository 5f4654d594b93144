-------------------------- MODULE ControllerProcess --------------------------
(***************************************************************************)
(* The workflow controller as a process, one for the deployment of each    *)
(* namespace: it reads its configuration from the config map when it       *)
(* starts, a watch replaces the configuration while informers are set up   *)
(* and workers build pods, and every use reads the fields it needs anew,   *)
(* without a lock.  (A read finds the value of one configuration or the    *)
(* other: that a Go string may be torn is left out.)                       *)
(***************************************************************************)
EXTENDS Installation

VARIABLES
  proc,      \* [Namespace -> ProcType]
  making     \* [Namespace -> BuildType]: the pod a worker builds, or built last

controllerVars == <<proc, making>>
vars == <<installVars, controllerVars>>

NoConfig == [readable |-> FALSE, image |-> 0, resources |-> "none", instance |-> 0,
             others |-> "none"]

(* since: the version read at the start; seen: the last version the watch  *)
(* delivered; selector: the instance id the pod informer selects by.       *)
ProcType == [phase : {"down", "watching", "running"}, config : Config,
             since : Nat, seen : Nat, selector : Nat]

NoProc == [phase |-> "down", config |-> NoConfig, since |-> 0, seen |-> 0, selector |-> 0]

Build == {"none", "label", "image", "resources", "use", "create", "created", "panicked"}

BuildType == [at : Build, instance : Nat, image : 0..2]

NoBuild == [at |-> "none", instance |-> 0, image |-> 0]

ControllerInit ==
  /\ proc = [n \in Namespace |-> NoProc]
  /\ making = [n \in Namespace |-> NoBuild]

(* The rights of the deployment's account in the cluster. *)
Authorised(n) ==
  \/ deployments[n].account # "tasker"
  \/ /\ <<"controller", n>> \in accounts
     /\ role["controller"] # 0
     /\ binding["controller"] = n

-----------------------------------------------------------------------------
ResyncConfig(n) == Authorised(n) /\ configMaps[n] # <<>> /\ Valid(Current(n))

(* The process ends at once if it cannot get a valid config map, and is    *)
(* started again.                                                          *)
Start(n) ==
  /\ deployments[n].release # 0
  /\ proc[n].phase = "down"
  /\ ResyncConfig(n)
  /\ LET v == Len(configMaps[n])
     IN  proc' = [proc EXCEPT ![n] = [NoProc EXCEPT !.phase = "watching",
                                      !.config = Known(Current(n)),
                                      !.since = v, !.seen = v]]
  /\ UNCHANGED <<installVars, making>>

(* Mutant: a configuration without an image is taken. *)
updateConfig_NoImage(n, c) == IF c.readable THEN Known(c) ELSE proc[n].config

(* Mutant: only the first configuration is taken. *)
updateConfig_First(n, c) == IF Valid(proc[n].config) THEN proc[n].config ELSE Known(c)

(* A configuration that is not valid is logged and dropped. *)
updateConfig(n, c) == IF Valid(c) THEN Known(c) ELSE proc[n].config

(* The watch delivers a later version of the config map; a watch that was  *)
(* interrupted lists again and skips versions.                             *)
ConfigMapEvent(n) ==
  /\ proc[n].phase # "down"
  /\ \E v \in (proc[n].seen + 1)..Len(configMaps[n]) :
       proc' = [proc EXCEPT ![n].seen = v, ![n].config = updateConfig(n, configMaps[n][v])]
  /\ UNCHANGED <<installVars, making>>

(* The selector of the pod informer is made once, when the watch of the    *)
(* config map already runs.                                                *)
newWorkflowPodWatch(n) ==
  /\ proc[n].phase = "watching"
  /\ proc' = [proc EXCEPT ![n].phase = "running", ![n].selector = proc[n].config.instance]
  /\ UNCHANGED <<installVars, making>>

Crash(n) ==
  /\ proc[n].phase # "down"
  /\ proc' = [proc EXCEPT ![n] = NoProc]
  /\ making' = [making EXCEPT ![n] = NoBuild]
  /\ UNCHANGED installVars

-----------------------------------------------------------------------------
(* createWorkflowPod, as far as it reads the configuration: the instance   *)
(* id for the label, read twice (0 stands for no label, or an empty one),  *)
(* then for an executor's container the image and the resources, which are *)
(* read twice as well.  A pod has one such container or two; each is built *)
(* the same way.  (The main container of a resource template runs the      *)
(* executor's image as well: executeResource reads it before the label,    *)
(* and the resources not at all.)                                          *)
Builds(n, build) ==
  /\ making' = [making EXCEPT ![n] = build]
  /\ UNCHANGED <<installVars, proc>>

CheckInstance(n) ==
  /\ proc[n].phase = "running"
  /\ making[n].at \in {"none", "created", "panicked"}
  /\ Builds(n, [NoBuild EXCEPT !.at = IF proc[n].config.instance # 0 THEN "label" ELSE "image"])

LabelInstance(n) ==
  /\ making[n].at = "label"
  /\ Builds(n, [making[n] EXCEPT !.instance = proc[n].config.instance, !.at = "image"])

ReadImage(n) ==
  /\ making[n].at \in {"image", "create"}
  /\ Builds(n, [making[n] EXCEPT !.image = proc[n].config.image, !.at = "resources"])

HasResources(n) == proc[n].config.resources # "none"

(* Mutant: the resources are used without the check. *)
CheckResources_NoCheck(n) ==
  /\ making[n].at = "resources"
  /\ Builds(n, [making[n] EXCEPT !.at = "use"])

CheckResources(n) ==
  /\ making[n].at = "resources"
  /\ Builds(n, [making[n] EXCEPT !.at = IF HasResources(n) THEN "use" ELSE "create"])

(* The pointer is nil by now if the resources were removed from the map:   *)
(* the worker panics, and operate recovers with the workflow in Error.     *)
UseResources(n) ==
  /\ making[n].at = "use"
  /\ Builds(n, [making[n] EXCEPT !.at = IF HasResources(n) THEN "create" ELSE "panicked"])

CreatePod(n) ==
  /\ making[n].at = "create"
  /\ Builds(n, [making[n] EXCEPT !.at = "created"])

createWorkflowPod(n) ==
  \/ CheckInstance(n) \/ LabelInstance(n) \/ ReadImage(n)
  \/ CheckResources(n) \/ UseResources(n) \/ CreatePod(n)

-----------------------------------------------------------------------------
Init == InstallInit /\ ControllerInit

Controller(n) == ConfigMapEvent(n) \/ newWorkflowPodWatch(n) \/ createWorkflowPod(n)

Next ==
  \/ /\ \/ \E i \in Installer : Begin(i) \/ Install(i)
        \/ Establish
        \/ \E n \in Namespace, c \in Edit : EditConfigMap(n, c)
     /\ UNCHANGED controllerVars
  \/ \E n \in Namespace : Start(n) \/ Controller(n) \/ Crash(n)

Spec == Init /\ [][Next]_vars

(* The kubelet starts the process again whenever it ends, the watch of the *)
(* config map delivers what there is, goroutines that can go on do.        *)
FairSpec ==
  /\ Spec
  /\ \A n \in Namespace : WF_vars(Start(n)) /\ WF_vars(ConfigMapEvent(n))
                          /\ WF_vars(newWorkflowPodWatch(n))
=============================================================================
