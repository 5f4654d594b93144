---------------------------- MODULE Installation ----------------------------
(***************************************************************************)
(* `tasker install` (install.go): commands that may run at the same time   *)
(* and more than once, against the objects of one cluster.  The first      *)
(* error of a call ends a command (log.Fatalf) and leaves what it did; the *)
(* answer of a call may be lost after it took effect.  An administrator    *)
(* edits the config map of an installation meanwhile.                      *)
(***************************************************************************)
EXTENDS Naturals, Sequences, FiniteSets

CONSTANTS
  Namespace,
  NoNamespace,
  Installer,     \* commands, each with its flags
  Flags,         \* [Installer -> FlagType]
  RBAC,          \* whether the role cluster-admin exists
  Edit,          \* what an administrator may write into a config map
  MaxVersions    \* no command or edit starts once a config map has as many versions

(* A release stands for the images and the rules a build of tasker comes   *)
(* with, 0 for none.  Accounts are "" (no flag), "own" (given by flag) or  *)
(* "tasker" (made by the command).                                         *)
Release == 1..2
Part == {"controller", "ui"}

FlagType == [ns : Namespace, release : Release, instance : Nat, upgrade : BOOLEAN,
             account : [Part -> {"", "own"}]]

(* What a config map says: whether it has the key and the key parses, the  *)
(* executor's image, its resources (or "none"), the instance id, and       *)
(* whether it says anything else: other keys, other fields, comments.      *)
Config == [readable : BOOLEAN, image : 0..2, resources : {"none", "some"}, instance : Nat,
           others : {"none", "some"}]

ASSUME InstallationAssumption ==
  /\ NoNamespace \notin Namespace
  /\ Flags \in [Installer -> FlagType]
  /\ RBAC \in BOOLEAN
  /\ Edit \subseteq Config
  /\ MaxVersions \in Nat

VARIABLES
  crd,           \* "absent", "created" or "established"
  accounts,      \* subset of Part \X Namespace: the service accounts made
  role,          \* [Part -> Release \cup {0}]: the rules of the cluster role
  binding,       \* [Part -> namespace of the account that is bound]
  configMaps,    \* [Namespace -> Seq(Config)]: the versions of the config map
  deployments,   \* [Namespace -> [release, account]], release 0 when absent
  step, part,    \* per command: the next call ("idle": not started, or ended), and
                 \* for whom the account is
  read,          \* per command: the version of the config map it has read
  moved          \* history: namespaces whose instance id an administrator changed

objects  == <<crd, accounts, role, binding, configMaps, deployments>>
commands == <<step, part, read>>
installVars == <<objects, commands, moved>>

Step == {"idle", "version", "crd", "established", "rbac", "account", "role", "roleGet",
         "roleUpdate", "binding", "configMap", "configMapGet", "configMapUpdate",
         "deployment", "deploymentGet", "deploymentUpdate"}

InstallInit ==
  /\ crd = "absent"
  /\ accounts = {}
  /\ role = [p \in Part |-> 0]
  /\ binding = [p \in Part |-> NoNamespace]
  /\ configMaps = [n \in Namespace |-> <<>>]
  /\ deployments = [n \in Namespace |-> [release |-> 0, account |-> ""]]
  /\ step = [i \in Installer |-> "idle"]
  /\ part = [i \in Installer |-> "controller"]
  /\ read = [i \in Installer |-> 0]
  /\ moved = {}

Current(n) == configMaps[n][Len(configMaps[n])]

(* What is left of a config map in a WorkflowControllerConfig: other keys  *)
(* are not read, and Unmarshal drops the fields that the struct has not.   *)
Known(c) == [c EXCEPT !.others = "none"]

(* updateConfig: what the controller takes for a configuration. *)
Valid(c) == c.readable /\ c.image # 0

-----------------------------------------------------------------------------
Goes(i, next) == step' = [step EXCEPT ![i] = next]

(* The call was answered, or the answer is lost and the command ends. *)
Answered(i, next) ==
  /\ Goes(i, next) \/ Goes(i, "idle")
  /\ read' = [read EXCEPT ![i] = 0]
  /\ UNCHANGED moved

(* A call fails without effect. *)
Fails(i) ==
  /\ step[i] # "idle"
  /\ Goes(i, "idle")
  /\ read' = [read EXCEPT ![i] = 0]
  /\ UNCHANGED <<objects, part, moved>>

(* The command is given, for the first time or again. *)
Begin(i) ==
  /\ step[i] = "idle"
  /\ \A n \in Namespace : Len(configMaps[n]) < MaxVersions
  /\ Goes(i, "version")
  /\ part' = [part EXCEPT ![i] = "controller"]
  /\ UNCHANGED <<objects, read, moved>>

kubernetesVersionCheck(i) ==
  /\ step[i] = "version"
  /\ Goes(i, "crd") \/ Goes(i, "idle")
  /\ UNCHANGED <<objects, part, read, moved>>

(* Created, or there already. *)
installCRD(i) ==
  /\ step[i] = "crd"
  /\ crd' = IF crd = "absent" THEN "created" ELSE crd
  /\ Answered(i, "established")
  /\ UNCHANGED <<accounts, role, binding, configMaps, deployments, part>>

(* Mutant: an error of the poll is ignored. *)
waitForCRD_GoesOn(i) ==
  /\ step[i] = "established"
  /\ Goes(i, "rbac")
  /\ UNCHANGED <<objects, part, read, moved>>

(* The poll sees the definition established, or its minute has passed. *)
waitForCRD(i) ==
  /\ step[i] = "established"
  /\ IF crd = "established" THEN Goes(i, "rbac") ELSE Goes(i, "idle")
  /\ UNCHANGED <<objects, part, read, moved>>

(* The API server accepts the names of the definition. *)
Establish ==
  /\ crd = "created"
  /\ crd' = "established"
  /\ UNCHANGED <<accounts, role, binding, configMaps, deployments, commands, moved>>

(* On to the other part's account, or to the config map. *)
NextPart(i) ==
  IF part[i] = "controller"
  THEN part' = [part EXCEPT ![i] = "ui"] /\ Answered(i, "rbac")
  ELSE UNCHANGED part /\ Answered(i, "configMap")

(* An account is only made if none is given and the cluster has RBAC. *)
clusterAdminExists(i) ==
  /\ step[i] = "rbac"
  /\ IF Flags[i].account[part[i]] = "" /\ RBAC
     THEN Answered(i, "account") /\ UNCHANGED part
     ELSE NextPart(i)
  /\ UNCHANGED objects

(* Mutant: the account is not made in the namespace of the installation. *)
createServiceAccount_NoNamespace(i) ==
  /\ step[i] = "account"
  /\ accounts' = accounts \cup {<<part[i], NoNamespace>>}
  /\ Answered(i, "role")
  /\ UNCHANGED <<crd, role, binding, configMaps, deployments, part>>

createServiceAccount(i) ==
  /\ step[i] = "account"
  /\ accounts' = accounts \cup {<<part[i], Flags[i].ns>>}
  /\ Answered(i, "role")
  /\ UNCHANGED <<crd, role, binding, configMaps, deployments, part>>

(* A role of other rules is read first and then replaced, whoever changed  *)
(* it in between, and only with --upgrade.                                 *)
createClusterRole(i) ==
  /\ step[i] = "role"
  /\ IF role[part[i]] = 0
     THEN role' = [role EXCEPT ![part[i]] = Flags[i].release] /\ Answered(i, "binding")
     ELSE UNCHANGED role /\ Answered(i, "roleGet")
  /\ UNCHANGED <<crd, accounts, binding, configMaps, deployments, part>>

getClusterRole(i) ==
  /\ step[i] = "roleGet"
  /\ Goes(i, IF role[part[i]] = Flags[i].release THEN "binding"
             ELSE IF Flags[i].upgrade THEN "roleUpdate" ELSE "idle")
  /\ UNCHANGED <<objects, part, read, moved>>

updateClusterRole(i) ==
  /\ step[i] = "roleUpdate"
  /\ role' = [role EXCEPT ![part[i]] = Flags[i].release]
  /\ Answered(i, "binding")
  /\ UNCHANGED <<crd, accounts, binding, configMaps, deployments, part>>

(* A binding that is there is left as it is, whichever namespace it is for. *)
createClusterRoleBinding(i) ==
  /\ step[i] = "binding"
  /\ binding' = IF binding[part[i]] = NoNamespace
                THEN [binding EXCEPT ![part[i]] = Flags[i].ns] ELSE binding
  /\ NextPart(i)
  /\ UNCHANGED <<crd, accounts, role, configMaps, deployments>>

-----------------------------------------------------------------------------
NewConfig(i) == [readable |-> TRUE, image |-> Flags[i].release, resources |-> "none",
                 instance |-> Flags[i].instance, others |-> "none"]

(* A new version of the config map of a namespace. *)
Write(n, c) == configMaps' = [configMaps EXCEPT ![n] = Append(@, c)]

installConfigMap(i) ==
  LET n == Flags[i].ns
  IN  /\ step[i] = "configMap"
      /\ IF configMaps[n] = <<>>
         THEN Write(n, NewConfig(i)) /\ Answered(i, "deployment")
         ELSE UNCHANGED configMaps /\ Answered(i, "configMapGet")
      /\ UNCHANGED <<crd, accounts, role, binding, deployments, part>>

(* An existing map is only looked at for the executor's image. *)
getConfigMap(i) ==
  LET n == Flags[i].ns
  IN  /\ step[i] = "configMapGet"
      /\ read' = [read EXCEPT ![i] = Len(configMaps[n])]
      /\ Goes(i, IF ~Current(n).readable THEN "idle"
                 ELSE IF Current(n).image = Flags[i].release THEN "deployment"
                 ELSE IF Flags[i].upgrade THEN "configMapUpdate" ELSE "idle")
      /\ UNCHANGED <<objects, part, moved>>

(* Mutant: the flag --instanceid is applied to an existing map. *)
Upgraded_TakesInstance(i, c) ==
  [Known(c) EXCEPT !.image = Flags[i].release, !.instance = Flags[i].instance]

(* The configuration that was read, with the new image, becomes all of the *)
(* map's data.                                                             *)
Upgraded(i, c) == [Known(c) EXCEPT !.image = Flags[i].release]

(* Mutant: an update without the resource version. *)
updateConfigMap_NoVersion(i) ==
  LET n == Flags[i].ns
  IN  /\ step[i] = "configMapUpdate"
      /\ Write(n, Upgraded(i, configMaps[n][read[i]]))
      /\ Answered(i, "deployment")
      /\ UNCHANGED <<crd, accounts, role, binding, deployments, part>>

(* The update names the version that was read and fails if it is not the   *)
(* latest.                                                                 *)
updateConfigMap(i) ==
  LET n == Flags[i].ns
  IN  /\ step[i] = "configMapUpdate"
      /\ IF read[i] = Len(configMaps[n])
         THEN Write(n, Upgraded(i, configMaps[n][read[i]])) /\ Answered(i, "deployment")
         ELSE UNCHANGED <<configMaps, moved>> /\ Goes(i, "idle")
              /\ read' = [read EXCEPT ![i] = 0]
      /\ UNCHANGED <<crd, accounts, role, binding, deployments, part>>

AccountOf(i) ==
  IF Flags[i].account["controller"] = "" /\ RBAC THEN "tasker"
  ELSE Flags[i].account["controller"]

Deployed(i) ==
  deployments' = [deployments EXCEPT ![Flags[i].ns] =
                    [release |-> Flags[i].release, account |-> AccountOf(i)]]

installController(i) ==
  /\ step[i] = "deployment"
  /\ IF deployments[Flags[i].ns].release = 0
     THEN Deployed(i) /\ Answered(i, "idle")
     ELSE UNCHANGED deployments /\ Answered(i, "deploymentGet")
  /\ UNCHANGED <<crd, accounts, role, binding, configMaps, part>>

(* The containers are compared, the account is not. *)
upgradeNeeded(i) == deployments[Flags[i].ns].release # Flags[i].release

getDeployment(i) ==
  /\ step[i] = "deploymentGet"
  /\ Goes(i, IF ~upgradeNeeded(i) THEN "idle"
             ELSE IF Flags[i].upgrade THEN "deploymentUpdate" ELSE "idle")
  /\ UNCHANGED <<objects, part, read, moved>>

updateDeployment(i) ==
  /\ step[i] = "deploymentUpdate"
  /\ Deployed(i)
  /\ Answered(i, "idle")
  /\ UNCHANGED <<crd, accounts, role, binding, configMaps, part>>

Install(i) ==
  \/ kubernetesVersionCheck(i) \/ installCRD(i) \/ waitForCRD(i) \/ clusterAdminExists(i)
  \/ createServiceAccount(i) \/ createClusterRole(i) \/ getClusterRole(i)
  \/ updateClusterRole(i) \/ createClusterRoleBinding(i) \/ installConfigMap(i)
  \/ getConfigMap(i) \/ updateConfigMap(i) \/ installController(i)
  \/ getDeployment(i) \/ updateDeployment(i) \/ Fails(i)

(* Versions that did not come from a command. *)
EditConfigMap(n, c) ==
  /\ configMaps[n] # <<>>
  /\ Len(configMaps[n]) < MaxVersions
  /\ c # Current(n)
  /\ Write(n, c)
  /\ moved' = IF c.instance = Current(n).instance THEN moved ELSE moved \cup {n}
  /\ UNCHANGED <<crd, accounts, role, binding, deployments, commands>>
=============================================================================
