------------------------- MODULE Installation_proofs -------------------------
(***************************************************************************)
(* Proofs that the deployment comes last, that commands keep what they     *)
(* know of a config map, and that the processes that run on them use what was            *)
(* configured, for any number of commands, flags, namespaces and edits.    *)
(*                                                                         *)
(* The invariant says of each command what it knows at the step it is at   *)
(* (Knows).  All of it is about objects that are never taken away again    *)
(* (Grows), so what one command knows no other one can disturb.  Config    *)
(* maps only grow as well (ConfigMapsGrow), so that what a process has     *)
(* seen of one is still there when it is used (ConfigSeen).                *)
(***************************************************************************)
EXTENDS InstallationProperties, TLAPS

CommandTypeOK ==
  /\ step \in [Installer -> Step]
  /\ part \in [Installer -> Part]
  /\ read \in [Installer -> Nat]

ObjectTypeOK ==
  /\ crd \in {"absent", "created", "established"}
  /\ accounts \subseteq Part \X Namespace
  /\ role \in [Part -> 0..2]
  /\ binding \in [Part -> Namespace \cup {NoNamespace}]
  /\ configMaps \in [Namespace -> Seq(Config)]
  /\ deployments \in [Namespace -> [release : 0..2, account : {"", "own", "tasker"}]]
  /\ moved \subseteq Namespace

InstallTypeOK == ObjectTypeOK /\ CommandTypeOK

(* What the account of a namespace's controller needs, whoever is bound.   *)
HasRights(n) ==
  /\ <<"controller", n>> \in accounts
  /\ role["controller"] # 0
  /\ binding["controller"] \in Namespace

RoleSteps == {"roleGet", "roleUpdate", "binding"}
MapSteps  == {"configMapGet", "configMapUpdate", "deployment", "deploymentGet",
              "deploymentUpdate"}

(* What a command knows when it is at step s for the account of part p. *)
KnowsAt(i, s, p) ==
  LET n == Flags[i].ns
  IN  /\ s \notin {"idle", "version", "crd", "established"} => crd = "established"
      /\ p = "controller" /\ s \in RoleSteps \cup {"role"} => <<"controller", n>> \in accounts
      /\ p = "controller" /\ s \in RoleSteps => role["controller"] # 0
      /\ s \in MapSteps \cup {"configMap"} => p = "ui"
      /\ p = "ui" /\ s # "idle" /\ AccountOf(i) = "tasker" => HasRights(n)
      /\ s \in MapSteps => configMaps[n] # <<>>
      /\ s = "configMapUpdate" => Flags[i].upgrade

Knows(i) == KnowsAt(i, step[i], part[i])

(* A deployment with an account comes with all that it needs. *)
Supplied(n, account) ==
  /\ crd = "established"
  /\ configMaps[n] # <<>>
  /\ account = "tasker" => HasRights(n)

SuppliedIfThere(n) == deployments[n].release # 0 => Supplied(n, deployments[n].account)

Inv ==
  /\ InstallTypeOK
  /\ \A i \in Installer : Knows(i)
  /\ \A n \in Namespace : SuppliedIfThere(n)

-----------------------------------------------------------------------------
(* No object is taken away. *)
Grows ==
  /\ crd = "established" => crd' = "established"
  /\ accounts \subseteq accounts'
  /\ role["controller"] # 0 => role'["controller"] # 0
  /\ binding["controller"] \in Namespace => binding'["controller"] \in Namespace
  /\ \A n \in Namespace : configMaps[n] # <<>> => configMaps'[n] # <<>>

(* A step of one command: it learns what it needs to know, the others do   *)
(* not move, and a deployment is only made with all that it needs.         *)
StepOf(i) ==
  /\ InstallTypeOK'
  /\ Grows
  /\ Knows(i)'
  /\ \A j \in Installer \ {i} : step'[j] = step[j] /\ part'[j] = part[j]
  /\ \A n \in Namespace :
       \/ deployments'[n] = deployments[n]
       \/ Supplied(n, deployments'[n].account)

LEMMA FlagTypes ==
  ASSUME NEW i \in Installer
  PROVE  /\ Flags[i].ns \in Namespace /\ Flags[i].release \in 1..2
         /\ Flags[i].instance \in Nat /\ Flags[i].upgrade \in BOOLEAN
         /\ Flags[i].account["controller"] \in {"", "own"}
         /\ AccountOf(i) \in {"", "own", "tasker"}
         /\ NewConfig(i) \in Config
<1>1. Flags[i] \in FlagType
  BY InstallationAssumption DEF InstallationAssumption
<1>2. /\ Flags[i].ns \in Namespace /\ Flags[i].release \in 1..2
      /\ Flags[i].instance \in Nat /\ Flags[i].upgrade \in BOOLEAN
  BY <1>1 DEF FlagType, Release
<1>3. Flags[i].account \in [Part -> {"", "own"}]
  BY <1>1 DEF FlagType
<1>4. Flags[i].account["controller"] \in {"", "own"}
  BY <1>3 DEF Part
<1>5. AccountOf(i) \in {"", "own", "tasker"}
  BY <1>4 DEF AccountOf
<1>6. NewConfig(i) \in Config
  BY <1>2 DEF NewConfig, Config
<1> QED
  BY <1>2, <1>4, <1>5, <1>6

LEMMA HasRightsGrows ==
  ASSUME NEW n \in Namespace, Grows, HasRights(n)
  PROVE  HasRights(n)'
  BY DEF Grows, HasRights

(* What a command knows survives a step of another one. *)
LEMMA KnowsGrows ==
  ASSUME NEW j \in Installer, Grows, Knows(j), step'[j] = step[j], part'[j] = part[j]
  PROVE  Knows(j)'
<1> DEFINE n == Flags[j].ns
<1>1. n \in Namespace
  BY FlagTypes
<1>2. AccountOf(j)' = AccountOf(j)
  BY DEF AccountOf
<1>3. HasRights(n) => HasRights(n)'
  BY <1>1, HasRightsGrows
<1> QED
  BY <1>1, <1>2, <1>3 DEF Knows, KnowsAt, Grows

LEMMA SuppliedGrows ==
  ASSUME NEW n \in Namespace, Grows,
         \/ SuppliedIfThere(n) /\ deployments'[n] = deployments[n]
         \/ Supplied(n, deployments'[n].account)
  PROVE  SuppliedIfThere(n)'
  BY HasRightsGrows DEF SuppliedIfThere, Supplied, Grows

(* The invariant is kept by every step of a command. *)
LEMMA StepKeepsInv ==
  ASSUME Inv, NEW i \in Installer, StepOf(i)
  PROVE  Inv'
<1>1. \A j \in Installer : Knows(j)'
  <2> SUFFICES ASSUME NEW j \in Installer, j # i
               PROVE  Knows(j)'
    BY DEF StepOf
  <2> QED
    BY KnowsGrows DEF Inv, StepOf
<1>2. \A n \in Namespace : SuppliedIfThere(n)'
  BY SuppliedGrows DEF Inv, StepOf
<1> QED
  BY <1>1, <1>2 DEF Inv, StepOf

-----------------------------------------------------------------------------
(* One lemma for each call. *)

(* The command goes on to a step for which it knows what it has to know;   *)
(* "idle" always is one.                                                   *)
Moves(i) ==
  /\ CommandTypeOK'
  /\ \A j \in Installer \ {i} : step'[j] = step[j] /\ part'[j] = part[j]

LEMMA NothingChanges ==
  ASSUME Inv, NEW i \in Installer, UNCHANGED <<objects, moved>>, Moves(i),
         KnowsAt(i, step'[i], part'[i])
  PROVE  StepOf(i)
<1>1. InstallTypeOK'
  BY DEF Inv, InstallTypeOK, ObjectTypeOK, Moves, objects
<1>2. Grows
  BY DEF Grows, objects
<1>3. Knows(i)'
  BY DEF Knows, KnowsAt, HasRights, AccountOf, objects
<1> QED
  BY <1>1, <1>2, <1>3 DEF StepOf, Moves, objects

LEMMA IdleKnows ==
  ASSUME NEW i \in Installer, NEW p
  PROVE  KnowsAt(i, "idle", p)
  BY DEF KnowsAt, RoleSteps, MapSteps

LEMMA GoesMoves ==
  ASSUME Inv, NEW i \in Installer, NEW s \in Step, Goes(i, s), UNCHANGED part,
         read' \in [Installer -> Nat]
  PROVE  Moves(i) /\ step'[i] = s /\ part'[i] = part[i]
  BY DEF Inv, InstallTypeOK, CommandTypeOK, Moves, Goes

LEMMA FailsStep ==
  ASSUME Inv, NEW i \in Installer, Fails(i)
  PROVE  StepOf(i)
<1>1. Moves(i) /\ step'[i] = "idle"
  BY GoesMoves DEF Inv, InstallTypeOK, CommandTypeOK, Fails, Step
<1> QED
  BY <1>1, IdleKnows, NothingChanges DEF Fails

LEMMA AnsweredMoves ==
  ASSUME Inv, NEW i \in Installer, NEW s \in Step, Answered(i, s), UNCHANGED part
  PROVE  /\ Moves(i) /\ UNCHANGED moved
         /\ step'[i] \in {s, "idle"} /\ part'[i] = part[i]
<1>1. read' \in [Installer -> Nat] /\ UNCHANGED moved
  BY DEF Inv, InstallTypeOK, CommandTypeOK, Answered
<1>2. PICK t \in {s, "idle"} : Goes(i, t)
  BY DEF Answered
<1> QED
  BY <1>1, <1>2, GoesMoves DEF Step

LEMMA BeginStep ==
  ASSUME Inv, NEW i \in Installer, Begin(i)
  PROVE  StepOf(i)
<1>1. Moves(i) /\ step'[i] = "version" /\ part'[i] = "controller"
  BY DEF Inv, InstallTypeOK, CommandTypeOK, Moves, Begin, Goes, Step, Part
<1>2. KnowsAt(i, "version", "controller")
  BY DEF KnowsAt, RoleSteps, MapSteps
<1> QED
  BY <1>1, <1>2, NothingChanges DEF Begin

LEMMA kubernetesVersionCheckStep ==
  ASSUME Inv, NEW i \in Installer, kubernetesVersionCheck(i)
  PROVE  StepOf(i)
<1>1. PICK s \in {"crd", "idle"} : Goes(i, s)
  BY DEF kubernetesVersionCheck
<1>2. Moves(i) /\ step'[i] = s /\ part'[i] = part[i]
  BY <1>1, GoesMoves DEF kubernetesVersionCheck, Inv, InstallTypeOK, CommandTypeOK, Step
<1>3. Knows(i) /\ step[i] = "version"
  BY DEF Inv, kubernetesVersionCheck
<1>4. KnowsAt(i, s, part[i])
  BY <1>3 DEF Knows, KnowsAt, RoleSteps, MapSteps
<1> QED
  BY <1>2, <1>4, NothingChanges DEF kubernetesVersionCheck

LEMMA waitForCRDStep ==
  ASSUME Inv, NEW i \in Installer, waitForCRD(i)
  PROVE  StepOf(i)
<1>1. PICK s \in {"rbac", "idle"} : Goes(i, s) /\ (s = "rbac" => crd = "established")
  BY DEF waitForCRD
<1>2. Moves(i) /\ step'[i] = s /\ part'[i] = part[i]
  BY <1>1, GoesMoves DEF waitForCRD, Inv, InstallTypeOK, CommandTypeOK, Step
<1>3. Knows(i) /\ step[i] = "established"
  BY DEF Inv, waitForCRD
<1>4. KnowsAt(i, s, part[i])
  BY <1>1, <1>3 DEF Knows, KnowsAt, RoleSteps, MapSteps
<1> QED
  BY <1>2, <1>4, NothingChanges DEF waitForCRD

LEMMA getClusterRoleStep ==
  ASSUME Inv, NEW i \in Installer, getClusterRole(i)
  PROVE  StepOf(i)
<1>1. PICK s \in {"binding", "roleUpdate", "idle"} : Goes(i, s)
  BY DEF getClusterRole
<1>2. Moves(i) /\ step'[i] = s /\ part'[i] = part[i]
  BY <1>1, GoesMoves DEF getClusterRole, Inv, InstallTypeOK, CommandTypeOK, Step
<1>3. Knows(i) /\ step[i] = "roleGet"
  BY DEF Inv, getClusterRole
<1>4. KnowsAt(i, s, part[i])
  BY <1>3 DEF Knows, KnowsAt, RoleSteps, MapSteps
<1> QED
  BY <1>2, <1>4, NothingChanges DEF getClusterRole

LEMMA getConfigMapStep ==
  ASSUME Inv, NEW i \in Installer, getConfigMap(i)
  PROVE  StepOf(i)
<1>1. PICK s \in {"configMapUpdate", "deployment", "idle"} :
        Goes(i, s) /\ (s = "configMapUpdate" => Flags[i].upgrade)
  BY DEF getConfigMap
<1>2. read' \in [Installer -> Nat]
  <2>1. configMaps[Flags[i].ns] \in Seq(Config)
    BY FlagTypes DEF Inv, InstallTypeOK, ObjectTypeOK
  <2>2. Len(configMaps[Flags[i].ns]) \in Nat
    BY <2>1
  <2> QED
    BY <2>2 DEF getConfigMap, Inv, InstallTypeOK, CommandTypeOK
<1>3. Moves(i) /\ step'[i] = s /\ part'[i] = part[i]
  BY <1>1, <1>2, GoesMoves DEF getConfigMap, Step
<1>4. Knows(i) /\ step[i] = "configMapGet"
  BY DEF Inv, getConfigMap
<1>5. KnowsAt(i, s, part[i])
  BY <1>1, <1>4 DEF Knows, KnowsAt, RoleSteps, MapSteps
<1> QED
  BY <1>3, <1>5, NothingChanges DEF getConfigMap

LEMMA getDeploymentStep ==
  ASSUME Inv, NEW i \in Installer, getDeployment(i)
  PROVE  StepOf(i)
<1>1. PICK s \in {"deploymentUpdate", "idle"} : Goes(i, s)
  BY DEF getDeployment
<1>2. Moves(i) /\ step'[i] = s /\ part'[i] = part[i]
  BY <1>1, GoesMoves DEF getDeployment, Inv, InstallTypeOK, CommandTypeOK, Step
<1>3. Knows(i) /\ step[i] = "deploymentGet"
  BY DEF Inv, getDeployment
<1>4. KnowsAt(i, s, part[i])
  BY <1>3 DEF Knows, KnowsAt, RoleSteps, MapSteps
<1> QED
  BY <1>2, <1>4, NothingChanges DEF getDeployment

(* On to the interface's account, with the rights of the controller's, or  *)
(* to the config map.                                                      *)
LEMMA NextPartMoves ==
  ASSUME Inv, NEW i \in Installer, NextPart(i)
  PROVE  /\ Moves(i) /\ UNCHANGED moved
         /\ \/ step'[i] = "idle"
            \/ part[i] = "controller" /\ step'[i] = "rbac" /\ part'[i] = "ui"
            \/ part[i] = "ui" /\ step'[i] = "configMap" /\ part'[i] = "ui"
<1>1. part[i] \in {"controller", "ui"}
  BY DEF Inv, InstallTypeOK, CommandTypeOK, Part
<1>2. CASE part[i] = "controller"
  BY <1>2 DEF NextPart, Answered, Goes, Moves, Inv, InstallTypeOK, CommandTypeOK, Step, Part
<1>3. CASE part[i] = "ui"
  <2>1. Answered(i, "configMap") /\ UNCHANGED part
    BY <1>3 DEF NextPart
  <2> QED
    BY <1>3, <2>1, AnsweredMoves DEF Step
<1> QED
  BY <1>1, <1>2, <1>3

LEMMA clusterAdminExistsStep ==
  ASSUME Inv, NEW i \in Installer, clusterAdminExists(i)
  PROVE  StepOf(i)
<1>1. Knows(i) /\ step[i] = "rbac" /\ part[i] \in {"controller", "ui"}
  BY DEF Inv, clusterAdminExists, InstallTypeOK, CommandTypeOK, Part
<1>2. CASE Flags[i].account[part[i]] = "" /\ RBAC
  <2>1. Answered(i, "account") /\ UNCHANGED part
    BY <1>2 DEF clusterAdminExists
  <2>2. PICK s \in {"account", "idle"} : step'[i] = s
    BY <2>1, AnsweredMoves DEF Step
  <2>3. Moves(i) /\ UNCHANGED moved /\ part'[i] = part[i]
    BY <2>1, AnsweredMoves DEF Step
  <2>4. KnowsAt(i, s, part[i])
    BY <1>1 DEF Knows, KnowsAt, RoleSteps, MapSteps
  <2> QED
    BY <2>2, <2>3, <2>4, NothingChanges DEF clusterAdminExists
<1>3. CASE ~(Flags[i].account[part[i]] = "" /\ RBAC)
  <2>1. NextPart(i)
    BY <1>3 DEF clusterAdminExists
  <2>2. part[i] = "controller" => AccountOf(i) # "tasker"
    BY <1>3, FlagTypes DEF AccountOf
  <2>3. KnowsAt(i, step'[i], part'[i])
    BY <1>1, <2>1, <2>2, NextPartMoves, IdleKnows DEF Knows, KnowsAt, RoleSteps, MapSteps
  <2> QED
    BY <2>1, <2>3, NextPartMoves, NothingChanges DEF clusterAdminExists
<1> QED
  BY <1>2, <1>3

-----------------------------------------------------------------------------
(* The calls that make or replace an object.                               *)

LEMMA KnowsAtGrows ==
  ASSUME NEW i \in Installer, NEW s, NEW p, Grows, KnowsAt(i, s, p)
  PROVE  KnowsAt(i, s, p)'
<1>1. Flags[i].ns \in Namespace
  BY FlagTypes
<1>2. AccountOf(i)' = AccountOf(i)
  BY DEF AccountOf
<1>3. HasRights(Flags[i].ns) => HasRights(Flags[i].ns)'
  BY <1>1, HasRightsGrows
<1> QED
  BY <1>1, <1>2, <1>3 DEF KnowsAt, Grows

LEMMA SomethingGrows ==
  ASSUME Inv, NEW i \in Installer, Moves(i), ObjectTypeOK', Grows,
         UNCHANGED deployments, NEW s, NEW p,
         step'[i] = s, part'[i] = p, KnowsAt(i, s, p)'
  PROVE  StepOf(i)
<1>1. Knows(i)'
  BY DEF Knows
<1> QED
  BY <1>1 DEF StepOf, Moves, InstallTypeOK

LEMMA installCRDStep ==
  ASSUME Inv, NEW i \in Installer, installCRD(i)
  PROVE  StepOf(i)
<1>1. PICK s \in {"established", "idle"} : step'[i] = s
  BY AnsweredMoves DEF installCRD, Step
<1>2. Moves(i) /\ UNCHANGED moved /\ part'[i] = part[i]
  BY AnsweredMoves DEF installCRD, Step
<1>3. Knows(i) /\ step[i] = "crd"
  BY DEF Inv, installCRD
<1>4. Grows
  BY DEF installCRD, Grows
<1>5. ObjectTypeOK'
  BY <1>2 DEF Inv, InstallTypeOK, ObjectTypeOK, installCRD
<1>6. KnowsAt(i, s, part[i])
  BY <1>3 DEF Knows, KnowsAt, RoleSteps, MapSteps
<1>7. KnowsAt(i, s, part[i])'
  BY <1>4, <1>6, <1>2, KnowsAtGrows
<1> QED
  BY <1>1, <1>2, <1>4, <1>5, <1>7, SomethingGrows DEF installCRD

LEMMA createServiceAccountStep ==
  ASSUME Inv, NEW i \in Installer, createServiceAccount(i)
  PROVE  StepOf(i)
<1>1. PICK s \in {"role", "idle"} : step'[i] = s
  BY AnsweredMoves DEF createServiceAccount, Step
<1>2. Moves(i) /\ UNCHANGED moved /\ part'[i] = part[i]
  BY AnsweredMoves DEF createServiceAccount, Step
<1>3. Knows(i) /\ step[i] = "account" /\ part[i] \in Part
  BY DEF Inv, createServiceAccount, InstallTypeOK, CommandTypeOK
<1>4. Grows
  BY DEF createServiceAccount, Grows
<1>5. ObjectTypeOK'
  <2>1. <<part[i], Flags[i].ns>> \in Part \X Namespace
    BY <1>3, FlagTypes
  <2>2. accounts' \subseteq Part \X Namespace
    BY <2>1 DEF createServiceAccount, Inv, InstallTypeOK, ObjectTypeOK
  <2> QED
    BY <1>2, <2>2 DEF Inv, InstallTypeOK, ObjectTypeOK, createServiceAccount
<1>6. KnowsAt(i, "account", part[i])'
  BY <1>2, <1>3, <1>4, KnowsAtGrows DEF Knows
<1>7. part[i] = "controller" => <<"controller", Flags[i].ns>> \in accounts'
  BY DEF createServiceAccount
<1>8. KnowsAt(i, s, part[i])'
  BY <1>2, <1>6, <1>7 DEF KnowsAt, RoleSteps, MapSteps
<1> QED
  BY <1>1, <1>2, <1>4, <1>5, <1>8, SomethingGrows DEF createServiceAccount

LEMMA createClusterRoleStep ==
  ASSUME Inv, NEW i \in Installer, createClusterRole(i)
  PROVE  StepOf(i)
<1>1. role[part[i]] = 0 \/ role[part[i]] # 0
  OBVIOUS
<1>2. PICK s \in {"binding", "roleGet", "idle"} : step'[i] = s
  BY <1>1, AnsweredMoves DEF createClusterRole, Step
<1>3. Moves(i) /\ UNCHANGED moved /\ part'[i] = part[i]
  BY <1>1, AnsweredMoves DEF createClusterRole, Step
<1>4. Knows(i) /\ step[i] = "role" /\ part[i] \in Part
  BY DEF Inv, createClusterRole, InstallTypeOK, CommandTypeOK
<1>5. /\ role' \in [Part -> 0..2]
      /\ role["controller"] # 0 => role'["controller"] # 0
      /\ part[i] = "controller" => role'["controller"] # 0
  <2>1. Flags[i].release \in 1..2 /\ role \in [Part -> 0..2]
    BY FlagTypes DEF Inv, InstallTypeOK, ObjectTypeOK
  <2>2. CASE role[part[i]] = 0
    <3>1. role' = [role EXCEPT ![part[i]] = Flags[i].release]
      BY <2>2 DEF createClusterRole
    <3> QED
      BY <1>4, <2>1, <3>1
  <2>3. CASE role[part[i]] # 0
    <3>1. role' = role
      BY <2>3 DEF createClusterRole
    <3> QED
      BY <2>1, <2>3, <3>1
  <2> QED
    BY <2>2, <2>3
<1>6. Grows
  BY <1>5 DEF createClusterRole, Grows
<1>7. ObjectTypeOK'
  BY <1>3, <1>5 DEF Inv, InstallTypeOK, ObjectTypeOK, createClusterRole
<1>8. KnowsAt(i, "role", part[i])'
  BY <1>3, <1>4, <1>6, KnowsAtGrows DEF Knows
<1>9. KnowsAt(i, s, part[i])'
  BY <1>3, <1>5, <1>8 DEF KnowsAt, RoleSteps, MapSteps
<1> QED
  BY <1>2, <1>3, <1>6, <1>7, <1>9, SomethingGrows DEF createClusterRole

LEMMA updateClusterRoleStep ==
  ASSUME Inv, NEW i \in Installer, updateClusterRole(i)
  PROVE  StepOf(i)
<1>1. PICK s \in {"binding", "idle"} : step'[i] = s
  BY AnsweredMoves DEF updateClusterRole, Step
<1>2. Moves(i) /\ UNCHANGED moved /\ part'[i] = part[i]
  BY AnsweredMoves DEF updateClusterRole, Step
<1>3. Knows(i) /\ step[i] = "roleUpdate" /\ part[i] \in Part
  BY DEF Inv, updateClusterRole, InstallTypeOK, CommandTypeOK
<1>4. Flags[i].release \in 1..2 /\ role \in [Part -> 0..2]
  BY FlagTypes DEF Inv, InstallTypeOK, ObjectTypeOK
<1>5. role' \in [Part -> 0..2] /\ (role["controller"] # 0 => role'["controller"] # 0)
  BY <1>3, <1>4 DEF updateClusterRole
<1>6. Grows
  BY <1>5 DEF updateClusterRole, Grows
<1>7. ObjectTypeOK'
  BY <1>2, <1>5 DEF Inv, InstallTypeOK, ObjectTypeOK, updateClusterRole
<1>8. KnowsAt(i, "roleUpdate", part[i])'
  BY <1>2, <1>3, <1>6, KnowsAtGrows DEF Knows
<1>9. KnowsAt(i, s, part[i])'
  BY <1>2, <1>8 DEF KnowsAt, RoleSteps, MapSteps
<1> QED
  BY <1>1, <1>2, <1>6, <1>7, <1>9, SomethingGrows DEF updateClusterRole

LEMMA createClusterRoleBindingStep ==
  ASSUME Inv, NEW i \in Installer, createClusterRoleBinding(i)
  PROVE  StepOf(i)
<1>1. /\ Moves(i) /\ UNCHANGED moved
      /\ \/ step'[i] = "idle"
         \/ part[i] = "controller" /\ step'[i] = "rbac" /\ part'[i] = "ui"
         \/ part[i] = "ui" /\ step'[i] = "configMap" /\ part'[i] = "ui"
  BY NextPartMoves DEF createClusterRoleBinding
<1>2. Knows(i) /\ step[i] = "binding" /\ part[i] \in Part
  BY DEF Inv, createClusterRoleBinding, InstallTypeOK, CommandTypeOK
<1>3. Flags[i].ns \in Namespace /\ binding \in [Part -> Namespace \cup {NoNamespace}]
  BY FlagTypes DEF Inv, InstallTypeOK, ObjectTypeOK
<1>4. /\ binding' \in [Part -> Namespace \cup {NoNamespace}]
      /\ binding'[part[i]] \in Namespace
      /\ binding["controller"] \in Namespace => binding'["controller"] \in Namespace
  BY <1>2, <1>3, InstallationAssumption DEF createClusterRoleBinding, InstallationAssumption, Part
<1>5. Grows
  BY <1>4 DEF createClusterRoleBinding, Grows
<1>6. ObjectTypeOK'
  BY <1>1, <1>4 DEF Inv, InstallTypeOK, ObjectTypeOK, createClusterRoleBinding
<1>7. KnowsAt(i, "binding", part[i])
  BY <1>2 DEF Knows
<1>8. PICK s, p : step'[i] = s /\ part'[i] = p
  OBVIOUS
<1>9. part[i] = "controller" => HasRights(Flags[i].ns)'
  BY <1>4, <1>7 DEF HasRights, KnowsAt, RoleSteps, createClusterRoleBinding
<1>10. part[i] = "ui" => KnowsAt(i, "binding", "ui")'
  BY <1>5, <1>7, KnowsAtGrows
<1>11. crd' = "established"
  BY <1>7 DEF KnowsAt, createClusterRoleBinding
<1>12. KnowsAt(i, s, p)'
  BY <1>1, <1>8, <1>9, <1>10, <1>11 DEF KnowsAt, RoleSteps, MapSteps
<1> QED
  BY <1>1, <1>5, <1>6, <1>8, <1>12, SomethingGrows DEF createClusterRoleBinding

(* A config map that is there gets another version, or it is made.         *)
LEMMA WriteGrows ==
  ASSUME Inv, NEW n \in Namespace, NEW c \in Config, Write(n, c),
         UNCHANGED <<crd, accounts, role, binding>>
  PROVE  /\ configMaps' \in [Namespace -> Seq(Config)]
         /\ configMaps'[n] = Append(configMaps[n], c)
         /\ configMaps'[n] # <<>>
         /\ Grows
<1>1. configMaps \in [Namespace -> Seq(Config)] /\ configMaps[n] \in Seq(Config)
  BY DEF Inv, InstallTypeOK, ObjectTypeOK
<1>2. Append(configMaps[n], c) \in Seq(Config) /\ Append(configMaps[n], c) # <<>>
  BY <1>1
<1>3. /\ configMaps' \in [Namespace -> Seq(Config)]
      /\ configMaps'[n] = Append(configMaps[n], c)
      /\ \A m \in Namespace \ {n} : configMaps'[m] = configMaps[m]
  BY <1>1, <1>2 DEF Write
<1> QED
  BY <1>2, <1>3 DEF Grows

LEMMA installConfigMapStep ==
  ASSUME Inv, NEW i \in Installer, installConfigMap(i)
  PROVE  StepOf(i)
<1> DEFINE n == Flags[i].ns
<1>1. n \in Namespace /\ NewConfig(i) \in Config
  BY FlagTypes
<1>2. Knows(i) /\ step[i] = "configMap" /\ part[i] \in Part
  BY DEF Inv, installConfigMap, InstallTypeOK, CommandTypeOK
<1>3. CASE configMaps[n] = <<>>
  <2>1. Write(n, NewConfig(i)) /\ Answered(i, "deployment") /\ UNCHANGED part
    BY <1>3 DEF installConfigMap
  <2>2. PICK s \in {"deployment", "idle"} : step'[i] = s
    BY <2>1, AnsweredMoves DEF Step
  <2>3. Moves(i) /\ UNCHANGED moved /\ part'[i] = part[i]
    BY <2>1, AnsweredMoves DEF Step
  <2>4. /\ configMaps' \in [Namespace -> Seq(Config)]
        /\ configMaps'[n] # <<>>
        /\ Grows
    BY <1>1, <2>1, WriteGrows DEF installConfigMap
  <2>5. ObjectTypeOK'
    BY <2>3, <2>4 DEF Inv, InstallTypeOK, ObjectTypeOK, installConfigMap
  <2>6. KnowsAt(i, "configMap", part[i])'
    BY <1>2, <2>3, <2>4, KnowsAtGrows DEF Knows
  <2>7. KnowsAt(i, s, part[i])'
    BY <2>3, <2>4, <2>6 DEF KnowsAt, RoleSteps, MapSteps
  <2> QED
    BY <2>2, <2>3, <2>4, <2>5, <2>7, SomethingGrows DEF installConfigMap
<1>4. CASE configMaps[n] # <<>>
  <2>1. UNCHANGED configMaps /\ Answered(i, "configMapGet") /\ UNCHANGED part
    BY <1>4 DEF installConfigMap
  <2>2. PICK s \in {"configMapGet", "idle"} : step'[i] = s
    BY <2>1, AnsweredMoves DEF Step
  <2>3. Moves(i) /\ UNCHANGED moved /\ part'[i] = part[i]
    BY <2>1, AnsweredMoves DEF Step
  <2>4. KnowsAt(i, s, part[i])
    BY <1>2, <1>4 DEF Knows, KnowsAt, RoleSteps, MapSteps
  <2> QED
    BY <2>1, <2>2, <2>3, <2>4, NothingChanges DEF installConfigMap, objects
<1> QED
  BY <1>3, <1>4

(* What a command or the controller takes from a config map. *)
LEMMA KnownFields ==
  ASSUME NEW c \in Config
  PROVE  /\ Known(c) \in Config
         /\ Known(c).readable = c.readable /\ Known(c).image = c.image
         /\ Known(c).resources = c.resources /\ Known(c).instance = c.instance
  BY DEF Known, Config

(* The map that is replaced is the latest one; its instance id stays. *)
LEMMA UpgradedType ==
  ASSUME Inv, NEW i \in Installer, read[i] = Len(configMaps[Flags[i].ns]),
         configMaps[Flags[i].ns] # <<>>
  PROVE  /\ configMaps[Flags[i].ns][read[i]] = Current(Flags[i].ns)
         /\ Upgraded(i, Current(Flags[i].ns)) \in Config /\ Current(Flags[i].ns) \in Config
         /\ Upgraded(i, Current(Flags[i].ns)).instance = Current(Flags[i].ns).instance
<1> DEFINE n == Flags[i].ns
<1>1. n \in Namespace /\ Flags[i].release \in 1..2
  BY FlagTypes
<1>2. configMaps[n] \in Seq(Config) /\ configMaps[n] # <<>>
  BY <1>1 DEF Inv, InstallTypeOK, ObjectTypeOK
<1>3. Len(configMaps[n]) \in 1..Len(configMaps[n])
  BY <1>2
<1>4. configMaps[n][Len(configMaps[n])] \in Config
  BY <1>2, <1>3
<1>5. Current(n) \in Config
  BY <1>4 DEF Current
<1>6. Known(Current(n)) \in Config /\ Known(Current(n)).instance = Current(n).instance
  BY <1>5, KnownFields
<1>7. /\ Upgraded(i, Current(n)) \in Config
      /\ Upgraded(i, Current(n)).instance = Current(n).instance
  BY <1>1, <1>6 DEF Upgraded, Config
<1> QED
  BY <1>5, <1>7 DEF Current

LEMMA updateConfigMapStep ==
  ASSUME Inv, NEW i \in Installer, updateConfigMap(i)
  PROVE  StepOf(i)
<1> DEFINE n == Flags[i].ns
<1>1. n \in Namespace
  BY FlagTypes
<1>2. Knows(i) /\ step[i] = "configMapUpdate" /\ part[i] \in Part
  BY DEF Inv, updateConfigMap, InstallTypeOK, CommandTypeOK
<1>3. CASE read[i] = Len(configMaps[n])
  <2> DEFINE c == Upgraded(i, configMaps[n][read[i]])
  <2>1. Write(n, c) /\ Answered(i, "deployment") /\ UNCHANGED part
    BY <1>3 DEF updateConfigMap
  <2>2. PICK s \in {"deployment", "idle"} : step'[i] = s
    BY <2>1, AnsweredMoves DEF Step
  <2>3. Moves(i) /\ UNCHANGED moved /\ part'[i] = part[i]
    BY <2>1, AnsweredMoves DEF Step
  <2>4. configMaps[n] # <<>>
    BY <1>2 DEF Knows, KnowsAt, MapSteps
  <2>5. c \in Config
    BY <1>3, <2>4, UpgradedType
  <2>6. configMaps' \in [Namespace -> Seq(Config)] /\ Grows
    <3> HIDE DEF c
    <3> QED
      BY <1>1, <2>1, <2>5, WriteGrows DEF updateConfigMap
  <2>7. ObjectTypeOK'
    BY <2>3, <2>6 DEF Inv, InstallTypeOK, ObjectTypeOK, updateConfigMap
  <2>8. KnowsAt(i, "configMapUpdate", part[i])'
    BY <1>2, <2>3, <2>6, KnowsAtGrows DEF Knows
  <2>9. KnowsAt(i, s, part[i])'
    BY <2>3, <2>8 DEF KnowsAt, RoleSteps, MapSteps
  <2> QED
    BY <2>2, <2>3, <2>6, <2>7, <2>9, SomethingGrows DEF updateConfigMap
<1>4. CASE read[i] # Len(configMaps[n])
  <2>1. /\ UNCHANGED <<configMaps, moved, part>> /\ Goes(i, "idle")
        /\ read' = [read EXCEPT ![i] = 0]
    BY <1>4 DEF updateConfigMap
  <2>2. read' \in [Installer -> Nat]
    BY <2>1 DEF Inv, InstallTypeOK, CommandTypeOK
  <2>3. Moves(i) /\ step'[i] = "idle" /\ part'[i] = part[i]
    BY <2>1, <2>2, GoesMoves DEF Step
  <2> QED
    BY <2>1, <2>3, IdleKnows, NothingChanges DEF updateConfigMap, objects
<1> QED
  BY <1>3, <1>4

(* What the deployment needs is there when the command is about to make it. *)
LEMMA DeployedSupplied ==
  ASSUME Inv, NEW i \in Installer, Deployed(i), Moves(i), UNCHANGED moved,
         UNCHANGED <<crd, accounts, role, binding, configMaps>>,
         step[i] \in {"deployment", "deploymentUpdate"},
         step'[i] = "idle"
  PROVE  StepOf(i)
<1> DEFINE n == Flags[i].ns
           d == [release |-> Flags[i].release, account |-> AccountOf(i)]
<1>1. n \in Namespace /\ Flags[i].release \in 0..2 /\ AccountOf(i) \in {"", "own", "tasker"}
  <2>1. 1..2 \subseteq 0..2
    OBVIOUS
  <2> QED
    BY <2>1, FlagTypes
<1>2. deployments \in [Namespace -> [release : 0..2, account : {"", "own", "tasker"}]]
  BY DEF Inv, InstallTypeOK, ObjectTypeOK
<1>3. d \in [release : 0..2, account : {"", "own", "tasker"}] /\ d.account = AccountOf(i)
  <2> HIDE DEF n
  <2> QED
    BY <1>1
<1>4. /\ deployments' \in [Namespace -> [release : 0..2, account : {"", "own", "tasker"}]]
      /\ deployments'[n].account = AccountOf(i)
      /\ \A m \in Namespace \ {n} : deployments'[m] = deployments[m]
  <2>1. deployments' = [deployments EXCEPT ![n] = d]
    BY DEF Deployed
  <2> HIDE DEF d, n
  <2> QED
    BY <1>1, <1>2, <1>3, <2>1
<1>5. Supplied(n, deployments'[n].account)
  <2>1. Knows(i)
    BY DEF Inv
  <2>2. crd = "established" /\ part[i] = "ui" /\ configMaps[n] # <<>>
    BY <2>1 DEF Knows, KnowsAt, MapSteps
  <2>3. AccountOf(i) = "tasker" => HasRights(n)
    BY <2>1, <2>2 DEF Knows, KnowsAt
  <2> QED
    BY <1>4, <2>2, <2>3 DEF Supplied
<1>6. InstallTypeOK'
  BY <1>4 DEF Inv, InstallTypeOK, ObjectTypeOK, Moves
<1>7. Grows
  BY DEF Grows
<1>8. Knows(i)'
  BY DEF Knows, KnowsAt, RoleSteps, MapSteps
<1> QED
  BY <1>4, <1>5, <1>6, <1>7, <1>8 DEF StepOf, Moves

LEMMA installControllerStep ==
  ASSUME Inv, NEW i \in Installer, installController(i)
  PROVE  StepOf(i)
<1>1. Knows(i) /\ step[i] = "deployment"
  BY DEF Inv, installController
<1>2. CASE deployments[Flags[i].ns].release = 0
  <2>1. Deployed(i) /\ Answered(i, "idle") /\ UNCHANGED part
    BY <1>2 DEF installController
  <2>2. Moves(i) /\ UNCHANGED moved /\ step'[i] = "idle"
    BY <2>1, AnsweredMoves DEF Step
  <2> QED
    BY <1>1, <2>1, <2>2, DeployedSupplied DEF installController
<1>3. CASE deployments[Flags[i].ns].release # 0
  <2>1. UNCHANGED deployments /\ Answered(i, "deploymentGet") /\ UNCHANGED part
    BY <1>3 DEF installController
  <2>2. PICK s \in {"deploymentGet", "idle"} : step'[i] = s
    BY <2>1, AnsweredMoves DEF Step
  <2>3. Moves(i) /\ UNCHANGED moved /\ part'[i] = part[i]
    BY <2>1, AnsweredMoves DEF Step
  <2>4. KnowsAt(i, s, part[i])
    BY <1>1 DEF Knows, KnowsAt, RoleSteps, MapSteps
  <2> QED
    BY <2>1, <2>2, <2>3, <2>4, NothingChanges DEF installController, objects
<1> QED
  BY <1>2, <1>3

LEMMA updateDeploymentStep ==
  ASSUME Inv, NEW i \in Installer, updateDeployment(i)
  PROVE  StepOf(i)
<1>1. Moves(i) /\ UNCHANGED moved /\ step'[i] = "idle"
  BY AnsweredMoves DEF updateDeployment, Step
<1> QED
  BY <1>1, DeployedSupplied DEF updateDeployment

LEMMA InstallStep ==
  ASSUME Inv, NEW i \in Installer, Begin(i) \/ Install(i)
  PROVE  StepOf(i)
  BY BeginStep, FailsStep, kubernetesVersionCheckStep, installCRDStep, waitForCRDStep,
     clusterAdminExistsStep, createServiceAccountStep, createClusterRoleStep,
     getClusterRoleStep, updateClusterRoleStep, createClusterRoleBindingStep,
     installConfigMapStep, getConfigMapStep, updateConfigMapStep, installControllerStep,
     getDeploymentStep, updateDeploymentStep
  DEF Install

-----------------------------------------------------------------------------
(* The steps of the others: no command moves, no object is taken away. *)
LEMMA OthersKeepInv ==
  ASSUME Inv, Grows, UNCHANGED <<commands, deployments>>, ObjectTypeOK'
  PROVE  Inv'
<1>1. InstallTypeOK'
  BY DEF Inv, InstallTypeOK, CommandTypeOK, commands
<1>2. \A j \in Installer : Knows(j)'
  BY KnowsGrows DEF Inv, commands
<1>3. \A n \in Namespace : SuppliedIfThere(n)'
  BY SuppliedGrows DEF Inv
<1> QED
  BY <1>1, <1>2, <1>3 DEF Inv

LEMMA EstablishStep ==
  ASSUME Inv, Establish
  PROVE  Inv'
<1>1. Grows
  BY DEF Establish, Grows
<1>2. ObjectTypeOK'
  BY DEF Establish, Inv, InstallTypeOK, ObjectTypeOK
<1> QED
  BY <1>1, <1>2, OthersKeepInv DEF Establish

LEMMA EditConfigMapStep ==
  ASSUME Inv, NEW n \in Namespace, NEW c \in Edit, EditConfigMap(n, c)
  PROVE  Inv'
<1>1. c \in Config
  BY InstallationAssumption DEF InstallationAssumption
<1>2. Grows /\ configMaps' \in [Namespace -> Seq(Config)]
  BY <1>1, WriteGrows DEF EditConfigMap
<1>3. moved' \subseteq Namespace
  BY DEF EditConfigMap, Inv, InstallTypeOK, ObjectTypeOK
<1>4. ObjectTypeOK'
  BY <1>2, <1>3 DEF EditConfigMap, Inv, InstallTypeOK, ObjectTypeOK
<1> QED
  BY <1>2, <1>4, OthersKeepInv DEF EditConfigMap

LEMMA InstallUnchanged ==
  ASSUME Inv, UNCHANGED installVars
  PROVE  Inv'
<1>1. Grows
  BY DEF Grows, installVars, objects
<1>2. ObjectTypeOK'
  BY DEF Inv, InstallTypeOK, ObjectTypeOK, installVars, objects
<1> QED
  BY <1>1, <1>2, OthersKeepInv DEF installVars, objects, commands

(* The process of a controller changes nothing of the installation. *)
LEMMA ControllerLeaves ==
  ASSUME NEW n \in Namespace, Start(n) \/ Controller(n) \/ Crash(n)
  PROVE  UNCHANGED installVars
  BY DEF Start, Controller, ConfigMapEvent, newWorkflowPodWatch, createWorkflowPod,
         CheckInstance, LabelInstance, ReadImage, CheckResources, UseResources, CreatePod,
         Builds, Crash

LEMMA NextKeepsInv ==
  ASSUME Inv, [Next]_vars
  PROVE  Inv'
<1>1. ASSUME NEW i \in Installer, Begin(i) \/ Install(i)
      PROVE  Inv'
  BY <1>1, InstallStep, StepKeepsInv
<1>2. CASE Establish
  BY <1>2, EstablishStep
<1>3. ASSUME NEW n \in Namespace, NEW c \in Edit, EditConfigMap(n, c)
      PROVE  Inv'
  BY <1>3, EditConfigMapStep
<1>4. ASSUME NEW n \in Namespace, Start(n) \/ Controller(n) \/ Crash(n)
      PROVE  Inv'
  BY <1>4, ControllerLeaves, InstallUnchanged
<1>5. CASE UNCHANGED vars
  BY <1>5, InstallUnchanged DEF vars
<1> QED
  BY <1>1, <1>2, <1>3, <1>4, <1>5 DEF Next

LEMMA InitInv ==
  ASSUME Init
  PROVE  Inv
<1>1. CommandTypeOK
  BY DEF Init, InstallInit, CommandTypeOK, Step, Part
<1>2. ObjectTypeOK
  <2>1. /\ configMaps = [n \in Namespace |-> <<>>]
        /\ deployments = [n \in Namespace |-> [release |-> 0, account |-> ""]]
        /\ role = [p \in Part |-> 0] /\ binding = [p \in Part |-> NoNamespace]
    BY DEF Init, InstallInit
  <2>2. <<>> \in Seq(Config)
    OBVIOUS
  <2>3. [release |-> 0, account |-> ""] \in [release : 0..2, account : {"", "own", "tasker"}]
    OBVIOUS
  <2>4. configMaps \in [Namespace -> Seq(Config)]
    BY <2>1, <2>2, Zenon
  <2>5. deployments \in [Namespace -> [release : 0..2, account : {"", "own", "tasker"}]]
    BY <2>1, <2>3, Zenon
  <2>6. 0 \in 0..2
    OBVIOUS
  <2>7. role \in [Part -> 0..2] /\ binding \in [Part -> Namespace \cup {NoNamespace}]
    BY <2>1, <2>6, Zenon
  <2>8. accounts = {} /\ moved = {} /\ crd = "absent"
    BY DEF Init, InstallInit
  <2> QED
    BY <2>4, <2>5, <2>7, <2>8 DEF ObjectTypeOK
<1>3. \A i \in Installer : Knows(i)
  BY DEF Init, InstallInit, Knows, KnowsAt, RoleSteps, MapSteps
<1>4. \A n \in Namespace : SuppliedIfThere(n)
  BY DEF Init, InstallInit, SuppliedIfThere
<1> QED
  BY <1>1, <1>2, <1>3, <1>4 DEF Inv, InstallTypeOK

-----------------------------------------------------------------------------
LEMMA InvDeployedLast ==
  ASSUME Inv
  PROVE  DeployedLast
  BY DEF Inv, SuppliedIfThere, Supplied, HasRights, DeployedLast, Authorised

(* The deployment comes last (Install): when it is there, so are the       *)
(* definition, the config map and what its account needs.                  *)
THEOREM DeploymentIsLast == Spec => []DeployedLast
<1>1. Init => Inv
  BY InitInv
<1>2. Inv /\ [Next]_vars => Inv'
  BY NextKeepsInv
<1>3. Inv => DeployedLast
  BY InvDeployedLast
<1> QED
  BY <1>1, <1>2, <1>3, PTL DEF Spec

-----------------------------------------------------------------------------
(* Only two calls write a config map, and installConfigMap only one that   *)
(* is not there.                                                           *)
LEMMA WritesConfigMap ==
  ASSUME NEW i \in Installer, Begin(i) \/ Install(i), ~ updateConfigMap(i),
         NEW n \in Namespace, Inv, configMaps[n] # <<>>
  PROVE  configMaps'[n] = configMaps[n]
<1>1. CASE installConfigMap(i)
  <2>1. CASE configMaps[Flags[i].ns] = <<>>
    <3>1. Write(Flags[i].ns, NewConfig(i)) /\ Flags[i].ns # n
      BY <1>1, <2>1 DEF installConfigMap
    <3>2. configMaps \in [Namespace -> Seq(Config)]
      BY DEF Inv, InstallTypeOK, ObjectTypeOK
    <3> QED
      BY <3>1, <3>2 DEF Write
  <2>2. CASE configMaps[Flags[i].ns] # <<>>
    BY <1>1, <2>2 DEF installConfigMap
  <2> QED
    BY <2>1, <2>2
<1>2. CASE ~ installConfigMap(i)
  BY <1>2 DEF Install, Begin, Fails, kubernetesVersionCheck, installCRD, waitForCRD,
              clusterAdminExists, createServiceAccount, createClusterRole, getClusterRole,
              updateClusterRole, createClusterRoleBinding, getConfigMap, installController,
              getDeployment, updateDeployment, objects
<1> QED
  BY <1>1, <1>2

(* The replaced version is the one that was read, as far as it is known,   *)
(* with another image.                                                     *)
LEMMA UpdateChangesImage ==
  ASSUME Inv, NEW i \in Installer, updateConfigMap(i), NEW n \in Namespace,
         configMaps'[n] # configMaps[n]
  PROVE  /\ Flags[i].upgrade
         /\ configMaps'[n] = Append(configMaps[n],
                                    [Known(Current(n)) EXCEPT !.image = Flags[i].release])
<1> DEFINE m == Flags[i].ns
<1>1. m \in Namespace /\ configMaps \in [Namespace -> Seq(Config)]
  BY FlagTypes DEF Inv, InstallTypeOK, ObjectTypeOK
<1>2. Flags[i].upgrade /\ configMaps[m] # <<>>
  <2>1. Knows(i) /\ step[i] = "configMapUpdate"
    BY DEF Inv, updateConfigMap
  <2> QED
    BY <2>1 DEF Knows, KnowsAt, MapSteps
<1>3. read[i] = Len(configMaps[m]) /\ Write(m, Upgraded(i, configMaps[m][read[i]]))
  BY DEF updateConfigMap
<1>4. configMaps[m][read[i]] = Current(m)
  BY <1>2, <1>3, UpgradedType
<1>5. configMaps' = [configMaps EXCEPT ![m] = Append(@, Upgraded(i, Current(m)))]
  BY <1>3, <1>4 DEF Write
<1>6. n = m
  <2> HIDE DEF m
  <2> QED
    BY <1>1, <1>5
<1>7. configMaps'[m] = Append(configMaps[m], Upgraded(i, Current(m)))
  <2> HIDE DEF m
  <2> QED
    BY <1>1, <1>5
<1> QED
  BY <1>2, <1>6, <1>7 DEF Upgraded

(* However commands and edits of a config map overlap, a command takes     *)
(* over the fields it knows of the version just before (installConfigMap): *)
(* it changes the image, only with --upgrade, and drops what else the map  *)
(* said.                                                                   *)
THEOREM KnownFieldsAreKept == Spec => KnownFieldsSurvive
<1> DEFINE Survives ==
      \A i \in Installer : step[i] # step'[i] =>
        \A n \in Namespace : configMaps'[n] # configMaps[n] /\ configMaps[n] # <<>> =>
          /\ Flags[i].upgrade
          /\ configMaps'[n] = Append(configMaps[n],
                                     [Known(Current(n)) EXCEPT !.image = Flags[i].release])
<1>1. Init => Inv
  BY InitInv
<1>2. Inv /\ [Next]_vars => Inv'
  BY NextKeepsInv
<1>3. Inv /\ [Next]_vars => [Survives]_vars
  <2> SUFFICES ASSUME Inv, Next,
                      NEW i \in Installer, step[i] # step'[i],
                      NEW n \in Namespace,
                      configMaps'[n] # configMaps[n], configMaps[n] # <<>>
               PROVE  /\ Flags[i].upgrade
                      /\ configMaps'[n] =
                           Append(configMaps[n],
                                  [Known(Current(n)) EXCEPT !.image = Flags[i].release])
    OBVIOUS
  <2>1. PICK j \in Installer : Begin(j) \/ Install(j)
    BY ControllerLeaves DEF Next, Establish, EditConfigMap, installVars, commands
  <2>2. i = j
    BY <2>1, InstallStep DEF StepOf
  <2>3. updateConfigMap(i)
    BY <2>1, <2>2, WritesConfigMap
  <2> QED
    BY <2>3, UpdateChangesImage
<1> QED
  BY <1>1, <1>2, <1>3, PTL DEF Spec, KnownFieldsSurvive

-----------------------------------------------------------------------------
(* The process of a controller.  Versions of the config map are numbered   *)
(* by their place in configMaps[n]; a process uses one of those it has     *)
(* seen (FromVersion), and goes on to later ones only.  As long as nobody  *)
(* moves a namespace, all of its versions have the same instance id.       *)

ProcessTypeOK == proc \in [Namespace -> ProcType] /\ making \in [Namespace -> BuildType]

(* The configuration in use is version w; when a worker is about to use    *)
(* the resources, they were there in version w or before.                  *)
FromVersion(n) ==
  \E w \in Versions(n) :
    /\ proc[n].config = Known(configMaps[n][w])
    /\ making[n].at = "use" =>
         \E v \in Versions(n) : v <= w /\ configMaps[n][v].resources # "none"

ConfigSeen(n) ==
  /\ proc[n].phase # "running" => making[n].at = "none"
  /\ proc[n].phase # "down" =>
       1 <= proc[n].since /\ proc[n].seen <= Len(configMaps[n]) /\ FromVersion(n)
  /\ making[n].at \notin {"none", "label", "image"} =>
       \E v \in Versions(n) : configMaps[n][v].image = making[n].image
  /\ making[n].at = "panicked" =>
       \E v, w \in Versions(n) :
         /\ v < w
         /\ configMaps[n][v].resources # "none"
         /\ configMaps[n][w].resources = "none"

InstanceKept(n) ==
  n \notin moved =>
    /\ \A v \in DOMAIN configMaps[n] : configMaps[n][v].instance = configMaps[n][1].instance
    /\ proc[n].phase = "running" => proc[n].selector = configMaps[n][1].instance
    /\ making[n].at = "label" => configMaps[n][1].instance # 0
    /\ making[n].at \notin {"none", "label"} =>
         making[n].instance = configMaps[n][1].instance

ProcessInv ==
  /\ Inv
  /\ ProcessTypeOK
  /\ \A n \in Namespace : ConfigSeen(n) /\ InstanceKept(n)

(* What any step does to the config map of namespace n: nothing, or a new  *)
(* version with the instance id of the one before, unless n is moved.      *)
OneMore(n) ==
  /\ configMaps'[n] \in Seq(Config)
  /\ \/ configMaps'[n] = configMaps[n]
     \/ \E c : /\ configMaps'[n] = Append(configMaps[n], c)
               /\ configMaps[n] # <<>> /\ n \notin moved' => c.instance = Current(n).instance
  /\ n \in moved => n \in moved'

LEMMA WriteIsOneMore ==
  ASSUME Inv, NEW m \in Namespace, NEW c \in Config, Write(m, c),
         configMaps[m] # <<>> /\ m \notin moved' => c.instance = Current(m).instance,
         moved \subseteq moved', NEW n \in Namespace
  PROVE  OneMore(n)
<1>1. configMaps \in [Namespace -> Seq(Config)]
  BY DEF Inv, InstallTypeOK, ObjectTypeOK
<1>2. CASE n = m
  <2>1. configMaps'[m] = Append(configMaps[m], c)
    BY <1>1 DEF Write
  <2> QED
    BY <1>1, <1>2, <2>1 DEF OneMore
<1>3. CASE n # m
  <2>1. configMaps'[n] = configMaps[n]
    BY <1>1, <1>3 DEF Write
  <2> QED
    BY <1>1, <2>1 DEF OneMore
<1> QED
  BY <1>2, <1>3

LEMMA NothingWritten ==
  ASSUME Inv, UNCHANGED configMaps, moved \subseteq moved', NEW n \in Namespace
  PROVE  OneMore(n)
  BY DEF OneMore, Inv, InstallTypeOK, ObjectTypeOK

LEMMA CommandsKeepMoved ==
  ASSUME NEW i \in Installer, Begin(i) \/ Install(i)
  PROVE  moved' = moved
<1>1. CASE clusterAdminExists(i) \/ createClusterRoleBinding(i)
  BY <1>1 DEF clusterAdminExists, createClusterRoleBinding, NextPart, Answered
<1>2. CASE ~ (clusterAdminExists(i) \/ createClusterRoleBinding(i))
  BY <1>2 DEF Install, Begin, Fails, kubernetesVersionCheck, installCRD, waitForCRD,
              createServiceAccount, createClusterRole, getClusterRole,
              updateClusterRole, installConfigMap, getConfigMap, updateConfigMap,
              installController, getDeployment, updateDeployment, Answered
<1> QED
  BY <1>1, <1>2

LEMMA ConfigMapsGrow ==
  ASSUME Inv, [Next]_vars, NEW n \in Namespace
  PROVE  OneMore(n)
<1>1. ASSUME NEW i \in Installer, Begin(i) \/ Install(i)
      PROVE  OneMore(n)
  <2> DEFINE m == Flags[i].ns
  <2>1. m \in Namespace /\ NewConfig(i) \in Config /\ moved' = moved
    BY <1>1, FlagTypes, CommandsKeepMoved
  <2>2. CASE updateConfigMap(i)
    <3>1. CASE read[i] = Len(configMaps[m])
      <4>1. Knows(i) /\ step[i] = "configMapUpdate"
        BY <2>2 DEF Inv, updateConfigMap
      <4>2. configMaps[m] # <<>>
        BY <4>1 DEF Knows, KnowsAt, MapSteps
      <4>3. /\ configMaps[m][read[i]] = Current(m) /\ Current(m) \in Config
            /\ Upgraded(i, Current(m)) \in Config
        BY <2>1, <3>1, <4>2, UpgradedType
      <4>4. Upgraded(i, Current(m)).instance = Current(m).instance
        BY <2>1, <3>1, <4>2, UpgradedType
      <4>5. Write(m, Upgraded(i, Current(m)))
        BY <2>2, <3>1, <4>3 DEF updateConfigMap
      <4> QED
        BY <2>1, <4>3, <4>4, <4>5, WriteIsOneMore
    <3>2. CASE read[i] # Len(configMaps[m])
      BY <2>1, <2>2, <3>2, NothingWritten DEF updateConfigMap
    <3> QED
      BY <3>1, <3>2
  <2>3. CASE installConfigMap(i)
    <3>1. CASE configMaps[m] = <<>>
      <4>1. Write(m, NewConfig(i))
        BY <2>3, <3>1 DEF installConfigMap
      <4> QED
        BY <2>1, <3>1, <4>1, WriteIsOneMore
    <3>2. CASE configMaps[m] # <<>>
      BY <2>1, <2>3, <3>2, NothingWritten DEF installConfigMap
    <3> QED
      BY <3>1, <3>2
  <2>4. CASE ~ updateConfigMap(i) /\ ~ installConfigMap(i)
    <3>1. UNCHANGED configMaps
      BY <1>1, <2>4 DEF Install, Begin, Fails, kubernetesVersionCheck, installCRD, waitForCRD,
              clusterAdminExists, createServiceAccount, createClusterRole, getClusterRole,
              updateClusterRole, createClusterRoleBinding, getConfigMap, installController,
              getDeployment, updateDeployment, objects
    <3> QED
      BY <2>1, <3>1, NothingWritten
  <2> QED
    BY <2>2, <2>3, <2>4
<1>2. ASSUME NEW m \in Namespace, NEW c \in Edit, EditConfigMap(m, c)
      PROVE  OneMore(n)
  <2>1. c \in Config /\ Write(m, c) /\ moved \subseteq moved'
    BY <1>2, InstallationAssumption DEF InstallationAssumption, EditConfigMap
  <2>2. m \notin moved' => c.instance = Current(m).instance
    BY <1>2 DEF EditConfigMap
  <2> QED
    BY <2>1, <2>2, WriteIsOneMore
<1>3. CASE Establish \/ UNCHANGED vars
  BY <1>3, NothingWritten DEF Establish, vars, installVars, objects
<1>4. ASSUME NEW m \in Namespace, Start(m) \/ Controller(m) \/ Crash(m)
      PROVE  OneMore(n)
  BY <1>4, ControllerLeaves, NothingWritten DEF installVars, objects
<1> QED
  BY <1>1, <1>2, <1>3, <1>4 DEF Next

LEMMA OldVersions ==
  ASSUME NEW n \in Namespace, OneMore(n), configMaps[n] \in Seq(Config)
  PROVE  /\ Len(configMaps[n]) \in Nat /\ Len(configMaps'[n]) \in Nat
         /\ Len(configMaps[n]) <= Len(configMaps'[n])
         /\ \A v \in 1..Len(configMaps[n]) : configMaps'[n][v] = configMaps[n][v]
  BY DEF OneMore

(* A longer config map leaves a process with the versions it has seen. *)
LEMMA SeenVersionsStay ==
  ASSUME Inv, ProcessTypeOK, NEW n \in Namespace, OneMore(n), ConfigSeen(n),
         proc'[n] = proc[n], proc[n].phase # "down"
  PROVE  /\ Versions(n)' = Versions(n)
         /\ \A v \in Versions(n) : configMaps'[n][v] = configMaps[n][v]
         /\ proc[n].seen <= Len(configMaps'[n])
<1>1. configMaps[n] \in Seq(Config) /\ proc[n].since \in Nat /\ proc[n].seen \in Nat
  BY DEF Inv, InstallTypeOK, ObjectTypeOK, ProcessTypeOK, ProcType
<1>2. 1 <= proc[n].since /\ proc[n].seen <= Len(configMaps[n])
  BY DEF ConfigSeen
<1>3. \A v \in proc[n].since..proc[n].seen : configMaps'[n][v] = configMaps[n][v]
  BY <1>1, <1>2, OldVersions
<1>4. proc[n].seen <= Len(configMaps'[n])
  BY <1>1, <1>2, OldVersions
<1> QED
  BY <1>3, <1>4 DEF Versions

LEMMA ProcessFrame ==
  ASSUME Inv, ProcessTypeOK, NEW n \in Namespace, OneMore(n), ConfigSeen(n),
         proc'[n] = proc[n], making'[n] = making[n]
  PROVE  ConfigSeen(n)'
<1>1. CASE proc[n].phase = "down"
  BY <1>1 DEF ConfigSeen
<1>2. CASE proc[n].phase # "down"
  <2>1. /\ Versions(n)' = Versions(n)
        /\ \A v \in Versions(n) : configMaps'[n][v] = configMaps[n][v]
        /\ proc[n].seen <= Len(configMaps'[n])
    BY <1>2, SeenVersionsStay
  <2>2. FromVersion(n)'
    BY <1>2, <2>1 DEF ConfigSeen, FromVersion
  <2> QED
    BY <1>2, <2>1, <2>2 DEF ConfigSeen
<1> QED
  BY <1>1, <1>2

LEMMA InstanceFrame ==
  ASSUME Inv, ProcessTypeOK, NEW n \in Namespace, OneMore(n), InstanceKept(n), ConfigSeen(n),
         proc'[n] = proc[n], making'[n] = making[n]
  PROVE  InstanceKept(n)'
<1> SUFFICES ASSUME n \notin moved'
             PROVE  InstanceKept(n)'
  BY DEF InstanceKept
<1>1. n \notin moved
  BY DEF OneMore
<1>2. configMaps[n] \in Seq(Config)
  BY DEF Inv, InstallTypeOK, ObjectTypeOK
<1>3. CASE configMaps'[n] = configMaps[n]
  BY <1>1, <1>3 DEF InstanceKept
<1>4. ASSUME NEW c, configMaps'[n] = Append(configMaps[n], c),
             configMaps[n] # <<>> => c.instance = Current(n).instance
      PROVE  InstanceKept(n)'
  <2>1. CASE configMaps[n] = <<>>
    <3>1. proc[n].phase = "down" /\ making[n].at = "none"
      <4>1. Len(configMaps[n]) = 0
        BY <2>1
      <4>2. proc[n].since \in Nat /\ proc[n].seen \in Nat
        BY DEF ProcessTypeOK, ProcType
      <4> QED
        BY <4>1, <4>2 DEF ConfigSeen, FromVersion, Versions
    <3>2. configMaps'[n] = <<c>>
      BY <1>4, <2>1
    <3> QED
      BY <3>1, <3>2 DEF InstanceKept
  <2>2. CASE configMaps[n] # <<>>
    <3>1. Len(configMaps[n]) \in DOMAIN configMaps[n] /\ 1 \in DOMAIN configMaps[n]
      BY <1>2, <2>2
    <3>2. c.instance = configMaps[n][1].instance
      BY <1>1, <1>4, <2>2, <3>1 DEF InstanceKept, Current
    <3>3. /\ configMaps'[n][1] = configMaps[n][1]
          /\ \A v \in DOMAIN configMaps'[n] :
               \/ v \in DOMAIN configMaps[n] /\ configMaps'[n][v] = configMaps[n][v]
               \/ configMaps'[n][v] = c
      BY <1>2, <1>4, <3>1
    <3> QED
      BY <1>1, <3>2, <3>3 DEF InstanceKept
  <2> QED
    BY <2>1, <2>2
<1> QED
  BY <1>3, <1>4 DEF OneMore

LEMMA StartStep ==
  ASSUME ProcessInv, NEW n \in Namespace, Start(n)
  PROVE  ConfigSeen(n)' /\ InstanceKept(n)'
<1>1. /\ configMaps[n] \in Seq(Config) /\ configMaps[n] # <<>> /\ Valid(Current(n))
      /\ UNCHANGED <<configMaps, making, moved>> /\ making[n].at = "none"
  BY DEF ProcessInv, Inv, InstallTypeOK, ObjectTypeOK, Start, ResyncConfig, installVars, objects,
         ConfigSeen
<1>2. proc'[n] = [NoProc EXCEPT !.phase = "watching", !.config = Known(Current(n)),
                                !.since = Len(configMaps[n]), !.seen = Len(configMaps[n])]
  BY DEF Start, ProcessInv, ProcessTypeOK
<1>3. /\ proc'[n].phase = "watching" /\ proc'[n].config = Known(configMaps[n][Len(configMaps[n])])
      /\ proc'[n].since = Len(configMaps[n]) /\ proc'[n].seen = Len(configMaps[n])
  BY <1>2 DEF NoProc, Current
<1>4. Len(configMaps[n]) \in Nat \ {0}
  BY <1>1
<1>5. Len(configMaps[n]) \in Versions(n)'
  BY <1>1, <1>3, <1>4 DEF Versions, Current
<1>6. FromVersion(n)'
  BY <1>1, <1>3, <1>5 DEF FromVersion
<1>7. ConfigSeen(n)'
  BY <1>1, <1>3, <1>4, <1>6 DEF ConfigSeen
<1> QED
  BY <1>1, <1>3, <1>7 DEF ProcessInv, InstanceKept

LEMMA ConfigMapEventStep ==
  ASSUME ProcessInv, NEW n \in Namespace, ConfigMapEvent(n)
  PROVE  ConfigSeen(n)' /\ InstanceKept(n)'
<1>1. PICK v \in (proc[n].seen + 1)..Len(configMaps[n]) :
        proc' = [proc EXCEPT ![n].seen = v, ![n].config = updateConfig(n, configMaps[n][v])]
  BY DEF ConfigMapEvent
<1>2. /\ proc[n] \in ProcType /\ proc[n].since \in Nat /\ proc[n].seen \in Nat
      /\ configMaps[n] \in Seq(Config)
  BY DEF ProcessInv, Inv, InstallTypeOK, ObjectTypeOK, ProcessTypeOK, ProcType
<1>3. /\ UNCHANGED <<configMaps, making, moved>>
      /\ proc[n].phase # "down" /\ 1 <= proc[n].since /\ FromVersion(n)
      /\ proc[n].seen <= Len(configMaps[n])
  BY DEF ProcessInv, ConfigMapEvent, installVars, objects, ConfigSeen
<1>4. /\ proc'[n].phase = proc[n].phase /\ proc'[n].since = proc[n].since
      /\ proc'[n].selector = proc[n].selector
      /\ proc'[n].seen = v /\ proc'[n].config = updateConfig(n, configMaps[n][v])
  BY <1>1, <1>2 DEF ProcessInv, ProcessTypeOK, ProcType
<1>5. v \in Nat /\ proc[n].seen < v /\ v <= Len(configMaps[n])
  BY <1>1, <1>2
<1>6. Versions(n) \subseteq Versions(n)'
  BY <1>2, <1>3, <1>4, <1>5 DEF Versions
<1>7. \A w \in Versions(n) : w \in Nat /\ w < v
  BY <1>2, <1>5 DEF Versions
<1>8. PICK w \in Versions(n) :
        /\ proc[n].config = Known(configMaps[n][w])
        /\ making[n].at = "use" =>
             \E u \in Versions(n) : u <= w /\ configMaps[n][u].resources # "none"
  BY <1>3 DEF FromVersion
<1>9. FromVersion(n)'
  <2>1. CASE ~Valid(configMaps[n][v])
    BY <1>3, <1>4, <1>6, <1>8, <2>1 DEF updateConfig, FromVersion
  <2>2. CASE Valid(configMaps[n][v])
    <3>1. proc'[n].config = Known(configMaps'[n][v])
      BY <1>3, <1>4, <2>2 DEF updateConfig
    <3>2. v \in proc'[n].since..proc'[n].seen
      BY <1>2, <1>4, <1>5, <1>7, <1>8 DEF Versions
    <3>3. v \in Versions(n)'
      BY <1>3, <2>2, <3>2 DEF Versions
    <3>4. making[n].at = "use" =>
            \E u \in Versions(n)' : u <= v /\ configMaps[n][u].resources # "none"
      BY <1>5, <1>6, <1>7, <1>8
    <3> QED
      BY <1>3, <3>1, <3>3, <3>4 DEF FromVersion
  <2> QED
    BY <2>1, <2>2
<1>10. ConfigSeen(n)'
  BY <1>3, <1>4, <1>5, <1>6, <1>9 DEF ProcessInv, ConfigSeen
<1> QED
  BY <1>3, <1>4, <1>10 DEF ProcessInv, InstanceKept

LEMMA newWorkflowPodWatchStep ==
  ASSUME ProcessInv, NEW n \in Namespace, newWorkflowPodWatch(n)
  PROVE  ConfigSeen(n)' /\ InstanceKept(n)'
<1>1. /\ proc[n] \in ProcType /\ configMaps[n] \in Seq(Config)
      /\ UNCHANGED <<configMaps, making, moved>> /\ proc[n].phase = "watching"
  BY DEF ProcessInv, Inv, InstallTypeOK, ObjectTypeOK, ProcessTypeOK, newWorkflowPodWatch,
         installVars, objects
<1>2. /\ proc'[n].phase = "running" /\ proc'[n].selector = proc[n].config.instance
      /\ proc'[n].since = proc[n].since /\ proc'[n].seen = proc[n].seen
      /\ proc'[n].config = proc[n].config
  BY <1>1 DEF newWorkflowPodWatch, ProcessInv, ProcessTypeOK, ProcType
<1>3. Versions(n)' = Versions(n)
  BY <1>1, <1>2 DEF Versions
<1>4. FromVersion(n) /\ making[n].at = "none"
  BY <1>1 DEF ProcessInv, ConfigSeen
<1>5. FromVersion(n)'
  BY <1>1, <1>2, <1>3, <1>4 DEF FromVersion
<1>6. ConfigSeen(n)'
  BY <1>1, <1>2, <1>3, <1>5 DEF ProcessInv, ConfigSeen
<1>7. PICK w \in Versions(n) : proc[n].config = Known(configMaps[n][w])
  BY <1>4 DEF FromVersion
<1>8. w \in DOMAIN configMaps[n]
  BY <1>1, <1>7 DEF ProcessInv, ConfigSeen, Versions, ProcType
<1>9. proc[n].config.instance = configMaps[n][w].instance
  <2>1. configMaps[n][w] \in Config
    BY <1>1, <1>8
  <2> QED
    BY <1>7, <2>1, KnownFields
<1> QED
  BY <1>1, <1>2, <1>4, <1>6, <1>8, <1>9 DEF ProcessInv, InstanceKept

LEMMA CrashStep ==
  ASSUME ProcessInv, NEW n \in Namespace, Crash(n)
  PROVE  ConfigSeen(n)' /\ InstanceKept(n)'
<1>1. /\ UNCHANGED <<configMaps, moved>>
      /\ proc'[n] = NoProc /\ making'[n] = NoBuild
  BY DEF Crash, ProcessInv, ProcessTypeOK, installVars, objects
<1> QED
  BY <1>1 DEF ProcessInv, ConfigSeen, InstanceKept, NoProc, NoBuild

(* The configuration in use is that of a version the process has seen. *)
LEMMA ConfigInUse ==
  ASSUME ProcessInv, NEW n \in Namespace, proc[n].phase = "running"
  PROVE  /\ \E v \in Versions(n) : proc[n].config = Known(configMaps[n][v])
         /\ Versions(n) \subseteq DOMAIN configMaps[n] /\ Versions(n) \subseteq Nat
<1>1. /\ configMaps[n] \in Seq(Config) /\ proc[n].since \in Nat /\ proc[n].seen \in Nat
  BY DEF ProcessInv, Inv, InstallTypeOK, ObjectTypeOK, ProcessTypeOK, ProcType
<1>2. 1 <= proc[n].since /\ proc[n].seen <= Len(configMaps[n]) /\ FromVersion(n)
  BY DEF ProcessInv, ConfigSeen
<1>3. Versions(n) \subseteq DOMAIN configMaps[n] /\ Versions(n) \subseteq Nat
  BY <1>1, <1>2 DEF Versions
<1> QED
  BY <1>2, <1>3 DEF FromVersion

LEMMA createWorkflowPodStep ==
  ASSUME ProcessInv, NEW n \in Namespace, createWorkflowPod(n)
  PROVE  ConfigSeen(n)' /\ InstanceKept(n)'
<1>1. making[n] \in BuildType
  BY DEF ProcessInv, ProcessTypeOK
<1>2. /\ UNCHANGED <<configMaps, moved, proc>> /\ Versions(n)' = Versions(n)
      /\ proc[n].phase = "running"
  <2>1. UNCHANGED <<configMaps, moved, proc>>
    BY DEF createWorkflowPod, CheckInstance, LabelInstance, ReadImage, CheckResources,
           UseResources, CreatePod, Builds, installVars, objects
  <2>2. proc[n].phase = "running"
    BY DEF createWorkflowPod, CheckInstance, LabelInstance, ReadImage, CheckResources,
           UseResources, CreatePod, ProcessInv, ConfigSeen
  <2> QED
    BY <2>1, <2>2 DEF Versions
<1>3. PICK w \in Versions(n) :
        /\ proc[n].config = Known(configMaps[n][w])
        /\ making[n].at = "use" =>
             \E v \in Versions(n) : v <= w /\ configMaps[n][v].resources # "none"
  BY <1>2 DEF ProcessInv, ConfigSeen, FromVersion
<1>4. w \in DOMAIN configMaps[n] /\ w \in Nat /\ Versions(n) \subseteq Nat
  BY <1>2, ConfigInUse
<1>5. 1 <= proc[n].since /\ proc[n].seen <= Len(configMaps[n])
  BY <1>2 DEF ProcessInv, ConfigSeen
<1>6. /\ proc[n].config.image = configMaps[n][w].image
      /\ proc[n].config.resources = configMaps[n][w].resources
      /\ proc[n].config.instance = configMaps[n][w].instance
  <2>1. configMaps[n] \in Seq(Config)
    BY DEF ProcessInv, Inv, InstallTypeOK, ObjectTypeOK
  <2>2. configMaps[n][w] \in Config
    BY <1>4, <2>1
  <2> QED
    BY <1>3, <2>2, KnownFields
<1>7. n \notin moved => configMaps[n][w].instance = configMaps[n][1].instance
  BY <1>4 DEF ProcessInv, InstanceKept
<1>8. CASE CheckInstance(n) \/ LabelInstance(n)
  <2>1. /\ making'[n].at \in {"label", "image"}
        /\ making'[n].at = "label" => proc[n].config.instance # 0
        /\ making'[n].at = "image" => making'[n].instance = proc[n].config.instance
    <3>1. CASE CheckInstance(n)
      <4>1. making'[n] = [NoBuild EXCEPT !.at = IF proc[n].config.instance # 0 THEN "label"
                                                ELSE "image"]
        BY <3>1 DEF CheckInstance, Builds, ProcessInv, ProcessTypeOK
      <4> QED
        BY <4>1 DEF NoBuild
    <3>2. CASE LabelInstance(n)
      <4>1. making'[n] = [making[n] EXCEPT !.instance = proc[n].config.instance, !.at = "image"]
        BY <3>2 DEF LabelInstance, Builds, ProcessInv, ProcessTypeOK
      <4> QED
        BY <1>1, <4>1 DEF BuildType
    <3> QED
      BY <1>8, <3>1, <3>2
  <2>2. FromVersion(n)'
    BY <1>2, <1>3, <2>1 DEF FromVersion
  <2>3. ConfigSeen(n)'
    BY <1>2, <1>5, <2>1, <2>2 DEF ConfigSeen
  <2> QED
    BY <1>2, <1>6, <1>7, <2>1, <2>3 DEF ProcessInv, InstanceKept
<1>9. CASE ReadImage(n)
  <2>1. /\ making'[n].at = "resources" /\ making'[n].image = proc[n].config.image
        /\ making'[n].instance = making[n].instance /\ making[n].at \in {"image", "create"}
    BY <1>1, <1>9 DEF ReadImage, Builds, ProcessInv, ProcessTypeOK, BuildType
  <2>2. FromVersion(n)'
    BY <1>2, <1>3, <2>1 DEF FromVersion
  <2>3. ConfigSeen(n)'
    BY <1>2, <1>3, <1>5, <1>6, <2>1, <2>2 DEF ConfigSeen
  <2> QED
    BY <1>2, <2>1, <2>3 DEF ProcessInv, InstanceKept
<1>10. CASE CheckResources(n) \/ UseResources(n) \/ CreatePod(n)
  <2>1. /\ making'[n].image = making[n].image /\ making'[n].instance = making[n].instance
        /\ making[n].at \in {"resources", "use", "create"}
        /\ making'[n].at \in {"use", "create", "created", "panicked"}
        /\ making'[n].at = "use" => HasResources(n)
        /\ making'[n].at = "panicked" => making[n].at = "use" /\ ~HasResources(n)
    BY <1>1, <1>10 DEF CheckResources, UseResources, CreatePod, Builds, ProcessInv,
                      ProcessTypeOK, BuildType
  <2>2. FromVersion(n)'
    <3>1. making'[n].at = "use" =>
            \E v \in Versions(n) : v <= w /\ configMaps[n][v].resources # "none"
      BY <1>3, <1>4, <1>6, <2>1 DEF HasResources
    <3> QED
      BY <1>2, <1>3, <3>1 DEF FromVersion
  <2>3. making'[n].at = "panicked" =>
          \E v \in Versions(n) : /\ v < w
                                 /\ configMaps[n][v].resources # "none"
                                 /\ configMaps[n][w].resources = "none"
    <3> SUFFICES ASSUME making'[n].at = "panicked"
                 PROVE  \E v \in Versions(n) : /\ v < w
                                               /\ configMaps[n][v].resources # "none"
                                               /\ configMaps[n][w].resources = "none"
      OBVIOUS
    <3>1. PICK v \in Versions(n) : v <= w /\ configMaps[n][v].resources # "none"
      BY <1>3, <2>1
    <3>2. configMaps[n][w].resources = "none"
      BY <1>6, <2>1 DEF HasResources
    <3>3. v < w
      BY <1>4, <3>1, <3>2
    <3> QED
      BY <3>1, <3>2, <3>3
  <2>4. ConfigSeen(n)'
    BY <1>2, <1>5, <2>1, <2>2, <2>3 DEF ProcessInv, ConfigSeen
  <2> QED
    BY <1>2, <2>1, <2>4 DEF ProcessInv, InstanceKept
<1> QED
  BY <1>8, <1>9, <1>10 DEF createWorkflowPod

LEMMA VersionTypes ==
  ASSUME ProcessInv, NEW n \in Namespace
  PROVE  /\ \A v \in DOMAIN configMaps[n] : configMaps[n][v] \in Config
         /\ configMaps[n] # <<>> => Current(n) \in Config
         /\ Len(configMaps[n]) \in Nat
<1>1. configMaps[n] \in Seq(Config)
  BY DEF ProcessInv, Inv, InstallTypeOK, ObjectTypeOK
<1>2. configMaps[n] # <<>> => Len(configMaps[n]) \in DOMAIN configMaps[n]
  BY <1>1
<1> QED
  BY <1>1, <1>2 DEF Current

LEMMA ProcessTypes ==
  ASSUME ProcessInv, [Next]_vars
  PROVE  ProcessTypeOK'
<1>1. ASSUME NEW n \in Namespace, Start(n)
      PROVE  ProcessTypeOK'
  <2>1. Known(Current(n)) \in Config /\ Len(configMaps[n]) \in Nat
    BY <1>1, VersionTypes, KnownFields DEF Start, ResyncConfig
  <2>2. [NoProc EXCEPT !.phase = "watching", !.config = Known(Current(n)),
                       !.since = Len(configMaps[n]), !.seen = Len(configMaps[n])] \in ProcType
    BY <2>1 DEF NoProc, ProcType
  <2> QED
    BY <1>1, <2>2 DEF Start, ProcessInv, ProcessTypeOK
<1>2. ASSUME NEW n \in Namespace, ConfigMapEvent(n)
      PROVE  ProcessTypeOK'
  <2>1. PICK v \in (proc[n].seen + 1)..Len(configMaps[n]) :
          proc' = [proc EXCEPT ![n].seen = v, ![n].config = updateConfig(n, configMaps[n][v])]
    BY <1>2 DEF ConfigMapEvent
  <2>2. proc[n] \in ProcType /\ proc[n].seen \in Nat /\ proc[n].config \in Config
    BY DEF ProcessInv, ProcessTypeOK, ProcType
  <2>3. v \in Nat /\ Known(configMaps[n][v]) \in Config
    BY <2>1, <2>2, VersionTypes, KnownFields
  <2>4. updateConfig(n, configMaps[n][v]) \in Config
    BY <2>2, <2>3 DEF updateConfig
  <2>5. [proc[n] EXCEPT !.seen = v, !.config = updateConfig(n, configMaps[n][v])] \in ProcType
    BY <2>2, <2>3, <2>4 DEF ProcType
  <2>6. proc' \in [Namespace -> ProcType]
    BY <2>1, <2>5 DEF ProcessInv, ProcessTypeOK
  <2> QED
    BY <1>2, <2>6 DEF ConfigMapEvent, ProcessInv, ProcessTypeOK
<1>3. ASSUME NEW n \in Namespace, newWorkflowPodWatch(n)
      PROVE  ProcessTypeOK'
  <2>1. proc[n] \in ProcType /\ proc[n].config.instance \in Nat
    BY DEF ProcessInv, ProcessTypeOK, ProcType, Config
  <2>2. [proc[n] EXCEPT !.phase = "running", !.selector = proc[n].config.instance] \in ProcType
    BY <2>1 DEF ProcType
  <2> QED
    BY <1>3, <2>2 DEF newWorkflowPodWatch, ProcessInv, ProcessTypeOK
<1>4. ASSUME NEW n \in Namespace, Crash(n)
      PROVE  ProcessTypeOK'
  <2>1. NoProc \in ProcType /\ NoBuild \in BuildType
    BY DEF NoProc, NoConfig, Config, ProcType, NoBuild, BuildType, Build
  <2> QED
    BY <1>4, <2>1 DEF Crash, ProcessInv, ProcessTypeOK
<1>5. ASSUME NEW n \in Namespace, createWorkflowPod(n)
      PROVE  ProcessTypeOK'
  <2>1. /\ proc[n].config.instance \in Nat /\ proc[n].config.image \in 0..2
        /\ making[n] \in BuildType
    BY DEF ProcessInv, ProcessTypeOK, ProcType, Config
  <2>2. \E build \in BuildType : Builds(n, build)
    <3>1. /\ [making[n] EXCEPT !.instance = proc[n].config.instance, !.at = "image"]
               \in BuildType
          /\ \A at \in Build : [NoBuild EXCEPT !.at = at] \in BuildType
          /\ [making[n] EXCEPT !.image = proc[n].config.image, !.at = "resources"] \in BuildType
      <4>1. "image" \in Build /\ "resources" \in Build /\ 0 \in 0..2
        BY DEF Build
      <4> QED
        BY <2>1, <4>1 DEF BuildType, NoBuild
    <3>3. ASSUME NEW at \in Build
          PROVE  [making[n] EXCEPT !.at = at] \in BuildType
      BY <2>1 DEF BuildType
    <3>2. /\ (IF proc[n].config.instance # 0 THEN "label" ELSE "image") \in Build
          /\ (IF HasResources(n) THEN "use" ELSE "create") \in Build
          /\ (IF HasResources(n) THEN "create" ELSE "panicked") \in Build
          /\ "created" \in Build
      BY DEF Build
    <3> QED
      BY <1>5, <3>1, <3>2, <3>3 DEF createWorkflowPod, CheckInstance, LabelInstance,
                                          ReadImage, CheckResources, UseResources, CreatePod
  <2> QED
    BY <2>2 DEF Builds, ProcessInv, ProcessTypeOK
<1>6. CASE UNCHANGED controllerVars
  BY <1>6 DEF controllerVars, ProcessInv, ProcessTypeOK
<1> QED
  BY <1>1, <1>2, <1>3, <1>4, <1>5, <1>6 DEF Next, Controller, vars

(* A step of one namespace's process leaves those of the others alone. *)
LEMMA OtherProcesses ==
  ASSUME ProcessInv, NEW m \in Namespace, Start(m) \/ Controller(m) \/ Crash(m),
         NEW n \in Namespace \ {m}
  PROVE  proc'[n] = proc[n] /\ making'[n] = making[n]
  BY DEF ProcessInv, ProcessTypeOK, Start, Controller, Crash, ConfigMapEvent,
         newWorkflowPodWatch, createWorkflowPod, CheckInstance, LabelInstance, ReadImage,
         CheckResources, UseResources, CreatePod, Builds

LEMMA NextKeepsProcessInv ==
  ASSUME ProcessInv, [Next]_vars
  PROVE  ProcessInv'
<1>1. Inv' /\ ProcessTypeOK' /\ \A n \in Namespace : OneMore(n)
  BY NextKeepsInv, ProcessTypes, ConfigMapsGrow DEF ProcessInv
<1>2. ASSUME NEW n \in Namespace, proc'[n] = proc[n], making'[n] = making[n]
      PROVE  ConfigSeen(n)' /\ InstanceKept(n)'
  BY <1>1, <1>2, ProcessFrame, InstanceFrame DEF ProcessInv
<1>3. ASSUME NEW m \in Namespace, Start(m) \/ Controller(m) \/ Crash(m), NEW n \in Namespace
      PROVE  ConfigSeen(n)' /\ InstanceKept(n)'
  <2>1. CASE n = m
    BY <1>3, <2>1, StartStep, ConfigMapEventStep, newWorkflowPodWatchStep, createWorkflowPodStep,
       CrashStep DEF Controller
  <2>2. CASE n # m
    BY <1>2, <1>3, <2>2, OtherProcesses
  <2> QED
    BY <2>1, <2>2
<1>4. ASSUME UNCHANGED controllerVars, NEW n \in Namespace
      PROVE  ConfigSeen(n)' /\ InstanceKept(n)'
  BY <1>2, <1>4 DEF controllerVars
<1>5. \A n \in Namespace : ConfigSeen(n)' /\ InstanceKept(n)'
  BY <1>3, <1>4 DEF Next, vars
<1> QED
  BY <1>1, <1>5 DEF ProcessInv

LEMMA InitProcess ==
  ASSUME Init
  PROVE  ProcessInv
<1>1. NoProc \in ProcType /\ NoBuild \in BuildType
  BY DEF NoProc, NoConfig, Config, ProcType, NoBuild, BuildType, Build
<1>2. ProcessTypeOK
  BY <1>1 DEF Init, ControllerInit, ProcessTypeOK
<1>3. \A n \in Namespace : proc[n] = NoProc /\ making[n] = NoBuild /\ configMaps[n] = <<>>
  BY DEF Init, InstallInit, ControllerInit
<1>4. \A n \in Namespace : ConfigSeen(n)
  BY <1>3 DEF ConfigSeen, NoProc, NoBuild
<1>5. \A n \in Namespace : InstanceKept(n)
  BY <1>3 DEF InstanceKept, NoProc, NoBuild
<1> QED
  BY <1>2, <1>4, <1>5, InitInv DEF ProcessInv

(* The objects, the commands and the processes at any time, for every      *)
(* namespace.                                                              *)
THEOREM ProcessCorrect == Spec => []ProcessInv
<1>1. Init => ProcessInv
  BY InitProcess
<1>2. ProcessInv /\ [Next]_vars => ProcessInv'
  BY NextKeepsProcessInv
<1> QED
  BY <1>1, <1>2, PTL DEF Spec

(* Every variable of the installation and of the controllers' processes    *)
(* keeps its type.                                                         *)
THEOREM InstallationTypes == Spec => []TypeOK
<1>1. ProcessInv => TypeOK
  <2>1. 0..2 = Release \cup {0}
    BY DEF Release
  <2> QED
    BY <2>1 DEF ProcessInv, Inv, InstallTypeOK, ObjectTypeOK, CommandTypeOK, ProcessTypeOK, TypeOK
<1> QED
  BY <1>1, ProcessCorrect, PTL

(* Whatever is written into the config map while a pod is built, its       *)
(* executor's image is one of a valid version the process has seen         *)
(* (updateConfig, newExecContainer).                                       *)
THEOREM ImageWasConfigured == Spec => []ImagesFromConfigMap
<1>1. ProcessInv => ImagesFromConfigMap
  BY DEF ProcessInv, ConfigSeen, ImagesFromConfigMap
<1> QED
  BY <1>1, ProcessCorrect, PTL

(* The pods a controller makes have the label its informer selects by,     *)
(* through all upgrades of the namespace and restarts of the controller,   *)
(* unless an administrator changed the instance id.                        *)
THEOREM PodsAreWatched == Spec => []PodsWatched
<1>1. ProcessInv => PodsWatched
  BY DEF ProcessInv, ConfigSeen, InstanceKept, PodsWatched
<1> QED
  BY <1>1, ProcessCorrect, PTL

(* A worker does not panic over the executor's resources unless they were  *)
(* removed while the process ran (newExecContainer).                       *)
THEOREM OnlyRemovalPanics == Spec => []PanicsOnRemoval
<1>1. ProcessInv => PanicsOnRemoval
  BY DEF ProcessInv, ConfigSeen, PanicsOnRemoval
<1> QED
  BY <1>1, ProcessCorrect, PTL
=============================================================================
