-------------------------- MODULE ResourceExecutor ---------------------------
(***************************************************************************)
(* The executor as the main container of a resource template (the command  *)
(* resource of taskerexec and executor/resource.go): it runs kubectl on a  *)
(* manifest, follows the resource until it satisfies a condition, and      *)
(* saves parameters from it, while others change or delete the resource.   *)
(*                                                                         *)
(* The specification of this module is that of a step's pod of either      *)
(* kind: the one of Executor with the actions of this module added.        *)
(***************************************************************************)
EXTENDS Executor, Sequences

CONSTANTS
  Attempts,    \* how often the resource is watched before the step gives up: 5
  MaxFeed      \* others wait while so many versions are undelivered

ASSUME ResourceAssumption == Attempts \in Nat \ {0} /\ MaxFeed \in Nat

(* A version of the resource: whether it exists, and of the template's     *)
(* conditions those it satisfies.  (A condition is a list of requirements: *)
(* success means that all of them match, failure that one does.)           *)
Version == [exists : BOOLEAN, meets : SUBSET Condition]

VARIABLES
  resource,    \* the current version in the API server
  feed,        \* versions the running kubectl has not printed yet
  attempts,    \* how many watches have ended
  shown        \* history: of each version printed, the conditions it met

resourceVars == <<resource, feed, attempts, shown>>
vars == <<executorVars, resourceVars>>

Absent == [exists |-> FALSE, meets |-> {}]
Fresh  == [exists |-> TRUE, meets |-> {}]

Init ==
  /\ ExecutorInit
  /\ resource \in IF IsResource THEN {Absent, Fresh} ELSE {Absent}
  /\ feed = <<>> /\ attempts = 0 /\ shown = {}

-----------------------------------------------------------------------------
(* A new version; a watch prints it, the last version once more if the     *)
(* resource was deleted.                                                   *)
Becomes(v) ==
  /\ resource' = v
  /\ feed' = IF pc = "readJSON" THEN Append(feed, IF v.exists THEN v ELSE resource)
             ELSE feed

ResourceChanges ==
  /\ IsResource /\ resource.exists /\ Len(feed) < MaxFeed /\ pc # "gone"
  /\ \E v \in {Absent} \cup [exists : {TRUE}, meets : SUBSET tmpl.conditions] :
       v # resource /\ Becomes(v)
  /\ UNCHANGED <<executorVars, attempts, shown>>

-----------------------------------------------------------------------------
(* The command goes on, or records its first error and ends. *)
Goes(next) == pc' = next /\ UNCHANGED <<errors, exit>>

Unchanged == UNCHANGED <<containers, annotations, signal, event, targets, goroutines, force>>

StageFiles ==
  /\ pc = "stage"
  /\ \/ Goes("exec") /\ UNCHANGED budget
     \/ GiveUp /\ Spend("save")
  /\ UNCHANGED <<saved, resourceVars>> /\ Unchanged

(* What kubectl does to the resource if it can.  A deletion of nothing     *)
(* succeeds.                                                               *)
Act ==
  CASE tmpl.action \in {"get", "replace"} -> resource.exists /\ UNCHANGED resource
    [] tmpl.action = "create" -> ~resource.exists /\ resource' = Fresh
    [] tmpl.action = "apply"  -> resource' = IF resource.exists THEN resource ELSE Fresh
    [] tmpl.action = "delete" -> resource' = Absent

Refused ==
  \/ tmpl.action \in {"get", "replace"} /\ ~resource.exists
  \/ tmpl.action = "create" /\ resource.exists

(* An error is final, whether or not the API server did what was asked. *)
ExecResource ==
  /\ pc = "exec"
  /\ \/ Act /\ Goes("waitResource") /\ UNCHANGED budget
     \/ Refused /\ GiveUp /\ UNCHANGED <<resource, budget>>
     \/ /\ Act \/ UNCHANGED resource
        /\ GiveUp /\ Spend("api")
  /\ UNCHANGED <<saved, feed, attempts, shown>> /\ Unchanged

WaitResource ==
  /\ pc = "waitResource"
  /\ Goes(IF tmpl.conditions = {} THEN "resourceParameters" ELSE "watch")
  /\ UNCHANGED <<saved, budget, resourceVars>> /\ Unchanged

(* Mutant: retries without an end. *)
Retry_Always ==
  /\ Goes("watch") /\ feed' = <<>> /\ UNCHANGED <<attempts, budget>>

(* Whatever made kubectl end, it is started again, but only so often. *)
Retry ==
  /\ attempts' = attempts + 1
  /\ IF attempts' < Attempts THEN Goes("watch") ELSE GiveUp
  /\ feed' = <<>> /\ UNCHANGED budget

(* kubectl prints the resource as it is, then every change.  Without the   *)
(* resource it ends at once; if it cannot be started there is no retry.    *)
startKubectlWaitCmd ==
  /\ pc = "watch"
  /\ \/ /\ resource.exists
        /\ Goes("readJSON") /\ feed' = <<resource>> /\ UNCHANGED <<attempts, budget>>
     \/ ~resource.exists /\ Retry
     \/ GiveUp /\ Spend("docker") /\ UNCHANGED <<feed, attempts>>
  /\ UNCHANGED <<saved, resource, shown>> /\ Unchanged

(* Only the conditions that are stated are looked at. *)
MeetsFailure(v) == "failure" \in v.meets \cap tmpl.conditions
MeetsSuccess(v) == "success" \in tmpl.conditions => "success" \in v.meets

Reads ==
  /\ feed # <<>>
  /\ feed' = Tail(feed)
  /\ shown' = shown \cup {[success |-> MeetsSuccess(Head(feed)),
                           failure |-> MeetsFailure(Head(feed))]}

(* Mutant: the condition for success is looked at first. *)
checkResourceState_SuccessFirst ==
  /\ pc = "readJSON" /\ Reads
  /\ IF MeetsSuccess(Head(feed)) THEN Goes("resourceParameters")
     ELSE IF MeetsFailure(Head(feed)) THEN GiveUp
     ELSE Goes("readJSON")
  /\ UNCHANGED <<saved, resource, attempts, budget>> /\ Unchanged

(* One version: failure comes first and is final.  With nothing but a      *)
(* condition for failure, a version that does not meet it is a success.    *)
checkResourceState ==
  /\ pc = "readJSON" /\ Reads
  /\ IF MeetsFailure(Head(feed)) THEN GiveUp
     ELSE IF MeetsSuccess(Head(feed)) THEN Goes("resourceParameters")
     ELSE Goes("readJSON")
  /\ UNCHANGED <<saved, resource, attempts, budget>> /\ Unchanged

(* The API server ends a watch when it likes; what was not printed is lost.*)
WatchEnds ==
  /\ pc = "readJSON" /\ Retry
  /\ UNCHANGED <<saved, resource, shown>> /\ Unchanged

(* kubectl reads the resource again for each parameter.  Its error ends    *)
(* the command, unless it is in a pipe to jq: the parameter is empty then. *)
SaveResourceParameters ==
  /\ pc = "resourceParameters"
  /\ \/ tmpl.outputs = {} /\ Goes("handle") /\ UNCHANGED <<saved, budget>>
     \/ /\ tmpl.outputs # {} /\ resource.exists
        /\ Goes("annotate") /\ saved' = saved \cup {"parameters"} /\ UNCHANGED budget
     \/ /\ tmpl.outputs # {} /\ UNCHANGED saved
        /\ \/ ~resource.exists /\ UNCHANGED budget
           \/ Spend("api")
        /\ Goes("annotate") \/ GiveUp
  /\ UNCHANGED resourceVars /\ Unchanged

execResource ==
  \/ StageFiles \/ ExecResource \/ WaitResource \/ startKubectlWaitCmd
  \/ checkResourceState \/ SaveResourceParameters

-----------------------------------------------------------------------------
Next ==
  \/ ExecutorNext /\ UNCHANGED resourceVars
  \/ execResource \/ WatchEnds \/ ResourceChanges

Spec == Init /\ [][Next]_vars

Fair(A) == A /\ UNCHANGED <<budget, resourceVars>>

(* The goroutines and the timer run as long as the process does.  The      *)
(* kubelet does only finitely much for a pod and gets round to all of it.  *)
(* No fault has to strike, no watch has to end.                            *)
Fairness ==
  /\ WF_vars(Fair(Kubelet))
  /\ WF_vars(Fair(Command))
  /\ WF_vars(Fair(ForceKill))
  /\ WF_vars(Fair(Monitor))
  /\ WF_vars(Fair(monitorDeadline))
  /\ WF_vars(execResource /\ UNCHANGED budget)

FairSpec == Spec /\ Fairness
=============================================================================
