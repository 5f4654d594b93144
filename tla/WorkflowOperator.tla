-------------------------- MODULE WorkflowOperator --------------------------
(***************************************************************************)
(* One operation on a workflow: operator.go, steps.go and the part of      *)
(* workflowpod.go that creates a pod.  WorkflowController puts the         *)
(* operations into the controller and the cluster.                         *)
(*                                                                         *)
(* The workflow's status lives in the API server ("store").  An operation  *)
(* copies the informer's cache, which lags behind, changes the copy,       *)
(* creates pods on the way and at the end sends the difference between the *)
(* copy and what it copied as a merge patch.  The work queue never hands   *)
(* one workflow to two workers, so at most one operation runs on it.       *)
(***************************************************************************)
EXTENDS WorkflowTree, FiniteSets

CONSTANTS
  InSync,   \* TRUE: an operation only starts once the cache has caught up
  MaxLag,   \* bound on the watch events under way to the cache
  ChannelSize,  \* the capacity of the channel completedPods
  Budget    \* [Fault -> Nat]: how often each fault may strike

(* "crash": the controller restarts.  "api": a call has no effect and      *)
(* fails.  "lost": a call takes effect, its answer is lost.  "slow": an    *)
(* operation runs into its deadline.  "delete": somebody deletes a pod.    *)
(* "unreachable": a pod's kubelet cannot be reached for a while.           *)
Fault == {"crash", "api", "lost", "slow", "delete", "unreachable"}

ASSUME BoundAssumption ==
  /\ InSync \in BOOLEAN
  /\ MaxLag \in Nat \ {0}
  /\ ChannelSize \in Nat \ {0}
  /\ Budget \in [Fault -> Nat]

VARIABLES
  store,          \* the workflow in the API server
  watch,          \* its versions under way to the informer, oldest first
  cache,          \* the workflow in the informer's store
  queued,         \* the workflow's key is in wfQueue
  podQueue,       \* the pods whose keys are in podQueue
  pods,           \* the pods in the API server
  pvcs,           \* the claims in the API server
  completedCh,    \* the channel completedPods of the controller, oldest first
  pc,             \* where the worker is in its operation, "idle" outside one
  orig,           \* wfOperationCtx.orig
  wf,             \* wfOperationCtx.wf
  updated,        \* wfOperationCtx.updated
  completedPods,  \* wfOperationCtx.completedPods
  cur,            \* the node being executed
  ret,            \* the error returned by its execution
  budget          \* the faults that may still strike

cluster    == <<pods, pvcs>>
controller == <<watch, cache, queued, podQueue, completedCh>>
operation  == <<pc, orig, wf, updated, completedPods, cur, ret>>
vars       == <<store, cluster, controller, operation, budget>>

(* "slots" is the length of status.persistentVolumeClaims, "vols" its      *)
(* entries that name a claim; "done" is the label completed=true, which is *)
(* set together with finishedAt.                                           *)
Workflow == [phase : NodePhase \cup {Unset},
             done  : BOOLEAN,
             nodes : [Node -> NodeStatusType],
             slots : 0..NumClaims,
             vols  : SUBSET Claim]

NewWorkflow == [phase |-> Unset, done |-> FALSE,
                nodes |-> [n \in Node |-> NoStatus],
                slots |-> 0, vols |-> {}]

PodType == [phase : PodPhase, labelled : BOOLEAN, killed : BOOLEAN]

NoPod  == [phase |-> "Absent", labelled |-> FALSE, killed |-> FALSE]
NewPod == [NoPod EXCEPT !.phase = "Pending"]

Step == {"idle", "first", "reconcile", "pvcs", "template", "group", "step",
         "return", "ended", "finish", "persist", "send"}

TypeOK ==
  /\ store \in Workflow
  /\ watch \in Seq(Workflow)
  /\ cache \in Workflow
  /\ queued \in BOOLEAN
  /\ podQueue \subseteq Pod
  /\ pods \in [Pod -> PodType]
  /\ pvcs \subseteq Claim
  /\ completedCh \in Seq(Pod)
  /\ pc \in Step
  /\ orig \in Workflow
  /\ wf \in Workflow
  /\ updated \in BOOLEAN
  /\ completedPods \subseteq Pod
  /\ cur \in Node
  /\ ret \in {"nil", "error", "timeout"}
  /\ budget \in [Fault -> Nat]

Init ==
  /\ store = NewWorkflow
  /\ watch = <<>>
  /\ cache = NewWorkflow
  /\ queued = TRUE
  /\ podQueue = {}
  /\ pods = [p \in Pod |-> NoPod]
  /\ pvcs = {}
  /\ completedCh = <<>>
  /\ pc = "idle"
  /\ orig = NewWorkflow
  /\ wf = NewWorkflow
  /\ updated = FALSE
  /\ completedPods = {}
  /\ cur = Root
  /\ ret = "nil"
  /\ budget = Budget

Spend(fault) ==
  /\ budget[fault] > 0
  /\ budget' = [budget EXCEPT ![fault] = @ - 1]

-----------------------------------------------------------------------------
(* Changes an operation makes to its copy w of the workflow.               *)

markNodePhase(w, n, phase) == [w EXCEPT !.nodes[n].phase = phase]

addChildNode(w, p, c) ==
  [w EXCEPT !.nodes[p].children = IF Order(p, c) > @ THEN Order(p, c) ELSE @]

markWorkflowPhase(w, phase, completed) ==
  [w EXCEPT !.phase = phase, !.done = @ \/ completed]

(* The operation's context is dropped with it. *)
Leave ==
  /\ pc' = "idle"
  /\ orig' = NewWorkflow /\ wf' = NewWorkflow
  /\ updated' = FALSE /\ completedPods' = {}
  /\ cur' = Root /\ ret' = "nil"

(* What a merge patch does to a value that is c in the store when the      *)
(* operation found o and left n: a field it left alone is not in the patch.*)
Merge(c, o, n) == IF n # o THEN n ELSE c

MergeNode(c, o, n) ==
  [phase    |-> Merge(c.phase, o.phase, n.phase),
   daemoned |-> Merge(c.daemoned, o.daemoned, n.daemoned),
   children |-> Merge(c.children, o.children, n.children)]

(* The list of volumes is one value to the patch. *)
MergePatch(c, o, n) ==
  [phase |-> Merge(c.phase, o.phase, n.phase),
   done  |-> Merge(c.done, o.done, n.done),
   nodes |-> [x \in Node |-> MergeNode(c.nodes[x], o.nodes[x], n.nodes[x])],
   slots |-> IF <<n.slots, n.vols>> # <<o.slots, o.vols>> THEN n.slots ELSE c.slots,
   vols  |-> IF <<n.slots, n.vols>> # <<o.slots, o.vols>> THEN n.vols ELSE c.vols]

-----------------------------------------------------------------------------
(* The worker takes the workflow from the queue.                           *)

(* The label is already there, or the object has left the informer's index *)
(* because of it.                                                          *)
DrainItem ==
  /\ pc = "idle" /\ queued /\ cache.done
  /\ queued' = FALSE
  /\ UNCHANGED <<store, cluster, watch, cache, podQueue, completedCh, operation, budget>>

(* Mutant: the label of a completed workflow is not looked at. *)
StartOperation_AnyWorkflow ==
  /\ pc = "idle" /\ queued
  /\ InSync => watch = <<>>
  /\ queued' = FALSE
  /\ orig' = cache /\ wf' = cache
  /\ updated' = FALSE /\ completedPods' = {}
  /\ pc' = IF cache.phase = Unset THEN "first" ELSE "reconcile"
  /\ UNCHANGED <<store, cluster, watch, cache, podQueue, completedCh, cur, ret, budget>>

StartOperation ==
  /\ pc = "idle" /\ queued /\ ~cache.done
  /\ InSync => watch = <<>>
  /\ queued' = FALSE
  /\ orig' = cache
  /\ wf' = cache
  /\ updated' = FALSE
  /\ completedPods' = {}
  /\ pc' = IF cache.phase = Unset THEN "first" ELSE "reconcile"
  /\ UNCHANGED <<store, cluster, watch, cache, podQueue, completedCh, cur, ret, budget>>

(* Mutant: no return after the failed validation. *)
ValidateOnce_GoesOn ==
  /\ pc = "first"
  /\ updated' = TRUE
  /\ wf' = IF ValidSpec THEN markWorkflowPhase(wf, "Running", FALSE)
           ELSE markWorkflowPhase(wf, "Failed", TRUE)
  /\ pc' = "pvcs"
  /\ UNCHANGED <<store, cluster, controller, orig, completedPods, cur, ret, budget>>

(* The workflow has no phase yet: it is marked running and validated.      *)
ValidateOnce ==
  /\ pc = "first"
  /\ updated' = TRUE
  /\ \/ /\ ValidSpec
        /\ wf' = markWorkflowPhase(wf, "Running", FALSE)
        /\ pc' = "pvcs"
     \/ /\ ~ValidSpec
        /\ wf' = markWorkflowPhase(wf, "Failed", TRUE)
        /\ pc' = "persist"
  /\ UNCHANGED <<store, cluster, controller, orig, completedPods, cur, ret, budget>>

(* Nodes without children that are not completed, when no pod is left of   *)
(* the workflow: their pods must have been deleted.                        *)
Vanished(nodes) ==
  IF \A p \in Pod : pods[p].phase = "Absent"
  THEN {n \in Node : /\ Exists(nodes[n])
                     /\ nodes[n].children = 0
                     /\ ~Completed(nodes[n])}
  ELSE {}

Assessed(nodes) ==
  [n \in Node |->
     IF n \in Pod /\ Exists(nodes[n]) THEN assessNodeStatus(pods[n].phase, nodes[n])
     ELSE nodes[n]]

Reconciled(nodes) ==
  [n \in Node |->
     IF n \in Vanished(nodes) THEN [nodes[n] EXCEPT !.phase = "Error"]
     ELSE Assessed(nodes)[n]]

(* Mutant: completion is looked up before the assessment. *)
podReconciliation_TooEarly ==
  /\ pc = "reconcile"
  /\ wf' = [wf EXCEPT !.nodes = Reconciled(@)]
  /\ updated' = (wf' # wf)
  /\ completedPods' = {p \in Pod : pods[p].phase # "Absent" /\ Completed(wf.nodes[p])}
  /\ pc' = "pvcs"
  /\ UNCHANGED <<store, cluster, controller, orig, cur, ret, budget>>

podReconciliation ==
  /\ pc = "reconcile"
  /\ wf' = [wf EXCEPT !.nodes = Reconciled(@)]
  /\ updated' = (wf' # wf)
  /\ completedPods' = {p \in Pod : /\ pods[p].phase # "Absent"
                                   /\ Completed(wf'.nodes[p])}
  /\ pc' = "pvcs"
  /\ UNCHANGED <<store, cluster, controller, orig, cur, ret, budget>>

(* The list of pods fails.  Nobody puts the workflow back into the queue.  *)
ListPodsFails ==
  /\ pc = "reconcile"
  /\ Spend("api")
  /\ Leave
  /\ UNCHANGED <<store, cluster, controller>>

-----------------------------------------------------------------------------
(* createPVCs, from the first template to the first that fails.  A claim   *)
(* that exists already is a failure like any other.                        *)

EnterTemplate(n) == pc' = "template" /\ cur' = n

NothingToCreate == wf.phase # "Running" \/ wf.slots = NumClaims

createPVCs ==
  /\ pc = "pvcs"
  /\ \/ /\ NothingToCreate
        /\ EnterTemplate(Root)
        /\ UNCHANGED <<pvcs, wf, updated, budget>>
     \/ /\ ~NothingToCreate
        /\ pvcs = {}
        /\ pvcs' = Claim
        /\ wf' = [wf EXCEPT !.slots = NumClaims, !.vols = Claim]
        /\ updated' = TRUE
        /\ EnterTemplate(Root)
        /\ UNCHANGED budget
     \/ /\ ~NothingToCreate
        /\ \E k \in Claim :
             /\ \A c \in 1..(k-1) : c \notin pvcs
             /\ \/ k \in pvcs /\ UNCHANGED budget
                \/ k \notin pvcs /\ Spend("api")
             /\ pvcs' = pvcs \cup 1..(k-1)
             /\ wf' = markWorkflowPhase(
                        markNodePhase([wf EXCEPT !.slots = NumClaims, !.vols = @ \cup 1..(k-1)],
                                      Root, "Error"),
                        "Error", TRUE)
        /\ updated' = TRUE
        /\ pc' = "persist"
        /\ UNCHANGED cur
  /\ UNCHANGED <<store, pods, controller, orig, completedPods, ret>>

-----------------------------------------------------------------------------
(* executeTemplate.  The traversal of the tree keeps no stack: "cur" is    *)
(* the node being executed and its ancestors are the callers.              *)

Return(error) == pc' = "return" /\ ret' = error

(* A template that did some work returns a timeout once the operation has  *)
(* used up its ten seconds.                                                *)
ReturnOrTimeout ==
  \/ Return("nil") /\ UNCHANGED budget
  \/ Return("timeout") /\ Spend("slow")

Created(p) == IF pods[p].phase = "Absent" THEN [pods EXCEPT ![p] = NewPod] ELSE pods

(* createWorkflowPod and the marking of the node in executeContainer,      *)
(* executeScript and executeResource.  A pod that exists already counts as *)
(* created.  w is the workflow as the caller has changed it so far.        *)
executeContainer(w, p) ==
  /\ updated' = TRUE
  /\ \/ /\ pods' = Created(p)
        /\ wf' = markNodePhase(w, p, "Running")
        /\ ReturnOrTimeout
     \/ /\ pods' = pods
        /\ wf' = markNodePhase(w, p, "Error")
        /\ Return("error") /\ Spend("api")
     \/ /\ pods' = Created(p)
        /\ wf' = markNodePhase(w, p, "Error")
        /\ Return("error") /\ Spend("lost")

ReturnAtOnce ==
  /\ Return("nil")
  /\ UNCHANGED <<pods, wf, updated, budget>>

(* Mutant: a node that exists is scheduled again. *)
ExecutePodTemplate_Again ==
  /\ pc = "template" /\ Kind[cur] = "pod"
  /\ executeContainer(wf, cur)
  /\ UNCHANGED <<store, pvcs, controller, orig, completedPods, cur>>

(* A node that exists was scheduled by an earlier operation.  A script or  *)
(* a resource that has not completed goes on to the check of the deadline. *)
ExecutePodTemplate ==
  /\ pc = "template" /\ Kind[cur] = "pod"
  /\ \/ Exists(wf.nodes[cur]) /\ ReturnAtOnce
     \/ /\ Exists(wf.nodes[cur]) /\ ~Completed(wf.nodes[cur])
        /\ Return("timeout") /\ Spend("slow")
        /\ UNCHANGED <<pods, wf, updated>>
     \/ ~Exists(wf.nodes[cur]) /\ executeContainer(wf, cur)
  /\ UNCHANGED <<store, pvcs, controller, orig, completedPods, cur>>

LastChild(w, n) == w.nodes[Kids[n][w.nodes[n].children]]

(* The retry node is marked running and gets one more child.               *)
NewAttempt(n) ==
  LET k == wf.nodes[n].children + 1
  IN  /\ k \in DOMAIN Kids[n]
      /\ executeContainer([markNodePhase(wf, n, "Running") EXCEPT !.nodes[n].children = k],
                          Kids[n][k])

(* Mutant: the limit is not looked at. *)
RetryVerdict_NoLimit(n) ==
  IF Successful(LastChild(wf, n)) THEN "Succeeded" ELSE "Running"

(* processNodeRetries when the last attempt has completed: the phase the   *)
(* retry node takes, "Running" when another attempt is due.                *)
RetryVerdict(n) ==
  IF Successful(LastChild(wf, n)) THEN "Succeeded"
  ELSE IF ~CanRetry(LastChild(wf, n)) \/ wf.nodes[n].children > Limit[n] THEN "Failed"
  ELSE "Running"

ExecuteRetryTemplate ==
  /\ pc = "template" /\ Kind[cur] = "retry"
  /\ \/ /\ \/ Completed(wf.nodes[cur])
           \/ Exists(wf.nodes[cur]) /\ ~Completed(LastChild(wf, cur))
        /\ ReturnAtOnce
     \/ /\ ~Exists(wf.nodes[cur])
        /\ NewAttempt(cur)
     \/ /\ Exists(wf.nodes[cur]) /\ ~Completed(wf.nodes[cur])
        /\ Completed(LastChild(wf, cur))
        /\ \/ /\ RetryVerdict(cur) = "Running"
              /\ NewAttempt(cur)
           \/ /\ RetryVerdict(cur) # "Running"
              /\ wf' = markNodePhase(wf, cur, RetryVerdict(cur))
              /\ updated' = TRUE
              /\ Return("nil")
              /\ UNCHANGED <<pods, budget>>
  /\ UNCHANGED <<store, pvcs, controller, orig, completedPods, cur>>

(* A steps template starts with its first group.                           *)
ExecuteStepsTemplate ==
  /\ pc = "template" /\ Kind[cur] = "steps"
  /\ \/ Completed(wf.nodes[cur]) /\ ReturnAtOnce /\ UNCHANGED cur
     \/ /\ ~Completed(wf.nodes[cur])
        /\ wf' = IF Exists(wf.nodes[cur]) THEN wf ELSE markNodePhase(wf, cur, "Running")
        /\ updated' = (updated \/ wf' # wf)
        /\ pc' = "group"
        /\ cur' = Kids[cur][1]
        /\ UNCHANGED <<pods, ret, budget>>
  /\ UNCHANGED <<store, pvcs, controller, orig, completedPods>>

(* The group becomes a child of its steps node and is started; its first   *)
(* step is next.  A group whose withParam list is empty has no steps.      *)
executeStepGroup ==
  /\ pc = "group"
  /\ LET w == addChildNode(wf, Parent(cur), cur)
         g == w.nodes[cur]
     IN  \/ /\ Completed(g)
            /\ wf' = w /\ Return("nil") /\ UNCHANGED cur
         \/ /\ ~Completed(g) /\ cur \in Unresolvable
            /\ wf' = markNodePhase(w, cur, "Error")
            /\ Return("error") /\ UNCHANGED cur
         \/ /\ ~Completed(g) /\ cur \notin Unresolvable /\ Kids[cur] = <<>>
            /\ wf' = markNodePhase(w, cur, "Succeeded")
            /\ Return("nil") /\ UNCHANGED cur
         \/ /\ ~Completed(g) /\ cur \notin Unresolvable /\ Kids[cur] # <<>>
            /\ wf' = IF Exists(g) THEN w ELSE markNodePhase(w, cur, "Running")
            /\ pc' = "step" /\ cur' = Kids[cur][1] /\ UNCHANGED ret
  /\ updated' = (updated \/ wf' # wf)
  /\ UNCHANGED <<store, cluster, controller, orig, completedPods, budget>>

(* The step becomes a child of its group and its when clause is evaluated. *)
LaunchStep ==
  /\ pc = "step"
  /\ LET w == addChildNode(wf, Parent(cur), cur)
     IN  \/ /\ When[cur] = "run"
            /\ wf' = w /\ pc' = "template" /\ UNCHANGED ret
         \/ /\ When[cur] = "skip"
            /\ wf' = markNodePhase(w, cur, "Skipped") /\ Return("nil")
         \/ /\ When[cur] = "bad"
            /\ wf' = markNodePhase(w, cur, "Error") /\ Return("error")
  /\ updated' = (updated \/ When[cur] # "run" \/ wf' # wf)
  /\ UNCHANGED <<store, cluster, controller, orig, completedPods, cur, budget>>

-----------------------------------------------------------------------------
(* Returning to the caller.                                                *)

Returns(kind) == pc = "return" /\ cur \notin Top /\ Kind[Parent(cur)] = kind

(* Mutant: steps that still run are not waited for. *)
GroupVerdict_NoWait(g) ==
  IF \E c \in Recorded(g, wf.nodes[g].children) : CanRetry(wf.nodes[c])
  THEN "Failed" ELSE "Succeeded"

(* The phase of a group all of whose steps were launched.                  *)
GroupVerdict(g) ==
  LET children == {wf.nodes[c] : c \in Recorded(g, wf.nodes[g].children)}
  IN  IF \E c \in children : ~Completed(c) THEN wf.nodes[g].phase
      ELSE IF \E c \in children : ~Successful(c) THEN "Failed"
      ELSE "Succeeded"

(* A step was launched: an error ends the group and marks both, a timeout  *)
(* is handed on, otherwise the next step follows or the group is judged.   *)
StepReturns ==
  /\ Returns("group")
  /\ LET g == Parent(cur)
     IN  \/ /\ ret = "error"
            /\ wf' = markNodePhase(markNodePhase(wf, cur, "Error"), g, "Error")
            /\ cur' = g /\ UNCHANGED pc
         \/ /\ ret = "timeout"
            /\ cur' = g /\ UNCHANGED <<wf, pc>>
         \/ /\ ret = "nil" /\ ~IsLast(g, cur)
            /\ cur' = Following(g, cur) /\ pc' = "step" /\ UNCHANGED wf
         \/ /\ ret = "nil" /\ IsLast(g, cur)
            /\ wf' = markNodePhase(wf, g, GroupVerdict(g))
            /\ cur' = g /\ UNCHANGED pc
  /\ updated' = (updated \/ wf' # wf)
  /\ UNCHANGED <<store, cluster, controller, orig, completedPods, ret, budget>>

(* A group was executed: the loop of executeSteps goes on to the next one, *)
(* or executeSteps ends.                                                   *)
GroupReturns ==
  /\ Returns("steps")
  /\ LET s == Parent(cur)
         g == wf.nodes[cur]
     IN  \/ /\ ret = "error"
            /\ wf' = markNodePhase(wf, s, "Error")
            /\ cur' = s /\ pc' = "ended" /\ UNCHANGED ret
         \/ /\ \/ ret = "timeout"
               \/ ret = "nil" /\ ~Completed(g)
            /\ cur' = s /\ pc' = "ended" /\ UNCHANGED <<wf, ret>>
         \/ /\ ret = "nil" /\ Completed(g) /\ ~Successful(g)
            /\ wf' = markNodePhase(wf, s, "Failed")
            /\ cur' = s /\ pc' = "ended" /\ UNCHANGED ret
         \/ /\ ret = "nil" /\ Successful(g) /\ ~IsLast(s, cur)
            /\ cur' = Following(s, cur) /\ pc' = "group" /\ UNCHANGED <<wf, ret>>
         \/ /\ ret = "nil" /\ Successful(g) /\ IsLast(s, cur)
            /\ \/ /\ s \in Unresolvable
                  /\ wf' = markNodePhase(wf, s, "Error") /\ ret' = "error"
               \/ /\ s \notin Unresolvable
                  /\ wf' = markNodePhase(wf, s, "Succeeded") /\ UNCHANGED ret
            /\ cur' = s /\ pc' = "ended"
  /\ updated' = (updated \/ wf' # wf)
  /\ UNCHANGED <<store, cluster, controller, orig, completedPods, budget>>

(* Mutant: the children, which are groups, instead of the grandchildren. *)
DaemonedGrandchildren_Children(s) ==
  {p \in Pod : wf.nodes[p].daemoned /\ p \in Recorded(s, wf.nodes[s].children)}

(* The grandchildren of a steps node that the operation believes daemoned. *)
DaemonedGrandchildren(s) ==
  {p \in Pod : /\ wf.nodes[p].daemoned
               /\ \E g \in Recorded(s, wf.nodes[s].children) :
                    p \in Recorded(g, wf.nodes[g].children)}

(* executeSteps returns.  If its node has completed, the daemons among its *)
(* grandchildren are told to stop; a call that fails is not repeated.      *)
killDeamonedChildren ==
  /\ pc = "ended"
  /\ LET daemons == IF Completed(wf.nodes[cur]) THEN DaemonedGrandchildren(cur) ELSE {}
     IN  \E failed \in SUBSET daemons :
           /\ pods' = [p \in Pod |->
                         IF p \in daemons \ failed /\ pods[p].phase # "Absent"
                         THEN [pods[p] EXCEPT !.killed = TRUE] ELSE pods[p]]
           /\ \/ failed = {} /\ ret = "nil" /\ ReturnOrTimeout
              \/ failed = {} /\ ret # "nil" /\ Return(ret) /\ UNCHANGED budget
              \/ failed # {} /\ Return(ret) /\ Spend("api")
  /\ UNCHANGED <<store, pvcs, controller, orig, wf, updated, completedPods, cur>>

(* The entrypoint or the exit handler returns to operate.  After a timeout *)
(* the workflow is put back into the queue; the exit handler runs when the *)
(* entrypoint has completed.                                               *)
TemplateReturns ==
  /\ pc = "return" /\ cur \in Top
  /\ \/ /\ ret = "timeout"
        /\ queued' = TRUE
        /\ pc' = "persist" /\ UNCHANGED cur
     \/ /\ ret # "timeout"
        /\ \/ ~Completed(wf.nodes[cur]) /\ pc' = "persist" /\ UNCHANGED cur
           \/ /\ Completed(wf.nodes[cur])
              /\ cur = Root /\ OnExit # NoNode
              /\ EnterTemplate(OnExit)
           \/ /\ Completed(wf.nodes[cur])
              /\ cur = OnExit \/ OnExit = NoNode
              /\ pc' = "finish" /\ UNCHANGED cur
        /\ UNCHANGED queued
  /\ UNCHANGED <<store, cluster, watch, cache, podQueue, completedCh,
                 orig, wf, updated, completedPods, ret, budget>>

-----------------------------------------------------------------------------
(* The end of an operation.                                                *)

(* Mutant: the outcome of the entrypoint is forgotten. *)
FinalPhase_ExitOnly(w) ==
  IF OnExit # NoNode /\ ~Successful(w.nodes[OnExit]) THEN w.nodes[OnExit].phase
  ELSE "Succeeded"

(* The phase of the workflow once the entrypoint and the exit handler have *)
(* completed.                                                              *)
FinalPhase(w) ==
  IF ~Successful(w.nodes[Root]) THEN w.nodes[Root].phase
  ELSE IF OnExit # NoNode /\ ~Successful(w.nodes[OnExit]) THEN w.nodes[OnExit].phase
  ELSE "Succeeded"

(* Mutant: the error of deletePVCs is ignored. *)
FinishWorkflow_IgnoresError ==
  /\ pc = "finish"
  /\ \E failed \in SUBSET wf.vols :
       /\ pvcs' = pvcs \ (wf.vols \ failed)
       /\ \/ failed = {} /\ UNCHANGED budget
          \/ failed # {} /\ Spend("api")
       /\ wf' = markWorkflowPhase([wf EXCEPT !.vols = failed, !.slots = Cardinality(failed)],
                                  FinalPhase(wf), TRUE)
  /\ updated' = TRUE
  /\ pc' = "persist"
  /\ UNCHANGED <<store, pods, controller, orig, completedPods, cur, ret>>

(* deletePVCs and the marking of the workflow.  If a claim cannot be       *)
(* deleted the workflow is in error but not completed; the claims that are *)
(* left are tried again by the next operation.                             *)
FinishWorkflow ==
  /\ pc = "finish"
  /\ \E failed \in SUBSET wf.vols :
       LET w == IF failed = wf.vols THEN wf
                ELSE [wf EXCEPT !.vols = failed, !.slots = Cardinality(failed)]
       IN  /\ pvcs' = pvcs \ (wf.vols \ failed)
           /\ \/ /\ failed = {} /\ UNCHANGED budget
                 /\ wf' = markWorkflowPhase(w, FinalPhase(w), TRUE)
              \/ /\ failed # {} /\ Spend("api")
                 /\ wf' = markWorkflowPhase(w, "Error", FALSE)
  /\ updated' = (updated \/ wf' # wf)
  /\ pc' = "persist"
  /\ UNCHANGED <<store, pods, controller, orig, completedPods, cur, ret>>

NothingToPersist ==
  /\ pc = "persist" /\ ~updated
  /\ Leave
  /\ UNCHANGED <<store, cluster, controller, budget>>

ApplyPatch ==
  /\ Len(watch) < MaxLag
  /\ store' = MergePatch(store, orig, wf)
  /\ watch' = Append(watch, store')

ToLabeling ==
  /\ pc' = "send"
  /\ UNCHANGED <<orig, wf, updated, completedPods, cur, ret>>

(* Mutant: the pods are labelled although the patch failed. *)
persistUpdates_LabelsAnyway ==
  /\ pc = "persist" /\ updated
  /\ \/ ApplyPatch /\ ToLabeling /\ UNCHANGED budget
     \/ ToLabeling /\ Spend("api") /\ UNCHANGED <<store, watch>>
  /\ UNCHANGED <<cluster, cache, queued, podQueue, completedCh>>

(* An empty patch is not sent.  An error of the patch ends the operation:  *)
(* the completed pods are forgotten.                                       *)
persistUpdates ==
  /\ pc = "persist" /\ updated
  /\ \/ /\ wf = orig
        /\ ToLabeling /\ UNCHANGED <<store, watch, budget>>
     \/ /\ wf # orig
        /\ \/ ApplyPatch /\ ToLabeling /\ UNCHANGED budget
           \/ ApplyPatch /\ Leave /\ Spend("lost")
           \/ Leave /\ Spend("api") /\ UNCHANGED <<store, watch>>
  /\ UNCHANGED <<cluster, cache, queued, podQueue, completedCh>>

(* Mutant: the worker does not wait, what does not fit is forgotten. *)
SendCompletedPod_NeverWaits ==
  /\ pc = "send"
  /\ \E p \in completedPods :
       /\ completedCh' = IF Len(completedCh) < ChannelSize THEN Append(completedCh, p)
                         ELSE completedCh
       /\ completedPods' = completedPods \ {p}
  /\ UNCHANGED <<store, cluster, watch, cache, queued, podQueue,
                 pc, orig, wf, updated, cur, ret, budget>>

(* The worker waits here, with its workflow, while the channel is full.     *)
SendCompletedPod ==
  /\ pc = "send" /\ Len(completedCh) < ChannelSize
  /\ \E p \in completedPods :
       /\ completedCh' = Append(completedCh, p)
       /\ completedPods' = completedPods \ {p}
  /\ UNCHANGED <<store, cluster, watch, cache, queued, podQueue,
                 pc, orig, wf, updated, cur, ret, budget>>

EndOperation ==
  /\ pc = "send" /\ completedPods = {}
  /\ Leave
  /\ UNCHANGED <<store, cluster, controller, budget>>

Worker ==
  \/ DrainItem \/ StartOperation \/ ValidateOnce \/ podReconciliation \/ ListPodsFails
  \/ createPVCs \/ ExecutePodTemplate \/ ExecuteRetryTemplate \/ ExecuteStepsTemplate
  \/ executeStepGroup \/ LaunchStep \/ StepReturns \/ GroupReturns
  \/ killDeamonedChildren \/ TemplateReturns \/ FinishWorkflow
  \/ NothingToPersist \/ persistUpdates \/ SendCompletedPod \/ EndOperation
=============================================================================
