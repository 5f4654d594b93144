------------------------- MODULE WorkflowProperties -------------------------
(***************************************************************************)
(* What the controller promises about one workflow.                        *)
(***************************************************************************)
EXTENDS WorkflowController

IsAttempt(n) == n \notin Top /\ Kind[Parent(n)] = "retry"

(* The attempts a retry node may come to have. *)
Attempts(n) == Recorded(n, Len(Kids[n]))

(* What a template calls a step: a container, or a container with retries. *)
StepNode == {n \in Node : ~IsAttempt(n) /\ Kind[n] \in {"pod", "retry"}}

Skipped(n) == \E a \in Node : When[a] = "skip" /\ n \in Within[a]

(* The cluster's own view of a pod, not the operator's: it succeeded, or   *)
(* it was a daemon that started, or nobody can tell because it is deleted. *)
MayHaveSucceeded(p) ==
  \/ pods[p].phase = "Succeeded"
  \/ p \in Daemon /\ pods[p].phase \notin {"Absent", "Pending"}
  \/ pods[p].phase = "Absent" /\ budget["delete"] < Budget["delete"]

StepDone(n) ==
  \/ Skipped(n)
  \/ n \in Pod /\ MayHaveSucceeded(n)
  \/ Kind[n] = "retry" /\ \E p \in Attempts(n) : MayHaveSucceeded(p)

(* The steps of the groups that come before node n. *)
StepsBefore(n) ==
  {q \in StepNode : \E s \in Node :
     /\ Kind[s] = "steps"
     /\ \E i, j \in DOMAIN Kids[s] :
          i < j /\ q \in Within[Kids[s][i]] /\ n \in Within[Kids[s][j]]}

PodCreated(p) == pods[p].phase = "Absent" /\ pods'[p].phase # "Absent"

-----------------------------------------------------------------------------
(* Safety, whatever the faults and however stale the cache.                *)

(* A workflow that reports success ran every step of the entrypoint and of *)
(* the exit handler to success, according to the pods themselves.          *)
SuccessIsEarned ==
  store.done /\ store.phase = "Succeeded" =>
    \A n \in StepNode : StepDone(n)

(* No pod of a step group is created before every step of the groups       *)
(* before it has succeeded, whichever operation, stale or repeated after a *)
(* crash, creates it.                                                      *)
StepsInOrder == [][\A p \in Pod : PodCreated(p) =>
                                    \A q \in StepsBefore(p) : StepDone(q)]_vars

(* A workflow that validation rejects runs nothing and reports nothing but *)
(* the failure, even if a stale cache makes the controller validate it     *)
(* again after it was completed.                                           *)
InvalidRunsNothing ==
  ~ValidSpec => /\ pvcs = {} /\ \A p \in Pod : pods[p].phase = "Absent"
                /\ store.phase # Unset => store.phase = "Failed" /\ store.done

(* A retry node never gets more attempts than its limit allows on top of   *)
(* the first one.                                                          *)
RetriesBounded ==
  \A n \in Node : Kind[n] = "retry" =>
    Cardinality({p \in Attempts(n) : pods[p].phase # "Absent"}) <= Limit[n] + 1

-----------------------------------------------------------------------------
(* Safety when an operation never reads a workflow older than the last     *)
(* patch (InSync).                                                         *)

(* Pod p waits in the channel for the labeler. *)
Handed(p) == \E i \in DOMAIN completedCh : completedCh[i] = p

(* The answer of some call was an error.  The calls that kill daemons and  *)
(* label pods are not repeated then, and a node may be recorded as Error   *)
(* although its pod was created.                                           *)
CallFailed == \E f \in {"api", "lost"} : budget[f] < Budget[f]

(* A pod is only labelled completed, or handed to the labeler, when the    *)
(* workflow in the API server already records its node as completed: pod   *)
(* informers no longer see a labelled pod, so its result would be lost     *)
(* (persistUpdates, "we *never* label pods as completed until ...").  An   *)
(* operation from an old version can undo the record of an earlier one, if *)
(* the earlier one did not learn of the pod it had created; where a failed *)
(* creation ends the workflow that takes more faults than "stale" has.     *)
LabelledAfterPersist ==
  \A p \in Pod : pods[p].labelled \/ Handed(p) => Completed(store.nodes[p])

(* The operation that completes a workflow is the last that looks at its   *)
(* pods (operate and the informer skip completed workflows): unless the    *)
(* controller was restarted or a call failed, it hands every completed pod *)
(* to the labeler, however full the channel is when it arrives there       *)
(* (persistUpdates, make(chan string, 512)).                               *)
NoneForgotten ==
  store.done /\ pc = "idle" =>
    \A p \in Pod : Completed(store.nodes[p]) /\ pods[p].phase # "Absent" =>
      \/ pods[p].labelled \/ Handed(p)
      \/ budget["crash"] < Budget["crash"] \/ CallFailed

Lifecycle == INSTANCE WorkflowLifecycle WITH
               phase <- store.phase, done <- store.done,
               nodes <- [n \in Node \ Daemon |-> store.nodes[n].phase]

(* The workflow in the API server follows the abstract life cycle: one     *)
(* completion, nothing after it, no completed node running again, no       *)
(* success withdrawn (a daemon's node is successful while it runs and may  *)
(* fail afterwards, so daemons are left out).                              *)
ImplementsLifecycle == Lifecycle!Spec

(* A new attempt of a retried container is only started when every earlier *)
(* attempt has ended and none has succeeded.                               *)
RetriesSequential ==
  [][\A p \in Pod : PodCreated(p) /\ IsAttempt(p) =>
       \A q \in Attempts(Parent(p)) :
         pods[q].phase \in {"Absent", "Failed", "Errored"}]_vars

(* The exit handler's pods are only created when no pod of the entrypoint  *)
(* is left that could still run, apart from daemons.                       *)
OnExitLast ==
  [][\A p \in Pod : PodCreated(p) /\ OnExit # NoNode /\ p \in Within[OnExit] =>
       \A q \in (Pod \cap Within[Root]) \ Daemon :
         pods[q].phase \in PodTerminated \cup {"Absent"}]_vars

(* A workflow that completes by the outcome of its nodes leaves none of    *)
(* its volume claims behind.                                               *)
ClaimsReleased ==
  store.done /\ store.phase # "Error" => pvcs = {}

-----------------------------------------------------------------------------
(* Liveness, under FairSpec.                                               *)

(* Every workflow completes. *)
EventuallyCompleted == <>(store.done)

(* A daemon that a completed workflow recorded as running is told to stop. *)
DaemonsStopped ==
  \A p \in Pod : store.done /\ store.nodes[p].daemoned
                   ~> \/ pods[p].killed \/ pods[p].phase \in PodTerminated \cup {"Absent"}
                      \/ CallFailed

(* Every pod whose node the API server records as completed is labelled,   *)
(* unless the controller was restarted in between.                         *)
CompletedPodsLabelled ==
  \A p \in Pod : Completed(store.nodes[p]) /\ pods[p].phase # "Absent"
                   ~> \/ pods[p].labelled \/ pods[p].phase = "Absent"
                      \/ budget["crash"] < Budget["crash"] \/ CallFailed

-----------------------------------------------------------------------------
(* What comments of the source say, and the code does not do.              *)

(* "If we have already created the PVCs, then there is nothing to do"      *)
(* (createPVCs): an operation never sets out to create claims that exist.  *)
ClaimsCreatedOnce == pc = "pvcs" /\ pvcs # {} => NothingToCreate

(* Deleted pods: "if we saw related pods, no need to check for deleted     *)
(* pods yet. we will get to them eventually" (podReconciliation).          *)
DeletedPodsNoticed ==
  \A p \in Pod : pods[p].phase = "Absent" /\ store.nodes[p].phase = "Running"
                   ~> Completed(store.nodes[p])
=============================================================================
