-------------------------- MODULE Faultless_proofs --------------------------
(***************************************************************************)
(* What holds as long as faults of some kind did not strike, if operations *)
(* start from the last persisted version: no pod is forgotten by the       *)
(* operation that completes its workflow, and the attempts of a retried    *)
(* container come one after the other.                                     *)
(***************************************************************************)
EXTENDS Success_proofs

-----------------------------------------------------------------------------
(* No pod is forgotten.  This is about the faults that did not strike: as  *)
(* long as there was no restart and every call was answered, the operator  *)
(* knows of every pod there is.                                            *)

Spared == \A f \in {"crash", "api", "lost"} : budget[f] = Budget[f]

(* A copy that differs from the original is known to, and a pod that was   *)
(* not created has an error for a record.                                  *)
CopyMarked ==
  /\ During => updated \/ wf = orig
  /\ pc \in {"first", "reconcile"} => wf = orig
  /\ pc \in {"return", "ended"} /\ ret = "error" /\ cur \in Pod => Completed(wf.nodes[cur])

PodsRecorded(w) == \A p \in Pod : pods[p].phase # "Absent" => Exists(w.nodes[p])

Collected ==
  \A p \in Pod : Completed(wf.nodes[p]) /\ pods[p].phase # "Absent" => p \in completedPods

(* The pods of a completed workflow are on their way to the label. *)
Given ==
  store.done => \A p \in Pod : Completed(store.nodes[p]) /\ pods[p].phase # "Absent" =>
    pods[p].labelled \/ Handed(p) \/ (pc = "send" /\ p \in completedPods)

PodsKnown ==
  /\ During => PodsRecorded(wf)
  /\ ~During => PodsRecorded(store)
  /\ During /\ pc \notin {"first", "reconcile"} => Collected
  /\ Given

HandoverInv == CopyMarked /\ (Spared => PodsKnown)

LEMMA NotSpent ==
  ASSUME TypeOK, BudgetInv, [Next]_vars, NEW f \in Fault, budget'[f] = Budget[f]
  PROVE  budget[f] = Budget[f] /\ ~Spend(f)
  <1>1. /\ Budget[f] \in Nat /\ budget \in [Fault -> Nat] /\ budget[f] <= Budget[f]
    BY BoundAssumption DEF TypeOK, BudgetInv
  <1>2. budget[f] \in Nat /\ budget'[f] <= budget[f]
    BY <1>1, BudgetShrinks
  <1>3. budget[f] = Budget[f]
    BY <1>1, <1>2
  <1>4. ~Spend(f)
    <2> SUFFICES ASSUME Spend(f) PROVE FALSE
      OBVIOUS
    <2>1. budget'[f] = budget[f] - 1
      BY <1>1 DEF Spend
    <2> QED
      BY <1>1, <1>2, <1>3, <2>1
  <1> QED
    BY <1>3, <1>4

LEMMA MarkCompleted ==
  ASSUME NEW w \in Workflow, NEW n \in Node
  PROVE  Completed(markNodePhase(w, n, "Error").nodes[n])
  BY MarkPhases DEF Completed

(* What the execution does to the copy. *)
LEMMA MarkedWalking ==
  ASSUME TypeInv, CursorInv, CopyMarked,
         ExecutePodTemplate \/ ExecuteRetryTemplate \/ ExecuteStepsTemplate \/ executeStepGroup
         \/ LaunchStep \/ StepReturns \/ GroupReturns \/ killDeamonedChildren \/ TemplateReturns
  PROVE  CopyMarked'
  <1>1. /\ wf \in Workflow /\ cur \in Node /\ orig' = orig /\ During
        /\ updated \/ wf = orig
    BY DEF TypeInv, TypeOK, CopyMarked, ExecutePodTemplate, ExecuteRetryTemplate,
           ExecuteStepsTemplate, executeStepGroup, LaunchStep, StepReturns, GroupReturns, Returns,
           killDeamonedChildren, TemplateReturns, During
  <1>2. updated' \/ wf' = orig'
    <2>1. CASE ExecutePodTemplate \/ ExecuteRetryTemplate
      BY <1>1, <2>1 DEF ExecutePodTemplate, ExecuteRetryTemplate, NewAttempt, executeContainer,
                        ReturnAtOnce
    <2>2. CASE ExecuteStepsTemplate \/ executeStepGroup \/ LaunchStep
      BY <1>1, <2>2 DEF ExecuteStepsTemplate, executeStepGroup, LaunchStep, ReturnAtOnce
    <2>3. CASE StepReturns \/ GroupReturns \/ killDeamonedChildren \/ TemplateReturns
      BY <1>1, <2>3 DEF StepReturns, GroupReturns, killDeamonedChildren, TemplateReturns
    <2> QED
      BY <2>1, <2>2, <2>3
  <1>3. pc' \notin {"first", "reconcile"}
    BY DEF ExecutePodTemplate, ExecuteRetryTemplate, NewAttempt, executeContainer, ReturnAtOnce,
           ReturnOrTimeout, Return, ExecuteStepsTemplate, executeStepGroup, LaunchStep, StepReturns,
           GroupReturns, Returns, killDeamonedChildren, TemplateReturns, EnterTemplate
  <1>4. ASSUME pc' \in {"return", "ended"}, ret' = "error", cur' \in Pod
        PROVE  Completed(wf'.nodes[cur'])
    <2>1. CASE ExecutePodTemplate
      <3>1. cur' = cur /\ wf' = markNodePhase(wf, cur, "Error")
        BY <1>4, <2>1 DEF ExecutePodTemplate, executeContainer, ReturnAtOnce, ReturnOrTimeout, Return
      <3> QED
        BY <1>1, <3>1, MarkCompleted
    <2>2. CASE ExecuteRetryTemplate \/ ExecuteStepsTemplate
      <3>1. cur' = cur /\ cur \notin Pod
        BY <1>4, <2>2 DEF ExecuteRetryTemplate, ExecuteStepsTemplate, Pod
      <3> QED
        BY <1>4, <3>1
    <2>3. CASE executeStepGroup
      <3>1. cur' = cur /\ cur \notin Top /\ Kind[Parent(cur)] = "steps"
        BY <1>4, <2>3 DEF executeStepGroup, TypeInv, CursorHasParent, CursorInv
      <3>2. PICK i \in DOMAIN Kids[Parent(cur)] : Kids[Parent(cur)][i] = cur
        BY <1>1, <3>1, ParentExists DEF ParentOf
      <3>3. Kind[cur] \in KidKinds["steps"]
        BY <1>1, <3>1, <3>2, ParentExists, ParentOfChild
      <3> QED
        BY <1>4, <3>1, <3>3 DEF KidKinds, Pod
    <2>4. CASE LaunchStep
      <3> DEFINE w == addChildNode(wf, Parent(cur), cur)
      <3>1. cur' = cur /\ wf' = markNodePhase(w, cur, "Error")
        BY <1>4, <2>4 DEF LaunchStep, Return
      <3>2. w \in Workflow
        BY <1>1, <2>4, AddChildType, ParentExists DEF LaunchStep, TypeInv, CursorHasParent
      <3> HIDE DEF w
      <3> QED
        BY <1>1, <3>1, <3>2, MarkCompleted
    <2>5. CASE StepReturns \/ GroupReturns
      <3>1. /\ cur \notin Top /\ cur' = Parent(cur)
            /\ Kind[Parent(cur)] \in {"group", "steps"}
        BY <1>4, <2>5 DEF StepReturns, GroupReturns, Returns
      <3> QED
        BY <1>4, <3>1 DEF Pod
    <2>6. CASE killDeamonedChildren
      <3>1. pc = "ended" /\ cur' = cur /\ wf' = wf /\ ret = "error"
        BY <1>4, <2>6 DEF killDeamonedChildren, ReturnOrTimeout, Return
      <3> QED
        BY <1>4, <3>1 DEF CopyMarked
    <2>7. CASE TemplateReturns
      BY <1>4, <2>7 DEF TemplateReturns, EnterTemplate
    <2> QED
      BY <2>1, <2>2, <2>3, <2>4, <2>5, <2>6, <2>7
  <1> QED
    BY <1>2, <1>3, <1>4 DEF CopyMarked

LEMMA MarkedElsewhere ==
  ASSUME CopyMarked,
         StartOperation \/ ValidateOnce \/ podReconciliation \/ createPVCs \/ FinishWorkflow
         \/ ListPodsFails \/ NothingToPersist \/ persistUpdates \/ SendCompletedPod
         \/ EndOperation \/ Crash \/ UNCHANGED operation
  PROVE  CopyMarked'
  <1>1. CASE StartOperation \/ ValidateOnce \/ podReconciliation
    BY <1>1 DEF CopyMarked, StartOperation, ValidateOnce, podReconciliation, During
  <1>2. CASE createPVCs \/ FinishWorkflow
    <2>1. orig' = orig /\ During /\ pc' \in {"template", "persist"}
      BY <1>2 DEF createPVCs, FinishWorkflow, EnterTemplate, During
    <2>2. (updated' \/ wf' = wf) /\ (updated => updated')
      <3>1. CASE createPVCs
        <4>1. \/ updated' = TRUE
              \/ wf' = wf /\ updated' = updated
          BY <3>1 DEF createPVCs
        <4> QED
          BY <4>1
      <3>2. CASE FinishWorkflow
        <4>1. updated' = (updated \/ wf' # wf)
          BY <3>2 DEF FinishWorkflow
        <4> QED
          BY <4>1
      <3> QED
        BY <1>2, <3>1, <3>2
    <2> QED
      BY <2>1, <2>2 DEF CopyMarked
  <1>3. CASE ListPodsFails \/ NothingToPersist \/ persistUpdates \/ SendCompletedPod
             \/ EndOperation \/ Crash
    <2>1. pc' \in {"idle", "send"}
      BY <1>3 DEF ListPodsFails, NothingToPersist, persistUpdates, ToLabeling, SendCompletedPod,
                  EndOperation, Crash, Leave
    <2> QED
      BY <2>1 DEF CopyMarked, During
  <1>4. CASE UNCHANGED operation
    BY <1>4 DEF CopyMarked, operation, During
  <1> QED
    BY <1>1, <1>2, <1>3, <1>4

LEMMA MarkedNext ==
  ASSUME TypeInv, CursorInv, CopyMarked, [Next]_vars
  PROVE  CopyMarked'
  <1>1. CASE DrainItem \/ WatchEvent \/ Resync \/ processNextPodItem \/ podLabeler
             \/ Environment \/ UNCHANGED vars
    <2>1. UNCHANGED operation
      BY <1>1 DEF DrainItem, WatchEvent, Resync, processNextPodItem, podLabeler, vars, Environment,
                  PodRuns, DaemonReady, PodTerminates, PodUnreachable, PodReachable, PodDeleted,
                  PodMoves
    <2> QED
      BY <2>1, MarkedElsewhere
  <1> QED
    BY <1>1, MarkedWalking, MarkedElsewhere DEF Next, Worker

(* A step of the execution: a pod that was not there is recorded, and only *)
(* nodes without a pod complete.                                           *)
LEMMA KnownWalking ==
  ASSUME SuccessInv, PodsKnown, Walking, UNCHANGED <<store, completedPods>>, Walked,
         Walking' \/ pc' \in {"finish", "persist"},
         \A p \in Pod : \/ pods'[p].phase = pods[p].phase
                        \/ Exists(wf'.nodes[p]) /\ ~Completed(wf'.nodes[p]),
         \A p \in Pod : Completed(wf'.nodes[p]) => \/ Completed(wf.nodes[p])
                                                  \/ pods'[p].phase = "Absent"
  PROVE  PodsKnown'
  <1>1. /\ During /\ During' /\ pc \notin {"first", "reconcile"} /\ ~store.done
        /\ \A p \in Pod : Exists(wf.nodes[p]) => Exists(wf'.nodes[p])
    BY DEF Walking, During, SuccessInv, LabelInv, SyncInv, ClaimInv, Walked, Walks, Onward, Pod
  <1>2. PodsRecorded(wf) /\ Collected
    BY <1>1 DEF PodsKnown
  <1>3. PodsRecorded(wf)'
    BY <1>1, <1>2 DEF PodsRecorded
  <1>4. Collected'
    BY <1>2 DEF Collected
  <1>5. Given'
    BY <1>1 DEF Given
  <1> QED
    BY <1>1, <1>3, <1>4, <1>5 DEF PodsKnown

(* Most steps leave the pods and their nodes alone. *)
LEMMA KnownWalkingBy ==
  ASSUME SuccessInv, PodsKnown, Walking, UNCHANGED <<store, completedPods>>, Walked,
         Walking' \/ pc' \in {"finish", "persist"},
         \A p \in Pod : pods'[p].phase = pods[p].phase,
         \A p \in Pod : \/ wf'.nodes[p].phase = wf.nodes[p].phase
                        \/ Completed(wf.nodes[p])
                        \/ pods[p].phase = "Absent"
  PROVE  PodsKnown'
  BY KnownWalking DEF Completed

LEMMA KnownPodTemplate ==
  ASSUME SuccessInv, PodsKnown, ~Spend("api"), ~Spend("lost"), ExecutePodTemplate
  PROVE  PodsKnown'
  <1>1. /\ wf \in Workflow /\ cur \in Node /\ cur \in Pod /\ Walking /\ Walking'
        /\ UNCHANGED <<store, completedPods>> /\ pods \in [Pod -> PodType]
    BY DEF SuccessInv, LabelInv, RetryInv, TypeInv, TypeOK, ExecutePodTemplate, Pod, Walking,
           executeContainer, ReturnAtOnce, ReturnOrTimeout, Return
  <1>2. Walked
    BY LifePodTemplate DEF SuccessInv
  <1>3. \/ wf' = wf /\ pods' = pods
        \/ wf' = markNodePhase(wf, cur, "Running") /\ pods' = Created(cur)
    BY DEF ExecutePodTemplate, executeContainer, ReturnAtOnce
  <1>4. CASE wf' = wf /\ pods' = pods
    BY <1>1, <1>2, <1>4, KnownWalkingBy
  <1>5. CASE wf' = markNodePhase(wf, cur, "Running") /\ pods' = Created(cur)
    <2>1. /\ Exists(wf'.nodes[cur]) /\ ~Completed(wf'.nodes[cur])
          /\ \A p \in Pod : p # cur => wf'.nodes[p] = wf.nodes[p]
      <3>1. /\ wf'.nodes[cur].phase = "Running"
            /\ \A p \in Node : p # cur => wf'.nodes[p] = wf.nodes[p]
        BY <1>1, <1>5, MarkPhases
      <3> QED
        BY <3>1 DEF Exists, Completed, Unset, Pod
    <2>2. \A p \in Pod : p # cur => pods'[p].phase = pods[p].phase
      BY <1>1, <1>5 DEF Created
    <2>3. \A p \in Pod : \/ pods'[p].phase = pods[p].phase
                         \/ Exists(wf'.nodes[p]) /\ ~Completed(wf'.nodes[p])
      BY <2>1, <2>2
    <2>4. \A p \in Pod : Completed(wf'.nodes[p]) => Completed(wf.nodes[p])
      BY <2>1
    <2> QED
      BY <1>1, <1>2, <2>3, <2>4, KnownWalking
  <1> QED
    BY <1>3, <1>4, <1>5

LEMMA KnownRetryTemplate ==
  ASSUME SuccessInv, PodsKnown, ~Spend("api"), ~Spend("lost"), ExecuteRetryTemplate
  PROVE  PodsKnown'
  <1>1. /\ wf \in Workflow /\ cur \in Node /\ cur \in Retry /\ cur \notin Pod
        /\ Walking /\ Walking' /\ UNCHANGED <<store, completedPods>> /\ pods \in [Pod -> PodType]
    BY DEF SuccessInv, LabelInv, RetryInv, TypeInv, TypeOK, ExecuteRetryTemplate, Retry, Pod,
           Walking, NewAttempt, executeContainer, ReturnAtOnce, ReturnOrTimeout, Return
  <1>2. Walked
    BY LifeRetryTemplate DEF SuccessInv
  <1>3. CASE wf' \in {wf, markNodePhase(wf, cur, RetryVerdict(cur))} /\ pods' = pods
    <2>1. \A p \in Pod : wf'.nodes[p] = wf.nodes[p]
      BY <1>1, <1>3, MarkPhases DEF Pod
    <2> QED
      BY <1>1, <1>2, <1>3, <2>1, KnownWalkingBy
  <1>4. CASE NewAttempt(cur)
    <2> DEFINE k == wf.nodes[cur].children + 1
               v == markNodePhase(wf, cur, "Running")
               w == [v EXCEPT !.nodes[cur].children = k]
               a == Kids[cur][k]
    <2>1. /\ k \in DOMAIN Kids[cur]
          /\ wf' = markNodePhase(w, a, "Running") /\ pods' = Created(a)
      BY <1>4 DEF NewAttempt, executeContainer
    <2>2. a \in Pod /\ a \in Node
      BY <1>1, <2>1, AttemptOf DEF Pod
    <2>3. k \in Nat
      BY <1>1 DEF Workflow, NodeStatusType
    <2> HIDE DEF k, a
    <2>4. v \in Workflow /\ \A n \in Node : n # cur => v.nodes[n] = wf.nodes[n]
      BY <1>1, MarkNodeType, MarkPhases DEF NodePhase
    <2> HIDE DEF v
    <2>5. w \in Workflow /\ \A n \in Node : n # cur => w.nodes[n] = wf.nodes[n]
      BY <1>1, <2>3, <2>4, SetChildren
    <2> HIDE DEF w
    <2>6. /\ Exists(wf'.nodes[a]) /\ ~Completed(wf'.nodes[a])
          /\ \A p \in Pod : p # a => wf'.nodes[p] = wf.nodes[p]
      <3>1. /\ wf'.nodes[a].phase = "Running"
            /\ \A p \in Node \ {a, cur} : wf'.nodes[p] = wf.nodes[p]
        BY <2>1, <2>2, <2>5, MarkPhases
      <3> QED
        BY <1>1, <3>1 DEF Exists, Completed, Unset, Pod
    <2>7. \A p \in Pod : p # a => pods'[p].phase = pods[p].phase
      BY <1>1, <2>1 DEF Created
    <2>8. \A p \in Pod : \/ pods'[p].phase = pods[p].phase
                         \/ Exists(wf'.nodes[p]) /\ ~Completed(wf'.nodes[p])
      BY <2>6, <2>7
    <2>9. \A p \in Pod : Completed(wf'.nodes[p]) => Completed(wf.nodes[p])
      BY <2>6
    <2> QED
      BY <1>1, <1>2, <2>8, <2>9, KnownWalking
  <1> QED
    BY <1>3, <1>4 DEF ExecuteRetryTemplate, ReturnAtOnce

LEMMA KnownSteps ==
  ASSUME SuccessInv, PodsKnown, ExecuteStepsTemplate \/ executeStepGroup
  PROVE  PodsKnown'
  <1>1. /\ wf \in Workflow /\ cur \in Node /\ Walking /\ Walking'
        /\ UNCHANGED <<store, completedPods, pods>>
    BY DEF SuccessInv, LabelInv, RetryInv, TypeInv, TypeOK, ExecuteStepsTemplate, executeStepGroup,
           cluster, Walking, ReturnAtOnce, Return
  <1>2. Walked
    BY LifeStepsTemplate, LifeStepGroup DEF SuccessInv
  <1>3. CASE ExecuteStepsTemplate
    <2>1. cur \notin Pod /\ wf' \in {wf, markNodePhase(wf, cur, "Running")}
      BY <1>3 DEF ExecuteStepsTemplate, ReturnAtOnce, Pod
    <2>2. \A p \in Pod : wf'.nodes[p] = wf.nodes[p]
      BY <1>1, <2>1, MarkPhases DEF Pod
    <2> QED
      BY <1>1, <1>2, <2>2, KnownWalkingBy
  <1>4. CASE executeStepGroup
    <2> DEFINE w == addChildNode(wf, Parent(cur), cur)
    <2>1. cur \notin Top /\ Kind[Parent(cur)] = "steps"
      BY <1>4 DEF executeStepGroup, SuccessInv, LabelInv, RetryInv, TypeInv, CursorHasParent, CursorInv
    <2>2. cur \notin Pod
      <3>1. PICK i \in DOMAIN Kids[Parent(cur)] : Kids[Parent(cur)][i] = cur
        BY <1>1, <2>1, ParentExists DEF ParentOf
      <3>2. Kind[cur] \in KidKinds["steps"]
        BY <1>1, <2>1, <3>1, ParentExists, ParentOfChild
      <3> QED
        BY <3>2 DEF KidKinds, Pod
    <2>3. w \in Workflow /\ \A n \in Node : w.nodes[n].phase = wf.nodes[n].phase
      BY <1>1, <2>1, AddChildType, AddChildPhases, ParentExists
    <2>4. wf' \in {w, markNodePhase(w, cur, "Error"), markNodePhase(w, cur, "Succeeded"),
                   markNodePhase(w, cur, "Running")}
      BY <1>4 DEF executeStepGroup
    <2> HIDE DEF w
    <2>5. \A p \in Pod : wf'.nodes[p].phase = wf.nodes[p].phase
      BY <1>1, <2>2, <2>3, <2>4, MarkPhases DEF Pod
    <2> QED
      BY <1>1, <1>2, <2>5, KnownWalkingBy
  <1> QED
    BY <1>3, <1>4

(* A step that is not to run has no pod. *)
LEMMA KnownLaunchStep ==
  ASSUME SuccessInv, PodsKnown, LaunchStep
  PROVE  PodsKnown'
  <1> DEFINE w == addChildNode(wf, Parent(cur), cur)
  <1>1. /\ wf \in Workflow /\ cur \in Node /\ Walking /\ Walking' /\ cur \notin Top
        /\ UNCHANGED <<store, completedPods, pods>> /\ IsStep(cur)
    BY DEF SuccessInv, LabelInv, RetryInv, TypeInv, TypeOK, LaunchStep, cluster, Walking, Return,
           CursorHasParent, CursorInv, IsStep
  <1>2. Walked
    BY LifeLaunchStep DEF SuccessInv
  <1>3. w \in Workflow /\ \A n \in Node : w.nodes[n].phase = wf.nodes[n].phase
    BY <1>1, AddChildType, AddChildPhases, ParentExists
  <1>4. \/ wf' = w
        \/ When[cur] # "run" /\ wf' \in {markNodePhase(w, cur, "Skipped"), markNodePhase(w, cur, "Error")}
    BY DEF LaunchStep
  <1> HIDE DEF w
  <1>5. When[cur] # "run" /\ cur \in Pod => pods[cur].phase = "Absent"
    BY <1>1 DEF RunStep, SuccessInv, LifeInv, PodsInv
  <1>6. \A p \in Pod : wf'.nodes[p].phase = wf.nodes[p].phase \/ pods[p].phase = "Absent"
    BY <1>1, <1>3, <1>4, <1>5, MarkPhases DEF Pod
  <1> QED
    BY <1>1, <1>2, <1>6, KnownWalkingBy

LEMMA KnownReturns ==
  ASSUME SuccessInv, CopyMarked, PodsKnown,
         StepReturns \/ GroupReturns \/ killDeamonedChildren \/ TemplateReturns
  PROVE  PodsKnown'
  <1>1. /\ wf \in Workflow /\ cur \in Node /\ Walking /\ UNCHANGED <<store, completedPods>>
        /\ pods \in [Pod -> PodType]
        /\ (Walking' \/ pc' \in {"finish", "persist"})
    BY DEF SuccessInv, LabelInv, RetryInv, TypeInv, TypeOK, StepReturns, GroupReturns, Returns,
           killDeamonedChildren, TemplateReturns, Walking, ReturnOrTimeout, Return, EnterTemplate
  <1>2. Walked
    BY LifeStepReturns, LifeGroupReturns, LifeKillDaemons, LifeTemplateReturns DEF SuccessInv
  <1>3. CASE StepReturns
    <2> DEFINE g == Parent(cur)
               v == markNodePhase(wf, cur, "Error")
    <2>1. cur \notin Top /\ Kind[g] = "group" /\ pc = "return" /\ UNCHANGED pods
      BY <1>3 DEF StepReturns, Returns, cluster
    <2>2. g \in Node /\ g \notin Pod
      BY <1>1, <2>1, ParentExists DEF Pod
    <2>3. \/ ret = "error" /\ wf' = markNodePhase(v, g, "Error")
          \/ wf' = wf
          \/ wf' = markNodePhase(wf, g, GroupVerdict(g))
      BY <1>3 DEF StepReturns
    <2>4. v \in Workflow /\ \A n \in Node : n # cur => v.nodes[n] = wf.nodes[n]
      BY <1>1, MarkNodeType, MarkPhases DEF NodePhase
    <2> HIDE DEF v
    <2>5. ret = "error" /\ cur \in Pod => Completed(wf.nodes[cur])
      BY <2>1 DEF CopyMarked
    <2>6. \A p \in Pod : wf'.nodes[p].phase = wf.nodes[p].phase \/ Completed(wf.nodes[p])
      BY <1>1, <2>2, <2>3, <2>4, <2>5, MarkPhases DEF Pod
    <2> QED
      BY <1>1, <1>2, <2>1, <2>6, KnownWalkingBy
  <1>4. CASE GroupReturns
    <2> DEFINE s == Parent(cur)
    <2>1. cur \notin Top /\ Kind[s] = "steps" /\ UNCHANGED pods
      BY <1>4 DEF GroupReturns, Returns, cluster
    <2>2. s \in Node /\ s \notin Pod
      BY <1>1, <2>1, ParentExists DEF Pod
    <2>3. \/ wf' = wf
          \/ \E phase : wf' = markNodePhase(wf, s, phase)
      BY <1>4 DEF GroupReturns
    <2>4. \A p \in Pod : wf'.nodes[p] = wf.nodes[p]
      BY <1>1, <2>2, <2>3, MarkPhases DEF Pod
    <2> QED
      BY <1>1, <1>2, <2>1, <2>4, KnownWalkingBy
  <1>5. CASE killDeamonedChildren
    <2>1. wf' = wf /\ \A p \in Pod : pods'[p] = pods[p] \/ pods'[p] = [pods[p] EXCEPT !.killed = TRUE]
      BY <1>5 DEF killDeamonedChildren
    <2>2. \A p \in Pod : pods'[p].phase = pods[p].phase
      BY <1>1, <2>1 DEF PodType
    <2> QED
      BY <1>1, <1>2, <2>1, <2>2, KnownWalkingBy
  <1>6. CASE TemplateReturns
    BY <1>1, <1>2, <1>6, KnownWalkingBy DEF TemplateReturns, cluster
  <1> QED
    BY <1>3, <1>4, <1>5, <1>6

LEMMA KnownStarts ==
  ASSUME InSync, SuccessInv, PodsKnown, StartOperation \/ ValidateOnce
  PROVE  PodsKnown'
  <1>1. CASE StartOperation
    <2>1. /\ wf' = store /\ UNCHANGED <<store, pods>> /\ ~store.done /\ ~During
          /\ pc' \in {"first", "reconcile"}
      BY <1>1 DEF StartOperation, SuccessInv, LabelInv, SyncInv, cluster, During
    <2>2. PodsRecorded(wf)'
      BY <2>1 DEF PodsKnown, PodsRecorded
    <2> QED
      BY <2>1, <2>2 DEF PodsKnown, During, Given
  <1>2. CASE ValidateOnce
    <2>1. /\ wf \in Workflow /\ During /\ During' /\ UNCHANGED <<store, pods>> /\ ~store.done
          /\ \A n \in Node : ~Exists(wf.nodes[n])
      BY <1>2 DEF ValidateOnce, cluster, During, SuccessInv, LabelInv, RetryInv, TypeInv, TypeOK,
                  SyncInv, ClaimInv, LifeInv, PhaseInv
    <2>2. wf'.nodes = wf.nodes
      BY <1>2, <2>1 DEF ValidateOnce, markWorkflowPhase, Workflow
    <2>3. PodsRecorded(wf)'
      BY <2>1, <2>2 DEF PodsKnown, PodsRecorded
    <2>4. Collected'
      BY <2>1, <2>2 DEF Collected, Completed, Exists, Unset, Pod
    <2> QED
      BY <2>1, <2>3, <2>4 DEF PodsKnown, Given
  <1> QED
    BY <1>1, <1>2

LEMMA KnownReconciliation ==
  ASSUME SuccessInv, PodsKnown, podReconciliation
  PROVE  PodsKnown'
  <1>1. /\ wf \in Workflow /\ During /\ During' /\ UNCHANGED <<store, pods>> /\ ~store.done
    BY DEF podReconciliation, cluster, During, SuccessInv, LabelInv, RetryInv, TypeInv, TypeOK,
           SyncInv, ClaimInv
  <1>2. ASSUME NEW p \in Pod, Exists(wf.nodes[p])
        PROVE  Exists(wf'.nodes[p])
    <2>1. p \in Node /\ wf.nodes[p] \in NodeStatusType
      BY <1>1 DEF Pod, Workflow
    <2>2. assessNodeStatus(pods[p].phase, wf.nodes[p]).phase
            \in {wf.nodes[p].phase, "Succeeded", "Failed", "Error"}
      BY <2>1 DEF assessNodeStatus, inferFailedReason, NodeStatusType
    <2>3. wf'.nodes[p].phase \in {wf.nodes[p].phase, "Succeeded", "Failed", "Error"}
      BY <1>1, <2>1, <2>2, ReconciledNode
    <2> QED
      BY <1>2, <2>3 DEF Exists, Unset
  <1>3. PodsRecorded(wf)'
    BY <1>1, <1>2 DEF PodsKnown, PodsRecorded
  <1>4. Collected'
    BY <1>1 DEF podReconciliation, Collected
  <1> QED
    BY <1>1, <1>3, <1>4 DEF PodsKnown, Given

(* A claim that cannot be created ends the workflow before it has pods. *)
LEMMA KnownClaims ==
  ASSUME SuccessInv, PodsKnown, createPVCs \/ FinishWorkflow
  PROVE  PodsKnown'
  <1>1. /\ wf \in Workflow /\ During /\ During' /\ UNCHANGED <<store, pods, completedPods>>
        /\ ~store.done /\ pc' \in {"template", "persist"} /\ pc \notin {"first", "reconcile"}
    BY DEF createPVCs, FinishWorkflow, EnterTemplate, During, SuccessInv, LabelInv, RetryInv,
           TypeInv, TypeOK, SyncInv, ClaimInv
  <1>2. Root \in Node
    BY TreeAssumption
  <1>3. PodsRecorded(wf) /\ Collected
    BY <1>1 DEF PodsKnown
  <1>4. \/ wf'.nodes = wf.nodes
        \/ /\ ~Exists(wf.nodes[Root])
           /\ wf'.nodes = markNodePhase(wf, Root, "Error").nodes
    <2>1. CASE createPVCs
      <3>1. \/ wf' \in {wf, [wf EXCEPT !.slots = NumClaims, !.vols = Claim]}
            \/ /\ ~NothingToCreate
               /\ \E k \in Claim :
                    wf' = markWorkflowPhase(
                            markNodePhase([wf EXCEPT !.slots = NumClaims, !.vols = @ \cup 1..(k-1)],
                                          Root, "Error"),
                            "Error", TRUE)
        BY <2>1 DEF createPVCs
      <3>2. ~NothingToCreate => ~Exists(wf.nodes[Root])
        BY <2>1 DEF createPVCs, NothingToCreate, SuccessInv, LifeInv, PhaseInv
      <3> QED
        BY <1>1, <3>1, <3>2 DEF markWorkflowPhase, markNodePhase, Workflow
    <2>2. CASE FinishWorkflow
      <3>1. PICK failed \in SUBSET wf.vols :
              LET w == IF failed = wf.vols THEN wf
                       ELSE [wf EXCEPT !.vols = failed, !.slots = Cardinality(failed)]
              IN  \/ wf' = markWorkflowPhase(w, FinalPhase(w), TRUE)
                  \/ wf' = markWorkflowPhase(w, "Error", FALSE)
        BY <2>2 DEF FinishWorkflow
      <3> DEFINE w == IF failed = wf.vols THEN wf
                      ELSE [wf EXCEPT !.vols = failed, !.slots = Cardinality(failed)]
      <3>2. w.nodes = wf.nodes /\ w = [x \in DOMAIN w |-> w[x]] /\ "nodes" \in DOMAIN w
        BY <1>1 DEF Workflow
      <3>3. wf' \in {markWorkflowPhase(w, FinalPhase(w), TRUE), markWorkflowPhase(w, "Error", FALSE)}
        BY <3>1
      <3> HIDE DEF w
      <3> QED
        BY <3>2, <3>3 DEF markWorkflowPhase
    <2> QED
      BY <2>1, <2>2
  <1>5. \A p \in Pod : pods[p].phase # "Absent" => wf'.nodes[p] = wf.nodes[p]
    <2>1. ASSUME ~Exists(wf.nodes[Root]), wf'.nodes = markNodePhase(wf, Root, "Error").nodes,
                 NEW p \in Pod, pods[p].phase # "Absent"
          PROVE  wf'.nodes[p] = wf.nodes[p]
      <3>1. p # Root /\ p \in Node
        BY <1>3, <2>1 DEF PodsRecorded, Pod
      <3> QED
        BY <1>1, <1>2, <2>1, <3>1, MarkPhases
    <2> QED
      BY <1>4, <2>1
  <1>6. PodsRecorded(wf)' /\ Collected'
    BY <1>1, <1>3, <1>5 DEF PodsRecorded, Collected
  <1> QED
    BY <1>1, <1>6 DEF PodsKnown, Given

(* The patch that completes a workflow records every pod that is to be     *)
(* labelled.                                                               *)
LEMMA KnownPersist ==
  ASSUME SuccessInv, CopyMarked, PodsKnown, ~Spend("api"), ~Spend("lost"),
         NothingToPersist \/ persistUpdates
  PROVE  PodsKnown'
  <1>1. /\ During /\ ~During' /\ pc = "persist" /\ orig = store /\ ~store.done /\ UNCHANGED pods
        /\ PodsRecorded(wf) /\ Collected
    BY DEF NothingToPersist, persistUpdates, Leave, ToLabeling, cluster, During, SuccessInv,
           LabelInv, SyncInv, ClaimInv, PodsKnown
  <1>2. CASE wf = orig /\ UNCHANGED store
    <2>1. PodsRecorded(store)'
      BY <1>1, <1>2 DEF PodsRecorded
    <2> QED
      BY <1>1, <1>2, <2>1 DEF PodsKnown, Given
  <1>3. CASE persistUpdates /\ ApplyPatch /\ ToLabeling
    <2>1. \A n \in Node : store'.nodes[n].phase = wf.nodes[n].phase
      BY <1>3, Patched DEF SuccessInv
    <2>2. PodsRecorded(store)'
      BY <1>1, <2>1 DEF PodsRecorded, Exists, Pod
    <2>3. \A p \in Pod : Completed(store'.nodes[p]) /\ pods'[p].phase # "Absent" =>
                        pc' = "send" /\ p \in completedPods'
      BY <1>1, <1>3, <2>1 DEF Collected, Completed, Pod, ToLabeling
    <2> QED
      BY <1>1, <2>2, <2>3 DEF PodsKnown, Given
  <1> QED
    BY <1>1, <1>2, <1>3 DEF CopyMarked, NothingToPersist, persistUpdates

(* What is taken from the completed pods is in the channel, and what is    *)
(* taken from the channel is labelled.                                     *)
LEMMA KnownLabeling ==
  ASSUME SuccessInv, PodsKnown, ~Spend("api"),
         SendCompletedPod \/ EndOperation \/ podLabeler
  PROVE  PodsKnown'
  <1>1. /\ pods \in [Pod -> PodType] /\ completedCh \in Seq(Pod) /\ completedPods \subseteq Pod
    BY DEF SuccessInv, LabelInv, RetryInv, TypeInv, TypeOK
  <1>2. CASE SendCompletedPod
    <2>1. PICK q \in completedPods : /\ completedCh' = Append(completedCh, q)
                                     /\ completedPods' = completedPods \ {q}
      BY <1>2 DEF SendCompletedPod
    <2>2. \A p \in Pod : Handed(p) \/ p = q => Handed(p)'
      BY <1>1, <2>1 DEF Handed
    <2>3. UNCHANGED <<store, pods, pc>> /\ ~During /\ pc = "send"
      BY <1>2 DEF SendCompletedPod, cluster, During
    <2>4. Given'
      BY <2>1, <2>2, <2>3 DEF PodsKnown, Given
    <2> QED
      BY <2>3, <2>4 DEF PodsKnown, During, PodsRecorded
  <1>3. CASE EndOperation
    <2>1. UNCHANGED <<store, pods, completedCh>> /\ ~During /\ ~During' /\ completedPods = {}
      BY <1>3 DEF EndOperation, Leave, cluster, controller, During
    <2> QED
      BY <2>1 DEF PodsKnown, PodsRecorded, Given, Handed
  <1>4. CASE podLabeler
    <2> DEFINE h == Head(completedCh)
    <2>1. /\ completedCh # <<>> /\ completedCh' = Tail(completedCh) /\ h \in Pod
          /\ UNCHANGED <<store, operation>>
      BY <1>1, <1>4 DEF podLabeler
    <2>2. \/ pods' = [pods EXCEPT ![h].labelled = TRUE]
          \/ pods[h].phase = "Absent" /\ pods' = pods
      BY <1>4 DEF podLabeler, AddPodLabel
    <2>3. \A p \in Pod : Handed(p) => Handed(p)' \/ p = h
      <3> SUFFICES ASSUME NEW p \in Pod, NEW i \in DOMAIN completedCh, completedCh[i] = p, p # h
                   PROVE  \E j \in DOMAIN Tail(completedCh) : Tail(completedCh)[j] = p
        BY <2>1 DEF Handed
      <3>1. i \in 1..Len(completedCh) /\ i # 1
        BY <1>1, <2>1
      <3>2. i - 1 \in DOMAIN Tail(completedCh) /\ Tail(completedCh)[i - 1] = p
        BY <1>1, <2>1, <3>1
      <3> QED
        BY <3>2
    <2> HIDE DEF h
    <2>4. \A p \in Pod : /\ pods'[p].phase = pods[p].phase
                         /\ pods[p].labelled => pods'[p].labelled
                         /\ p = h => pods'[p].labelled \/ pods[p].phase = "Absent"
      BY <1>1, <2>1, <2>2 DEF PodType
    <2>5. Given'
      BY <2>1, <2>3, <2>4 DEF PodsKnown, Given, operation
    <2> QED
      BY <2>1, <2>4, <2>5 DEF PodsKnown, PodsRecorded, Collected, During, operation
  <1> QED
    BY <1>2, <1>3, <1>4

LEMMA KnownAround ==
  ASSUME SuccessInv, PodsKnown,
         DrainItem \/ WatchEvent \/ Resync \/ processNextPodItem \/ Environment \/ UNCHANGED vars
  PROVE  PodsKnown'
  <1>1. UNCHANGED <<store, completedCh, operation>> /\ pods \in [Pod -> PodType]
    BY DEF DrainItem, WatchEvent, Resync, processNextPodItem, vars, controller, Environment, PodRuns,
           DaemonReady, PodTerminates, PodUnreachable, PodReachable, PodDeleted, PodMoves,
           SuccessInv, LabelInv, RetryInv, TypeInv, TypeOK
  <1>2. \A p \in Pod : pods'[p].phase # "Absent" =>
                        pods[p].phase # "Absent" /\ pods'[p].labelled = pods[p].labelled
    <2>1. CASE DrainItem \/ WatchEvent \/ Resync \/ processNextPodItem \/ UNCHANGED vars
      BY <2>1 DEF DrainItem, WatchEvent, Resync, processNextPodItem, vars, cluster
    <2>2. CASE Environment
      <3>1. PICK p \in Pod : \/ pods' = [pods EXCEPT ![p] = NoPod]
                             \/ \E to \in PodPhase \ {"Absent", "Pending"} :
                                  /\ pods' = [pods EXCEPT ![p].phase = to]
                                  /\ pods[p].phase \in {"Pending", "Running", "Ready", "Unknown"}
        BY <2>2 DEF Environment, PodRuns, DaemonReady, PodTerminates, PodUnreachable,
                    PodReachable, PodDeleted, PodMoves, PodPhase, PodTerminated
      <3> QED
        BY <1>1, <3>1 DEF PodType, NoPod
    <2> QED
      BY <2>1, <2>2
  <1>3. Given'
    BY <1>1, <1>2 DEF PodsKnown, Given, Handed, operation
  <1> QED
    BY <1>1, <1>2, <1>3 DEF PodsKnown, PodsRecorded, Collected, During, operation

LEMMA HandoverInit == Init => HandoverInv
  <1> SUFFICES ASSUME Init PROVE HandoverInv
    OBVIOUS
  <1>1. pc = "idle" /\ ~store.done /\ \A p \in Pod : pods[p].phase = "Absent"
    BY DEF Init, NewWorkflow, NoPod
  <1> QED
    BY <1>1 DEF HandoverInv, CopyMarked, PodsKnown, PodsRecorded, Given, During

LEMMA HandoverNext ==
  ASSUME InSync, SuccessInv, HandoverInv, [Next]_vars
  PROVE  HandoverInv'
  <1>1. TypeInv /\ CursorInv /\ TypeOK /\ BudgetInv /\ CopyMarked
    BY DEF SuccessInv, LabelInv, RetryInv, TypeInv, HandoverInv
  <1>2. CopyMarked'
    BY <1>1, MarkedNext
  <1>3. ASSUME Spared' PROVE PodsKnown'
    <2>1. \A f \in {"crash", "api", "lost"} : budget[f] = Budget[f] /\ ~Spend(f)
      BY <1>1, <1>3, NotSpent DEF Spared, Fault
    <2>2. PodsKnown
      BY <2>1 DEF HandoverInv, Spared
    <2>3. ~ListPodsFails /\ ~Crash
      BY <2>1 DEF ListPodsFails, Crash
    <2> QED
      BY <1>1, <2>1, <2>2, <2>3, KnownPodTemplate, KnownRetryTemplate, KnownSteps, KnownLaunchStep,
         KnownReturns, KnownStarts, KnownReconciliation, KnownClaims, KnownPersist, KnownLabeling,
         KnownAround
      DEF Next, Worker
  <1> QED
    BY <1>2, <1>3 DEF HandoverInv

(* The operation that completes a workflow hands every completed pod to    *)
(* the labeler, however full the channel is and whatever the tree, unless  *)
(* the controller was restarted or a call failed (persistUpdates).         *)
THEOREM NoneIsForgotten == InSync => (Spec => []NoneForgotten)
  <1> SUFFICES ASSUME InSync PROVE Spec => []NoneForgotten
    OBVIOUS
  <1>1. SuccessInv /\ HandoverInv /\ [Next]_vars => HandoverInv'
    BY HandoverNext
  <1>2. SuccessInv /\ HandoverInv => NoneForgotten
    <2> SUFFICES ASSUME SuccessInv, HandoverInv, store.done, pc = "idle", NEW p \in Pod,
                        Completed(store.nodes[p]), pods[p].phase # "Absent"
                 PROVE  \/ pods[p].labelled \/ Handed(p)
                        \/ budget["crash"] < Budget["crash"] \/ CallFailed
      BY DEF NoneForgotten
    <2>1. CASE Spared
      BY <2>1 DEF HandoverInv, PodsKnown, Given
    <2>2. CASE ~Spared
      <3>1. PICK f \in {"crash", "api", "lost"} : budget[f] # Budget[f]
        BY <2>2 DEF Spared
      <3>2. budget[f] \in Nat /\ Budget[f] \in Nat /\ budget[f] <= Budget[f]
        BY BoundAssumption DEF SuccessInv, LabelInv, RetryInv, TypeInv, TypeOK, BudgetInv, Fault
      <3>3. budget[f] < Budget[f]
        BY <3>1, <3>2
      <3> QED
        BY <3>3 DEF CallFailed
    <2> QED
      BY <2>1, <2>2
  <1>3. Spec => []SuccessInv
    BY SuccessInvariant
  <1> QED
    BY HandoverInit, <1>1, <1>2, <1>3, PTL DEF Spec

-----------------------------------------------------------------------------
(* The attempts of a retried container come one after the other.  The      *)
(* operator takes an attempt for failed when its pod has failed or is      *)
(* gone, or else after a failed creation or a report that the kubelet is   *)
(* unreachable, which say nothing for certain.                             *)

Certain == \A f \in {"api", "lost", "unreachable"} : budget[f] = Budget[f]

Attempt == {p \in Pod : IsAttempt(p)}

Over(p) == pods[p].phase \in {"Absent", "Failed", "Errored"}

FailedIsOver(w) == \A p \in Attempt : CanRetry(w.nodes[p]) => Over(p)

(* Every attempt but the last has failed. *)
Superseded(w) ==
  \A n \in Retry : \A i \in DOMAIN Kids[n] :
    i < w.nodes[n].children => CanRetry(w.nodes[Kids[n][i]])

(* An operation starts one attempt of a container, and the next operation  *)
(* starts the same one if that was not recorded.                           *)
NoneAhead ==
  \A n \in Retry : \A i \in DOMAIN Kids[n] :
    i > store.nodes[n].children + 1 => pods[Kids[n][i]].phase = "Absent"

OneAhead ==
  \A n \in Retry :
    \/ wf.nodes[n].children = store.nodes[n].children
    \/ /\ wf.nodes[n].children = store.nodes[n].children + 1
       /\ wf.nodes[n].children \in DOMAIN Kids[n]
       /\ ~Completed(LastChild(wf, n))

InTurn ==
  /\ \A p \in Attempt : pods[p].phase # "Unknown"
  /\ FailedIsOver(store) /\ Superseded(store) /\ NoneAhead
  /\ During => FailedIsOver(wf) /\ Superseded(wf) /\ OneAhead

SameAttempts(v, w) ==
  /\ \A p \in Attempt : w.nodes[p].phase = v.nodes[p].phase
  /\ \A n \in Retry : w.nodes[n].children = v.nodes[n].children

LEMMA MarkAlone ==
  ASSUME NEW w \in Workflow, NEW n \in Node \ Attempt, NEW phase
  PROVE  SameAttempts(w, markNodePhase(w, n, phase))
  <1>1. /\ \A m \in Node : m # n => markNodePhase(w, n, phase).nodes[m] = w.nodes[m]
        /\ markNodePhase(w, n, phase).nodes[n].children = w.nodes[n].children
    BY DEF markNodePhase, Workflow, NodeStatusType
  <1> QED
    BY <1>1 DEF SameAttempts, Attempt, Pod, Retry

LEMMA AddChildAlone ==
  ASSUME NEW w \in Workflow, NEW p \in Node, p \notin Retry, NEW c
  PROVE  SameAttempts(w, addChildNode(w, p, c))
  BY DEF SameAttempts, addChildNode, Workflow, NodeStatusType, Attempt, Pod, Retry

LEMMA AloneTransitive ==
  ASSUME NEW u, NEW v, NEW w, SameAttempts(u, v), SameAttempts(v, w)
  PROVE  SameAttempts(u, w)
  BY DEF SameAttempts

LEMMA AttemptsHere ==
  ASSUME NEW n \in Retry, NEW i \in DOMAIN Kids[n]
  PROVE  Kids[n][i] \in Attempt /\ Kids[n][i] \in Node \ Retry
  BY AttemptOf DEF Attempt, Pod, Retry

(* A step of an operation that starts no attempt. *)
AttemptsAlone ==
  /\ UNCHANGED store
  /\ During /\ During'
  /\ SameAttempts(wf, wf')
  /\ \A p \in Attempt : pods'[p].phase = pods[p].phase

LEMMA TurnAlone ==
  ASSUME InTurn, AttemptsAlone
  PROVE  InTurn'
  <1>1. /\ \A p \in Attempt : pods[p].phase # "Unknown"
        /\ FailedIsOver(store) /\ Superseded(store) /\ NoneAhead
        /\ FailedIsOver(wf) /\ Superseded(wf) /\ OneAhead
    BY DEF InTurn, AttemptsAlone
  <1>2. FailedIsOver(store)'
    BY <1>1 DEF FailedIsOver, AttemptsAlone, Over
  <1>3. FailedIsOver(wf)'
    BY <1>1 DEF FailedIsOver, AttemptsAlone, SameAttempts, Over, CanRetry, Completed, Successful
  <1>4. NoneAhead'
    BY <1>1, AttemptsHere DEF NoneAhead, AttemptsAlone
  <1>5. Superseded(wf)'
    BY <1>1, AttemptsHere
    DEF Superseded, AttemptsAlone, SameAttempts, CanRetry, Completed, Successful
  <1>6. OneAhead'
    <2> SUFFICES ASSUME NEW n \in Retry, wf'.nodes[n].children # store'.nodes[n].children
                 PROVE  /\ wf'.nodes[n].children = store'.nodes[n].children + 1
                        /\ wf'.nodes[n].children \in DOMAIN Kids[n]
                        /\ ~Completed(LastChild(wf', n))
      BY DEF OneAhead
    <2> DEFINE c == wf.nodes[n].children
    <2>1. wf'.nodes[n].children = c /\ store' = store
      BY DEF AttemptsAlone, SameAttempts
    <2>2. c = store.nodes[n].children + 1 /\ c \in DOMAIN Kids[n] /\ ~Completed(wf.nodes[Kids[n][c]])
      BY <1>1, <2>1 DEF OneAhead, LastChild
    <2>3. wf'.nodes[Kids[n][c]].phase = wf.nodes[Kids[n][c]].phase
      BY <2>2, AttemptsHere DEF AttemptsAlone, SameAttempts
    <2> QED
      BY <2>1, <2>2, <2>3 DEF LastChild, Completed
  <1> QED
    BY <1>1, <1>2, <1>3, <1>4, <1>5, <1>6 DEF InTurn, AttemptsAlone, Superseded

LEMMA CursorAlone ==
  ASSUME TypeInv, CursorInv
  PROVE  /\ cur \in Node \ Attempt
         /\ cur \notin Top /\ Kind[Parent(cur)] \in {"steps", "group"} =>
              Parent(cur) \in Node \ Attempt /\ Parent(cur) \notin Retry
  <1>1. cur \in Node
    BY DEF TypeInv, TypeOK
  <1> QED
    BY <1>1, ParentExists DEF CursorInv, Attempt, Pod, Retry

LEMMA ScheduleAlone ==
  ASSUME SuccessInv, ExecutePodTemplate \/ ExecuteStepsTemplate
  PROVE  AttemptsAlone
  <1>1. wf \in Workflow /\ cur \in Node \ Attempt /\ pods \in [Pod -> PodType]
    BY CursorAlone DEF SuccessInv, LabelInv, RetryInv, TypeInv, TypeOK
  <1>2. /\ UNCHANGED store /\ During /\ During'
        /\ \/ wf' = wf
           \/ \E phase : wf' = markNodePhase(wf, cur, phase)
        /\ pods' = pods \/ pods' = Created(cur)
    BY DEF ExecutePodTemplate, ExecuteStepsTemplate, executeContainer, ReturnAtOnce,
           ReturnOrTimeout, Return, During
  <1>3. SameAttempts(wf, wf')
    BY <1>1, <1>2, MarkAlone DEF SameAttempts
  <1>4. \A p \in Attempt : pods'[p].phase = pods[p].phase
    BY <1>1, <1>2 DEF Created, Attempt
  <1> QED
    BY <1>2, <1>3, <1>4 DEF AttemptsAlone

LEMMA GroupsAlone ==
  ASSUME SuccessInv, executeStepGroup \/ LaunchStep
  PROVE  AttemptsAlone
  <1> DEFINE w == addChildNode(wf, Parent(cur), cur)
  <1>1. /\ wf \in Workflow /\ cur \in Node \ Attempt
        /\ Parent(cur) \in Node \ Attempt /\ Parent(cur) \notin Retry
    BY CursorAlone
    DEF SuccessInv, LabelInv, RetryInv, TypeInv, TypeOK, CursorHasParent, CursorInv,
        executeStepGroup, LaunchStep
  <1>2. SameAttempts(wf, w) /\ w \in Workflow
    BY <1>1, AddChildAlone, AddChildType, ParentExists
    DEF SuccessInv, LabelInv, RetryInv, TypeInv, CursorHasParent, executeStepGroup, LaunchStep
  <1>3. UNCHANGED <<store, pods>> /\ During /\ During'
    BY DEF executeStepGroup, LaunchStep, Return, During, cluster
  <1>4. wf' = w \/ \E phase : wf' = markNodePhase(w, cur, phase)
    BY DEF executeStepGroup, LaunchStep
  <1> HIDE DEF w
  <1>5. SameAttempts(wf, wf')
    BY <1>1, <1>2, <1>4, MarkAlone, AloneTransitive
  <1> QED
    BY <1>3, <1>5 DEF AttemptsAlone

LEMMA ReturnsAlone ==
  ASSUME SuccessInv, StepReturns \/ GroupReturns \/ killDeamonedChildren \/ TemplateReturns
  PROVE  AttemptsAlone
  <1>1. wf \in Workflow /\ cur \in Node \ Attempt /\ pods \in [Pod -> PodType]
    BY CursorAlone DEF SuccessInv, LabelInv, RetryInv, TypeInv, TypeOK
  <1>2. UNCHANGED store /\ During /\ During'
    BY DEF StepReturns, GroupReturns, Returns, killDeamonedChildren, TemplateReturns,
           ReturnOrTimeout, Return, EnterTemplate, During
  <1>3. CASE StepReturns \/ GroupReturns
    <2> DEFINE g == Parent(cur)
               v == markNodePhase(wf, cur, "Error")
    <2>1. g \in Node \ Attempt
      BY <1>3, CursorAlone DEF StepReturns, GroupReturns, Returns, SuccessInv, LabelInv, RetryInv
    <2>2. SameAttempts(wf, v) /\ v \in Workflow
      BY <1>1, MarkAlone, MarkNodeType DEF NodePhase
    <2>3. \/ wf' = wf
          \/ \E phase : wf' = markNodePhase(wf, g, phase)
          \/ wf' = markNodePhase(v, g, "Error")
      BY <1>3 DEF StepReturns, GroupReturns
    <2>4. UNCHANGED pods
      BY <1>3 DEF StepReturns, GroupReturns, cluster
    <2> HIDE DEF g, v
    <2>5. SameAttempts(wf, wf')
      BY <1>1, <2>1, <2>2, <2>3, MarkAlone, AloneTransitive DEF SameAttempts
    <2> QED
      BY <1>2, <2>4, <2>5 DEF AttemptsAlone
  <1>4. CASE killDeamonedChildren
    <2>1. wf' = wf /\ \A p \in Pod : pods'[p] = pods[p] \/ pods'[p] = [pods[p] EXCEPT !.killed = TRUE]
      BY <1>4 DEF killDeamonedChildren
    <2>2. \A p \in Pod : pods'[p].phase = pods[p].phase
      BY <1>1, <2>1 DEF PodType
    <2> QED
      BY <1>2, <2>1, <2>2 DEF AttemptsAlone, SameAttempts, Attempt
  <1>5. CASE TemplateReturns
    BY <1>2, <1>5 DEF TemplateReturns, cluster, AttemptsAlone, SameAttempts
  <1> QED
    BY <1>3, <1>4, <1>5

LEMMA EndsAlone ==
  ASSUME SuccessInv, ValidateOnce \/ createPVCs \/ FinishWorkflow
  PROVE  AttemptsAlone
  <1>1. wf \in Workflow /\ UNCHANGED <<store, pods>> /\ During /\ During'
    BY DEF SuccessInv, LabelInv, RetryInv, TypeInv, TypeOK, ValidateOnce, createPVCs, FinishWorkflow,
           EnterTemplate, During, cluster
  <1>2. wf'.nodes = wf.nodes \/ wf'.nodes = markNodePhase(wf, Root, "Error").nodes
    <2>1. CASE ValidateOnce \/ FinishWorkflow
      BY <1>1, <2>1 DEF ValidateOnce, FinishWorkflow, markWorkflowPhase, Workflow
    <2>2. CASE createPVCs
      BY <1>1, <2>2 DEF createPVCs, markWorkflowPhase, markNodePhase, Workflow
    <2> QED
      BY <2>1, <2>2
  <1>3. Root \in Node \ Attempt
    BY TreeAssumption DEF Attempt, IsAttempt, Top
  <1>4. SameAttempts(wf, wf')
    BY <1>1, <1>2, <1>3, MarkAlone DEF SameAttempts
  <1> QED
    BY <1>1, <1>4 DEF AttemptsAlone

LEMMA ChildCount ==
  ASSUME TypeInv, NEW n \in Retry
  PROVE  /\ n \in Node /\ store.nodes[n].children \in Nat /\ wf.nodes[n].children \in Nat
         /\ \A i \in DOMAIN Kids[n] : i \in Nat /\ i > 0
  <1>1. n \in Node
    BY DEF Retry
  <1>2. store.nodes[n] \in NodeStatusType /\ wf.nodes[n] \in NodeStatusType
    BY <1>1 DEF TypeInv, TypeOK, Workflow
  <1>3. Kids[n] \in Seq(Node)
    BY <1>1, TreeAssumption
  <1> QED
    BY <1>1, <1>2, <1>3 DEF NodeStatusType

(* When another attempt is due, all earlier ones have failed, and the      *)
(* operation has not started one of this container before.                 *)
Due ==
  /\ pc = "template" /\ cur \in Retry
  /\ NewAttempt(cur)
  /\ Exists(wf.nodes[cur]) => Completed(LastChild(wf, cur)) /\ RetryVerdict(cur) = "Running"

LEMMA DueAttempt ==
  ASSUME SuccessInv, InTurn, Due
  PROVE  /\ wf.nodes[cur].children = store.nodes[cur].children
         /\ \A i \in DOMAIN Kids[cur] :
              i <= wf.nodes[cur].children => CanRetry(wf.nodes[Kids[cur][i]])
  <1> DEFINE c == wf.nodes[cur].children
  <1>1. /\ cur \in Node /\ c \in Nat /\ store.nodes[cur].children \in Nat
        /\ \A i \in DOMAIN Kids[cur] : i \in Nat /\ i > 0
    BY ChildCount DEF Due, SuccessInv, LabelInv, RetryInv
  <1>2. Superseded(wf) /\ OneAhead /\ AttemptsRecorded(wf) /\ cur \in Retry
    BY DEF InTurn, Due, During, SuccessInv, LabelInv, RetryInv, VersionsInv
  <1>3. CASE ~Exists(wf.nodes[cur])
    <2>1. c = 0
      BY <1>2, <1>3 DEF AttemptsRecorded
    <2>2. c = store.nodes[cur].children
      BY <1>1, <1>2, <2>1 DEF OneAhead
    <2> QED
      BY <1>1, <2>1, <2>2
  <1>4. CASE Exists(wf.nodes[cur])
    <2>1. Completed(LastChild(wf, cur)) /\ ~Successful(LastChild(wf, cur))
      BY <1>4 DEF Due, RetryVerdict
    <2>2. c = store.nodes[cur].children
      BY <1>2, <2>1 DEF OneAhead
    <2>3. ASSUME NEW i \in DOMAIN Kids[cur], i <= c
          PROVE  CanRetry(wf.nodes[Kids[cur][i]])
      <3>1. CASE i < c
        BY <1>2, <3>1 DEF Superseded
      <3>2. CASE i = c
        BY <2>1, <3>2 DEF LastChild, CanRetry
      <3> QED
        BY <1>1, <2>3, <3>1, <3>2
    <2> QED
      BY <2>2, <2>3
  <1> QED
    BY <1>3, <1>4

LEMMA NewAttemptTurn ==
  ASSUME SuccessInv, InTurn, Due, ~Spend("api"), ~Spend("lost"), UNCHANGED store
  PROVE  InTurn'
  <1> DEFINE c == wf.nodes[cur].children
             k == c + 1
             v == markNodePhase(wf, cur, "Running")
             w == [v EXCEPT !.nodes[cur].children = k]
             a == Kids[cur][k]
  <1>1. /\ wf \in Workflow /\ pods \in [Pod -> PodType] /\ cur \in Retry /\ During /\ During'
        /\ cur \in Node /\ c \in Nat /\ cur \notin Pod
    BY ChildCount DEF Due, SuccessInv, LabelInv, RetryInv, TypeInv, TypeOK, NewAttempt,
                      executeContainer, ReturnOrTimeout, Return, During, Retry, Pod
  <1>2. k \in DOMAIN Kids[cur] /\ wf' = markNodePhase(w, a, "Running") /\ pods' = Created(a)
    BY DEF Due, NewAttempt, executeContainer
  <1>3. k \in Nat /\ a \in Attempt /\ a \in Pod /\ a \in Node /\ a # cur
    BY <1>1, <1>2, AttemptsHere DEF Attempt
  <1>4. /\ c = store.nodes[cur].children
        /\ \A i \in DOMAIN Kids[cur] : i <= c => CanRetry(wf.nodes[Kids[cur][i]])
    BY DueAttempt
  <1>5. \A n \in Retry : \A i \in DOMAIN Kids[n] : Kids[n][i] = a => n = cur /\ i = k
    <2> SUFFICES ASSUME NEW n \in Retry, NEW i \in DOMAIN Kids[n], Kids[n][i] = a
                 PROVE  n = cur /\ i = k
      OBVIOUS
    <2> HIDE DEF k, w
    <2> QED
      BY <1>1, <1>2, TreeAssumption DEF Retry
  <1>6. v \in Workflow /\ \A n \in Node : n # cur => v.nodes[n] = wf.nodes[n]
    BY <1>1, MarkNodeType, MarkPhases DEF NodePhase
  <1> HIDE DEF v
  <1>7. /\ w \in Workflow /\ w.nodes[cur].children = k
        /\ \A n \in Node : n # cur => w.nodes[n] = wf.nodes[n]
    BY <1>1, <1>3, <1>6, SetChildren
  <1> HIDE DEF w, a, k
  <1>8. /\ wf'.nodes[a].phase = "Running" /\ wf'.nodes[cur].children = k
        /\ \A n \in Node \ {a, cur} : wf'.nodes[n] = wf.nodes[n]
    BY <1>1, <1>2, <1>3, <1>7, MarkPhases
  <1>9. /\ \A p \in Pod : p # a => pods'[p].phase = pods[p].phase
        /\ pods'[a].phase = pods[a].phase \/ (pods[a].phase = "Absent" /\ pods'[a].phase = "Pending")
    BY <1>1, <1>2, <1>3 DEF Created, NewPod, NoPod
  <1>10. /\ \A p \in Attempt : pods[p].phase # "Unknown"
         /\ FailedIsOver(store) /\ Superseded(store) /\ NoneAhead
         /\ FailedIsOver(wf) /\ Superseded(wf) /\ OneAhead
    BY <1>1 DEF InTurn
  <1>11. \A p \in Attempt : pods'[p].phase # "Unknown"
    BY <1>9, <1>10 DEF Attempt
  <1>12. FailedIsOver(store)'
    <2>1. ~Exists(store.nodes[a])
      <3>1. k > c /\ NoneBeyond(store)
        BY <1>1 DEF k, SuccessInv, LabelInv, CopyInv
      <3> QED
        BY <1>1, <1>2, <1>4, <3>1 DEF a, NoneBeyond
    <2> QED
      BY <1>9, <1>10, <2>1 DEF FailedIsOver, Over, Exists, CanRetry, Completed, Attempt, Unset
  <1>13. NoneAhead'
    <2> SUFFICES ASSUME NEW n \in Retry, NEW i \in DOMAIN Kids[n], i > store.nodes[n].children + 1
                 PROVE  pods'[Kids[n][i]].phase = "Absent"
      BY DEF NoneAhead
    <2>1. Kids[n][i] # a
      BY <1>1, <1>4, <1>5 DEF k
    <2> QED
      BY <1>9, <1>10, <2>1, AttemptsHere DEF NoneAhead, Attempt
  <1>14. FailedIsOver(wf)'
    <2> SUFFICES ASSUME NEW p \in Attempt, CanRetry(wf'.nodes[p])
                 PROVE  Over(p)'
      BY DEF FailedIsOver
    <2>1. p # a /\ p \in Pod /\ p \in Node /\ p # cur
      BY <1>1, <1>8 DEF CanRetry, Completed, Attempt, Pod
    <2> QED
      BY <1>8, <1>9, <1>10, <2>1 DEF FailedIsOver, Over
  <1>15. Superseded(wf)'
    <2> SUFFICES ASSUME NEW n \in Retry, NEW i \in DOMAIN Kids[n], i < wf'.nodes[n].children
                 PROVE  CanRetry(wf'.nodes[Kids[n][i]])
      BY DEF Superseded
    <2>1. n \in Node /\ n # a /\ Kids[n][i] \in Node /\ Kids[n][i] # cur
      BY <1>1, <1>3, AttemptsHere DEF Retry, Pod
    <2>2. CASE n = cur
      <3>1. i <= c /\ i # k
        BY <1>1, <1>8, <2>2, ChildCount DEF k, SuccessInv, LabelInv, RetryInv
      <3>2. Kids[n][i] # a
        BY <1>5, <3>1
      <3> QED
        BY <1>4, <1>8, <2>1, <2>2, <3>1, <3>2
    <2>3. CASE n # cur
      <3>1. Kids[n][i] # a
        BY <1>5, <2>3
      <3> QED
        BY <1>8, <1>10, <2>1, <2>3, <3>1 DEF Superseded
    <2> QED
      BY <2>2, <2>3
  <1>16. OneAhead'
    <2> SUFFICES ASSUME NEW n \in Retry, wf'.nodes[n].children # store.nodes[n].children
                 PROVE  /\ wf'.nodes[n].children = store.nodes[n].children + 1
                        /\ wf'.nodes[n].children \in DOMAIN Kids[n]
                        /\ ~Completed(LastChild(wf', n))
      BY DEF OneAhead
    <2>1. n \in Node /\ n # a
      BY <1>3 DEF Retry, Pod
    <2>2. CASE n = cur
      BY <1>2, <1>4, <1>8, <2>2 DEF k, a, LastChild, Completed
    <2>3. CASE n # cur
      <3> DEFINE l == wf.nodes[n].children
      <3>1. wf'.nodes[n].children = l
        BY <1>8, <2>1, <2>3
      <3>2. l = store.nodes[n].children + 1 /\ l \in DOMAIN Kids[n] /\ ~Completed(wf.nodes[Kids[n][l]])
        BY <1>10, <3>1 DEF OneAhead, LastChild
      <3>3. Kids[n][l] # a /\ Kids[n][l] # cur /\ Kids[n][l] \in Node
        BY <1>1, <1>5, <2>3, <3>2, AttemptsHere
      <3> QED
        BY <1>8, <3>1, <3>2, <3>3 DEF LastChild
    <2> QED
      BY <2>2, <2>3
  <1> QED
    BY <1>1, <1>10, <1>11, <1>12, <1>13, <1>14, <1>15, <1>16 DEF InTurn, Superseded

(* A retry node is left alone or marked, or the next attempt is due. *)
LEMMA RetryChoice ==
  ASSUME SuccessInv, ExecuteRetryTemplate
  PROVE  AttemptsAlone \/ (Due /\ UNCHANGED store)
  <1>1. wf \in Workflow /\ cur \in Node \ Attempt /\ cur \in Retry /\ pc = "template"
    BY CursorAlone DEF SuccessInv, LabelInv, RetryInv, TypeInv, TypeOK, ExecuteRetryTemplate, Retry
  <1>2. UNCHANGED store /\ During /\ During'
    BY DEF ExecuteRetryTemplate, NewAttempt, executeContainer, ReturnAtOnce, ReturnOrTimeout, Return,
           During
  <1>3. CASE UNCHANGED pods /\ wf' \in {wf, markNodePhase(wf, cur, RetryVerdict(cur))}
    <2>1. SameAttempts(wf, wf')
      BY <1>1, <1>3, MarkAlone DEF SameAttempts
    <2> QED
      BY <1>2, <1>3, <2>1 DEF AttemptsAlone
  <1>4. CASE /\ NewAttempt(cur)
             /\ Exists(wf.nodes[cur]) => Completed(LastChild(wf, cur)) /\ RetryVerdict(cur) = "Running"
    BY <1>1, <1>2, <1>4 DEF Due
  <1> QED
    BY <1>3, <1>4 DEF ExecuteRetryTemplate, ReturnAtOnce

(* What the reconciliation makes of an attempt's node. *)
LEMMA TurnReconciliation ==
  ASSUME SuccessInv, CopyMarked, InTurn, podReconciliation
  PROVE  InTurn'
  <1>1. /\ wf \in Workflow /\ wf = store /\ UNCHANGED <<store, pods>> /\ During
        /\ wf'.nodes = Reconciled(wf.nodes)
    BY DEF SuccessInv, LabelInv, RetryInv, TypeInv, TypeOK, podReconciliation, cluster, During,
           SyncInv, CopyMarked, Workflow
  <1>2. /\ \A p \in Attempt : pods[p].phase # "Unknown"
        /\ FailedIsOver(store) /\ Superseded(store) /\ NoneAhead
    BY DEF InTurn
  <1>3. ASSUME NEW n \in Node
        PROVE  /\ wf'.nodes[n].children = wf.nodes[n].children
               /\ n \in Attempt => \/ wf'.nodes[n].phase = wf.nodes[n].phase
                                   \/ wf'.nodes[n].phase = "Succeeded"
                                   \/ Over(n) /\ ~Completed(wf.nodes[n])
                                   \/ Over(n) /\ CanRetry(wf'.nodes[n])
    <2>1. wf.nodes[n] \in NodeStatusType
      BY <1>1 DEF Workflow
    <2>2. CASE n \in Vanished(wf.nodes)
      BY <1>1, <2>1, <2>2 DEF Reconciled, Vanished, NodeStatusType, Over, Attempt
    <2>3. CASE n \notin Vanished(wf.nodes)
      <3>1. wf'.nodes[n] = wf.nodes[n]
            \/ (n \in Pod /\ wf'.nodes[n] = assessNodeStatus(pods[n].phase, wf.nodes[n]))
        BY <1>1, <2>3 DEF Reconciled, Assessed
      <3> QED
        BY <1>2, <2>1, <3>1
        DEF assessNodeStatus, inferFailedReason, NodeStatusType, Over, CanRetry, Completed, Successful
    <2> QED
      BY <2>2, <2>3
  <1>4. FailedIsOver(wf)'
    <2> SUFFICES ASSUME NEW p \in Attempt, CanRetry(wf'.nodes[p])
                 PROVE  Over(p)
      BY <1>1 DEF FailedIsOver, Over
    <2>1. CASE wf'.nodes[p].phase = wf.nodes[p].phase
      BY <1>1, <1>2, <2>1 DEF FailedIsOver, CanRetry, Completed, Successful
    <2> QED
      BY <1>3, <2>1 DEF CanRetry, Successful, Attempt, Pod
  <1>5. Superseded(wf)'
    <2> SUFFICES ASSUME NEW n \in Retry, NEW i \in DOMAIN Kids[n], i < wf'.nodes[n].children
                 PROVE  CanRetry(wf'.nodes[Kids[n][i]])
      BY DEF Superseded
    <2> DEFINE p == Kids[n][i]
    <2>1. n \in Node /\ p \in Attempt /\ p \in Node
      BY AttemptsHere DEF Retry
    <2>2. CanRetry(wf.nodes[p])
      BY <1>1, <1>2, <1>3, <2>1 DEF Superseded
    <2>3. Over(p) /\ Completed(wf.nodes[p])
      BY <1>1, <1>2, <2>1, <2>2 DEF FailedIsOver, CanRetry
    <2>4. p \notin Vanished(wf.nodes)
      BY <2>3 DEF Vanished
    <2>5. wf'.nodes[p] = wf.nodes[p] \/ wf'.nodes[p] = assessNodeStatus(pods[p].phase, wf.nodes[p])
      BY <1>1, <2>1, <2>4 DEF Reconciled, Assessed
    <2>6. wf.nodes[p] \in NodeStatusType
      BY <1>1, <2>1 DEF Workflow
    <2> HIDE DEF p
    <2>7. CanRetry(wf'.nodes[p])
      BY <2>2, <2>3, <2>5, <2>6
      DEF assessNodeStatus, inferFailedReason, NodeStatusType, Over, CanRetry, Completed, Successful
    <2> QED
      BY <2>7 DEF p
  <1>6. OneAhead'
    BY <1>1, <1>3 DEF OneAhead, Retry
  <1> QED
    BY <1>1, <1>2, <1>4, <1>5, <1>6 DEF InTurn, FailedIsOver, Superseded, NoneAhead, Over

(* An operation begins or ends. *)
LEMMA TurnAtRest ==
  ASSUME InTurn, UNCHANGED <<store, pods>>, ~During'
  PROVE  InTurn'
  BY DEF InTurn, FailedIsOver, Superseded, NoneAhead, Over

LEMMA TurnBounds ==
  ASSUME InSync, SuccessInv, InTurn,
         StartOperation \/ ListPodsFails \/ NothingToPersist \/ persistUpdates
         \/ SendCompletedPod \/ EndOperation \/ Crash
  PROVE  InTurn'
  <1>1. CASE StartOperation
    <2>1. wf' = store /\ UNCHANGED <<store, pods>>
      BY <1>1 DEF StartOperation, SuccessInv, LabelInv, SyncInv, cluster
    <2>2. FailedIsOver(store) /\ Superseded(store)
      BY DEF InTurn
    <2>3. FailedIsOver(wf)' /\ Superseded(wf)' /\ OneAhead'
      BY <2>1, <2>2 DEF FailedIsOver, Superseded, OneAhead, Over
    <2> QED
      BY <2>1, <2>3 DEF InTurn, FailedIsOver, Superseded, NoneAhead, Over
  <1>2. CASE ListPodsFails \/ NothingToPersist \/ SendCompletedPod \/ EndOperation \/ Crash
    <2>1. UNCHANGED <<store, pods>> /\ ~During'
      BY <1>2 DEF ListPodsFails, NothingToPersist, SendCompletedPod, EndOperation, Crash, Leave,
                  cluster, During
    <2> QED
      BY <2>1, TurnAtRest
  <1>3. CASE persistUpdates /\ ApplyPatch
    <2>1. /\ pc = "persist" /\ During /\ orig = store /\ ~During' /\ UNCHANGED pods
          /\ \A n \in Node : store'.nodes[n].phase = wf.nodes[n].phase
      BY <1>3, Patched DEF SuccessInv, persistUpdates, ToLabeling, Leave, During, cluster
    <2>2. \A n \in Node : store'.nodes[n].children = wf.nodes[n].children
      BY <1>3, <2>1, PatchOfLatest DEF ApplyPatch, SuccessInv, LabelInv, RetryInv, TypeInv, TypeOK
    <2>3. /\ FailedIsOver(wf) /\ Superseded(wf) /\ OneAhead /\ NoneAhead
          /\ \A p \in Attempt : pods[p].phase # "Unknown"
      BY <2>1 DEF InTurn
    <2>4. FailedIsOver(store)'
      BY <2>1, <2>3 DEF FailedIsOver, Over, Attempt, Pod, CanRetry, Completed, Successful
    <2>5. Superseded(store)'
      BY <2>1, <2>2, <2>3, AttemptsHere
      DEF Superseded, Retry, CanRetry, Completed, Successful
    <2>6. NoneAhead'
      <3> SUFFICES ASSUME NEW n \in Retry, NEW i \in DOMAIN Kids[n],
                          i > wf.nodes[n].children + 1
                   PROVE  pods[Kids[n][i]].phase = "Absent"
        BY <2>1, <2>2 DEF NoneAhead, Retry
      <3>1. /\ store.nodes[n].children \in Nat /\ wf.nodes[n].children \in Nat /\ i \in Nat
            /\ wf.nodes[n].children \in {store.nodes[n].children, store.nodes[n].children + 1}
        BY <2>3, ChildCount DEF OneAhead, SuccessInv, LabelInv, RetryInv
      <3>2. i > store.nodes[n].children + 1
        BY <3>1
      <3> QED
        BY <2>3, <3>2 DEF NoneAhead
    <2> QED
      BY <2>1, <2>3, <2>4, <2>5, <2>6 DEF InTurn
  <1>4. CASE persistUpdates /\ UNCHANGED store
    <2>1. UNCHANGED pods /\ ~During'
      BY <1>4 DEF persistUpdates, ToLabeling, Leave, cluster, During
    <2> QED
      BY <1>4, <2>1, TurnAtRest
  <1> QED
    BY <1>1, <1>2, <1>3, <1>4 DEF persistUpdates

(* What happens elsewhere brings no attempt back that is over. *)
LEMMA TurnAround ==
  ASSUME SuccessInv, InTurn, ~Spend("unreachable"),
         DrainItem \/ WatchEvent \/ Resync \/ processNextPodItem \/ podLabeler \/ Environment
         \/ UNCHANGED vars
  PROVE  InTurn'
  <1>1. /\ UNCHANGED <<store, operation>> /\ pods \in [Pod -> PodType]
        /\ completedCh \in Seq(Pod)
    BY DEF DrainItem, WatchEvent, Resync, processNextPodItem, podLabeler, vars, controller, Environment,
           PodRuns, DaemonReady, PodTerminates, PodUnreachable, PodReachable, PodDeleted, PodMoves,
           SuccessInv, LabelInv, RetryInv, TypeInv, TypeOK
  <1>2. \A p \in Pod : \/ pods'[p].phase \in {pods[p].phase, "Absent"}
                       \/ ~Over(p) /\ pods'[p].phase # "Unknown"
    <2>1. CASE DrainItem \/ WatchEvent \/ Resync \/ processNextPodItem \/ UNCHANGED vars
      BY <2>1 DEF DrainItem, WatchEvent, Resync, processNextPodItem, vars, cluster
    <2>2. CASE podLabeler
      <3>1. pods' = pods \/ \E q \in Pod : pods' = [pods EXCEPT ![q].labelled = TRUE]
        BY <1>1, <2>2 DEF podLabeler, AddPodLabel
      <3> QED
        BY <1>1, <3>1 DEF PodType
    <2>3. CASE Environment
      <3>1. PICK p \in Pod : \/ pods' = [pods EXCEPT ![p] = NoPod]
                             \/ \E to \in PodPhase \ {"Unknown"} :
                                  /\ pods' = [pods EXCEPT ![p].phase = to]
                                  /\ pods[p].phase \in {"Pending", "Running", "Ready", "Unknown"}
        BY <2>3 DEF Environment, PodRuns, DaemonReady, PodTerminates, PodUnreachable,
                    PodReachable, PodDeleted, PodMoves, PodPhase, PodTerminated
      <3> QED
        BY <1>1, <3>1 DEF PodType, NoPod, Over
    <2> QED
      BY <2>1, <2>2, <2>3
  <1>3. \A w : FailedIsOver(w) => \A p \in Attempt : CanRetry(w.nodes[p]) => Over(p)'
    BY <1>2 DEF FailedIsOver, Over, Attempt
  <1>4. FailedIsOver(store)' /\ (During => FailedIsOver(wf)')
    BY <1>1, <1>3 DEF InTurn, FailedIsOver, operation
  <1>5. \A p \in Attempt : pods'[p].phase # "Unknown"
    BY <1>2 DEF InTurn, Attempt
  <1>6. NoneAhead'
    BY <1>1, <1>2, AttemptsHere DEF InTurn, NoneAhead, Attempt, Over
  <1> QED
    BY <1>1, <1>4, <1>5, <1>6 DEF InTurn, Superseded, OneAhead, During, operation, LastChild

LEMMA TurnNext ==
  ASSUME InSync, SuccessInv, CopyMarked, InTurn, [Next]_vars,
         ~Spend("api"), ~Spend("lost"), ~Spend("unreachable")
  PROVE  InTurn'
  <1>1. CASE AttemptsAlone
    BY <1>1, TurnAlone
  <1>2. CASE ExecuteRetryTemplate
    BY <1>2, RetryChoice, TurnAlone, NewAttemptTurn
  <1> QED
    BY <1>1, <1>2, ScheduleAlone, GroupsAlone, ReturnsAlone, EndsAlone, TurnReconciliation, TurnBounds,
       TurnAround
    DEF Next, Worker

LEMMA TurnInit == Init => InTurn
  <1> SUFFICES ASSUME Init PROVE InTurn
    OBVIOUS
  <1>1. /\ ~During /\ \A p \in Pod : pods[p].phase = "Absent"
        /\ \A n \in Node : store.nodes[n].children = 0 /\ ~CanRetry(store.nodes[n])
    BY DEF Init, During, NoPod, NewWorkflow, NoStatus, CanRetry, Completed, Unset
  <1>2. \A n \in Retry : n \in Node /\ \A i \in DOMAIN Kids[n] : i \in Nat /\ i > 0
    BY TreeAssumption DEF Retry
  <1> QED
    BY <1>1, <1>2, AttemptsHere DEF InTurn, FailedIsOver, Superseded, NoneAhead, Attempt, Pod

TurnInv == CopyMarked /\ (Certain => InTurn)

LEMMA TurnInvariant == InSync => (Spec => []TurnInv)
  <1> SUFFICES ASSUME InSync PROVE Spec => []TurnInv
    OBVIOUS
  <1>1. ASSUME SuccessInv, TurnInv, [Next]_vars
        PROVE  CopyMarked' /\ (Certain => InTurn)'
    <2>1. TypeInv /\ TypeOK /\ BudgetInv /\ CursorInv /\ CopyMarked
      BY <1>1 DEF SuccessInv, LabelInv, RetryInv, TypeInv, TurnInv
    <2>2. CopyMarked'
      BY <1>1, <2>1, MarkedNext
    <2>3. ASSUME Certain' PROVE InTurn'
      <3>1. \A f \in {"api", "lost", "unreachable"} : budget[f] = Budget[f] /\ ~Spend(f)
        BY <1>1, <2>1, <2>3, NotSpent DEF Certain, Fault
      <3>2. InTurn
        BY <1>1, <3>1 DEF TurnInv, Certain
      <3> QED
        BY <1>1, <2>1, <3>1, <3>2, TurnNext
    <2> QED
      BY <2>2, <2>3
  <1>2. SuccessInv /\ TurnInv /\ [Next]_vars => TurnInv'
    BY <1>1 DEF TurnInv
  <1>3. Init => TurnInv
    BY HandoverInit, TurnInit DEF HandoverInv, TurnInv
  <1> QED
    BY <1>2, <1>3, SuccessInvariant, PTL DEF Spec

LEMMA OthersAreOver ==
  ASSUME SuccessInv, InTurn, [Next]_vars, NEW p \in Pod, PodCreated(p), IsAttempt(p),
         NEW q \in Attempts(Parent(p))
  PROVE  Over(q)
  <1> DEFINE c == wf.nodes[cur].children
             k == c + 1
  <1>1. ~IsAttempt(cur) /\ TypeInv /\ pods \in [Pod -> PodType]
    BY DEF SuccessInv, LabelInv, RetryInv, CursorInv, TypeInv, TypeOK
  <1>2. /\ cur \in Retry /\ ExecuteRetryTemplate /\ pc = "template"
        /\ \E i \in DOMAIN Kids[cur] : Kids[cur][i] = p
    BY <1>1, WhoCreates
  <1>3. ~AttemptsAlone
    BY DEF AttemptsAlone, PodCreated, Attempt
  <1>4. Due
    BY <1>2, <1>3, RetryChoice
  <1>5. /\ k \in DOMAIN Kids[cur] /\ p = Kids[cur][k]
        /\ c \in Nat /\ cur \in Node /\ \A i \in DOMAIN Kids[cur] : i \in Nat
    <2>1. k \in DOMAIN Kids[cur] /\ pods' \in {pods, Created(Kids[cur][k])}
      BY <1>4 DEF Due, NewAttempt, executeContainer
    <2> QED
      BY <1>1, <1>2, <2>1, ChildCount DEF PodCreated, Created
  <1>6. /\ c = store.nodes[cur].children
        /\ \A i \in DOMAIN Kids[cur] : i <= c => CanRetry(wf.nodes[Kids[cur][i]])
    BY <1>4, DueAttempt
  <1>7. PICK i \in DOMAIN Kids[cur] : q = Kids[cur][i]
    <2>1. Parent(p) = cur
      BY <1>5, ParentOfChild
    <2> QED
      BY <2>1 DEF Attempts, Recorded
  <1>8. q \in Attempt
    BY <1>2, <1>7, AttemptsHere
  <1>9. CASE i <= c
    BY <1>2, <1>6, <1>7, <1>8, <1>9 DEF InTurn, FailedIsOver, During
  <1>10. CASE i = k
    BY <1>5, <1>7, <1>10 DEF PodCreated, Over
  <1>11. CASE i > k
    BY <1>2, <1>6, <1>7, <1>11 DEF InTurn, NoneAhead, Over
  <1> QED
    BY <1>5, <1>9, <1>10, <1>11

(* A new attempt of a retried container is only started when every earlier *)
(* one has failed or is gone, by whichever operation and whatever was      *)
(* restarted, deleted or timed out in between, if every call is answered   *)
(* and the kubelet stays reachable (processNodeRetries).                   *)
THEOREM RetriesInOrder ==
  InSync /\ (\A f \in {"api", "lost", "unreachable"} : Budget[f] = 0) =>
    (Spec => RetriesSequential)
  <1> SUFFICES ASSUME InSync, \A f \in {"api", "lost", "unreachable"} : Budget[f] = 0
               PROVE  Spec => RetriesSequential
    OBVIOUS
  <1>1. SuccessInv => Certain
    BY DEF SuccessInv, LabelInv, RetryInv, TypeInv, TypeOK, BudgetInv, Certain, Fault
  <1>2. SuccessInv /\ TurnInv /\ [Next]_vars =>
          \A p \in Pod : PodCreated(p) /\ IsAttempt(p) =>
            \A q \in Attempts(Parent(p)) : pods[q].phase \in {"Absent", "Failed", "Errored"}
    BY <1>1, OthersAreOver DEF TurnInv, Over
  <1>3. Spec => []SuccessInv /\ []TurnInv
    BY SuccessInvariant, TurnInvariant
  <1> QED
    BY <1>2, <1>3, PTL DEF Spec, RetriesSequential
=============================================================================
