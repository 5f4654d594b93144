---------------------------- MODULE InSync_proofs ----------------------------
(* What holds when an operation starts from the last persisted version of  *)
(* the workflow.  The patch it sends then makes the persisted version      *)
(* equal to its copy, so whatever an operation keeps in its copy, the      *)
(* sequence of operations keeps in the API server.                         *)
EXTENDS AnyLag_proofs

-----------------------------------------------------------------------------
(* No pod is labelled before its node is persisted as completed.  An       *)
(* operation never takes the completion of a pod's node back: it marks a   *)
(* pod's node running only if the node does not exist yet, and the attempt *)
(* that a retry node starts next is one that nothing recorded before.      *)

During == pc \notin {"idle", "send"}

(* Every pod's node that is completed in v is completed in w. *)
Keeps(v, w) == \A p \in Pod : Completed(v.nodes[p]) => Completed(w.nodes[p])

(* The attempts that are not recorded as children do not exist. *)
NoneBeyond(w) ==
  \A n \in Retry : \A i \in DOMAIN Kids[n] :
    i > w.nodes[n].children => ~Exists(w.nodes[Kids[n][i]])

(* A change of an operation that starts no attempt. *)
Advances(v, w) ==
  /\ Keeps(v, w)
  /\ \A n \in Retry : w.nodes[n].children = v.nodes[n].children
  /\ \A c \in Node : IsAttempt(c) /\ ~Exists(v.nodes[c]) => ~Exists(w.nodes[c])

(* The cache is at most one version behind, and level with the API server  *)
(* while an operation has not persisted its changes.                       *)
SyncInv ==
  /\ watch \in {<<>>, <<store>>}
  /\ watch = <<>> => cache = store
  /\ During => watch = <<>> /\ orig = store

CopyInv ==
  /\ NoneBeyond(store)
  /\ During => /\ NoneBeyond(wf) /\ Keeps(store, wf)
               /\ \A p \in completedPods : Completed(wf.nodes[p])
  /\ pc = "send" => \A p \in completedPods : Completed(store.nodes[p])

LabelInv == RetryInv /\ SyncInv /\ CopyInv /\ LabelledAfterPersist

LEMMA AttemptOf ==
  ASSUME NEW n \in Retry, NEW i \in DOMAIN Kids[n]
  PROVE  Kids[n][i] \in Pod /\ IsAttempt(Kids[n][i])
  <1>1. n \in Node /\ Kind[n] = "retry"
    BY DEF Retry
  <1>2. Kids[n][i] \in Node /\ Parent(Kids[n][i]) = n /\ Kind[Kids[n][i]] \in KidKinds["retry"]
    BY <1>1, KidsAreNodes, ParentOfChild
  <1>3. Kids[n][i] \notin Top
    BY <1>1, <1>2, TreeAssumption DEF ParentOf
  <1> QED
    BY <1>1, <1>2, <1>3 DEF Pod, KidKinds, IsAttempt

LEMMA MarkAdvances ==
  ASSUME NEW w \in Workflow, NEW n \in Node, ~IsAttempt(n), NEW phase \in NodePhase,
         n \in Pod => phase # "Running" \/ ~Completed(w.nodes[n])
  PROVE  Advances(w, markNodePhase(w, n, phase))
  <1>1. /\ \A m \in Node : m # n => markNodePhase(w, n, phase).nodes[m] = w.nodes[m]
        /\ markNodePhase(w, n, phase).nodes[n].phase = phase
        /\ markNodePhase(w, n, phase).nodes[n].children = w.nodes[n].children
    BY DEF markNodePhase, Workflow, NodeStatusType
  <1>2. Keeps(w, markNodePhase(w, n, phase))
    <2> SUFFICES ASSUME NEW p \in Pod, Completed(w.nodes[p])
                 PROVE  Completed(markNodePhase(w, n, phase).nodes[p])
      BY DEF Keeps
    <2>1. CASE p # n
      BY <1>1, <2>1 DEF Pod
    <2>2. CASE p = n
      BY <1>1, <2>2 DEF Completed, NodePhase
    <2> QED
      BY <2>1, <2>2
  <1> QED
    BY <1>1, <1>2 DEF Advances, Retry

LEMMA AddChildAdvances ==
  ASSUME NEW w \in Workflow, NEW p \in Node, p \notin Retry, NEW c
  PROVE  Advances(w, addChildNode(w, p, c))
  <1>1. \A m \in Node : addChildNode(w, p, c).nodes[m].phase = w.nodes[m].phase
    BY DEF addChildNode, Workflow, NodeStatusType
  <1>2. \A m \in Retry : addChildNode(w, p, c).nodes[m] = w.nodes[m]
    BY DEF addChildNode, Workflow, NodeStatusType, Retry
  <1> QED
    BY <1>1, <1>2 DEF Advances, Keeps, Completed, Exists, Pod

LEMMA AdvancesTransitive ==
  ASSUME NEW u, NEW v, NEW w, Advances(u, v), Advances(v, w)
  PROVE  Advances(u, w)
  BY DEF Advances, Keeps

LEMMA Standing == \A w : Advances(w, w)
  BY DEF Advances, Keeps

LEMMA AdvancedBeyond ==
  ASSUME NEW v, NEW w, Advances(v, w), NoneBeyond(v)
  PROVE  NoneBeyond(w)
  BY AttemptOf DEF Advances, NoneBeyond, Pod

(* A step of the operation before it persists its changes. *)
LEMMA InsideStep ==
  ASSUME LabelInv, RetryInv', During, pc' # "send",
         UNCHANGED <<store, watch, cache, orig, completedCh, completedPods>>,
         Keeps(wf, wf'), NoneBeyond(wf'),
         \A p \in Pod : pods'[p].labelled => pods[p].labelled
  PROVE  LabelInv'
  <1>1. SyncInv'
    BY DEF LabelInv, SyncInv, During
  <1>2. completedPods \subseteq Pod
    BY DEF LabelInv, RetryInv, TypeInv, TypeOK
  <1>3. CopyInv'
    BY <1>2 DEF LabelInv, CopyInv, During, Keeps
  <1>4. LabelledAfterPersist'
    BY DEF LabelInv, LabelledAfterPersist, Handed
  <1> QED
    BY <1>1, <1>3, <1>4 DEF LabelInv

LEMMA AdvancingStep ==
  ASSUME LabelInv, RetryInv', During, pc' # "send",
         UNCHANGED <<store, watch, cache, orig, completedCh, completedPods>>,
         Advances(wf, wf'),
         \A p \in Pod : pods'[p].labelled => pods[p].labelled
  PROVE  LabelInv'
  <1>1. NoneBeyond(wf)
    BY DEF LabelInv, CopyInv
  <1> QED
    BY <1>1, AdvancedBeyond, InsideStep DEF Advances

LEMMA CreatedLabels ==
  ASSUME NEW p, NEW q \in Pod, Created(p)[q].labelled, TypeInv
  PROVE  pods[q].labelled
  BY DEF Created, NewPod, NoPod, TypeInv, TypeOK, PodType

(* The end of an operation, or a restart. *)
LEMMA DroppedStep ==
  ASSUME LabelInv, RetryInv', Leave, SyncInv',
         UNCHANGED <<store, pods>>, \A p \in Pod : Handed(p)' => Handed(p)
  PROVE  LabelInv'
  <1>1. pc' = "idle"
    BY DEF Leave
  <1>2. CopyInv'
    BY <1>1 DEF LabelInv, CopyInv, During
  <1>3. LabelledAfterPersist'
    BY DEF LabelInv, LabelledAfterPersist
  <1> QED
    BY <1>2, <1>3 DEF LabelInv

LEMMA InitLabels == Init => LabelInv
  <1> SUFFICES ASSUME Init PROVE LabelInv
    OBVIOUS
  <1>1. NoneBeyond(store)
    <2>1. \A n \in Node : ~Exists(NewWorkflow.nodes[n])
      BY DEF NewWorkflow, NoStatus, Exists
    <2> QED
      BY <2>1, AttemptOf DEF Init, NoneBeyond, Pod
  <1>2. LabelledAfterPersist
    BY DEF Init, LabelledAfterPersist, Handed, NoPod
  <1> QED
    BY <1>1, <1>2, InitRetry DEF Init, LabelInv, SyncInv, CopyInv, During

LEMMA LabelStarts ==
  ASSUME InSync, LabelInv, RetryInv', DrainItem \/ StartOperation \/ ValidateOnce
  PROVE  LabelInv'
  <1>1. CASE DrainItem
    BY <1>1 DEF DrainItem, LabelInv, SyncInv, CopyInv, During, LabelledAfterPersist, Handed,
                cluster, operation
  <1>2. CASE StartOperation
    <2>1. /\ watch = <<>> /\ cache = store
          /\ wf' = store /\ orig' = store /\ completedPods' = {}
          /\ pc' \notin {"idle", "send"}
          /\ UNCHANGED <<store, watch, cache, pods, completedCh>>
      BY <1>2 DEF StartOperation, LabelInv, SyncInv, cluster
    <2> QED
      BY <2>1 DEF LabelInv, SyncInv, CopyInv, During, Keeps, LabelledAfterPersist, Handed
  <1>3. CASE ValidateOnce
    <2>1. /\ wf'.nodes = wf.nodes
          /\ UNCHANGED <<store, watch, cache, orig, pods, completedCh, completedPods>>
          /\ During /\ pc' # "send"
      BY <1>3 DEF ValidateOnce, markWorkflowPhase, cluster, controller, During, LabelInv,
                  RetryInv, TypeInv, TypeOK, Workflow
    <2>2. Advances(wf, wf')
      BY <2>1 DEF Advances, Keeps
    <2> QED
      BY <2>1, <2>2, AdvancingStep
  <1> QED
    BY <1>1, <1>2, <1>3

(* The pods to be labelled are chosen from the assessed nodes, and an      *)
(* assessment takes no completion back.                                    *)
LEMMA LabelReconciliation ==
  ASSUME LabelInv, RetryInv', podReconciliation
  PROVE  LabelInv'
  <1>1. /\ wf' = [wf EXCEPT !.nodes = Reconciled(@)] /\ pc' = "pvcs" /\ During
        /\ completedPods' \subseteq {p \in Pod : Completed(wf'.nodes[p])}
        /\ UNCHANGED <<store, watch, cache, orig, pods, completedCh>>
    BY DEF podReconciliation, cluster, controller, During
  <1>2. wf \in Workflow
    BY DEF LabelInv, RetryInv, TypeInv, TypeOK
  <1>3. wf'.nodes = Reconciled(wf.nodes)
    BY <1>1, <1>2 DEF Workflow
  <1>4. ASSUME NEW n \in Node
        PROVE  /\ Completed(wf.nodes[n]) => Completed(wf'.nodes[n])
               /\ ~Exists(wf.nodes[n]) => ~Exists(wf'.nodes[n])
               /\ wf'.nodes[n].children = wf.nodes[n].children
    <2>1. wf.nodes[n] \in NodeStatusType
      BY <1>2 DEF Workflow
    <2>2. CASE n \in Vanished(wf.nodes)
      BY <1>3, <2>1, <2>2 DEF Reconciled, Vanished, NodeStatusType
    <2>3. CASE n \notin Vanished(wf.nodes)
      <3>1. wf'.nodes[n] = Assessed(wf.nodes)[n]
        BY <1>3, <2>3 DEF Reconciled
      <3>2. CASE n \in Pod /\ Exists(wf.nodes[n])
        BY <2>1, <3>1, <3>2 DEF Assessed, assessNodeStatus, inferFailedReason, Completed,
                                NodeStatusType
      <3>3. CASE ~(n \in Pod /\ Exists(wf.nodes[n]))
        BY <3>1, <3>3 DEF Assessed
      <3> QED
        BY <3>2, <3>3
    <2> QED
      BY <2>2, <2>3
  <1>5. Advances(wf, wf')
    BY <1>4 DEF Advances, Keeps, Pod, Retry
  <1>6. NoneBeyond(wf') /\ Keeps(store, wf')
    <2>1. NoneBeyond(wf) /\ Keeps(store, wf)
      BY <1>1 DEF LabelInv, CopyInv
    <2> QED
      BY <1>5, <2>1, AdvancedBeyond DEF Advances, Keeps
  <1>7. SyncInv'
    BY <1>1 DEF LabelInv, SyncInv, During
  <1>8. CopyInv'
    BY <1>1, <1>6 DEF LabelInv, CopyInv, Keeps
  <1> QED
    BY <1>1, <1>7, <1>8 DEF LabelInv, LabelledAfterPersist, Handed

LEMMA LabelCreatePVCs ==
  ASSUME LabelInv, RetryInv', createPVCs
  PROVE  LabelInv'
  <1>1. /\ UNCHANGED <<store, watch, cache, orig, pods, completedCh, completedPods>>
        /\ During /\ pc' # "send"
    BY DEF createPVCs, EnterTemplate, controller, During
  <1>2. wf \in Workflow
    BY DEF LabelInv, RetryInv, TypeInv, TypeOK
  <1>3. Root \in Node /\ ~IsAttempt(Root)
    BY TreeAssumption DEF IsAttempt, Top
  <1>4. Advances(wf, markNodePhase(wf, Root, "Error"))
    BY <1>2, <1>3, MarkAdvances DEF NodePhase
  <1>5. wf'.nodes \in {wf.nodes, markNodePhase(wf, Root, "Error").nodes}
    BY <1>2 DEF createPVCs, markWorkflowPhase, markNodePhase, Workflow
  <1>6. Advances(wf, wf')
    BY <1>4, <1>5 DEF Advances, Keeps
  <1> QED
    BY <1>1, <1>6, AdvancingStep

LEMMA LabelPodTemplate ==
  ASSUME LabelInv, RetryInv', ExecutePodTemplate
  PROVE  LabelInv'
  <1>1. /\ UNCHANGED <<store, watch, cache, orig, completedCh, completedPods>>
        /\ During /\ pc' # "send"
    BY DEF ExecutePodTemplate, executeContainer, ReturnAtOnce, ReturnOrTimeout, Return,
           controller, During
  <1>2. wf \in Workflow /\ cur \in Node /\ ~IsAttempt(cur)
    BY DEF LabelInv, RetryInv, TypeInv, TypeOK, CursorInv
  <1>3. \/ wf' = wf
        \/ /\ ~Exists(wf.nodes[cur])
           /\ wf' \in {markNodePhase(wf, cur, "Running"), markNodePhase(wf, cur, "Error")}
    BY DEF ExecutePodTemplate, executeContainer, ReturnAtOnce
  <1>4. ~Exists(wf.nodes[cur]) => ~Completed(wf.nodes[cur])
    BY DEF Exists, Completed, Unset
  <1>5. Advances(wf, wf')
    BY <1>2, <1>3, <1>4, MarkAdvances, Standing DEF NodePhase
  <1>6. pods' = pods \/ pods' = Created(cur)
    BY DEF ExecutePodTemplate, executeContainer, ReturnAtOnce
  <1>7. \A p \in Pod : pods'[p].labelled => pods[p].labelled
    BY <1>6, CreatedLabels DEF LabelInv, RetryInv
  <1> QED
    BY <1>1, <1>5, <1>7, AdvancingStep

(* The one action that marks an attempt: the one after those recorded. *)
LEMMA LabelRetryTemplate ==
  ASSUME LabelInv, RetryInv', ExecuteRetryTemplate
  PROVE  LabelInv'
  <1>1. /\ UNCHANGED <<store, watch, cache, orig, completedCh, completedPods>>
        /\ During /\ pc' # "send"
    BY DEF ExecuteRetryTemplate, NewAttempt, executeContainer, ReturnAtOnce, ReturnOrTimeout,
           Return, controller, During
  <1>2. wf \in Workflow /\ cur \in Retry /\ cur \in Node /\ ~IsAttempt(cur) /\ cur \notin Pod
    BY DEF LabelInv, RetryInv, TypeInv, TypeOK, CursorInv, ExecuteRetryTemplate, Retry, Pod
  <1>3. CASE UNCHANGED pods /\ wf' \in {wf, markNodePhase(wf, cur, RetryVerdict(cur))}
    <2>1. RetryVerdict(cur) \in NodePhase
      BY DEF RetryVerdict, NodePhase
    <2>2. Advances(wf, wf')
      BY <1>2, <1>3, <2>1, MarkAdvances, Standing
    <2> QED
      BY <1>1, <1>3, <2>2, AdvancingStep
  <1>4. CASE NewAttempt(cur)
    <2> DEFINE k == wf.nodes[cur].children + 1
               v == markNodePhase(wf, cur, "Running")
               w == [v EXCEPT !.nodes[cur].children = k]
               a == Kids[cur][k]
    <2>1. k \in DOMAIN Kids[cur] /\ executeContainer(w, a)
      BY <1>4 DEF NewAttempt
    <2>2. a \in Pod /\ a \in Node /\ IsAttempt(a)
      BY <1>2, <2>1, AttemptOf DEF Pod
    <2>3. wf.nodes[cur].children \in Nat /\ k \in Nat /\ k > wf.nodes[cur].children
      BY <1>2 DEF Workflow, NodeStatusType
    <2>4. \A n \in Retry : \A i \in DOMAIN Kids[n] : Kids[n][i] = a => n = cur /\ i = k
      BY <1>2, <2>1, TreeAssumption DEF Retry
    <2>5. ~Exists(wf.nodes[a]) /\ NoneBeyond(wf)
      BY <1>1, <1>2, <2>1, <2>3 DEF LabelInv, CopyInv, NoneBeyond
    <2>6. wf' \in {markNodePhase(w, a, "Running"), markNodePhase(w, a, "Error")}
      BY <2>1 DEF executeContainer
    <2>7. pods' = pods \/ pods' = Created(a)
      BY <2>1 DEF executeContainer
    <2> HIDE DEF k, a
    <2>8. v \in Workflow /\ \A n \in Node : n # cur => v.nodes[n] = wf.nodes[n]
      <3>1. v \in Workflow
        BY <1>2, MarkNodeType DEF NodePhase
      <3>2. \A n \in Node : n # cur => v.nodes[n] = wf.nodes[n]
        BY <1>2 DEF markNodePhase, Workflow
      <3> QED
        BY <3>1, <3>2
    <2> HIDE DEF v
    <2>9. /\ w \in Workflow /\ w.nodes[cur].children = k
          /\ \A n \in Node : n # cur => w.nodes[n] = wf.nodes[n]
      BY <1>2, <2>3, <2>8, SetChildren
    <2> HIDE DEF w
    <2>10. /\ \A n \in Node : n # a => wf'.nodes[n] = w.nodes[n]
           /\ wf'.nodes[a].children = w.nodes[a].children
      BY <2>2, <2>6, <2>9 DEF markNodePhase, Workflow, NodeStatusType
    <2>11. a # cur
      BY <1>2, <2>2
    <2>12. Keeps(wf, wf')
      BY <1>2, <2>5, <2>9, <2>10 DEF Keeps, Pod, Completed, Exists, Unset
    <2>13. NoneBeyond(wf')
      <3> SUFFICES ASSUME NEW n \in Retry, NEW i \in DOMAIN Kids[n],
                          i > wf'.nodes[n].children
                   PROVE  ~Exists(wf'.nodes[Kids[n][i]])
        BY DEF NoneBeyond
      <3>1. Kids[n][i] \in Pod /\ Kids[n][i] \in Node /\ n \in Node /\ n \notin Pod
        BY AttemptOf DEF Pod, Retry
      <3>2. wf'.nodes[n] = w.nodes[n]
        BY <2>2, <2>10, <3>1
      <3>3. i \in Nat /\ wf.nodes[n].children \in Nat
        BY <1>2, <3>1, TreeAssumption DEF Workflow, NodeStatusType
      <3>4. i > wf.nodes[n].children /\ (n = cur => i > k)
        <4>1. CASE n = cur
          BY <2>3, <2>9, <3>2, <3>3, <4>1
        <4>2. CASE n # cur
          BY <2>9, <3>1, <3>2, <4>2
        <4> QED
          BY <4>1, <4>2
      <3>5. Kids[n][i] # a
        BY <2>3, <2>4, <3>3, <3>4
      <3>6. wf'.nodes[Kids[n][i]] = wf.nodes[Kids[n][i]]
        BY <1>2, <2>9, <2>10, <3>1, <3>5
      <3> QED
        BY <2>5, <3>4, <3>6 DEF NoneBeyond
    <2>14. \A p \in Pod : pods'[p].labelled => pods[p].labelled
      BY <2>7, CreatedLabels DEF LabelInv, RetryInv
    <2> QED
      BY <1>1, <2>12, <2>13, <2>14, InsideStep
  <1> QED
    BY <1>3, <1>4 DEF ExecuteRetryTemplate, ReturnAtOnce

LEMMA LabelSteps ==
  ASSUME LabelInv, RetryInv', ExecuteStepsTemplate \/ executeStepGroup \/ LaunchStep
  PROVE  LabelInv'
  <1> DEFINE w == addChildNode(wf, Parent(cur), cur)
  <1>1. wf \in Workflow /\ cur \in Node /\ ~IsAttempt(cur)
    BY DEF LabelInv, RetryInv, TypeInv, TypeOK, CursorInv
  <1>2. /\ UNCHANGED <<store, watch, cache, orig, completedCh, completedPods, pods>>
        /\ During /\ pc' # "send"
    BY DEF ExecuteStepsTemplate, executeStepGroup, LaunchStep, ReturnAtOnce, Return,
           controller, cluster, During
  <1>3. CASE ExecuteStepsTemplate
    <2>1. Kind[cur] = "steps" /\ wf' \in {wf, markNodePhase(wf, cur, "Running")}
      BY <1>3 DEF ExecuteStepsTemplate, ReturnAtOnce
    <2>2. Advances(wf, wf')
      BY <1>1, <2>1, MarkAdvances, Standing DEF NodePhase, Pod
    <2> QED
      BY <1>2, <2>2, AdvancingStep
  <1>4. CASE executeStepGroup \/ LaunchStep
    <2>1. cur \notin Top /\ Kind[Parent(cur)] \in {"steps", "group"}
      BY <1>4 DEF LabelInv, RetryInv, TypeInv, CursorHasParent, CursorInv,
                  executeStepGroup, LaunchStep
    <2>2. Parent(cur) \in Node /\ Parent(cur) \notin Retry
      BY <1>1, <2>1, ParentExists DEF Retry
    <2>3. Advances(wf, w)
      BY <1>1, <2>2, AddChildAdvances
    <2>4. w \in Workflow
      BY <1>1, <2>1, AddChildType, ParentExists
    <2>5. CASE executeStepGroup
      <3>1. Kind[cur] = "group"
        <4>1. Kind[Parent(cur)] = "steps"
          BY <2>5 DEF LabelInv, RetryInv, CursorInv, executeStepGroup
        <4>2. PICK i \in DOMAIN Kids[Parent(cur)] : Kids[Parent(cur)][i] = cur
          BY <1>1, <2>1, ParentExists DEF ParentOf
        <4>3. Kind[cur] \in KidKinds["steps"]
          BY <2>2, <4>1, <4>2, ParentOfChild
        <4> QED
          BY <4>3 DEF KidKinds
      <3>2. wf' \in {w, markNodePhase(w, cur, "Error"), markNodePhase(w, cur, "Succeeded"),
                     markNodePhase(w, cur, "Running")}
        BY <2>5 DEF executeStepGroup
      <3> HIDE DEF w
      <3>3. Advances(w, wf')
        BY <1>1, <2>4, <3>1, <3>2, MarkAdvances, Standing DEF NodePhase, Pod
      <3> QED
        BY <1>2, <2>3, <3>3, AdvancesTransitive, AdvancingStep
    <2>6. CASE LaunchStep
      <3>1. wf' \in {w, markNodePhase(w, cur, "Skipped"), markNodePhase(w, cur, "Error")}
        BY <2>6 DEF LaunchStep
      <3> HIDE DEF w
      <3>2. Advances(w, wf')
        BY <1>1, <2>4, <3>1, MarkAdvances, Standing DEF NodePhase
      <3> QED
        BY <1>2, <2>3, <3>2, AdvancesTransitive, AdvancingStep
    <2> QED
      BY <1>4, <2>5, <2>6
  <1> QED
    BY <1>3, <1>4

(* Back in the caller, which is never a pod. *)
LEMMA LabelReturns ==
  ASSUME LabelInv, RetryInv', StepReturns \/ GroupReturns
  PROVE  LabelInv'
  <1> DEFINE s == Parent(cur)
             v == markNodePhase(wf, cur, "Error")
  <1>1. /\ wf \in Workflow /\ cur \in Node /\ cur \notin Top /\ ~IsAttempt(cur)
        /\ Kind[s] \in {"steps", "group"}
    BY DEF LabelInv, RetryInv, TypeInv, TypeOK, CursorInv, StepReturns, GroupReturns, Returns
  <1>2. /\ UNCHANGED <<store, watch, cache, orig, completedCh, completedPods, pods>>
        /\ During /\ pc' # "send"
    BY DEF StepReturns, GroupReturns, Returns, controller, cluster, During
  <1>3. s \in Node /\ s \notin Pod /\ ~IsAttempt(s)
    BY <1>1, ParentExists, AttemptsArePods DEF Pod
  <1>4. v \in Workflow /\ Advances(wf, v)
    BY <1>1, MarkNodeType, MarkAdvances DEF NodePhase
  <1>5. GroupVerdict(s) \in {wf.nodes[s].phase, "Failed", "Succeeded"}
    BY DEF GroupVerdict
  <1>6. \/ wf' = wf
        \/ wf' = markNodePhase(v, s, "Error")
        \/ wf' = markNodePhase(wf, s, GroupVerdict(s))
        \/ wf' \in {markNodePhase(wf, s, "Error"), markNodePhase(wf, s, "Failed"),
                    markNodePhase(wf, s, "Succeeded")}
    BY DEF StepReturns, GroupReturns
  <1> HIDE DEF v
  <1>7. Advances(wf, wf')
    <2>1. CASE wf' = wf
      BY <2>1, Standing
    <2>2. CASE wf' = markNodePhase(v, s, "Error")
      BY <1>3, <1>4, <2>2, MarkAdvances, AdvancesTransitive DEF NodePhase
    <2>3. ASSUME NEW phase \in NodePhase, wf' = markNodePhase(wf, s, phase)
          PROVE  Advances(wf, wf')
      BY <1>1, <1>3, <2>3, MarkAdvances
    <2>4. CASE wf' = markNodePhase(wf, s, wf.nodes[s].phase)
      BY <1>1, <2>4, <1>3 DEF markNodePhase, Advances, Keeps, Workflow, NodeStatusType, Pod,
                              Retry, Exists, Completed
    <2> QED
      BY <1>5, <1>6, <2>1, <2>2, <2>3, <2>4 DEF NodePhase
  <1> QED
    BY <1>2, <1>7, AdvancingStep

LEMMA LabelTails ==
  ASSUME LabelInv, RetryInv', killDeamonedChildren \/ TemplateReturns \/ FinishWorkflow
  PROVE  LabelInv'
  <1>1. /\ UNCHANGED <<store, watch, cache, orig, completedCh, completedPods>>
        /\ During /\ pc' # "send"
    BY DEF killDeamonedChildren, TemplateReturns, FinishWorkflow, EnterTemplate,
           ReturnOrTimeout, Return, controller, During
  <1>2. wf'.nodes = wf.nodes
    BY DEF killDeamonedChildren, TemplateReturns, FinishWorkflow, markWorkflowPhase,
           LabelInv, RetryInv, TypeInv, TypeOK, Workflow
  <1>3. Advances(wf, wf')
    BY <1>2 DEF Advances, Keeps
  <1>4. \A p \in Pod : pods'[p].labelled => pods[p].labelled
    <2>1. CASE killDeamonedChildren
      <3>1. pods \in [Pod -> PodType]
        BY DEF LabelInv, RetryInv, TypeInv, TypeOK
      <3>2. \A p \in Pod : pods'[p] = pods[p] \/ pods'[p] = [pods[p] EXCEPT !.killed = TRUE]
        BY <2>1 DEF killDeamonedChildren
      <3> QED
        BY <3>1, <3>2 DEF PodType
    <2>2. CASE TemplateReturns \/ FinishWorkflow
      BY <2>2 DEF TemplateReturns, FinishWorkflow, cluster
    <2> QED
      BY <2>1, <2>2
  <1> QED
    BY <1>1, <1>3, <1>4, AdvancingStep

(* The patch that an operation computes against the version it found, laid *)
(* over that same version, gives the operation's copy.                     *)
LEMMA PatchOfLatest ==
  ASSUME NEW o \in Workflow, NEW n \in Workflow, NEW x \in Node
  PROVE  /\ MergePatch(o, o, n).nodes[x].phase = n.nodes[x].phase
         /\ MergePatch(o, o, n).nodes[x].children = n.nodes[x].children
  BY DEF MergePatch, MergeNode, Merge

LEMMA LabelPersist ==
  ASSUME LabelInv, RetryInv', persistUpdates
  PROVE  LabelInv'
  <1>1. /\ pc = "persist" /\ During /\ UNCHANGED <<cache, pods, completedCh>>
        /\ watch = <<>> /\ orig = store /\ cache = store
    BY DEF persistUpdates, LabelInv, SyncInv, During, cluster
  <1>2. /\ wf \in Workflow /\ store \in Workflow /\ completedPods \subseteq Pod
        /\ watch \in Seq(Workflow)
    BY DEF LabelInv, RetryInv, TypeInv, TypeOK
  <1>3. /\ NoneBeyond(wf) /\ Keeps(store, wf)
        /\ \A p \in completedPods : Completed(wf.nodes[p])
    BY <1>1 DEF LabelInv, CopyInv
  <1>4. CASE ApplyPatch
    <2>1. store' = MergePatch(store, store, wf) /\ watch' = <<store'>>
      BY <1>1, <1>2, <1>4 DEF ApplyPatch
    <2>2. \A x \in Node : /\ store'.nodes[x].phase = wf.nodes[x].phase
                          /\ store'.nodes[x].children = wf.nodes[x].children
      BY <1>2, <2>1, PatchOfLatest
    <2>3. NoneBeyond(store')
      BY <1>3, <2>2, AttemptOf DEF NoneBeyond, Exists, Retry, Pod
    <2>4. \A p \in Pod : Completed(wf.nodes[p]) => Completed(store'.nodes[p])
      BY <2>2 DEF Completed, Pod
    <2>5. LabelledAfterPersist'
      BY <1>1, <1>3, <2>4 DEF LabelInv, LabelledAfterPersist, Handed, Keeps
    <2>6. pc' \in {"send", "idle"} /\ (pc' = "send" => completedPods' = completedPods)
      BY <1>4 DEF persistUpdates, ToLabeling, Leave
    <2>7. SyncInv'
      BY <2>1, <2>6 DEF SyncInv, During
    <2>8. CopyInv'
      BY <1>2, <1>3, <2>3, <2>4, <2>6 DEF CopyInv, During
    <2> QED
      BY <2>5, <2>7, <2>8 DEF LabelInv
  <1>5. CASE wf = orig /\ ToLabeling /\ UNCHANGED <<store, watch>>
    <2>1. pc' = "send" /\ completedPods' = completedPods
      BY <1>5 DEF ToLabeling
    <2>2. SyncInv'
      BY <1>1, <1>5, <2>1 DEF SyncInv, During
    <2>3. CopyInv'
      BY <1>1, <1>3, <1>5, <2>1 DEF LabelInv, CopyInv, During
    <2> QED
      BY <1>1, <1>5, <2>2, <2>3 DEF LabelInv, LabelledAfterPersist, Handed
  <1>6. CASE Leave /\ UNCHANGED <<store, watch>>
    <2>1. SyncInv'
      BY <1>1, <1>6 DEF SyncInv, During, Leave
    <2>2. \A p \in Pod : Handed(p)' => Handed(p)
      BY <1>1 DEF Handed
    <2> QED
      BY <1>1, <1>6, <2>1, <2>2, DroppedStep
  <1> QED
    BY <1>4, <1>5, <1>6 DEF persistUpdates

LEMMA LabelEnds ==
  ASSUME LabelInv, RetryInv',
         ListPodsFails \/ NothingToPersist \/ SendCompletedPod \/ EndOperation
  PROVE  LabelInv'
  <1>1. CASE SendCompletedPod
    <2>1. PICK q \in completedPods : completedCh' = Append(completedCh, q)
      BY <1>1 DEF SendCompletedPod
    <2>2. /\ pc = "send" /\ pc' = pc /\ completedPods' \subseteq completedPods
          /\ UNCHANGED <<store, watch, cache, pods, wf, orig>>
      BY <1>1 DEF SendCompletedPod, cluster
    <2>3. completedCh \in Seq(Pod) /\ q \in Pod
      BY <2>1 DEF LabelInv, RetryInv, TypeInv, TypeOK
    <2>4. \A p \in Pod : Handed(p)' => Handed(p) \/ p = q
      BY <2>1, <2>3 DEF Handed
    <2>5. Completed(store.nodes[q])
      BY <2>2, <2>1 DEF LabelInv, CopyInv
    <2>6. LabelledAfterPersist'
      BY <2>2, <2>4, <2>5 DEF LabelInv, LabelledAfterPersist
    <2> QED
      BY <2>2, <2>6 DEF LabelInv, SyncInv, CopyInv, During
  <1>2. CASE ListPodsFails \/ NothingToPersist \/ EndOperation
    <2>1. Leave /\ UNCHANGED <<store, watch, cache, pods, completedCh>>
      BY <1>2 DEF ListPodsFails, NothingToPersist, EndOperation, cluster, controller
    <2>2. SyncInv'
      BY <2>1 DEF LabelInv, SyncInv, During, Leave
    <2>3. \A p \in Pod : Handed(p)' => Handed(p)
      BY <2>1 DEF Handed
    <2> QED
      BY <2>1, <2>2, <2>3, DroppedStep
  <1> QED
    BY <1>1, <1>2

LEMMA LabelAround ==
  ASSUME LabelInv, RetryInv',
         WatchEvent \/ Resync \/ processNextPodItem \/ podLabeler \/ Crash
  PROVE  LabelInv'
  <1>1. CASE WatchEvent
    <2>1. watch = <<store>> /\ ~During
      BY <1>1 DEF WatchEvent, LabelInv, SyncInv
    <2>2. cache' = store /\ watch' = <<>> /\ UNCHANGED <<store, pods, completedCh, operation>>
      BY <1>1, <2>1 DEF WatchEvent, cluster
    <2> QED
      BY <2>1, <2>2 DEF LabelInv, SyncInv, CopyInv, During, LabelledAfterPersist, Handed, operation
  <1>2. CASE Resync \/ processNextPodItem
    BY <1>2 DEF Resync, processNextPodItem, LabelInv, SyncInv, CopyInv, During,
                LabelledAfterPersist, Handed, cluster, operation
  <1>3. CASE podLabeler
    <2>1. pods \in [Pod -> PodType] /\ completedCh \in Seq(Pod) /\ completedCh # <<>>
      BY <1>3 DEF podLabeler, AddPodLabel, LabelInv, RetryInv, TypeInv, TypeOK
    <2>3. \A p \in Pod : pods'[p].labelled => pods[p].labelled \/ p = Head(completedCh)
      BY <1>3, <2>1 DEF podLabeler, AddPodLabel, PodType
    <2>4. Handed(Head(completedCh))
      BY <2>1 DEF Handed
    <2>5. \A p \in Pod : Handed(p)' => Handed(p)
      BY <1>3, <2>1 DEF podLabeler, AddPodLabel, Handed
    <2>2. UNCHANGED <<store, watch, cache, operation>>
      BY <1>3 DEF podLabeler
    <2>6. LabelledAfterPersist'
      BY <2>2, <2>3, <2>4, <2>5 DEF LabelInv, LabelledAfterPersist
    <2> QED
      BY <2>2, <2>6 DEF LabelInv, SyncInv, CopyInv, During, operation
  <1>4. CASE Crash
    <2>1. /\ Leave /\ UNCHANGED <<store, pods>> /\ completedCh' = <<>>
          /\ cache' = store /\ watch' = <<>>
      BY <1>4 DEF Crash, cluster
    <2>2. SyncInv'
      BY <2>1 DEF SyncInv, During, Leave
    <2>3. \A p \in Pod : Handed(p)' => Handed(p)
      BY <2>1 DEF Handed
    <2> QED
      BY <2>1, <2>2, <2>3, DroppedStep
  <1> QED
    BY <1>1, <1>2, <1>3, <1>4

LEMMA LabelEnvironment ==
  ASSUME LabelInv, RetryInv', Environment
  PROVE  LabelInv'
  <1>1. UNCHANGED <<store, watch, cache, completedCh, operation>>
    BY DEF Environment, PodRuns, DaemonReady, PodTerminates, PodUnreachable, PodReachable,
           PodDeleted, PodMoves
  <1>2. \A q \in Pod : pods'[q].labelled => pods[q].labelled
    <2>1. pods \in [Pod -> PodType]
      BY DEF LabelInv, RetryInv, TypeInv, TypeOK
    <2>2. \E p \in Pod : \/ \E to : pods' = [pods EXCEPT ![p].phase = to]
                         \/ pods' = [pods EXCEPT ![p] = NoPod]
      BY DEF Environment, PodRuns, DaemonReady, PodTerminates, PodUnreachable, PodReachable,
             PodDeleted, PodMoves
    <2> QED
      BY <2>1, <2>2 DEF NoPod, PodType
  <1> QED
    BY <1>1, <1>2 DEF LabelInv, SyncInv, CopyInv, During, LabelledAfterPersist, Handed, operation

LEMMA LabelInvariant == InSync => (Spec => []LabelInv)
  <1> SUFFICES ASSUME InSync PROVE Spec => []LabelInv
    OBVIOUS
  <1>1. LabelInv /\ RetryInv' /\ [Next]_vars => LabelInv'
    <2> SUFFICES ASSUME LabelInv, RetryInv', [Next]_vars PROVE LabelInv'
      OBVIOUS
    <2>1. CASE Worker
      BY <2>1, LabelStarts, LabelReconciliation, LabelCreatePVCs, LabelPodTemplate,
         LabelRetryTemplate, LabelSteps, LabelReturns, LabelTails, LabelPersist, LabelEnds
      DEF Worker
    <2>2. CASE WatchEvent \/ Resync \/ processNextPodItem \/ podLabeler \/ Crash
      BY <2>2, LabelAround
    <2>3. CASE Environment
      BY <2>3, LabelEnvironment
    <2>4. CASE UNCHANGED vars
      BY <2>4 DEF LabelInv, SyncInv, CopyInv, During, LabelledAfterPersist, Handed, vars, cluster,
                  controller, operation
    <2> QED
      BY <2>1, <2>2, <2>3, <2>4 DEF Next
  <1> QED
    BY InitLabels, RetryInvariant, <1>1, PTL DEF Spec

(* A pod is labelled completed, or handed to the labeler, only when the    *)
(* API server already records its node as completed: no crash, lost answer *)
(* or failed patch puts the label before the result.                       *)
THEOREM LabelsComeLast == InSync => (Spec => []LabelledAfterPersist)
  <1> SUFFICES ASSUME InSync PROVE Spec => []LabelledAfterPersist
    OBVIOUS
  <1>1. LabelInv => LabelledAfterPersist
    BY DEF LabelInv
  <1>2. Spec => []LabelInv
    BY LabelInvariant
  <1> QED
    BY <1>1, <1>2, PTL

-----------------------------------------------------------------------------
(* A workflow that completes by the outcome of its nodes leaves no claim   *)
(* behind.  Claims are created before they are recorded and deleted before *)
(* the deletion is; what carries the argument is that an operation cannot  *)
(* get past createPVCs with a claim that its copy does not list, because a *)
(* claim left over from an operation that was cut short is an error there. *)

Executing == pc \in {"template", "group", "step", "return", "ended", "finish"}

(* w lists every claim, or its claims are yet to be created, or the        *)
(* workflow has ended because they could not be.                           *)
Accounted(w) ==
  \/ pvcs \subseteq w.vols
  \/ ~w.done /\ w.phase \in {Unset, "Running"} /\ w.slots # NumClaims
  \/ w.done /\ w.phase = "Error"

Released(w) == w.done /\ w.phase # "Error" => pvcs = {}

(* What has changed in the copy before createPVCs. *)
StartingInv ==
  pc \in {"first", "reconcile", "pvcs"} =>
    /\ ~wf.done /\ wf.slots = orig.slots /\ wf.vols = orig.vols
    /\ pc = "first" => wf.phase = Unset /\ orig.phase = Unset
    /\ pc # "first" => wf.phase # Unset /\ orig.phase \in {Unset, wf.phase}

ClaimInv ==
  /\ Accounted(store) /\ Released(store)
  /\ During => ~orig.done /\ Accounted(wf) /\ Released(wf)
  /\ StartingInv
  /\ Executing => ~wf.done /\ pvcs \subseteq wf.vols

SameClaims(v, w) ==
  w.phase = v.phase /\ w.done = v.done /\ w.slots = v.slots /\ w.vols = v.vols

LEMMA MarkSame ==
  ASSUME NEW w \in Workflow, NEW n, NEW phase
  PROVE  SameClaims(w, markNodePhase(w, n, phase))
  BY DEF SameClaims, markNodePhase, Workflow

LEMMA AddChildSame ==
  ASSUME NEW w \in Workflow, NEW p, NEW c
  PROVE  SameClaims(w, addChildNode(w, p, c))
  BY DEF SameClaims, addChildNode, Workflow

LEMMA SameTransitive ==
  ASSUME NEW u, NEW v, NEW w, SameClaims(u, v), SameClaims(v, w)
  PROVE  SameClaims(u, w)
  BY DEF SameClaims

(* A step of the execution that leaves the claims alone. *)
LEMMA ExecutionStep ==
  ASSUME ClaimInv, UNCHANGED <<store, pvcs, orig>>, SameClaims(wf, wf'),
         Executing, Executing' \/ pc' = "persist"
  PROVE  ClaimInv'
  <1>1. ~(pc' \in {"first", "reconcile", "pvcs"})
    BY DEF Executing
  <1>2. ~orig.done /\ ~wf.done /\ pvcs \subseteq wf.vols
    BY DEF ClaimInv, Executing, During
  <1> QED
    BY <1>1, <1>2 DEF ClaimInv, StartingInv, Accounted, Released, SameClaims

LEMMA IdleStep ==
  ASSUME ClaimInv, UNCHANGED <<store, pvcs>>, pc' \in {"idle", "send"}
  PROVE  ClaimInv'
  BY DEF ClaimInv, StartingInv, Accounted, Released, During, Executing

(* Everything that is not the operation's, or does not touch it. *)
LEMMA ElsewhereStep ==
  ASSUME ClaimInv, UNCHANGED <<store, pvcs, operation>>
  PROVE  ClaimInv'
  BY DEF ClaimInv, StartingInv, Accounted, Released, During, Executing, operation

LEMMA InitClaims == Init => ClaimInv
  BY DEF Init, ClaimInv, StartingInv, Accounted, Released, During, Executing, NewWorkflow

LEMMA ClaimStarts ==
  ASSUME InSync, LabelInv, ClaimInv, InvalidRunsNothing,
         DrainItem \/ StartOperation \/ ValidateOnce \/ podReconciliation \/ ListPodsFails
  PROVE  ClaimInv'
  <1>0. wf \in Workflow /\ store \in Workflow
    BY DEF LabelInv, RetryInv, TypeInv, TypeOK
  <1>1. CASE DrainItem
    BY <1>1, ElsewhereStep DEF DrainItem, cluster
  <1>2. CASE StartOperation
    <2>1. /\ cache = store /\ wf' = store /\ orig' = store /\ ~store.done
          /\ UNCHANGED <<store, pvcs>>
          /\ pc' = IF store.phase = Unset THEN "first" ELSE "reconcile"
      BY <1>2 DEF StartOperation, LabelInv, SyncInv, cluster
    <2> QED
      BY <2>1 DEF ClaimInv, StartingInv, Accounted, Released, During, Executing
  <1>3. CASE ValidateOnce
    <2>1. /\ pc = "first" /\ UNCHANGED <<store, pvcs, orig>>
          /\ ~wf.done /\ wf.slots = orig.slots /\ wf.vols = orig.vols /\ orig.phase = Unset
          /\ ~orig.done /\ Accounted(wf)
      BY <1>3 DEF ValidateOnce, ClaimInv, StartingInv, During, cluster
    <2>2. CASE ValidSpec
      <3>1. /\ pc' = "pvcs" /\ wf'.phase = "Running" /\ ~wf'.done
            /\ wf'.slots = wf.slots /\ wf'.vols = wf.vols
        BY <1>0, <1>3, <2>1, <2>2 DEF ValidateOnce, markWorkflowPhase, Workflow
      <3> QED
        BY <2>1, <3>1 DEF ClaimInv, StartingInv, Accounted, Released, During, Executing, Unset
    <2>3. CASE ~ValidSpec
      <3>1. pc' = "persist" /\ pvcs' = {}
        BY <1>3, <2>1, <2>3 DEF ValidateOnce, InvalidRunsNothing
      <3> QED
        BY <2>1, <3>1 DEF ClaimInv, StartingInv, Accounted, Released, During, Executing
    <2> QED
      BY <2>2, <2>3
  <1>4. CASE podReconciliation
    <2>1. /\ pc = "reconcile" /\ pc' = "pvcs" /\ UNCHANGED <<store, pvcs, orig>>
          /\ SameClaims(wf, wf')
      BY <1>0, <1>4 DEF podReconciliation, cluster, SameClaims, Workflow
    <2> QED
      BY <2>1 DEF ClaimInv, StartingInv, Accounted, Released, During, Executing, SameClaims
  <1>5. CASE ListPodsFails
    BY <1>5, IdleStep DEF ListPodsFails, Leave, cluster
  <1> QED
    BY <1>1, <1>2, <1>3, <1>4, <1>5

(* The copy lists every claim once createPVCs is passed. *)
LEMMA ClaimCreatePVCs ==
  ASSUME LabelInv, ClaimInv, createPVCs
  PROVE  ClaimInv'
  <1>1. wf \in Workflow /\ pvcs \subseteq Claim
    BY DEF LabelInv, RetryInv, TypeInv, TypeOK
  <1>2. /\ pc = "pvcs" /\ During /\ orig = store /\ ~wf.done /\ ~store.done
        /\ wf.slots = store.slots /\ wf.vols = store.vols
        /\ wf.phase # Unset /\ store.phase \in {Unset, wf.phase}
        /\ Accounted(wf)
    BY DEF createPVCs, ClaimInv, StartingInv, During, LabelInv, SyncInv
  <1>3. UNCHANGED <<store, orig>>
    BY DEF createPVCs
  <1>4. CASE NothingToCreate /\ EnterTemplate(Root) /\ UNCHANGED <<pvcs, wf>>
    <2>1. pvcs \subseteq wf.vols
      BY <1>2, <1>4 DEF NothingToCreate, Accounted
    <2>2. pc' = "template"
      BY <1>4 DEF EnterTemplate
    <2> QED
      BY <1>2, <1>3, <1>4, <2>1, <2>2
      DEF ClaimInv, StartingInv, Accounted, Released, During, Executing
  <1>5. CASE ~NothingToCreate
    <2>1. store.phase \in {Unset, "Running"} /\ store.slots # NumClaims
      BY <1>2, <1>5 DEF NothingToCreate
    <2>2. Accounted(store)' /\ Released(store)' /\ ~orig'.done
      BY <1>2, <1>3, <2>1 DEF Accounted, Released
    <2>3. CASE /\ pvcs' = Claim /\ EnterTemplate(Root)
               /\ wf' = [wf EXCEPT !.slots = NumClaims, !.vols = Claim]
      <3>1. wf'.vols = Claim /\ ~wf'.done
        BY <1>1, <1>2, <2>3 DEF Workflow
      <3>2. pc' = "template"
        BY <2>3 DEF EnterTemplate
      <3> QED
        BY <2>2, <2>3, <3>1, <3>2 DEF ClaimInv, StartingInv, Accounted, Released, During, Executing
    <2>4. CASE /\ pc' = "persist"
               /\ \E k \in Claim :
                    wf' = markWorkflowPhase(
                            markNodePhase([wf EXCEPT !.slots = NumClaims, !.vols = @ \cup 1..(k-1)],
                                          Root, "Error"),
                            "Error", TRUE)
      <3>1. wf'.done /\ wf'.phase = "Error"
        BY <1>1, <2>4 DEF markWorkflowPhase, markNodePhase, Workflow
      <3> QED
        BY <2>2, <2>4, <3>1 DEF ClaimInv, StartingInv, Accounted, Released, During, Executing
    <2> QED
      BY <1>5, <2>3, <2>4 DEF createPVCs
  <1> QED
    BY <1>4, <1>5 DEF createPVCs

(* The execution of a template only changes nodes. *)
LEMMA ExecutionSame ==
  ASSUME TypeInv,
         ExecutePodTemplate \/ ExecuteRetryTemplate \/ ExecuteStepsTemplate
         \/ executeStepGroup \/ LaunchStep \/ StepReturns \/ GroupReturns
         \/ killDeamonedChildren \/ TemplateReturns
  PROVE  SameClaims(wf, wf')
  <1>1. wf \in Workflow /\ SameClaims(wf, wf)
    BY DEF TypeInv, TypeOK, SameClaims
  <1>2. CASE ExecutePodTemplate
    <2>1. wf' = wf \/ \E phase : wf' = markNodePhase(wf, cur, phase)
      BY <1>2 DEF ExecutePodTemplate, executeContainer, ReturnAtOnce
    <2> QED
      BY <1>1, <2>1, MarkSame
  <1>3. CASE ExecuteRetryTemplate
    <2>1. CASE wf' = wf \/ \E phase : wf' = markNodePhase(wf, cur, phase)
      BY <1>1, <2>1, MarkSame
    <2>2. CASE NewAttempt(cur)
      <3> DEFINE k == wf.nodes[cur].children + 1
                 v == markNodePhase(wf, cur, "Running")
                 w == [v EXCEPT !.nodes[cur].children = k]
      <3>1. cur \in Node /\ k \in Nat
        BY <1>1, <1>3 DEF TypeInv, TypeOK, Workflow, NodeStatusType
      <3>2. v \in Workflow
        BY <1>1, <3>1, MarkNodeType DEF NodePhase
      <3>3. SameClaims(wf, v)
        BY <1>1, MarkSame
      <3>4. \E phase : wf' = markNodePhase(w, Kids[cur][k], phase)
        BY <2>2 DEF NewAttempt, executeContainer
      <3> HIDE DEF k, v
      <3>5. w \in Workflow
        BY <3>1, <3>2, SetChildren
      <3>6. SameClaims(v, w)
        BY <3>2 DEF SameClaims, Workflow
      <3> HIDE DEF w
      <3>7. SameClaims(w, wf')
        BY <3>4, <3>5, MarkSame
      <3> QED
        BY <3>3, <3>6, <3>7, SameTransitive
    <2> QED
      BY <1>3, <2>1, <2>2 DEF ExecuteRetryTemplate, ReturnAtOnce
  <1>4. CASE ExecuteStepsTemplate
    <2>1. wf' = wf \/ \E phase : wf' = markNodePhase(wf, cur, phase)
      BY <1>4 DEF ExecuteStepsTemplate, ReturnAtOnce
    <2> QED
      BY <1>1, <2>1, MarkSame
  <1>5. CASE executeStepGroup \/ LaunchStep
    <2> DEFINE w == addChildNode(wf, Parent(cur), cur)
    <2>1. cur \in Node /\ Parent(cur) \in Node
      BY <1>5, ParentExists DEF TypeInv, TypeOK, CursorHasParent,
                                executeStepGroup, LaunchStep
    <2>2. w \in Workflow /\ SameClaims(wf, w)
      BY <1>1, <2>1, <1>5, AddChildType, AddChildSame, ParentExists
      DEF TypeInv, CursorHasParent, executeStepGroup, LaunchStep
    <2>3. wf' = w \/ \E phase : wf' = markNodePhase(w, cur, phase)
      BY <1>5 DEF executeStepGroup, LaunchStep
    <2> HIDE DEF w
    <2>4. SameClaims(w, wf')
      BY <2>2, <2>3, MarkSame DEF SameClaims
    <2> QED
      BY <2>2, <2>4, SameTransitive
  <1>6. CASE StepReturns \/ GroupReturns
    <2> DEFINE v == markNodePhase(wf, cur, "Error")
               s == Parent(cur)
    <2>1. v \in Workflow /\ SameClaims(wf, v)
      BY <1>1, MarkNodeType, MarkSame DEF NodePhase, TypeInv, TypeOK
    <2>2. \/ wf' = wf \/ wf' = markNodePhase(v, s, "Error")
          \/ \E phase : wf' = markNodePhase(wf, s, phase)
      BY <1>6 DEF StepReturns, GroupReturns
    <2> HIDE DEF v, s
    <2>3. SameClaims(wf, wf')
      BY <1>1, <2>1, <2>2, MarkSame, SameTransitive
    <2> QED
      BY <2>3
  <1>7. CASE killDeamonedChildren \/ TemplateReturns
    <2>1. wf' = wf
      BY <1>7 DEF killDeamonedChildren, TemplateReturns
    <2> QED
      BY <1>1, <2>1
  <1> QED
    BY <1>2, <1>3, <1>4, <1>5, <1>6, <1>7

LEMMA ClaimExecution ==
  ASSUME LabelInv, ClaimInv,
         ExecutePodTemplate \/ ExecuteRetryTemplate \/ ExecuteStepsTemplate
         \/ executeStepGroup \/ LaunchStep \/ StepReturns \/ GroupReturns
         \/ killDeamonedChildren \/ TemplateReturns
  PROVE  ClaimInv'
  <1>1. SameClaims(wf, wf')
    BY ExecutionSame DEF LabelInv, RetryInv
  <1>2. /\ UNCHANGED <<store, pvcs, orig>>
        /\ Executing /\ (Executing' \/ pc' = "persist")
    BY DEF ExecutePodTemplate, ExecuteRetryTemplate, NewAttempt, ExecuteStepsTemplate,
           executeStepGroup, LaunchStep, StepReturns, GroupReturns, Returns,
           killDeamonedChildren, TemplateReturns, EnterTemplate, executeContainer,
           ReturnAtOnce, ReturnOrTimeout, Return, cluster, Executing
  <1> QED
    BY <1>1, <1>2, ExecutionStep

(* A claim that could not be deleted stays listed. *)
LEMMA ClaimFinish ==
  ASSUME LabelInv, ClaimInv, FinishWorkflow
  PROVE  ClaimInv'
  <1>1. wf \in Workflow
    BY DEF LabelInv, RetryInv, TypeInv, TypeOK
  <1>2. /\ During /\ ~orig.done /\ ~wf.done /\ pvcs \subseteq wf.vols
        /\ Accounted(store) /\ Released(store)
    BY DEF FinishWorkflow, ClaimInv, During, Executing
  <1>3. PICK failed \in SUBSET wf.vols :
          LET w == IF failed = wf.vols THEN wf
                   ELSE [wf EXCEPT !.vols = failed, !.slots = Cardinality(failed)]
          IN  /\ pvcs' = pvcs \ (wf.vols \ failed)
              /\ \/ failed = {} /\ wf' = markWorkflowPhase(w, FinalPhase(w), TRUE)
                 \/ wf' = markWorkflowPhase(w, "Error", FALSE)
    BY DEF FinishWorkflow
  <1>4. UNCHANGED <<store, orig>> /\ pc' = "persist"
    BY DEF FinishWorkflow
  <1>5. pvcs' \subseteq pvcs /\ pvcs' \subseteq failed
    BY <1>2, <1>3
  <1>6. wf'.vols = failed
    BY <1>1, <1>3 DEF markWorkflowPhase, Workflow
  <1>7. failed # {} => ~wf'.done
    BY <1>1, <1>2, <1>3 DEF markWorkflowPhase, Workflow
  <1>8. Accounted(wf)' /\ Released(wf)'
    <2>1. CASE failed = {}
      BY <1>5, <1>6, <2>1 DEF Accounted, Released
    <2>2. CASE failed # {}
      BY <1>5, <1>6, <1>7, <2>2 DEF Accounted, Released
    <2> QED
      BY <2>1, <2>2
  <1>9. Accounted(store)' /\ Released(store)'
    BY <1>2, <1>4, <1>5 DEF Accounted, Released
  <1> QED
    BY <1>2, <1>4, <1>8, <1>9 DEF ClaimInv, StartingInv, Executing

LEMMA ClaimPersist ==
  ASSUME LabelInv, ClaimInv, persistUpdates
  PROVE  ClaimInv'
  <1>1. /\ orig = store /\ UNCHANGED pvcs /\ pc' \in {"send", "idle"}
        /\ Accounted(wf) /\ Released(wf)
    BY DEF persistUpdates, LabelInv, SyncInv, During, cluster, ToLabeling, Leave, ClaimInv
  <1>2. CASE ApplyPatch
    <2>1. store' = MergePatch(store, store, wf)
      BY <1>1, <1>2 DEF ApplyPatch
    <2>2. SameClaims(wf, store')
      BY <2>1 DEF MergePatch, Merge, SameClaims
    <2> QED
      BY <1>1, <2>2 DEF ClaimInv, StartingInv, Accounted, Released, During, Executing, SameClaims
  <1>3. CASE UNCHANGED store
    BY <1>1, <1>3, IdleStep
  <1> QED
    BY <1>2, <1>3 DEF persistUpdates

LEMMA ClaimOthers ==
  ASSUME ClaimInv,
         NothingToPersist \/ SendCompletedPod \/ EndOperation \/ WatchEvent \/ Resync
         \/ processNextPodItem \/ podLabeler \/ Crash \/ Environment \/ UNCHANGED vars
  PROVE  ClaimInv'
  <1>1. CASE NothingToPersist \/ SendCompletedPod \/ EndOperation \/ Crash
    <2>1. UNCHANGED <<store, pvcs>> /\ pc' \in {"idle", "send"}
      BY <1>1 DEF NothingToPersist, SendCompletedPod, EndOperation, Crash, Leave, cluster
    <2> QED
      BY <2>1, IdleStep
  <1>2. CASE WatchEvent \/ Resync \/ processNextPodItem \/ podLabeler \/ UNCHANGED vars
    <2>1. UNCHANGED <<store, pvcs, operation>>
      BY <1>2 DEF WatchEvent, Resync, processNextPodItem, podLabeler, AddPodLabel, vars, cluster
    <2> QED
      BY <2>1, ElsewhereStep
  <1>3. CASE Environment
    <2>1. UNCHANGED <<store, pvcs, operation>>
      BY <1>3 DEF Environment, PodRuns, DaemonReady, PodTerminates, PodUnreachable,
                  PodReachable, PodDeleted, PodMoves
    <2> QED
      BY <2>1, ElsewhereStep
  <1> QED
    BY <1>1, <1>2, <1>3

LEMMA ClaimInvariant == InSync => (Spec => []ClaimInv)
  <1> SUFFICES ASSUME InSync PROVE Spec => []ClaimInv
    OBVIOUS
  <1>1. LabelInv /\ InvalidRunsNothing /\ ClaimInv /\ [Next]_vars => ClaimInv'
    <2> SUFFICES ASSUME LabelInv, InvalidRunsNothing, ClaimInv, [Next]_vars PROVE ClaimInv'
      OBVIOUS
    <2> QED
      BY ClaimStarts, ClaimCreatePVCs, ClaimExecution, ClaimFinish, ClaimPersist, ClaimOthers
      DEF Next, Worker
  <1>2. Spec => []LabelInv
    BY LabelInvariant
  <1> QED
    BY InitClaims, InvalidNeverRuns, <1>1, <1>2, PTL DEF Spec

(* A workflow that completes otherwise than in error leaves none of its    *)
(* volume claims behind, whatever crashes, failed deletions and lost       *)
(* answers come between their creation and the end.                        *)
THEOREM NoClaimLeft == InSync => (Spec => []ClaimsReleased)
  <1> SUFFICES ASSUME InSync PROVE Spec => []ClaimsReleased
    OBVIOUS
  <1>1. ClaimInv => ClaimsReleased
    BY DEF ClaimInv, Released, ClaimsReleased
  <1>2. Spec => []ClaimInv
    BY ClaimInvariant
  <1> QED
    BY <1>1, <1>2, PTL

-----------------------------------------------------------------------------
(* A workflow in the API server follows WorkflowLifecycle, when operations *)
(* start from the last persisted version.  As the patch then makes that    *)
(* version equal to the operation's copy, it has to be shown that an       *)
(* operation does to its copy what the life cycle allows.  Two things are  *)
(* not local to a step.  A node above the one being executed must not have *)
(* succeeded, as it is judged again on the way back: the invariant keeps   *)
(* the way from the top to the node being executed.  And the outcome of a  *)
(* succeeded node must not change with its pod: a pod that has succeeded   *)
(* stays so or is deleted, and is never created again.                     *)

Walking == pc \in {"template", "group", "step", "return", "ended"}

IsStep(n) == n \notin Top /\ Kind[Parent(n)] = "group"

RunStep(n) == IsStep(n) => When[n] = "run"

-----------------------------------------------------------------------------
(* The way from a top node to node c. *)

Path(path, k, c) ==
  /\ k \in Nat \ {0} /\ path \in [1..k -> Node]
  /\ path[1] \in Top /\ path[k] = c
  /\ \A i \in 2..k : path[i] \notin Top /\ Parent(path[i]) = path[i-1]
  /\ \A i, j \in 1..k : path[i] = path[j] => i = j

(* The entrypoint has ended if the way is one into the exit handler; no    *)
(* node on the way has succeeded yet.                                      *)
OpenPath(w, path, k) ==
  /\ path[1] # Root => Completed(w.nodes[Root])
  /\ \A i \in 1..(k-1) : ~Successful(w.nodes[path[i]]) /\ RunStep(path[i])

Open(w, c) ==
  \E k \in Nat : \E path \in [1..k -> Node] : Path(path, k, c) /\ OpenPath(w, path, k)

LEMMA OpenTop ==
  ASSUME NEW w, NEW c \in Node, c \in Top, c # Root => Completed(w.nodes[Root])
  PROVE  Open(w, c)
  <1> DEFINE path == [i \in 1..1 |-> c]
  <1>1. path \in [1..1 -> Node] /\ path[1] = c
    OBVIOUS
  <1>2. Path(path, 1, c)
    BY DEF Path
  <1>3. OpenPath(w, path, 1)
    BY DEF OpenPath
  <1> QED
    BY <1>1, <1>2, <1>3 DEF Open

LEMMA TopOpen ==
  ASSUME NEW w, NEW c \in Top, Open(w, c), c # Root
  PROVE  Completed(w.nodes[Root])
  <1>1. PICK k \in Nat : \E path \in [1..k -> Node] : Path(path, k, c) /\ OpenPath(w, path, k)
    BY DEF Open
  <1>2. PICK path \in [1..k -> Node] : Path(path, k, c) /\ OpenPath(w, path, k)
    BY <1>1
  <1>3. k \in Nat \ {0} /\ (k >= 2 => path[k] \notin Top) /\ path[k] = c
    BY <1>2 DEF Path
  <1>4. k = 1
    BY <1>3
  <1> QED
    BY <1>2, <1>3, <1>4 DEF OpenPath

(* No node on the way lies below the last one. *)
LEMMA OpenDown ==
  ASSUME NEW w, NEW c \in Node, NEW d \in Node, Open(w, c), d \notin Top, Parent(d) = c,
         ~Successful(w.nodes[c]), RunStep(c)
  PROVE  Open(w, d)
  <1>1. PICK k \in Nat : \E path \in [1..k -> Node] : Path(path, k, c) /\ OpenPath(w, path, k)
    BY DEF Open
  <1>2. PICK path \in [1..k -> Node] : Path(path, k, c) /\ OpenPath(w, path, k)
    BY <1>1
  <1>3. k \in Nat \ {0} /\ path[1] \in Top /\ path[k] = c
    BY <1>2 DEF Path
  <1>4. \A i \in 1..k : path[i] # d
    <2> SUFFICES ASSUME NEW i \in 1..k, path[i] = d PROVE FALSE
      OBVIOUS
    <2>1. i # 1
      BY <1>3
    <2>2. i \in 2..k /\ i - 1 \in 1..k /\ k \in 1..k
      BY <1>3, <2>1
    <2>3. path[i-1] = path[k]
      BY <1>2, <1>3, <2>2 DEF Path
    <2>4. i - 1 = k
      BY <1>2, <2>2, <2>3 DEF Path
    <2> QED
      BY <2>4
  <1> DEFINE long == [i \in 1..(k+1) |-> IF i = k + 1 THEN d ELSE path[i]]
  <1>5. long \in [1..(k+1) -> Node] /\ long[k+1] = d /\ (\A i \in 1..k : long[i] = path[i])
    BY <1>3
  <1> HIDE DEF long
  <1>6. Path(long, k+1, d)
    <2>1. long[1] \in Top
      BY <1>3, <1>5
    <2>2. \A i \in 2..(k+1) : long[i] \notin Top /\ Parent(long[i]) = long[i-1]
      <3> SUFFICES ASSUME NEW i \in 2..(k+1)
                   PROVE  long[i] \notin Top /\ Parent(long[i]) = long[i-1]
        OBVIOUS
      <3>1. CASE i = k + 1
        BY <1>3, <1>5, <3>1
      <3>2. CASE i \in 2..k
        <4>1. i \in 1..k /\ i - 1 \in 1..k
          BY <3>2
        <4> QED
          BY <1>2, <1>5, <3>2, <4>1 DEF Path
      <3> QED
        BY <3>1, <3>2
    <2>3. \A i, j \in 1..(k+1) : long[i] = long[j] => i = j
      <3> SUFFICES ASSUME NEW i \in 1..(k+1), NEW j \in 1..(k+1), long[i] = long[j]
                   PROVE  i = j
        OBVIOUS
      <3>1. (i \in 1..k \/ i = k + 1) /\ (j \in 1..k \/ j = k + 1)
        OBVIOUS
      <3>2. CASE i \in 1..k /\ j \in 1..k
        BY <1>2, <1>5, <3>2 DEF Path
      <3> QED
        BY <1>4, <1>5, <3>1, <3>2
    <2> QED
      BY <1>3, <1>5, <2>1, <2>2, <2>3 DEF Path
  <1>7. OpenPath(w, long, k+1)
    <2>1. long[1] = path[1]
      BY <1>3, <1>5
    <2>2. \A i \in 1..k : ~Successful(w.nodes[long[i]]) /\ RunStep(long[i])
      <3> SUFFICES ASSUME NEW i \in 1..k
                   PROVE  ~Successful(w.nodes[path[i]]) /\ RunStep(path[i])
        BY <1>5
      <3>1. i = k \/ i \in 1..(k-1)
        OBVIOUS
      <3> QED
        BY <1>2, <1>3, <3>1 DEF OpenPath
    <2>3. (k + 1) - 1 = k
      OBVIOUS
    <2> QED
      BY <1>2, <2>1, <2>2, <2>3 DEF OpenPath
  <1> QED
    BY <1>5, <1>6, <1>7 DEF Open

LEMMA OpenUp ==
  ASSUME NEW w, NEW c \in Node, Open(w, c), c \notin Top
  PROVE  /\ Open(w, Parent(c)) /\ Parent(c) \in Node
         /\ ~Successful(w.nodes[Parent(c)]) /\ RunStep(Parent(c))
  <1>1. PICK k \in Nat : \E path \in [1..k -> Node] : Path(path, k, c) /\ OpenPath(w, path, k)
    BY DEF Open
  <1>2. PICK path \in [1..k -> Node] : Path(path, k, c) /\ OpenPath(w, path, k)
    BY <1>1
  <1>3. k \in Nat \ {0} /\ path[1] \in Top /\ path[k] = c
    BY <1>2 DEF Path
  <1>4. k >= 2 /\ k - 1 \in Nat \ {0} /\ k - 1 \in 1..k
    BY <1>3
  <1>5. Parent(c) = path[k-1]
    BY <1>2, <1>3, <1>4 DEF Path
  <1> DEFINE short == [i \in 1..(k-1) |-> path[i]]
  <1>6. short \in [1..(k-1) -> Node] /\ \A i \in 1..(k-1) : i \in 1..k /\ short[i] = path[i]
    BY <1>4
  <1> HIDE DEF short
  <1>7. Path(short, k-1, Parent(c))
    <2>1. short[1] \in Top /\ short[k-1] = Parent(c)
      BY <1>3, <1>4, <1>5, <1>6
    <2>2. \A i \in 2..(k-1) : short[i] \notin Top /\ Parent(short[i]) = short[i-1]
      <3> SUFFICES ASSUME NEW i \in 2..(k-1)
                   PROVE  short[i] \notin Top /\ Parent(short[i]) = short[i-1]
        OBVIOUS
      <3>1. i \in 2..k /\ i \in 1..(k-1) /\ i - 1 \in 1..(k-1)
        BY <1>4
      <3> QED
        BY <1>2, <1>6, <3>1 DEF Path
    <2>3. \A i, j \in 1..(k-1) : short[i] = short[j] => i = j
      BY <1>2, <1>6 DEF Path
    <2> QED
      BY <1>4, <1>6, <2>1, <2>2, <2>3 DEF Path
  <1>8. OpenPath(w, short, k-1)
    <2>1. short[1] = path[1]
      BY <1>4, <1>6
    <2>2. \A i \in 1..((k-1)-1) : i \in 1..(k-1)
      BY <1>4
    <2> QED
      BY <1>2, <1>6, <2>1, <2>2 DEF OpenPath
  <1>9. ~Successful(w.nodes[path[k-1]]) /\ RunStep(path[k-1])
    <2>1. k - 1 \in 1..(k-1)
      BY <1>4
    <2> QED
      BY <1>2, <2>1 DEF OpenPath
  <1> QED
    BY <1>4, <1>5, <1>6, <1>7, <1>8, <1>9 DEF Open

LEMMA OpenSideways ==
  ASSUME NEW w, NEW c \in Node, NEW d \in Node, Open(w, c), c \notin Top, d \notin Top,
         Parent(d) = Parent(c)
  PROVE  Open(w, d)
  BY OpenUp, OpenDown

(* Only nodes that the way does not lead through have succeeded. *)
LEMMA OpenKept ==
  ASSUME NEW v, NEW w, NEW c \in Node, Open(v, c),
         Completed(v.nodes[Root]) => Completed(w.nodes[Root]),
         \A n \in Node : Successful(w.nodes[n]) /\ ~Successful(v.nodes[n]) =>
                           n = c \/ (n \notin Top /\ Parent(n) = c)
  PROVE  Open(w, c)
  <1>1. PICK k \in Nat : \E path \in [1..k -> Node] : Path(path, k, c) /\ OpenPath(v, path, k)
    BY DEF Open
  <1>2. PICK path \in [1..k -> Node] : Path(path, k, c) /\ OpenPath(v, path, k)
    BY <1>1
  <1>3. k \in Nat \ {0} /\ path[1] \in Top /\ path[k] = c /\ k \in 1..k
    BY <1>2 DEF Path
  <1>4. ASSUME NEW i \in 1..(k-1)
        PROVE  ~Successful(w.nodes[path[i]]) /\ RunStep(path[i])
    <2>1. i \in 1..k /\ i # k /\ ~Successful(v.nodes[path[i]]) /\ RunStep(path[i])
      BY <1>2, <1>3 DEF OpenPath
    <2>2. path[i] # c
      BY <1>2, <1>3, <2>1 DEF Path
    <2>3. ~(path[i] \notin Top /\ Parent(path[i]) = c)
      <3> SUFFICES ASSUME path[i] \notin Top, Parent(path[i]) = c PROVE FALSE
        OBVIOUS
      <3>1. i # 1
        BY <1>3
      <3>2. i \in 2..k /\ i - 1 \in 1..k
        BY <2>1, <3>1
      <3>3. path[i-1] = path[k]
        BY <1>2, <1>3, <3>2 DEF Path
      <3>4. i - 1 = k
        BY <1>2, <1>3, <3>2, <3>3 DEF Path
      <3> QED
        BY <3>4
    <2> QED
      BY <2>1, <2>2, <2>3
  <1>5. OpenPath(w, path, k)
    BY <1>2, <1>4 DEF OpenPath
  <1> QED
    BY <1>2, <1>5 DEF Open

-----------------------------------------------------------------------------
(* Changes of nodes. *)

Onward(a, b) ==
  /\ Exists(a) => Exists(b)
  /\ Completed(a) => Completed(b)
  /\ Successful(a) => b.phase = a.phase

(* While templates are executed no pod's node succeeds, and a step that is *)
(* not to run is only skipped or an error.                                 *)
Walks(v, w) ==
  /\ \A n \in Node : Onward(v.nodes[n], w.nodes[n])
  /\ \A p \in Pod : Successful(w.nodes[p]) /\ ~Successful(v.nodes[p]) =>
                      w.nodes[p].phase = "Skipped" /\ ~RunStep(p)
  /\ \A n \in Node : ~RunStep(n) =>
       \/ w.nodes[n].phase = v.nodes[n].phase
       \/ w.nodes[n].phase = "Error"
       \/ When[n] = "skip" /\ w.nodes[n].phase = "Skipped"

LEMMA SamePhases ==
  ASSUME NEW v, NEW w, \A n \in Node : w.nodes[n].phase = v.nodes[n].phase
  PROVE  /\ Walks(v, w)
         /\ \A c \in Node : Open(v, c) => Open(w, c)
  <1>1. \A n \in Node : /\ Exists(w.nodes[n]) <=> Exists(v.nodes[n])
                        /\ Completed(w.nodes[n]) <=> Completed(v.nodes[n])
                        /\ Successful(w.nodes[n]) <=> Successful(v.nodes[n])
    BY DEF Exists, Completed, Successful
  <1>2. Root \in Node
    BY TreeAssumption
  <1> QED
    BY <1>1, <1>2, OpenKept DEF Walks, Onward, Pod

LEMMA WalksTransitive ==
  ASSUME NEW u, NEW v, NEW w, Walks(u, v), Walks(v, w)
  PROVE  Walks(u, w)
  <1>1. \A n \in Node : Onward(u.nodes[n], w.nodes[n])
    BY DEF Walks, Onward, Successful
  <1>2. ASSUME NEW p \in Pod, Successful(w.nodes[p]), ~Successful(u.nodes[p])
        PROVE  w.nodes[p].phase = "Skipped" /\ ~RunStep(p)
    <2>1. p \in Node
      BY DEF Pod
    <2> QED
      BY <1>2, <2>1 DEF Walks, Onward
  <1>3. ASSUME NEW n \in Node, ~RunStep(n)
        PROVE  \/ w.nodes[n].phase = u.nodes[n].phase
               \/ w.nodes[n].phase = "Error"
               \/ When[n] = "skip" /\ w.nodes[n].phase = "Skipped"
    BY <1>3 DEF Walks
  <1> QED
    BY <1>1, <1>2, <1>3 DEF Walks

LEMMA AddChildPhases ==
  ASSUME NEW w \in Workflow, NEW p, NEW c, NEW n \in Node
  PROVE  addChildNode(w, p, c).nodes[n].phase = w.nodes[n].phase
  BY DEF addChildNode, Workflow, NodeStatusType

LEMMA MarkPhases ==
  ASSUME NEW w \in Workflow, NEW n \in Node, NEW phase
  PROVE  /\ markNodePhase(w, n, phase).nodes[n].phase = phase
         /\ \A m \in Node : m # n => markNodePhase(w, n, phase).nodes[m] = w.nodes[m]
  BY DEF markNodePhase, Workflow, NodeStatusType

(* A node that has not completed is marked, or one that has failed is      *)
(* marked again as not running.                                            *)
LEMMA MarkWalks ==
  ASSUME NEW w \in Workflow, NEW n \in Node, NEW phase \in NodePhase,
         ~Successful(w.nodes[n]) \/ phase = w.nodes[n].phase,
         ~Completed(w.nodes[n]) \/ phase # "Running",
         n \in Pod => phase # "Succeeded" /\ (phase = "Skipped" => ~RunStep(n)),
         ~RunStep(n) => phase = "Error" \/ (When[n] = "skip" /\ phase = "Skipped")
  PROVE  Walks(w, markNodePhase(w, n, phase))
  <1> DEFINE m == markNodePhase(w, n, phase)
  <1>1. m.nodes[n].phase = phase /\ \A x \in Node : x # n => m.nodes[x] = w.nodes[x]
    BY MarkPhases
  <1> HIDE DEF m
  <1>2. Onward(w.nodes[n], m.nodes[n])
    BY <1>1 DEF Onward, Exists, Completed, Successful, NodePhase, Unset
  <1>3. \A x \in Node : Onward(w.nodes[x], m.nodes[x])
    <2>1. \A x : Onward(x, x)
      BY DEF Onward
    <2> QED
      BY <1>1, <1>2, <2>1
  <1>4. ASSUME NEW p \in Pod, Successful(m.nodes[p]), ~Successful(w.nodes[p])
        PROVE  m.nodes[p].phase = "Skipped" /\ ~RunStep(p)
    <2>1. p = n /\ p \in Pod
      BY <1>1, <1>4 DEF Pod
    <2> QED
      BY <1>1, <1>4, <2>1 DEF Successful
  <1>5. ASSUME NEW x \in Node, ~RunStep(x)
        PROVE  \/ m.nodes[x].phase = w.nodes[x].phase
               \/ m.nodes[x].phase = "Error"
               \/ When[x] = "skip" /\ m.nodes[x].phase = "Skipped"
    BY <1>1, <1>5
  <1>6. Walks(w, m)
    BY <1>3, <1>4, <1>5 DEF Walks
  <1> QED
    BY <1>6 DEF m

LEMMA MarkOpen ==
  ASSUME NEW w \in Workflow, NEW n \in Node, NEW phase, NEW c \in Node, Open(w, c),
         Completed(w.nodes[Root]) => Completed(markNodePhase(w, n, phase).nodes[Root]),
         n = c \/ (n \notin Top /\ Parent(n) = c) \/ phase \notin {"Succeeded", "Skipped"}
  PROVE  Open(markNodePhase(w, n, phase), c)
  <1> DEFINE m == markNodePhase(w, n, phase)
  <1>1. m.nodes[n].phase = phase /\ \A x \in Node : x # n => m.nodes[x] = w.nodes[x]
    BY MarkPhases
  <1>2. Completed(w.nodes[Root]) => Completed(m.nodes[Root])
    OBVIOUS
  <1> HIDE DEF m
  <1>3. \A x \in Node : Successful(m.nodes[x]) /\ ~Successful(w.nodes[x]) =>
                          x = c \/ (x \notin Top /\ Parent(x) = c)
    BY <1>1 DEF Successful
  <1>4. Open(m, c)
    BY <1>2, <1>3, OpenKept
  <1> QED
    BY <1>4 DEF m

LEMMA WalksRoot ==
  ASSUME NEW v, NEW w, Walks(v, w)
  PROVE  Completed(v.nodes[Root]) => Completed(w.nodes[Root])
  BY TreeAssumption DEF Walks, Onward

-----------------------------------------------------------------------------
(* The invariant. *)

NodesOnward(v, w) == \A n \in Node \ Daemon : Onward(v.nodes[n], w.nodes[n])

(* A step that is not to run has no other phase than the one for that. *)
Unrun(w) ==
  \A n \in Node : IsStep(n) =>
    /\ When[n] = "bad"  => w.nodes[n].phase \in {Unset, "Error"}
    /\ When[n] = "skip" => w.nodes[n].phase \in {Unset, "Skipped", "Error"}

(* The success of a node is that of its pod. *)
Backed(w) ==
  \A p \in Pod \ Daemon :
    /\ w.nodes[p].phase = "Succeeded" => pods[p].phase \in {"Succeeded", "Absent"}
    /\ w.nodes[p].phase = "Skipped" => pods[p].phase = "Absent"

PodsInv ==
  /\ \A p \in Pod : pods[p].phase = "Ready" => p \in Daemon
  /\ \A p \in Pod : ~RunStep(p) => pods[p].phase = "Absent"
  /\ Unrun(store) /\ Backed(store)
  /\ During => Unrun(wf) /\ Backed(wf) /\ NodesOnward(store, wf)

WalkInv ==
  /\ Walking => Open(wf, cur)
  /\ pc = "template" => RunStep(cur)
  /\ pc \in {"return", "ended"} /\ ret = "error" => ~Successful(wf.nodes[cur])
  /\ pc = "finish" => \A n \in Top : Completed(wf.nodes[n])

PhaseInv ==
  /\ store.phase = Unset => \A n \in Node : ~Exists(store.nodes[n])
  /\ store.phase = "Running" => store.slots = NumClaims
  /\ ~store.done => store.phase \in {Unset, "Running", "Error"}
  /\ pc = "first" => \A n \in Node : ~Exists(wf.nodes[n])
  /\ pc = "reconcile" /\ wf.phase = "Running" => wf.slots = NumClaims
  /\ pc = "pvcs" /\ wf.phase = "Running" =>
       wf.slots = NumClaims \/ ~Exists(wf.nodes[Root])
  /\ pc \in {"reconcile", "pvcs"} => wf.phase \in {"Running", "Error"}
  /\ Executing \/ pc = "persist" =>
       /\ wf.done => wf.phase \in {"Succeeded", "Failed", "Error"}
       /\ ~wf.done => wf.phase \in {"Running", "Error"}
       /\ ~wf.done /\ wf.phase = "Running" =>
            wf.slots = NumClaims /\ store.phase \in {Unset, "Running"}

LifeInv == PodsInv /\ WalkInv /\ PhaseInv

LEMMA OnwardTransitive ==
  ASSUME NEW u, NEW v, NEW w, NodesOnward(u, v), NodesOnward(v, w)
  PROVE  NodesOnward(u, w)
  BY DEF NodesOnward, Onward, Successful

LEMMA OnwardReflexive == \A w : NodesOnward(w, w)
  BY DEF NodesOnward, Onward

LEMMA InitLife == Init => LifeInv
  <1> SUFFICES ASSUME Init PROVE LifeInv
    OBVIOUS
  <1>1. /\ pc = "idle" /\ store = NewWorkflow /\ \A p \in Pod : pods[p].phase = "Absent"
        /\ \A n \in Node : store.nodes[n].phase = Unset
    BY DEF Init, NoPod, NewWorkflow, NoStatus
  <1>2. PodsInv
    <2>1. Unrun(store)
      BY <1>1 DEF Unrun
    <2>2. Backed(store)
      BY <1>1 DEF Backed
    <2> QED
      BY <1>1, <2>1, <2>2 DEF PodsInv, During
  <1>3. PhaseInv
    BY <1>1 DEF PhaseInv, Executing, NewWorkflow, Exists, Unset
  <1> QED
    BY <1>1, <1>2, <1>3 DEF LifeInv, WalkInv, Walking

(* A step of the execution of a template. *)
PodsKept ==
  \A p \in Pod : \/ pods'[p].phase = pods[p].phase
                 \/ RunStep(p) /\ ~Exists(wf.nodes[p]) /\ pods'[p].phase = "Pending"

Walked == Walks(wf, wf') /\ PodsKept

LEMMA WalkStep ==
  ASSUME LifeInv, ClaimInv, Walking, UNCHANGED <<store, orig>>, SameClaims(wf, wf'),
         Walks(wf, wf'), PodsKept, WalkInv',
         Walking' \/ pc' \in {"finish", "persist"}
  PROVE  LifeInv' /\ Walked
  <1>1. /\ During /\ Executing /\ ~wf.done /\ pc' \notin {"first", "reconcile", "pvcs"}
        /\ Unrun(wf) /\ Backed(wf) /\ NodesOnward(store, wf) /\ Unrun(store) /\ Backed(store)
    BY DEF Walking, During, Executing, ClaimInv, LifeInv, PodsInv
  <1>2. \A p \in Pod : ~RunStep(p) => pods'[p].phase = "Absent" /\ pods[p].phase = "Absent"
    BY DEF PodsKept, LifeInv, PodsInv
  <1>3. \A p \in Pod : pods'[p].phase = "Ready" => p \in Daemon
    BY DEF PodsKept, LifeInv, PodsInv
  <1>4. Unrun(wf')
    <2> SUFFICES ASSUME NEW n \in Node, IsStep(n), When[n] \in {"bad", "skip"}
                 PROVE  /\ When[n] = "bad"  => wf'.nodes[n].phase \in {Unset, "Error"}
                        /\ When[n] = "skip" => wf'.nodes[n].phase \in {Unset, "Skipped", "Error"}
      BY DEF Unrun
    <2>1. ~RunStep(n)
      BY DEF RunStep
    <2> QED
      BY <1>1, <2>1 DEF Walks, Unrun
  <1>5. Backed(wf)'
    <2> SUFFICES ASSUME NEW p \in Pod \ Daemon
                 PROVE  /\ wf'.nodes[p].phase = "Succeeded" => pods'[p].phase \in {"Succeeded", "Absent"}
                        /\ wf'.nodes[p].phase = "Skipped" => pods'[p].phase = "Absent"
      BY DEF Backed
    <2>1. p \in Pod /\ p \in Node
      BY DEF Pod
    <2>2. CASE Successful(wf.nodes[p])
      <3>1. wf'.nodes[p].phase = wf.nodes[p].phase
        BY <2>1, <2>2 DEF Walks, Onward
      <3>2. pods'[p].phase = pods[p].phase
        BY <2>1, <2>2 DEF PodsKept, Exists, Successful, Unset
      <3> QED
        BY <1>1, <3>1, <3>2 DEF Backed
    <2>3. CASE ~Successful(wf.nodes[p]) /\ Successful(wf'.nodes[p])
      BY <1>2, <2>1, <2>3 DEF Walks
    <2>4. CASE ~Successful(wf'.nodes[p])
      BY <2>4 DEF Successful
    <2> QED
      BY <2>2, <2>3, <2>4
  <1>6. Backed(store)'
    <2> SUFFICES ASSUME NEW p \in Pod \ Daemon, Successful(store.nodes[p])
                 PROVE  pods'[p].phase = pods[p].phase
      BY <1>1 DEF Backed, Successful
    <2>1. Exists(wf.nodes[p])
      BY <1>1 DEF NodesOnward, Onward, Exists, Successful, Unset, Pod
    <2> QED
      BY <2>1 DEF PodsKept
  <1>7. NodesOnward(store, wf')
    <2>1. NodesOnward(wf, wf')
      BY DEF Walks, NodesOnward
    <2> QED
      BY <1>1, <2>1, OnwardTransitive
  <1>8. PodsInv'
    BY <1>1, <1>2, <1>3, <1>4, <1>5, <1>6, <1>7 DEF PodsInv, Unrun
  <1>9. PhaseInv'
    BY <1>1 DEF LifeInv, PhaseInv, SameClaims
  <1> QED
    BY <1>8, <1>9 DEF LifeInv, Walked

(* Any other step that leaves the workflow in the API server alone. *)
LEMMA LeftAloneStep ==
  ASSUME LifeInv, UNCHANGED store, pc' \in {"idle", "send"},
         \A p \in Pod : pods'[p].phase = pods[p].phase
  PROVE  LifeInv'
  <1>1. PodsInv'
    BY DEF LifeInv, PodsInv, During, Backed, Unrun
  <1> QED
    BY <1>1 DEF LifeInv, WalkInv, PhaseInv, Walking, Executing

LEMMA LifeStarts ==
  ASSUME InSync, LabelInv, ClaimInv, LifeInv, StartOperation \/ ValidateOnce
  PROVE  LifeInv'
  <1>1. CASE StartOperation
    <2>1. /\ wf' = store /\ UNCHANGED <<store, pods>> /\ ~store.done
          /\ pc' = IF store.phase = Unset THEN "first" ELSE "reconcile"
      BY <1>1 DEF StartOperation, LabelInv, SyncInv, cluster
    <2>2. NodesOnward(store, store)
      BY OnwardReflexive
    <2>3. PodsInv'
      BY <2>1, <2>2 DEF LifeInv, PodsInv, Unrun, Backed
    <2>4. PhaseInv'
      BY <2>1 DEF LifeInv, PhaseInv, Executing
    <2> QED
      BY <2>1, <2>3, <2>4 DEF LifeInv, WalkInv, Walking
  <1>2. CASE ValidateOnce
    <2>1. wf \in Workflow /\ pc = "first" /\ UNCHANGED <<store, pods>> /\ ~wf.done
      BY <1>2 DEF ValidateOnce, cluster, LabelInv, RetryInv, TypeInv, TypeOK, ClaimInv, StartingInv
    <2>2. /\ wf'.nodes = wf.nodes
          /\ \/ pc' = "pvcs" /\ wf'.phase = "Running" /\ ~wf'.done
             \/ pc' = "persist" /\ wf'.phase = "Failed" /\ wf'.done
      BY <1>2, <2>1 DEF ValidateOnce, markWorkflowPhase, Workflow
    <2>3. PodsInv'
      BY <2>1, <2>2 DEF LifeInv, PodsInv, During, Unrun, Backed, NodesOnward
    <2>4. PhaseInv'
      <3>1. ~Exists(wf.nodes[Root])
        BY <2>1, TreeAssumption DEF LifeInv, PhaseInv
      <3> QED
        BY <2>1, <2>2, <3>1 DEF LifeInv, PhaseInv, Executing
    <2> QED
      BY <2>2, <2>3, <2>4 DEF LifeInv, WalkInv, Walking
  <1> QED
    BY <1>1, <1>2

(* What becomes of a node. *)
LEMMA ReconciledNode ==
  ASSUME wf \in Workflow, podReconciliation, NEW n \in Node
  PROVE  \/ wf'.nodes[n] = wf.nodes[n]
         \/ /\ ~Completed(wf.nodes[n]) /\ Exists(wf.nodes[n])
            /\ wf'.nodes[n].phase = "Error"
         \/ /\ n \in Pod /\ Exists(wf.nodes[n]) /\ pods[n].phase # "Absent"
            /\ wf'.nodes[n] = assessNodeStatus(pods[n].phase, wf.nodes[n])
  <1>1. wf'.nodes = Reconciled(wf.nodes)
    BY DEF podReconciliation, Workflow
  <1>2. wf.nodes[n] \in NodeStatusType
    BY DEF Workflow
  <1>3. CASE n \in Vanished(wf.nodes)
    BY <1>1, <1>2, <1>3 DEF Reconciled, Vanished, NodeStatusType
  <1>4. CASE n \notin Vanished(wf.nodes)
    <2>1. wf'.nodes[n] = Assessed(wf.nodes)[n]
      BY <1>1, <1>4 DEF Reconciled
    <2>2. CASE n \in Pod /\ Exists(wf.nodes[n])
      <3>1. wf'.nodes[n] = assessNodeStatus(pods[n].phase, wf.nodes[n])
        BY <2>1, <2>2 DEF Assessed
      <3>2. pods[n].phase = "Absent" => wf'.nodes[n] = wf.nodes[n]
        BY <3>1 DEF assessNodeStatus
      <3> QED
        BY <2>2, <3>1, <3>2
    <2>3. CASE ~(n \in Pod /\ Exists(wf.nodes[n]))
      BY <2>1, <2>3 DEF Assessed
    <2> QED
      BY <2>2, <2>3
  <1> QED
    BY <1>3, <1>4

(* The pods are assessed. *)
LEMMA LifeReconciliation ==
  ASSUME LabelInv, ClaimInv, LifeInv, podReconciliation
  PROVE  LifeInv'
  <1>1. /\ wf' = [wf EXCEPT !.nodes = Reconciled(@)] /\ UNCHANGED <<store, pods>>
        /\ pc = "reconcile" /\ pc' = "pvcs" /\ During
    BY DEF podReconciliation, cluster, During
  <1>2. wf \in Workflow
    BY DEF LabelInv, RetryInv, TypeInv, TypeOK
  <1>3. wf'.nodes = Reconciled(wf.nodes) /\ wf'.phase = wf.phase /\ wf'.slots = wf.slots
    BY <1>1, <1>2 DEF Workflow
  <1>4. Unrun(wf) /\ Backed(wf) /\ NodesOnward(store, wf)
    BY <1>1 DEF LifeInv, PodsInv
  <1>5. ASSUME NEW n \in Node
        PROVE  \/ wf'.nodes[n] = wf.nodes[n]
               \/ /\ ~Completed(wf.nodes[n]) /\ Exists(wf.nodes[n])
                  /\ wf'.nodes[n].phase = "Error"
               \/ /\ n \in Pod /\ Exists(wf.nodes[n]) /\ pods[n].phase # "Absent"
                  /\ wf'.nodes[n] = assessNodeStatus(pods[n].phase, wf.nodes[n])
    BY <1>2, ReconciledNode
  <1>6. Unrun(wf')
    <2> SUFFICES ASSUME NEW n \in Node, IsStep(n), When[n] \in {"bad", "skip"}
                 PROVE  wf'.nodes[n].phase \in {wf.nodes[n].phase, "Error"}
      BY <1>4 DEF Unrun
    <2>1. n \in Pod => pods[n].phase = "Absent"
      BY DEF LifeInv, PodsInv, RunStep
    <2> QED
      BY <1>5, <2>1
  <1>7. ASSUME NEW p \in Pod \ Daemon, pods[p].phase # "Absent",
               wf'.nodes[p] = assessNodeStatus(pods[p].phase, wf.nodes[p]),
               Exists(wf.nodes[p])
        PROVE  /\ Onward(wf.nodes[p], wf'.nodes[p])
               /\ wf'.nodes[p].phase = "Succeeded" => pods[p].phase = "Succeeded"
               /\ wf'.nodes[p].phase # "Skipped"
    <2>1. p \in Node /\ wf.nodes[p] \in NodeStatusType /\ pods[p].phase # "Ready"
      BY <1>2 DEF Workflow, Pod, LifeInv, PodsInv
    <2>2. wf.nodes[p].phase = "Succeeded" => pods[p].phase = "Succeeded"
      BY <1>4, <1>7 DEF Backed
    <2>3. wf.nodes[p].phase # "Skipped"
      BY <1>4, <1>7 DEF Backed
    <2>4. CASE pods[p].phase = "Succeeded"
      BY <1>7, <2>1, <2>3, <2>4
      DEF assessNodeStatus, NodeStatusType, Onward, Exists, Completed, Successful, Unset
    <2>5. CASE pods[p].phase \in {"Failed", "Errored"}
      BY <1>7, <2>1, <2>2, <2>3, <2>5
      DEF assessNodeStatus, inferFailedReason, NodeStatusType, Onward, Exists, Completed,
          Successful, Unset
    <2>6. CASE pods[p].phase = "Unknown"
      BY <1>7, <2>1, <2>2, <2>3, <2>6
      DEF assessNodeStatus, NodeStatusType, Onward, Exists, Completed, Successful, Unset
    <2>7. CASE pods[p].phase \notin {"Succeeded", "Failed", "Errored", "Unknown"}
      <3>1. wf'.nodes[p] = wf.nodes[p]
        BY <1>7, <2>1, <2>7 DEF assessNodeStatus
      <3> QED
        BY <2>2, <2>3, <2>7, <3>1 DEF Onward
    <2> QED
      BY <2>4, <2>5, <2>6, <2>7
  <1>8. NodesOnward(wf, wf')
    <2> SUFFICES ASSUME NEW n \in Node \ Daemon
                 PROVE  Onward(wf.nodes[n], wf'.nodes[n])
      BY DEF NodesOnward
    <2>1. CASE wf'.nodes[n] = wf.nodes[n]
      BY <2>1 DEF Onward
    <2>2. CASE ~Completed(wf.nodes[n]) /\ wf'.nodes[n].phase = "Error"
      BY <2>2 DEF Onward, Exists, Completed, Successful, Unset
    <2> QED
      BY <1>5, <1>7, <2>1, <2>2
  <1>9. Backed(wf)'
    <2> SUFFICES ASSUME NEW p \in Pod \ Daemon
                 PROVE  /\ wf'.nodes[p].phase = "Succeeded" => pods[p].phase \in {"Succeeded", "Absent"}
                        /\ wf'.nodes[p].phase = "Skipped" => pods[p].phase = "Absent"
      BY <1>1 DEF Backed
    <2>1. p \in Node
      BY DEF Pod
    <2> QED
      BY <1>4, <1>5, <1>7, <2>1 DEF Backed
  <1>10. PodsInv'
    <2>1. NodesOnward(store, wf')
      BY <1>4, <1>8, OnwardTransitive
    <2> QED
      BY <1>1, <1>6, <1>9, <2>1 DEF LifeInv, PodsInv, Unrun, Backed
  <1>11. PhaseInv'
    BY <1>1, <1>3 DEF LifeInv, PhaseInv, Executing
  <1> QED
    BY <1>1, <1>10, <1>11 DEF LifeInv, WalkInv, Walking

LEMMA LifeCreatePVCs ==
  ASSUME LabelInv, ClaimInv, LifeInv, createPVCs
  PROVE  LifeInv'
  <1>1. wf \in Workflow /\ Root \in Node /\ Root \in Top /\ ~IsStep(Root)
    BY TreeAssumption DEF LabelInv, RetryInv, TypeInv, TypeOK, Top, IsStep
  <1>2. /\ pc = "pvcs" /\ During /\ UNCHANGED <<store, pods>> /\ ~wf.done
        /\ wf.phase \in {"Running", "Error"} /\ store.phase \in {Unset, wf.phase}
    BY DEF createPVCs, During, ClaimInv, StartingInv, LabelInv, SyncInv, LifeInv, PhaseInv
  <1>3. Unrun(wf) /\ Backed(wf) /\ NodesOnward(store, wf)
    BY <1>2 DEF LifeInv, PodsInv
  <1>4. CASE EnterTemplate(Root) /\ wf'.nodes = wf.nodes /\ wf'.done = wf.done
             /\ wf'.phase = wf.phase /\ (wf.phase = "Running" => wf'.slots = NumClaims)
    <2>1. pc' = "template" /\ cur' = Root
      BY <1>4 DEF EnterTemplate
    <2>2. Open(wf', Root)
      BY <1>1, OpenTop
    <2>3. PodsInv'
      BY <1>2, <1>3, <1>4 DEF LifeInv, PodsInv, Unrun, Backed, NodesOnward
    <2>4. PhaseInv'
      BY <1>2, <1>4, <2>1 DEF LifeInv, PhaseInv
    <2>5. WalkInv'
      BY <1>1, <2>1, <2>2 DEF WalkInv, RunStep
    <2> QED
      BY <2>3, <2>4, <2>5 DEF LifeInv
  <1>5. CASE /\ pc' = "persist" /\ ~NothingToCreate
             /\ \E k \in Claim :
                  wf' = markWorkflowPhase(
                          markNodePhase([wf EXCEPT !.slots = NumClaims, !.vols = @ \cup 1..(k-1)],
                                        Root, "Error"),
                          "Error", TRUE)
    <2>1. wf'.done /\ wf'.phase = "Error" /\ wf'.nodes = markNodePhase(wf, Root, "Error").nodes
      BY <1>1, <1>5 DEF markWorkflowPhase, markNodePhase, Workflow
    <2>2. wf'.nodes[Root].phase = "Error" /\ \A n \in Node : n # Root => wf'.nodes[n] = wf.nodes[n]
      BY <1>1, <2>1, MarkPhases
    <2>3. ~Exists(wf.nodes[Root])
      BY <1>2, <1>5 DEF NothingToCreate, LifeInv, PhaseInv
    <2>4. NodesOnward(wf, wf')
      <3> SUFFICES ASSUME NEW n \in Node
                   PROVE  Onward(wf.nodes[n], wf'.nodes[n])
        BY DEF NodesOnward
      <3>1. CASE n = Root
        BY <2>2, <2>3, <3>1 DEF Onward, Exists, Completed, Successful, Unset
      <3>2. CASE n # Root
        BY <2>2, <3>2 DEF Onward
      <3> QED
        BY <3>1, <3>2
    <2>5. NodesOnward(store, wf')
      BY <1>3, <2>4, OnwardTransitive
    <2>6. Unrun(wf')
      BY <1>1, <1>3, <2>2 DEF Unrun
    <2>7. Backed(wf)'
      BY <1>2, <1>3, <2>2 DEF Backed, Pod
    <2>8. PodsInv'
      BY <1>2, <2>5, <2>6, <2>7 DEF LifeInv, PodsInv, Unrun, Backed
    <2>9. PhaseInv'
      BY <1>2, <1>5, <2>1 DEF LifeInv, PhaseInv, Executing
    <2> QED
      BY <1>5, <2>8, <2>9 DEF LifeInv, WalkInv, Walking
  <1>6. \/ EnterTemplate(Root) /\ wf' = wf /\ NothingToCreate
        \/ EnterTemplate(Root) /\ wf' = [wf EXCEPT !.slots = NumClaims, !.vols = Claim]
        \/ /\ pc' = "persist" /\ ~NothingToCreate
           /\ \E k \in Claim :
                wf' = markWorkflowPhase(
                        markNodePhase([wf EXCEPT !.slots = NumClaims, !.vols = @ \cup 1..(k-1)],
                                      Root, "Error"),
                        "Error", TRUE)
    BY DEF createPVCs
  <1>7. CASE EnterTemplate(Root) /\ wf' = wf /\ NothingToCreate
    BY <1>4, <1>7 DEF NothingToCreate
  <1>8. CASE EnterTemplate(Root) /\ wf' = [wf EXCEPT !.slots = NumClaims, !.vols = Claim]
    <2>1. /\ wf'.nodes = wf.nodes /\ wf'.done = wf.done /\ wf'.phase = wf.phase
          /\ wf'.slots = NumClaims
      BY <1>1, <1>8 DEF Workflow
    <2> QED
      BY <1>4, <1>8, <2>1
  <1> QED
    BY <1>5, <1>6, <1>7, <1>8

LEMMA CreatedKept ==
  ASSUME LabelInv, NEW p \in Pod, RunStep(p), ~Exists(wf.nodes[p]),
         pods' = pods \/ pods' = Created(p)
  PROVE  PodsKept
  <1>1. pods \in [Pod -> PodType]
    BY DEF LabelInv, RetryInv, TypeInv, TypeOK
  <1> QED
    BY <1>1 DEF PodsKept, Created, NewPod, NoPod

LEMMA LifePodTemplate ==
  ASSUME LabelInv, ClaimInv, LifeInv, ExecutePodTemplate
  PROVE  LifeInv' /\ Walked
  <1>1. /\ wf \in Workflow /\ cur \in Node /\ cur \in Pod /\ RunStep(cur) /\ Open(wf, cur)
        /\ pc = "template" /\ Walking
    BY DEF LabelInv, RetryInv, TypeInv, TypeOK, ExecutePodTemplate, Pod, LifeInv, WalkInv, Walking
  <1>2. /\ UNCHANGED <<store, orig, cur>> /\ pc' = "return"
        /\ SameClaims(wf, wf')
    BY ExecutionSame DEF ExecutePodTemplate, executeContainer, ReturnAtOnce, ReturnOrTimeout,
                         Return, LabelInv, RetryInv
  <1>3. CASE wf' = wf /\ pods' = pods /\ ret' # "error"
    <2>1. Walks(wf, wf') /\ Open(wf', cur)
      BY <1>1, <1>3, SamePhases
    <2>2. WalkInv'
      BY <1>2, <1>3, <2>1 DEF WalkInv, Walking
    <2> QED
      BY <1>1, <1>2, <1>3, <2>1, <2>2, WalkStep DEF PodsKept, Walking
  <1>4. CASE /\ ~Exists(wf.nodes[cur]) /\ (pods' = pods \/ pods' = Created(cur))
             /\ \E phase \in {"Running", "Error"} : wf' = markNodePhase(wf, cur, phase)
    <2>1. PICK phase \in {"Running", "Error"} : wf' = markNodePhase(wf, cur, phase)
      BY <1>4
    <2>2. ~Completed(wf.nodes[cur]) /\ ~Successful(wf.nodes[cur])
      BY <1>4 DEF Exists, Completed, Successful, Unset
    <2>3. Walks(wf, wf')
      BY <1>1, <2>1, <2>2, MarkWalks DEF NodePhase
    <2>4. Open(wf', cur)
      BY <1>1, <2>1, <2>3, WalksRoot, MarkOpen
    <2>5. ~Successful(wf'.nodes[cur])
      BY <1>1, <2>1, MarkPhases DEF Successful
    <2>6. WalkInv'
      BY <1>2, <2>4, <2>5 DEF WalkInv, Walking
    <2>7. PodsKept
      BY <1>1, <1>4, CreatedKept
    <2> QED
      BY <1>1, <1>2, <2>3, <2>6, <2>7, WalkStep DEF Walking
  <1>5. \/ wf' = wf /\ pods' = pods /\ ret' \in {"nil", "timeout"}
        \/ /\ ~Exists(wf.nodes[cur]) /\ (pods' = pods \/ pods' = Created(cur))
           /\ wf' \in {markNodePhase(wf, cur, "Running"), markNodePhase(wf, cur, "Error")}
    BY DEF ExecutePodTemplate, executeContainer, ReturnAtOnce, Return
  <1> QED
    BY <1>3, <1>4, <1>5

LEMMA LifeRetryTemplate ==
  ASSUME LabelInv, ClaimInv, LifeInv, ExecuteRetryTemplate
  PROVE  LifeInv' /\ Walked
  <1>1. /\ wf \in Workflow /\ cur \in Node /\ cur \in Retry /\ cur \notin Pod
        /\ RunStep(cur) /\ Open(wf, cur) /\ pc = "template" /\ Walking
    BY DEF LabelInv, RetryInv, TypeInv, TypeOK, ExecuteRetryTemplate, Retry, Pod, LifeInv,
           WalkInv, Walking
  <1>2. /\ UNCHANGED <<store, orig, cur>> /\ pc' = "return" /\ SameClaims(wf, wf')
    BY ExecutionSame DEF ExecuteRetryTemplate, NewAttempt, executeContainer, ReturnAtOnce,
                         ReturnOrTimeout, Return, LabelInv, RetryInv
  <1>3. CASE wf' = wf /\ pods' = pods /\ ret' # "error"
    <2>1. Walks(wf, wf') /\ Open(wf', cur)
      BY <1>1, <1>3, SamePhases
    <2>2. WalkInv'
      BY <1>2, <1>3, <2>1 DEF WalkInv, Walking
    <2> QED
      BY <1>1, <1>2, <1>3, <2>1, <2>2, WalkStep DEF PodsKept, Walking
  <1>4. CASE /\ ~Completed(wf.nodes[cur]) /\ pods' = pods /\ ret' # "error"
             /\ wf' = markNodePhase(wf, cur, RetryVerdict(cur))
    <2>1. RetryVerdict(cur) \in NodePhase /\ RetryVerdict(cur) # "Skipped"
      BY DEF RetryVerdict, NodePhase
    <2>2. ~Successful(wf.nodes[cur])
      BY <1>4 DEF Completed, Successful
    <2>3. Walks(wf, wf')
      BY <1>1, <1>4, <2>1, <2>2, MarkWalks
    <2>4. Open(wf', cur)
      BY <1>1, <1>4, <2>3, WalksRoot, MarkOpen
    <2>5. WalkInv'
      BY <1>2, <1>4, <2>4 DEF WalkInv, Walking
    <2> QED
      BY <1>1, <1>2, <1>4, <2>3, <2>5, WalkStep DEF PodsKept, Walking
  <1>5. CASE ~Completed(wf.nodes[cur]) /\ NewAttempt(cur)
    <2> DEFINE k == wf.nodes[cur].children + 1
               v == markNodePhase(wf, cur, "Running")
               w == [v EXCEPT !.nodes[cur].children = k]
               a == Kids[cur][k]
    <2>1. k \in DOMAIN Kids[cur] /\ executeContainer(w, a)
      BY <1>5 DEF NewAttempt
    <2>2. a \in Pod /\ a \in Node /\ a \notin Top /\ Parent(a) = cur /\ RunStep(a)
      <3>1. a \in Pod /\ IsAttempt(a) /\ cur \in Node
        BY <1>1, <2>1, AttemptOf
      <3>2. Parent(a) = cur
        BY <1>1, <2>1, ParentOfChild
      <3> QED
        BY <3>1, <3>2, <1>1 DEF Pod, IsAttempt, RunStep, IsStep
    <2>3. wf.nodes[cur].children \in Nat /\ k \in Nat /\ k > wf.nodes[cur].children
      BY <1>1 DEF Workflow, NodeStatusType
    <2>4. ~Exists(wf.nodes[a])
      BY <1>1, <2>1, <2>3 DEF LabelInv, CopyInv, NoneBeyond, During
    <2>5. \E phase \in {"Running", "Error"} : wf' = markNodePhase(w, a, phase)
      BY <2>1 DEF executeContainer
    <2>6. pods' = pods \/ pods' = Created(a)
      BY <2>1 DEF executeContainer
    <2> HIDE DEF k, a
    <2>7. v \in Workflow /\ Walks(wf, v) /\ Open(v, cur) /\ v.nodes[cur].phase = "Running"
          /\ \A n \in Node : n # cur => v.nodes[n] = wf.nodes[n]
      <3>1. v \in Workflow
        BY <1>1, MarkNodeType DEF NodePhase
      <3>2. ~Successful(wf.nodes[cur])
        BY <1>5 DEF Completed, Successful
      <3>3. Walks(wf, v)
        BY <1>1, <1>5, <3>2, MarkWalks DEF NodePhase
      <3>4. Open(v, cur)
        BY <1>1, <3>3, WalksRoot, MarkOpen
      <3> QED
        BY <1>1, <3>1, <3>3, <3>4, MarkPhases
    <2> HIDE DEF v
    <2>8. /\ w \in Workflow /\ \A n \in Node : w.nodes[n].phase = v.nodes[n].phase
      BY <1>1, <2>3, <2>7, SetChildren
    <2> HIDE DEF w
    <2>9. Walks(wf, w) /\ Open(w, cur)
      BY <1>1, <2>7, <2>8, SamePhases, WalksTransitive
    <2>10. PICK phase \in {"Running", "Error"} : wf' = markNodePhase(w, a, phase)
      BY <2>5
    <2>11. a # cur /\ w.nodes[a].phase = wf.nodes[a].phase
      BY <1>1, <2>2, <2>7, <2>8
    <2>12. ~Completed(w.nodes[a]) /\ ~Successful(w.nodes[a])
      BY <2>4, <2>11 DEF Exists, Completed, Successful, Unset
    <2>13. Walks(w, wf')
      BY <2>2, <2>8, <2>10, <2>12, MarkWalks DEF NodePhase
    <2>14. Open(wf', cur)
      BY <1>1, <2>2, <2>8, <2>9, <2>10, <2>13, WalksRoot, MarkOpen
    <2>15. ~Successful(wf'.nodes[cur])
      BY <1>1, <2>2, <2>7, <2>8, <2>10, <2>11, MarkPhases DEF Successful
    <2>16. WalkInv'
      BY <1>2, <2>14, <2>15 DEF WalkInv, Walking
    <2>17. PodsKept
      BY <2>2, <2>4, <2>6, CreatedKept
    <2>18. Walks(wf, wf')
      BY <2>9, <2>13, WalksTransitive
    <2> QED
      BY <1>1, <1>2, <2>16, <2>17, <2>18, WalkStep DEF Walking
  <1>6. ~Exists(wf.nodes[cur]) => ~Completed(wf.nodes[cur])
    BY DEF Exists, Completed, Unset
  <1> QED
    BY <1>3, <1>4, <1>5, <1>6 DEF ExecuteRetryTemplate, ReturnAtOnce, Return

(* The node being executed, which is not a pod, is marked. *)
LEMMA MarkHere ==
  ASSUME NEW w \in Workflow, NEW n \in Node, NEW phase \in NodePhase, Open(w, n),
         ~Successful(w.nodes[n]) \/ phase = w.nodes[n].phase,
         ~Completed(w.nodes[n]) \/ phase # "Running",
         n \in Pod => phase # "Succeeded" /\ (phase = "Skipped" => ~RunStep(n)),
         ~RunStep(n) => phase = "Error" \/ (When[n] = "skip" /\ phase = "Skipped")
  PROVE  LET m == markNodePhase(w, n, phase)
         IN  m \in Workflow /\ Walks(w, m) /\ Open(m, n) /\ m.nodes[n].phase = phase
  <1>1. Walks(w, markNodePhase(w, n, phase))
    BY MarkWalks
  <1>2. Open(markNodePhase(w, n, phase), n)
    BY <1>1, WalksRoot, MarkOpen
  <1> QED
    BY <1>1, <1>2, MarkPhases, MarkNodeType

LEMMA LifeStepsTemplate ==
  ASSUME LabelInv, ClaimInv, LifeInv, ExecuteStepsTemplate
  PROVE  LifeInv' /\ Walked
  <1>1. /\ wf \in Workflow /\ cur \in Node /\ cur \notin Pod /\ Kind[cur] = "steps"
        /\ RunStep(cur) /\ Open(wf, cur) /\ pc = "template" /\ Walking
    BY DEF LabelInv, RetryInv, TypeInv, TypeOK, ExecuteStepsTemplate, Pod, LifeInv,
           WalkInv, Walking
  <1>2. UNCHANGED <<store, orig, pods>> /\ SameClaims(wf, wf')
    BY ExecutionSame DEF ExecuteStepsTemplate, ReturnAtOnce, LabelInv, RetryInv
  <1>3. CASE Completed(wf.nodes[cur]) /\ ReturnAtOnce /\ UNCHANGED cur
    <2>1. wf' = wf /\ pc' = "return" /\ ret' = "nil" /\ cur' = cur
      BY <1>3 DEF ReturnAtOnce, Return
    <2>2. Walks(wf, wf') /\ Open(wf', cur)
      BY <1>1, <2>1, SamePhases
    <2>3. WalkInv'
      BY <2>1, <2>2 DEF WalkInv, Walking
    <2> QED
      BY <1>1, <1>2, <2>1, <2>2, <2>3, WalkStep DEF PodsKept, Walking
  <1>4. CASE /\ ~Completed(wf.nodes[cur])
             /\ wf' = IF Exists(wf.nodes[cur]) THEN wf ELSE markNodePhase(wf, cur, "Running")
             /\ pc' = "group" /\ cur' = Kids[cur][1]
    <2>1. ~Successful(wf.nodes[cur])
      BY <1>4 DEF Completed, Successful
    <2>2. Walks(wf, wf') /\ Open(wf', cur) /\ ~Successful(wf'.nodes[cur])
      <3>1. CASE wf' = wf
        BY <1>1, <2>1, <3>1, SamePhases
      <3>2. CASE wf' = markNodePhase(wf, cur, "Running")
        BY <1>1, <1>4, <2>1, <3>2, MarkHere DEF NodePhase, Successful
      <3> QED
        BY <1>4, <3>1, <3>2
    <2>3. Kids[cur] # <<>>
      BY <1>1, TreeAssumption
    <2>4. cur' \in Node /\ cur' \notin Top /\ Parent(cur') = cur
      BY <1>1, <1>4, <2>3, FirstChild, FirstChildsParent
    <2>5. Open(wf', cur')
      BY <1>1, <2>2, <2>4, OpenDown
    <2>6. WalkInv'
      BY <1>4, <2>5 DEF WalkInv
    <2> QED
      BY <1>1, <1>2, <1>4, <2>2, <2>6, WalkStep DEF PodsKept, Walking
  <1> QED
    BY <1>3, <1>4 DEF ExecuteStepsTemplate

(* The node being executed becomes a child of its caller. *)
LEMMA AddedHere ==
  ASSUME LabelInv, LifeInv, Walking, cur \notin Top
  PROVE  LET w == addChildNode(wf, Parent(cur), cur)
         IN  /\ w \in Workflow /\ Walks(wf, w) /\ Open(w, cur)
             /\ w.nodes[cur].phase = wf.nodes[cur].phase
  <1> DEFINE w == addChildNode(wf, Parent(cur), cur)
  <1>1. wf \in Workflow /\ cur \in Node /\ Open(wf, cur)
    BY DEF LabelInv, RetryInv, TypeInv, TypeOK, LifeInv, WalkInv
  <1>2. w \in Workflow
    BY <1>1, AddChildType, ParentExists
  <1>3. \A n \in Node : w.nodes[n].phase = wf.nodes[n].phase
    BY <1>1, AddChildPhases
  <1> HIDE DEF w
  <1>4. Walks(wf, w) /\ Open(w, cur)
    BY <1>1, <1>3, SamePhases
  <1>5. w \in Workflow /\ Walks(wf, w) /\ Open(w, cur) /\ w.nodes[cur].phase = wf.nodes[cur].phase
    BY <1>1, <1>2, <1>3, <1>4
  <1> QED
    BY <1>5 DEF w

LEMMA LifeStepGroup ==
  ASSUME LabelInv, ClaimInv, LifeInv, executeStepGroup
  PROVE  LifeInv' /\ Walked
  <1> DEFINE w == addChildNode(wf, Parent(cur), cur)
  <1>1. /\ wf \in Workflow /\ cur \in Node /\ cur \notin Top /\ Kind[Parent(cur)] = "steps"
        /\ pc = "group" /\ Walking
    BY DEF LabelInv, RetryInv, TypeInv, TypeOK, CursorHasParent, CursorInv, executeStepGroup,
           Walking
  <1>2. cur \notin Pod /\ RunStep(cur)
    <2>1. PICK i \in DOMAIN Kids[Parent(cur)] : Kids[Parent(cur)][i] = cur
      BY <1>1, ParentExists DEF ParentOf
    <2>2. Kind[cur] \in KidKinds["steps"]
      BY <1>1, <2>1, ParentExists, ParentOfChild
    <2> QED
      BY <1>1, <2>2 DEF KidKinds, Pod, RunStep, IsStep
  <1>3. UNCHANGED <<store, orig, pods>> /\ SameClaims(wf, wf')
    BY ExecutionSame DEF executeStepGroup, cluster, LabelInv, RetryInv
  <1>4. /\ w \in Workflow /\ Walks(wf, w) /\ Open(w, cur)
    BY <1>1, AddedHere
  <1>5. \/ wf' = w /\ Return("nil") /\ cur' = cur
        \/ /\ ~Completed(w.nodes[cur])
           /\ \/ wf' = markNodePhase(w, cur, "Error") /\ Return("error") /\ cur' = cur
              \/ wf' = markNodePhase(w, cur, "Succeeded") /\ Return("nil") /\ cur' = cur
              \/ /\ wf' \in {w, markNodePhase(w, cur, "Running")}
                 /\ Kids[cur] # <<>> /\ pc' = "step" /\ cur' = Kids[cur][1]
    BY DEF executeStepGroup
  <1> HIDE DEF w
  <1>6. CASE wf' = w /\ Return("nil") /\ cur' = cur
    <2>1. WalkInv'
      BY <1>4, <1>6 DEF Return, WalkInv, Walking
    <2> QED
      BY <1>1, <1>3, <1>4, <1>6, <2>1, WalkStep DEF Return, PodsKept, Walking
  <1>7. ASSUME NEW phase \in {"Error", "Succeeded"}, ~Completed(w.nodes[cur]),
               wf' = markNodePhase(w, cur, phase), pc' = "return", cur' = cur,
               ret' = "error" => phase = "Error"
        PROVE  LifeInv' /\ Walked
    <2>1. Walks(w, wf') /\ Open(wf', cur) /\ wf'.nodes[cur].phase = phase
      BY <1>1, <1>2, <1>4, <1>7, MarkHere DEF NodePhase, Completed, Successful
    <2>2. WalkInv'
      BY <1>7, <2>1 DEF WalkInv, Walking, Successful
    <2>3. Walks(wf, wf')
      BY <1>4, <2>1, WalksTransitive
    <2> QED
      BY <1>1, <1>3, <1>7, <2>2, <2>3, WalkStep DEF PodsKept, Walking
  <1>8. CASE /\ ~Completed(w.nodes[cur]) /\ wf' \in {w, markNodePhase(w, cur, "Running")}
             /\ Kids[cur] # <<>> /\ pc' = "step" /\ cur' = Kids[cur][1]
    <2>1. ~Successful(w.nodes[cur])
      BY <1>8 DEF Completed, Successful
    <2>2. Walks(wf, wf') /\ Open(wf', cur) /\ ~Successful(wf'.nodes[cur])
      <3>1. CASE wf' = w
        BY <1>4, <2>1, <3>1
      <3>2. CASE wf' = markNodePhase(w, cur, "Running")
        BY <1>1, <1>2, <1>4, <1>8, <2>1, <3>2, MarkHere, WalksTransitive
        DEF NodePhase, Successful
      <3> QED
        BY <1>8, <3>1, <3>2
    <2>3. cur' \in Node /\ cur' \notin Top /\ Parent(cur') = cur
      BY <1>1, <1>8, FirstChild, FirstChildsParent
    <2>4. Open(wf', cur')
      BY <1>1, <1>2, <2>2, <2>3, OpenDown
    <2>5. WalkInv'
      BY <1>8, <2>4 DEF WalkInv
    <2> QED
      BY <1>1, <1>3, <1>8, <2>2, <2>5, WalkStep DEF PodsKept, Walking
  <1> QED
    BY <1>5, <1>6, <1>7, <1>8 DEF Return

(* A step that is not to run has not succeeded otherwise than skipped. *)
LEMMA LifeLaunchStep ==
  ASSUME LabelInv, ClaimInv, LifeInv, LaunchStep
  PROVE  LifeInv' /\ Walked
  <1> DEFINE w == addChildNode(wf, Parent(cur), cur)
  <1>1. /\ wf \in Workflow /\ cur \in Node /\ IsStep(cur) /\ cur \notin Top
        /\ pc = "step" /\ Walking /\ During
    BY DEF LabelInv, RetryInv, TypeInv, TypeOK, CursorHasParent, CursorInv, LaunchStep,
           Walking, IsStep, During
  <1>2. UNCHANGED <<store, orig, pods, cur>> /\ SameClaims(wf, wf')
    BY ExecutionSame DEF LaunchStep, cluster, LabelInv, RetryInv
  <1>3. /\ w \in Workflow /\ Walks(wf, w) /\ Open(w, cur)
        /\ w.nodes[cur].phase = wf.nodes[cur].phase
    BY <1>1, AddedHere
  <1>4. \/ When[cur] = "run" /\ wf' = w /\ pc' = "template"
        \/ When[cur] = "skip" /\ wf' = markNodePhase(w, cur, "Skipped") /\ Return("nil")
        \/ When[cur] = "bad" /\ wf' = markNodePhase(w, cur, "Error") /\ Return("error")
    BY DEF LaunchStep
  <1> HIDE DEF w
  <1>5. /\ When[cur] = "bad" => w.nodes[cur].phase \in {Unset, "Error"}
        /\ When[cur] = "skip" => w.nodes[cur].phase \in {Unset, "Skipped", "Error"}
    BY <1>1, <1>3 DEF LifeInv, PodsInv, Unrun
  <1>6. CASE When[cur] = "run" /\ wf' = w /\ pc' = "template"
    <2>1. WalkInv'
      BY <1>2, <1>3, <1>6 DEF WalkInv, RunStep
    <2> QED
      BY <1>1, <1>2, <1>3, <1>6, <2>1, WalkStep DEF PodsKept, Walking
  <1>7. CASE When[cur] = "skip" /\ wf' = markNodePhase(w, cur, "Skipped") /\ Return("nil")
    <2>1. Walks(w, wf') /\ Open(wf', cur)
      <3>1. ~Successful(w.nodes[cur]) \/ w.nodes[cur].phase = "Skipped"
        BY <1>5, <1>7 DEF Successful, Unset
      <3>2. ~RunStep(cur)
        BY <1>1, <1>7 DEF RunStep
      <3> QED
        BY <1>1, <1>3, <1>7, <3>1, <3>2, MarkHere DEF NodePhase
    <2>2. WalkInv'
      BY <1>2, <1>7, <2>1 DEF Return, WalkInv, Walking
    <2>3. Walks(wf, wf')
      BY <1>3, <2>1, WalksTransitive
    <2> QED
      BY <1>1, <1>2, <1>7, <2>2, <2>3, WalkStep DEF Return, PodsKept, Walking
  <1>8. CASE When[cur] = "bad" /\ wf' = markNodePhase(w, cur, "Error") /\ Return("error")
    <2>1. Walks(w, wf') /\ Open(wf', cur) /\ wf'.nodes[cur].phase = "Error"
      <3>1. ~Successful(w.nodes[cur])
        BY <1>5, <1>8 DEF Successful, Unset
      <3> QED
        BY <1>1, <1>3, <1>8, <3>1, MarkHere DEF NodePhase
    <2>2. WalkInv'
      BY <1>2, <1>8, <2>1 DEF Return, WalkInv, Walking, Successful
    <2>3. Walks(wf, wf')
      BY <1>3, <2>1, WalksTransitive
    <2> QED
      BY <1>1, <1>2, <1>8, <2>2, <2>3, WalkStep DEF Return, PodsKept, Walking
  <1> QED
    BY <1>4, <1>6, <1>7, <1>8

(* Back in the caller, which has not succeeded and is to run. *)
LEMMA CallerOpen ==
  ASSUME NEW w, NEW c \in Node, c \notin Top, Kind[Parent(c)] \in {"steps", "group"}, Open(w, c)
  PROVE  /\ Parent(c) \in Node /\ Parent(c) \notin Pod /\ RunStep(Parent(c))
         /\ Open(w, Parent(c)) /\ ~Successful(w.nodes[Parent(c)])
  BY OpenUp DEF Pod

LEMMA SiblingOpen ==
  ASSUME NEW w, NEW c \in Node, c \notin Top, Open(w, c), ~IsLast(Parent(c), c)
  PROVE  Open(w, Following(Parent(c), c))
  BY NextChild, FollowingIsNode, OpenSideways

LEMMA LifeStepReturns ==
  ASSUME LabelInv, ClaimInv, LifeInv, StepReturns
  PROVE  LifeInv' /\ Walked
  <1> DEFINE g == Parent(cur)
             v == markNodePhase(wf, cur, "Error")
  <1>1. /\ wf \in Workflow /\ cur \in Node /\ cur \notin Top /\ Kind[g] = "group"
        /\ pc = "return" /\ Walking /\ Open(wf, cur)
    BY DEF LabelInv, RetryInv, TypeInv, TypeOK, StepReturns, Returns, Walking, LifeInv, WalkInv
  <1>2. UNCHANGED <<store, orig, pods, ret>> /\ SameClaims(wf, wf')
    BY ExecutionSame DEF StepReturns, cluster, LabelInv, RetryInv
  <1>3. /\ g \in Node /\ g \notin Pod /\ RunStep(g)
        /\ Open(wf, g) /\ ~Successful(wf.nodes[g])
    BY <1>1, CallerOpen
  <1>4. \/ ret = "error" /\ wf' = markNodePhase(v, g, "Error") /\ cur' = g /\ pc' = pc
        \/ ret # "error" /\ wf' = wf /\ cur' = g /\ pc' = pc
        \/ wf' = wf /\ ~IsLast(g, cur) /\ cur' = Following(g, cur) /\ pc' = "step"
        \/ /\ ret = "nil" /\ cur' = g /\ pc' = pc
           /\ wf' = markNodePhase(wf, g, GroupVerdict(g))
    BY DEF StepReturns
  <1>5. ret = "error" => ~Successful(wf.nodes[cur])
    BY <1>1 DEF LifeInv, WalkInv
  <1>6. Walks(wf, wf)
    BY SamePhases
  <1>7. CASE ret = "error" /\ wf' = markNodePhase(v, g, "Error") /\ cur' = g /\ pc' = pc
    <2>1. v \in Workflow /\ Walks(wf, v) /\ Open(v, cur)
      BY <1>1, <1>5, <1>7, MarkHere DEF NodePhase
    <2> HIDE DEF v
    <2>2. Open(v, g) /\ ~Successful(v.nodes[g])
      BY <1>1, <2>1, CallerOpen
    <2>3. Walks(v, wf') /\ Open(wf', g) /\ wf'.nodes[g].phase = "Error"
      BY <1>3, <1>7, <2>1, <2>2, MarkHere DEF NodePhase
    <2>4. WalkInv'
      BY <1>1, <1>7, <2>3 DEF WalkInv, Successful
    <2>5. Walks(wf, wf')
      BY <2>1, <2>3, WalksTransitive
    <2> QED
      BY <1>1, <1>2, <1>7, <2>4, <2>5, WalkStep DEF PodsKept, Walking
  <1>8. CASE ret # "error" /\ wf' = wf /\ cur' = g /\ pc' = pc
    <2>1. WalkInv'
      BY <1>1, <1>2, <1>3, <1>8 DEF WalkInv
    <2> QED
      BY <1>1, <1>2, <1>6, <1>8, <2>1, WalkStep DEF PodsKept, Walking
  <1>9. CASE wf' = wf /\ ~IsLast(g, cur) /\ cur' = Following(g, cur) /\ pc' = "step"
    <2>1. Open(wf', cur')
      BY <1>1, <1>9, SiblingOpen
    <2>2. WalkInv'
      BY <1>9, <2>1 DEF WalkInv
    <2> QED
      BY <1>1, <1>2, <1>6, <1>9, <2>2, WalkStep DEF PodsKept, Walking
  <1>10. CASE /\ ret = "nil" /\ cur' = g /\ pc' = pc
              /\ wf' = markNodePhase(wf, g, GroupVerdict(g))
    <2>1. GroupVerdict(g) \in {wf.nodes[g].phase, "Failed", "Succeeded"}
      BY DEF GroupVerdict
    <2>2. Walks(wf, wf') /\ Open(wf', g)
      <3>1. CASE GroupVerdict(g) = wf.nodes[g].phase
        <4>1. \A n \in Node : wf'.nodes[n].phase = wf.nodes[n].phase
          BY <1>1, <1>3, <1>10, <3>1, MarkPhases
        <4> QED
          BY <1>3, <4>1, SamePhases
      <3>2. CASE GroupVerdict(g) \in {"Failed", "Succeeded"}
        BY <1>1, <1>3, <1>10, <3>2, MarkHere DEF NodePhase
      <3> QED
        BY <2>1, <3>1, <3>2
    <2>3. WalkInv'
      BY <1>1, <1>2, <1>10, <2>2 DEF WalkInv
    <2> QED
      BY <1>1, <1>2, <1>10, <2>2, <2>3, WalkStep DEF PodsKept, Walking
  <1> QED
    BY <1>4, <1>7, <1>8, <1>9, <1>10

LEMMA LifeGroupReturns ==
  ASSUME LabelInv, ClaimInv, LifeInv, GroupReturns
  PROVE  LifeInv' /\ Walked
  <1> DEFINE s == Parent(cur)
  <1>1. /\ wf \in Workflow /\ cur \in Node /\ cur \notin Top /\ Kind[s] = "steps"
        /\ pc = "return" /\ Walking /\ Open(wf, cur)
    BY DEF LabelInv, RetryInv, TypeInv, TypeOK, GroupReturns, Returns, Walking, LifeInv, WalkInv
  <1>2. UNCHANGED <<store, orig, pods>> /\ SameClaims(wf, wf')
    BY ExecutionSame DEF GroupReturns, cluster, LabelInv, RetryInv
  <1>3. /\ s \in Node /\ s \notin Pod /\ RunStep(s)
        /\ Open(wf, s) /\ ~Successful(wf.nodes[s])
    BY <1>1, CallerOpen
  <1>4. \/ /\ cur' = s /\ pc' = "ended"
           /\ \/ wf' = markNodePhase(wf, s, "Error")
              \/ ret' # "error" /\ wf' = wf
              \/ ret' # "error" /\ wf' = markNodePhase(wf, s, "Failed")
              \/ ret' # "error" /\ wf' = markNodePhase(wf, s, "Succeeded")
        \/ wf' = wf /\ ~IsLast(s, cur) /\ cur' = Following(s, cur) /\ pc' = "group"
    BY DEF GroupReturns
  <1>5. Walks(wf, wf)
    BY SamePhases
  <1>6. ASSUME NEW phase \in {"Error", "Failed", "Succeeded"}, cur' = s, pc' = "ended",
               wf' = markNodePhase(wf, s, phase), ret' = "error" => phase = "Error"
        PROVE  LifeInv' /\ Walked
    <2>1. Walks(wf, wf') /\ Open(wf', s) /\ wf'.nodes[s].phase = phase
      BY <1>1, <1>3, <1>6, MarkHere DEF NodePhase
    <2>2. WalkInv'
      BY <1>6, <2>1 DEF WalkInv, Successful
    <2> QED
      BY <1>1, <1>2, <1>6, <2>1, <2>2, WalkStep DEF PodsKept, Walking
  <1>7. CASE cur' = s /\ pc' = "ended" /\ ret' # "error" /\ wf' = wf
    <2>1. WalkInv'
      BY <1>3, <1>7 DEF WalkInv
    <2> QED
      BY <1>1, <1>2, <1>5, <1>7, <2>1, WalkStep DEF PodsKept, Walking
  <1>8. CASE wf' = wf /\ ~IsLast(s, cur) /\ cur' = Following(s, cur) /\ pc' = "group"
    <2>1. Open(wf', cur')
      BY <1>1, <1>8, SiblingOpen
    <2>2. WalkInv'
      BY <1>8, <2>1 DEF WalkInv
    <2> QED
      BY <1>1, <1>2, <1>5, <1>8, <2>2, WalkStep DEF PodsKept, Walking
  <1> QED
    BY <1>4, <1>6, <1>7, <1>8

LEMMA LifeKillDaemons ==
  ASSUME LabelInv, ClaimInv, LifeInv, killDeamonedChildren
  PROVE  LifeInv' /\ Walked
  <1>1. /\ pc = "ended" /\ Walking /\ pc' = "return" /\ (ret' = "error" => ret = "error")
        /\ UNCHANGED <<store, orig, wf, cur>>
    BY DEF killDeamonedChildren, ReturnOrTimeout, Return, Walking
  <1>2. PodsKept
    <2>1. pods \in [Pod -> PodType]
      BY DEF LabelInv, RetryInv, TypeInv, TypeOK
    <2>2. \A p \in Pod : pods'[p] = pods[p] \/ pods'[p] = [pods[p] EXCEPT !.killed = TRUE]
      BY DEF killDeamonedChildren
    <2> QED
      BY <2>1, <2>2 DEF PodType, PodsKept
  <1>3. Walks(wf, wf') /\ SameClaims(wf, wf')
    BY <1>1, SamePhases DEF SameClaims
  <1>4. WalkInv'
    BY <1>1 DEF LifeInv, WalkInv
  <1> QED
    BY <1>1, <1>2, <1>3, <1>4, WalkStep DEF Walking

LEMMA LifeTemplateReturns ==
  ASSUME LabelInv, ClaimInv, LifeInv, TemplateReturns
  PROVE  LifeInv' /\ Walked
  <1>1. /\ pc = "return" /\ Walking /\ cur \in Top /\ Open(wf, cur)
        /\ UNCHANGED <<store, orig, wf, pods>>
    BY DEF TemplateReturns, cluster, Walking, LifeInv, WalkInv
  <1>2. Walks(wf, wf') /\ SameClaims(wf, wf') /\ PodsKept
    BY <1>1, SamePhases DEF SameClaims, PodsKept
  <1>3. \/ pc' = "persist"
        \/ /\ Completed(wf.nodes[cur]) /\ cur = Root /\ OnExit # NoNode
           /\ pc' = "template" /\ cur' = OnExit
        \/ /\ Completed(wf.nodes[cur]) /\ (cur = OnExit \/ OnExit = NoNode) /\ pc' = "finish"
    BY DEF TemplateReturns, EnterTemplate
  <1>4. WalkInv'
    <2>1. CASE pc' = "persist"
      BY <2>1 DEF WalkInv, Walking
    <2>2. CASE /\ Completed(wf.nodes[cur]) /\ cur = Root /\ OnExit # NoNode
               /\ pc' = "template" /\ cur' = OnExit
      <3>1. OnExit \in Top /\ OnExit \in Node
        BY <2>2, TreeAssumption DEF Top
      <3>2. Open(wf', OnExit)
        BY <1>1, <2>2, <3>1, OpenTop
      <3> QED
        BY <2>2, <3>1, <3>2 DEF WalkInv, RunStep, IsStep
    <2>3. CASE Completed(wf.nodes[cur]) /\ (cur = OnExit \/ OnExit = NoNode) /\ pc' = "finish"
      <3>1. cur # Root => Completed(wf.nodes[Root])
        BY <1>1, TopOpen
      <3>2. \A n \in Top : Completed(wf.nodes[n])
        BY <1>1, <2>3, <3>1 DEF Top
      <3> QED
        BY <1>1, <2>3, <3>2 DEF WalkInv, Walking
    <2> QED
      BY <1>3, <2>1, <2>2, <2>3
  <1> QED
    BY <1>1, <1>2, <1>3, <1>4, WalkStep DEF Walking

LEMMA LifeFinish ==
  ASSUME LabelInv, ClaimInv, LifeInv, FinishWorkflow
  PROVE  LifeInv'
  <1>1. wf \in Workflow /\ ~wf.done /\ Root \in Node /\ Root \in Top
    BY TreeAssumption DEF LabelInv, RetryInv, TypeInv, TypeOK, FinishWorkflow, ClaimInv,
                          Executing, Top
  <1>2. /\ pc = "finish" /\ During /\ pc' = "persist" /\ UNCHANGED <<store, pods>>
        /\ \A n \in Top : Completed(wf.nodes[n])
    BY DEF FinishWorkflow, During, LifeInv, WalkInv
  <1>3. PICK failed \in SUBSET wf.vols :
          LET w == IF failed = wf.vols THEN wf
                   ELSE [wf EXCEPT !.vols = failed, !.slots = Cardinality(failed)]
          IN  \/ wf' = markWorkflowPhase(w, FinalPhase(w), TRUE)
              \/ wf' = markWorkflowPhase(w, "Error", FALSE)
    BY DEF FinishWorkflow
  <1> DEFINE w == IF failed = wf.vols THEN wf
                  ELSE [wf EXCEPT !.vols = failed, !.slots = Cardinality(failed)]
  <1>4. w.nodes = wf.nodes /\ w.done = wf.done
    BY <1>1 DEF Workflow
  <1>5. FinalPhase(w) \in {"Succeeded", "Failed", "Error"}
    <2>1. ~Successful(w.nodes[Root]) => w.nodes[Root].phase \in {"Failed", "Error"}
      BY <1>1, <1>2, <1>4 DEF Completed, Successful
    <2>2. OnExit # NoNode /\ ~Successful(w.nodes[OnExit]) =>
            w.nodes[OnExit].phase \in {"Failed", "Error"}
      BY <1>2, <1>4 DEF Completed, Successful, Top
    <2> HIDE DEF w
    <2> QED
      BY <2>1, <2>2 DEF FinalPhase
  <1>6. /\ wf'.nodes = wf.nodes
        /\ \/ wf'.done /\ wf'.phase \in {"Succeeded", "Failed", "Error"}
           \/ ~wf'.done /\ wf'.phase = "Error"
    <2>1. DOMAIN w = {"phase", "done", "nodes", "slots", "vols"} /\ w = [x \in DOMAIN w |-> w[x]]
      BY <1>1 DEF Workflow
    <2>2. wf' \in {markWorkflowPhase(w, FinalPhase(w), TRUE), markWorkflowPhase(w, "Error", FALSE)}
      BY <1>3
    <2> HIDE DEF w
    <2> QED
      BY <1>1, <1>4, <1>5, <2>1, <2>2 DEF markWorkflowPhase
  <1>7. PodsInv'
    BY <1>2, <1>6 DEF LifeInv, PodsInv, Unrun, Backed, NodesOnward
  <1>8. PhaseInv'
    BY <1>2, <1>6 DEF LifeInv, PhaseInv, Executing
  <1> QED
    BY <1>2, <1>7, <1>8 DEF LifeInv, WalkInv, Walking

(* The patch makes the version in the API server the operation's copy. *)
LEMMA Patched ==
  ASSUME LabelInv, persistUpdates, ApplyPatch
  PROVE  /\ orig = store /\ pc = "persist" /\ During /\ SameClaims(wf, store')
         /\ \A n \in Node : store'.nodes[n].phase = wf.nodes[n].phase
  <1>1. store \in Workflow /\ wf \in Workflow
    BY DEF LabelInv, RetryInv, TypeInv, TypeOK
  <1>2. pc = "persist" /\ During /\ orig = store
    BY DEF persistUpdates, During, LabelInv, SyncInv
  <1>3. store' = MergePatch(store, store, wf)
    BY <1>2 DEF ApplyPatch
  <1>4. SameClaims(wf, store')
    BY <1>3 DEF MergePatch, Merge, SameClaims
  <1> QED
    BY <1>1, <1>2, <1>3, <1>4, PatchOfLatest

LEMMA LifePersist ==
  ASSUME LabelInv, ClaimInv, LifeInv, persistUpdates
  PROVE  LifeInv'
  <1>1. UNCHANGED pods /\ pc' \in {"send", "idle"}
    BY DEF persistUpdates, ToLabeling, Leave, cluster
  <1>2. CASE ApplyPatch
    <2>1. /\ pc = "persist" /\ During /\ SameClaims(wf, store')
          /\ \A n \in Node : store'.nodes[n].phase = wf.nodes[n].phase
      BY <1>2, Patched
    <2>2. Unrun(wf) /\ Backed(wf)
      BY <2>1 DEF LifeInv, PodsInv
    <2>3. Unrun(store') /\ Backed(store)'
      BY <1>1, <2>1, <2>2 DEF Unrun, Backed, Pod
    <2>4. PodsInv'
      BY <1>1, <2>3 DEF LifeInv, PodsInv, Unrun, During
    <2>5. PhaseInv'
      BY <1>1, <2>1 DEF LifeInv, PhaseInv, Executing, SameClaims, Unset
    <2> QED
      BY <1>1, <2>4, <2>5 DEF LifeInv, WalkInv, Walking
  <1>3. CASE UNCHANGED store
    BY <1>1, <1>3, LeftAloneStep
  <1> QED
    BY <1>2, <1>3 DEF persistUpdates

(* What the cluster does to pods. *)
PodsSettle ==
  \A p \in Pod : \/ pods'[p].phase \in {pods[p].phase, "Absent"}
                 \/ /\ pods[p].phase \notin {"Absent", "Succeeded"}
                    /\ pods'[p].phase = "Ready" => p \in Daemon

LEMMA LifeElsewhere ==
  ASSUME LifeInv, UNCHANGED <<store, operation>>, PodsSettle
  PROVE  LifeInv'
  <1>1. UNCHANGED <<store, pc, orig, wf, cur, ret>>
    BY DEF operation
  <1>2. \A w : Backed(w) =>
          \A p \in Pod \ Daemon :
            /\ w.nodes[p].phase = "Succeeded" => pods'[p].phase \in {"Succeeded", "Absent"}
            /\ w.nodes[p].phase = "Skipped" => pods'[p].phase = "Absent"
    BY DEF Backed, PodsSettle
  <1>3. Backed(store)' /\ (During => Backed(wf)')
    BY <1>1, <1>2 DEF LifeInv, PodsInv, Backed
  <1>4. PodsInv'
    BY <1>1, <1>3 DEF LifeInv, PodsInv, PodsSettle, During, Unrun
  <1> QED
    BY <1>1, <1>4 DEF LifeInv, WalkInv, PhaseInv, Walking, Executing

LEMMA LifeOthers ==
  ASSUME LabelInv, LifeInv,
         DrainItem \/ ListPodsFails \/ NothingToPersist \/ SendCompletedPod \/ EndOperation
         \/ WatchEvent \/ Resync \/ processNextPodItem \/ podLabeler \/ Crash \/ Environment
         \/ UNCHANGED vars
  PROVE  LifeInv'
  <1>1. pods \in [Pod -> PodType]
    BY DEF LabelInv, RetryInv, TypeInv, TypeOK
  <1>2. CASE ListPodsFails \/ NothingToPersist \/ SendCompletedPod \/ EndOperation \/ Crash
    <2>1. UNCHANGED <<store, pods>> /\ pc' \in {"idle", "send"}
      BY <1>2 DEF ListPodsFails, NothingToPersist, SendCompletedPod, EndOperation, Crash, Leave,
                  cluster
    <2> QED
      BY <2>1, LeftAloneStep
  <1>3. CASE DrainItem \/ WatchEvent \/ Resync \/ processNextPodItem \/ UNCHANGED vars
    <2>1. UNCHANGED <<store, operation, pods>>
      BY <1>3 DEF DrainItem, WatchEvent, Resync, processNextPodItem, vars, cluster
    <2> QED
      BY <2>1, LifeElsewhere DEF PodsSettle
  <1>4. CASE podLabeler
    <2>1. /\ UNCHANGED <<store, operation>>
          /\ pods' = pods \/ \E p \in Pod : pods' = [pods EXCEPT ![p].labelled = TRUE]
      BY <1>4 DEF podLabeler, AddPodLabel, LabelInv, RetryInv, TypeInv, TypeOK
    <2>2. PodsSettle
      BY <1>1, <2>1 DEF PodsSettle, PodType
    <2> QED
      BY <2>1, <2>2, LifeElsewhere
  <1>5. CASE Environment
    <2>1. UNCHANGED <<store, operation>>
      BY <1>5 DEF Environment, PodRuns, DaemonReady, PodTerminates, PodUnreachable,
                  PodReachable, PodDeleted, PodMoves
    <2>2. PICK p \in Pod : \/ pods' = [pods EXCEPT ![p] = NoPod]
                           \/ \E to \in PodPhase :
                                /\ pods' = [pods EXCEPT ![p].phase = to]
                                /\ pods[p].phase \in {"Pending", "Running", "Ready", "Unknown"}
                                /\ to = "Ready" => p \in Daemon
      BY <1>5 DEF Environment, PodRuns, DaemonReady, PodTerminates, PodUnreachable,
                  PodReachable, PodDeleted, PodMoves, PodPhase, PodTerminated
    <2>3. PodsSettle
      BY <1>1, <2>2 DEF PodsSettle, PodType, NoPod
    <2> QED
      BY <2>1, <2>3, LifeElsewhere
  <1> QED
    BY <1>2, <1>3, <1>4, <1>5

LEMMA LifeStep ==
  ASSUME InSync, LabelInv, ClaimInv, LifeInv, [Next]_vars
  PROVE  LifeInv'
  BY LifeStarts, LifeReconciliation, LifeCreatePVCs, LifePodTemplate, LifeRetryTemplate,
     LifeStepsTemplate, LifeStepGroup, LifeLaunchStep, LifeStepReturns, LifeGroupReturns,
     LifeKillDaemons, LifeTemplateReturns, LifeFinish, LifePersist, LifeOthers
  DEF Next, Worker

LEMMA LifeInvariant == InSync => (Spec => []LifeInv)
  <1> SUFFICES ASSUME InSync PROVE Spec => []LifeInv
    OBVIOUS
  <1>1. LabelInv /\ ClaimInv /\ LifeInv /\ [Next]_vars => LifeInv'
    BY LifeStep
  <1>2. Spec => []LabelInv /\ []ClaimInv
    BY LabelInvariant, ClaimInvariant
  <1> QED
    BY InitLife, <1>1, <1>2, PTL DEF Spec

-----------------------------------------------------------------------------
(* The refinement. *)

(* Only a patch changes the workflow in the API server. *)
LEMMA OnlyPatched ==
  ASSUME [Next]_vars
  PROVE  UNCHANGED store \/ (persistUpdates /\ ApplyPatch)
  <1>1. CASE Worker
    BY <1>1 DEF Worker, DrainItem, StartOperation, ValidateOnce, podReconciliation, ListPodsFails,
                createPVCs, ExecutePodTemplate, ExecuteRetryTemplate, ExecuteStepsTemplate,
                executeStepGroup, LaunchStep, StepReturns, GroupReturns, killDeamonedChildren,
                TemplateReturns, FinishWorkflow, NothingToPersist, persistUpdates,
                SendCompletedPod, EndOperation
  <1>2. CASE WatchEvent \/ Resync \/ processNextPodItem \/ podLabeler \/ Crash \/ Environment
             \/ UNCHANGED vars
    BY <1>2 DEF WatchEvent, Resync, processNextPodItem, podLabeler, AddPodLabel, Crash,
                Environment, PodRuns, DaemonReady, PodTerminates, PodUnreachable, PodReachable,
                PodDeleted, PodMoves, vars
  <1> QED
    BY <1>1, <1>2 DEF Next

LEMMA PatchAdvances ==
  ASSUME LabelInv, ClaimInv, LifeInv, persistUpdates, ApplyPatch
  PROVE  Lifecycle!Next
  <1>1. /\ orig = store /\ pc = "persist" /\ During /\ SameClaims(wf, store')
        /\ \A n \in Node : store'.nodes[n].phase = wf.nodes[n].phase
    BY Patched
  <1>2. ~store.done /\ store.done \in BOOLEAN /\ wf.done \in BOOLEAN
    BY <1>1 DEF ClaimInv, LabelInv, RetryInv, TypeInv, TypeOK, Workflow
  <1>3. Lifecycle!NodesProgress
    <2> SUFFICES ASSUME NEW n \in Node \ Daemon
                 PROVE  /\ store.nodes[n].phase # Unset => store'.nodes[n].phase # Unset
                        /\ store.nodes[n].phase \in {"Failed", "Error"} =>
                             store'.nodes[n].phase # "Running"
                        /\ store.nodes[n].phase \in {"Succeeded", "Skipped"} =>
                             store'.nodes[n].phase = store.nodes[n].phase
      BY DEF Lifecycle!NodesProgress
    <2>1. Onward(store.nodes[n], wf.nodes[n])
      BY <1>1 DEF LifeInv, PodsInv, NodesOnward
    <2> QED
      BY <1>1, <2>1 DEF Onward, Exists, Completed, Successful
  <1>4. CASE wf.done
    <2>1. store'.done /\ store'.phase \in {"Succeeded", "Failed", "Error"}
      BY <1>1, <1>4 DEF LifeInv, PhaseInv, SameClaims
    <2> QED
      BY <1>2, <1>3, <1>4, <2>1, <1>1
      DEF Lifecycle!Next, Lifecycle!Complete, Lifecycle!Outcome, SameClaims
  <1>5. CASE ~wf.done
    <2>1. /\ store'.done = store.done
          /\ store'.phase = "Error" \/ (store'.phase = "Running" /\ store.phase \in {Unset, "Running"})
      BY <1>1, <1>2, <1>5 DEF LifeInv, PhaseInv, SameClaims
    <2> QED
      BY <1>2, <1>3, <2>1 DEF Lifecycle!Next, Lifecycle!Work, Lifecycle!CleanupFails
  <1> QED
    BY <1>4, <1>5

(* The workflow in the API server follows the abstract life cycle: every   *)
(* patch is one of its steps, everything else leaves it alone.  So a       *)
(* workflow completes once and never changes afterwards, and whatever the  *)
(* faults, no node that ended runs again and no success is withdrawn.      *)
THEOREM FollowsLifecycle == InSync => (Spec => ImplementsLifecycle)
  <1> SUFFICES ASSUME InSync PROVE Spec => ImplementsLifecycle
    OBVIOUS
  <1>1. Init => Lifecycle!Init
    BY DEF Init, Lifecycle!Init, NewWorkflow, NoStatus
  <1>2. LabelInv /\ ClaimInv /\ LifeInv /\ [Next]_vars => [Lifecycle!Next]_(Lifecycle!lifecycle)
    <2> SUFFICES ASSUME LabelInv, ClaimInv, LifeInv, [Next]_vars
                 PROVE  [Lifecycle!Next]_(Lifecycle!lifecycle)
      OBVIOUS
    <2>1. CASE UNCHANGED store
      BY <2>1 DEF Lifecycle!lifecycle
    <2>2. CASE persistUpdates /\ ApplyPatch
      BY <2>2, PatchAdvances
    <2> QED
      BY <2>1, <2>2, OnlyPatched
  <1>3. Spec => []LabelInv /\ []ClaimInv /\ []LifeInv
    BY LabelInvariant, ClaimInvariant, LifeInvariant
  <1> QED
    BY <1>1, <1>2, <1>3, PTL DEF Spec, ImplementsLifecycle, Lifecycle!Spec
=============================================================================
