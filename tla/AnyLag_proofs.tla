---------------------------- MODULE AnyLag_proofs ----------------------------
(***************************************************************************)
(* What holds however old the version is from which an operation starts:   *)
(* type correctness, for every tree of nodes, every limit and every budget *)
(* of faults, with the facts about the tree that other proofs share; that  *)
(* a rejected workflow runs nothing; the number of attempts.               *)
(***************************************************************************)
EXTENDS WorkflowProperties, FiniteSetTheorems, TLAPS

-----------------------------------------------------------------------------
(* Types, and facts about the tree. *)

(* The children of a node are nodes, and none of them is a top node. *)
LEMMA KidsAreNodes ==
  ASSUME NEW n \in Node, NEW i \in DOMAIN Kids[n]
  PROVE  /\ Kids[n][i] \in Node
         /\ Kids[n][i] \notin Top
         /\ ParentOf(n, Kids[n][i])
  <1>1. Kids[n] \in Seq(Node)
    BY TreeAssumption
  <1>2. Kids[n][i] \in Node
    BY <1>1
  <1>3. ParentOf(n, Kids[n][i])
    BY DEF ParentOf
  <1> QED
    BY <1>2, <1>3, TreeAssumption

(* A node that is not a top node has a parent, and a place among its       *)
(* children.                                                               *)
LEMMA ParentExists ==
  ASSUME NEW c \in Node, c \notin Top
  PROVE  /\ Parent(c) \in Node
         /\ ParentOf(Parent(c), c)
         /\ Order(Parent(c), c) \in DOMAIN Kids[Parent(c)]
         /\ Order(Parent(c), c) \in Nat
  <1>1. \E p \in Node : ParentOf(p, c)
    BY TreeAssumption
  <1>2. Parent(c) \in Node /\ ParentOf(Parent(c), c)
    BY <1>1 DEF Parent
  <1>3. Order(Parent(c), c) \in DOMAIN Kids[Parent(c)]
    BY <1>2 DEF ParentOf, Order
  <1>4. Kids[Parent(c)] \in Seq(Node)
    BY <1>2, TreeAssumption
  <1> QED
    BY <1>2, <1>3, <1>4

(* The child after one that is not the last. *)
LEMMA FollowingIsNode ==
  ASSUME NEW c \in Node, c \notin Top, ~IsLast(Parent(c), c)
  PROVE  Following(Parent(c), c) \in Node /\ Following(Parent(c), c) \notin Top
  <1> DEFINE p == Parent(c)
             i == Order(p, c)
  <1>1. p \in Node /\ i \in DOMAIN Kids[p]
    BY ParentExists
  <1>2. Kids[p] \in Seq(Node)
    BY <1>1, TreeAssumption
  <1>3. i # Len(Kids[p])
    BY DEF IsLast
  <1>4. i + 1 \in DOMAIN Kids[p]
    BY <1>1, <1>2, <1>3
  <1> QED
    BY <1>1, <1>4, KidsAreNodes DEF Following

(* The changes an operation makes to its copy keep it a workflow. *)
LEMMA MarkNodeType ==
  ASSUME NEW w \in Workflow, NEW n, NEW phase \in NodePhase
  PROVE  markNodePhase(w, n, phase) \in Workflow
  BY DEF Workflow, NodeStatusType, markNodePhase

LEMMA AddChildType ==
  ASSUME NEW w \in Workflow, NEW p, NEW c, Order(p, c) \in Nat
  PROVE  addChildNode(w, p, c) \in Workflow
  BY DEF Workflow, NodeStatusType, addChildNode

LEMMA MarkWorkflowType ==
  ASSUME NEW w \in Workflow, NEW phase \in NodePhase \cup {Unset},
         NEW completed \in BOOLEAN
  PROVE  markWorkflowPhase(w, phase, completed) \in Workflow
  BY DEF Workflow, markWorkflowPhase

LEMMA NewWorkflowType == NewWorkflow \in Workflow
  BY SpecAssumption DEF Workflow, NewWorkflow, NodeStatusType, NoStatus, Claim

LEMMA PatchType ==
  ASSUME NEW c \in Workflow, NEW o \in Workflow, NEW n \in Workflow
  PROVE  MergePatch(c, o, n) \in Workflow
  <1>1. \A x \in Node : MergeNode(c.nodes[x], o.nodes[x], n.nodes[x]) \in NodeStatusType
    BY DEF Workflow, NodeStatusType, MergeNode, Merge
  <1> QED
    BY <1>1 DEF Workflow, MergePatch, Merge

LEMMA AssessType ==
  ASSUME NEW podPhase \in PodPhase, NEW node \in NodeStatusType
  PROVE  assessNodeStatus(podPhase, node) \in NodeStatusType
  BY DEF assessNodeStatus, inferFailedReason, NodeStatusType, NodePhase, PodPhase

-----------------------------------------------------------------------------
(* Type correctness.  The actions that use the parent of the node being    *)
(* executed need to know that it has one.                                  *)

CursorHasParent == pc \in {"group", "step"} => cur \notin Top

TypeInv == TypeOK /\ CursorHasParent

LEMMA SpendType ==
  ASSUME TypeOK, NEW fault \in Fault, Spend(fault)
  PROVE  budget' \in [Fault -> Nat]
  BY DEF TypeOK, Spend

LEMMA CreatedType ==
  ASSUME TypeOK, NEW p
  PROVE  Created(p) \in [Pod -> PodType]
  BY DEF TypeOK, Created, PodType, NewPod, NoPod, PodPhase

LEMMA LeaveType ==
  ASSUME Leave
  PROVE  /\ pc' = "idle" /\ orig' \in Workflow /\ wf' \in Workflow
         /\ updated' \in BOOLEAN /\ completedPods' \subseteq Pod
         /\ cur' \in Node /\ ret' = "nil"
  BY NewWorkflowType, TreeAssumption DEF Leave

(* What createWorkflowPod may do, with the typing of each effect. *)
LEMMA ExecuteContainerType ==
  ASSUME TypeOK, NEW w \in Workflow, NEW p, executeContainer(w, p)
  PROVE  /\ updated' \in BOOLEAN /\ pods' \in [Pod -> PodType] /\ wf' \in Workflow
         /\ pc' = "return" /\ ret' \in {"nil", "error", "timeout"}
         /\ budget' \in [Fault -> Nat]
  <1>1. /\ markNodePhase(w, p, "Running") \in Workflow
        /\ markNodePhase(w, p, "Error") \in Workflow
    BY MarkNodeType DEF NodePhase
  <1>2. Created(p) \in [Pod -> PodType] /\ pods \in [Pod -> PodType]
    BY CreatedType DEF TypeOK
  <1>3. budget \in [Fault -> Nat]
    BY DEF TypeOK
  <1>4. \A f \in Fault : Spend(f) => budget' \in [Fault -> Nat]
    BY SpendType
  <1> QED
    BY <1>1, <1>2, <1>3, <1>4 DEF executeContainer, ReturnOrTimeout, Return, Fault

LEMMA TypeInit == Init => TypeInv
  <1> SUFFICES ASSUME Init PROVE TypeInv
    OBVIOUS
  <1>1. [p \in Pod |-> NoPod] \in [Pod -> PodType]
    BY DEF PodType, NoPod, PodPhase
  <1>2. <<>> \in Seq(Workflow) /\ <<>> \in Seq(Pod)
    OBVIOUS
  <1>3. watch \in Seq(Workflow) /\ completedCh \in Seq(Pod) /\ pods \in [Pod -> PodType]
    BY <1>1, <1>2 DEF Init
  <1>4. store \in Workflow /\ cache \in Workflow /\ orig \in Workflow /\ wf \in Workflow
    BY NewWorkflowType DEF Init
  <1>5. cur \in Node /\ budget \in [Fault -> Nat]
    BY TreeAssumption, BoundAssumption DEF Init
  <1>6. /\ queued \in BOOLEAN /\ updated \in BOOLEAN
        /\ podQueue \subseteq Pod /\ completedPods \subseteq Pod
        /\ pvcs \subseteq Claim /\ pc \in Step /\ ret = "nil"
        /\ pc \notin {"group", "step"}
    BY DEF Init, Step
  <1> QED
    BY <1>3, <1>4, <1>5, <1>6 DEF TypeInv, TypeOK, CursorHasParent

(* A node with children has a first one. *)
LEMMA FirstChild ==
  ASSUME NEW n \in Node, Kids[n] # <<>>
  PROVE  Kids[n][1] \in Node /\ Kids[n][1] \notin Top
  <1>1. Kids[n] \in Seq(Node)
    BY TreeAssumption
  <1>2. 1 \in DOMAIN Kids[n]
    BY <1>1
  <1> QED
    BY <1>2, KidsAreNodes

LEMMA ReconciledType ==
  ASSUME TypeOK, NEW w \in Workflow
  PROVE  [w EXCEPT !.nodes = Reconciled(@)] \in Workflow
  <1>1. w.nodes \in [Node -> NodeStatusType]
    BY DEF Workflow
  <1>2. \A n \in Node : Assessed(w.nodes)[n] \in NodeStatusType
    BY <1>1, AssessType DEF Assessed, TypeOK, PodType
  <1>3. \A n \in Node : [w.nodes[n] EXCEPT !.phase = "Error"] \in NodeStatusType
    BY <1>1 DEF NodeStatusType, NodePhase
  <1>4. Reconciled(w.nodes) \in [Node -> NodeStatusType]
    BY <1>2, <1>3 DEF Reconciled
  <1> QED
    BY <1>4 DEF Workflow

LEMMA FinalPhaseType ==
  ASSUME NEW w \in Workflow
  PROVE  FinalPhase(w) \in NodePhase \cup {Unset}
  BY TreeAssumption DEF FinalPhase, NodePhase, Workflow, NodeStatusType

LEMMA GroupVerdictType ==
  ASSUME NEW g \in Node, wf \in Workflow
  PROVE  /\ GroupVerdict(g) \in NodePhase \cup {Unset}
         /\ [wf EXCEPT !.nodes[g].phase = GroupVerdict(g)] \in Workflow
  <1>1. GroupVerdict(g) \in NodePhase \cup {Unset}
    BY DEF GroupVerdict, NodePhase, Workflow, NodeStatusType
  <1> QED
    BY <1>1 DEF Workflow, NodeStatusType

LEMMA WorkerStartsType ==
  ASSUME TypeInv, DrainItem \/ StartOperation \/ ValidateOnce
  PROVE  TypeInv'
  <1>1. CASE DrainItem
    BY <1>1 DEF TypeInv, TypeOK, CursorHasParent, DrainItem, cluster, operation
  <1>2. CASE StartOperation
    BY <1>2 DEF TypeInv, TypeOK, CursorHasParent, StartOperation, cluster, Step
  <1>3. CASE ValidateOnce
    <2>1. wf' \in Workflow
      BY <1>3, MarkWorkflowType DEF TypeInv, TypeOK, ValidateOnce, NodePhase
    <2> QED
      BY <1>3, <2>1 DEF TypeInv, TypeOK, CursorHasParent, ValidateOnce, cluster, controller, Step
  <1> QED
    BY <1>1, <1>2, <1>3

LEMMA ReconciliationType ==
  ASSUME TypeInv, podReconciliation \/ ListPodsFails
  PROVE  TypeInv'
  <1>1. CASE podReconciliation
    <2>1. wf' \in Workflow
      BY <1>1, ReconciledType DEF TypeInv, TypeOK, podReconciliation
    <2>2. updated' \in BOOLEAN /\ completedPods' \subseteq Pod /\ pc' = "pvcs"
      BY <1>1 DEF podReconciliation
    <2> QED
      BY <1>1, <2>1, <2>2
      DEF TypeInv, TypeOK, CursorHasParent, podReconciliation, cluster, controller, Step
  <1>2. CASE ListPodsFails
    <2>1. budget' \in [Fault -> Nat]
      BY <1>2, SpendType DEF TypeInv, ListPodsFails, Fault
    <2>2. Leave
      BY <1>2 DEF ListPodsFails
    <2> QED
      BY <1>2, <2>1, <2>2, LeaveType
      DEF TypeInv, TypeOK, CursorHasParent, ListPodsFails, cluster, controller, Step
  <1> QED
    BY <1>1, <1>2

LEMMA CreatePVCsType ==
  ASSUME TypeInv, createPVCs
  PROVE  TypeInv'
  <1> USE DEF TypeInv
  <1>1. NumClaims \in 0..NumClaims
    BY SpecAssumption
  <1>2. CASE NothingToCreate /\ EnterTemplate(Root) /\ UNCHANGED <<pvcs, wf, updated, budget>>
    BY <1>2, TreeAssumption
    DEF createPVCs, EnterTemplate, TypeOK, CursorHasParent, controller, Step
  <1>3. CASE /\ pvcs' = Claim
             /\ wf' = [wf EXCEPT !.slots = NumClaims, !.vols = Claim]
             /\ updated' = TRUE
             /\ EnterTemplate(Root)
             /\ UNCHANGED budget
    <2>1. wf' \in Workflow
      BY <1>1, <1>3 DEF TypeOK, Workflow
    <2> QED
      BY <1>3, <2>1, TreeAssumption
      DEF createPVCs, EnterTemplate, TypeOK, CursorHasParent, controller, Step
  <1>4. ASSUME NEW k \in Claim,
               \/ k \in pvcs /\ UNCHANGED budget
               \/ k \notin pvcs /\ Spend("api"),
               pvcs' = pvcs \cup 1..(k-1),
               wf' = markWorkflowPhase(
                       markNodePhase([wf EXCEPT !.slots = NumClaims, !.vols = @ \cup 1..(k-1)],
                                     Root, "Error"),
                       "Error", TRUE),
               updated' = TRUE, pc' = "persist", UNCHANGED cur
        PROVE  TypeInv'
    <2>1. 1..(k-1) \subseteq Claim
      BY SpecAssumption DEF Claim
    <2>2. [wf EXCEPT !.slots = NumClaims, !.vols = @ \cup 1..(k-1)] \in Workflow
      BY <1>1, <2>1 DEF TypeOK, Workflow
    <2>3. wf' \in Workflow
      BY <1>4, <2>2, MarkNodeType, MarkWorkflowType DEF NodePhase
    <2>4. budget' \in [Fault -> Nat]
      BY <1>4, SpendType DEF Fault, TypeOK
    <2>5. pvcs' \subseteq Claim
      BY <1>4, <2>1 DEF TypeOK
    <2> QED
      BY <1>4, <2>3, <2>4, <2>5
      DEF createPVCs, TypeOK, CursorHasParent, controller, Step
  <1> QED
    BY <1>2, <1>3, <1>4 DEF createPVCs

(* The parts of an operation that execute a node leave the rest alone. *)
Untouched == UNCHANGED <<store, watch, cache, podQueue, completedCh, orig>>

LEMMA ExecutionType ==
  ASSUME TypeInv, Untouched,
         queued' \in BOOLEAN, pods' \in [Pod -> PodType], pvcs' \subseteq Claim,
         pc' \in Step, wf' \in Workflow, updated' \in BOOLEAN,
         completedPods' \subseteq Pod, cur' \in Node,
         ret' \in {"nil", "error", "timeout"}, budget' \in [Fault -> Nat],
         pc' \in {"group", "step"} => cur' \notin Top
  PROVE  TypeInv'
  BY DEF TypeInv, TypeOK, CursorHasParent, Untouched

LEMMA PodTemplateType ==
  ASSUME TypeInv, ExecutePodTemplate
  PROVE  TypeInv'
  <1> USE DEF TypeInv
  <1>1. /\ updated' \in BOOLEAN /\ pods' \in [Pod -> PodType] /\ wf' \in Workflow
        /\ pc' = "return" /\ ret' \in {"nil", "error", "timeout"}
        /\ budget' \in [Fault -> Nat]
    <2>1. CASE executeContainer(wf, cur)
      BY <2>1, ExecuteContainerType DEF TypeOK
    <2>2. CASE ReturnAtOnce
      BY <2>2 DEF ReturnAtOnce, Return, TypeOK
    <2>3. CASE Return("timeout") /\ Spend("slow") /\ UNCHANGED <<pods, wf, updated>>
      BY <2>3, SpendType DEF Return, TypeOK, Fault
    <2> QED
      BY <2>1, <2>2, <2>3 DEF ExecutePodTemplate
  <1> QED
    BY <1>1, ExecutionType
    DEF ExecutePodTemplate, Untouched, TypeOK, controller, Step

LEMMA RetryTemplateType ==
  ASSUME TypeInv, ExecuteRetryTemplate
  PROVE  TypeInv'
  <1> USE DEF TypeInv
  <1>1. /\ updated' \in BOOLEAN /\ pods' \in [Pod -> PodType] /\ wf' \in Workflow
        /\ pc' = "return" /\ ret' \in {"nil", "error", "timeout"}
        /\ budget' \in [Fault -> Nat]
    <2>1. CASE NewAttempt(cur)
      <3> DEFINE k == wf.nodes[cur].children + 1
                 w == [markNodePhase(wf, cur, "Running") EXCEPT !.nodes[cur].children = k]
      <3>1. markNodePhase(wf, cur, "Running") \in Workflow
        BY MarkNodeType DEF TypeOK, NodePhase
      <3>2. k \in Nat
        BY DEF TypeOK, Workflow, NodeStatusType
      <3> HIDE DEF k
      <3>3. w \in Workflow
        BY <3>1, <3>2 DEF Workflow, NodeStatusType
      <3>4. executeContainer(w, Kids[cur][k])
        BY <2>1 DEF NewAttempt, k
      <3> HIDE DEF w
      <3> QED
        BY <3>3, <3>4, ExecuteContainerType
    <2>2. CASE ReturnAtOnce
      BY <2>2 DEF ReturnAtOnce, Return, TypeOK
    <2>3. CASE /\ wf' = markNodePhase(wf, cur, RetryVerdict(cur))
               /\ updated' = TRUE
               /\ Return("nil")
               /\ UNCHANGED <<pods, budget>>
      <3>1. RetryVerdict(cur) \in NodePhase
        BY DEF RetryVerdict, NodePhase
      <3> QED
        BY <2>3, <3>1, MarkNodeType DEF Return, TypeOK
    <2> QED
      BY <2>1, <2>2, <2>3 DEF ExecuteRetryTemplate
  <1> QED
    BY <1>1, ExecutionType
    DEF ExecuteRetryTemplate, Untouched, TypeOK, controller, Step

LEMMA StepsTemplateType ==
  ASSUME TypeInv, ExecuteStepsTemplate
  PROVE  TypeInv'
  <1> USE DEF TypeInv
  <1>1. CASE Completed(wf.nodes[cur]) /\ ReturnAtOnce /\ UNCHANGED cur
    BY <1>1, ExecutionType
    DEF ExecuteStepsTemplate, ReturnAtOnce, Return, Untouched, TypeOK, controller, Step
  <1>2. CASE ~Completed(wf.nodes[cur]) /\ pc' = "group"
    <2>1. markNodePhase(wf, cur, "Running") \in Workflow
      BY MarkNodeType DEF TypeOK, NodePhase
    <2>2. wf' \in Workflow /\ updated' \in BOOLEAN
      BY <1>2, <2>1 DEF ExecuteStepsTemplate, ReturnAtOnce, Return, TypeOK
    <2>3. cur \in Node /\ Kids[cur] # <<>>
      BY TreeAssumption DEF ExecuteStepsTemplate, TypeOK
    <2>4. cur' \in Node /\ cur' \notin Top
      BY <1>2, <2>3, FirstChild DEF ExecuteStepsTemplate, ReturnAtOnce, Return
    <2> QED
      BY <1>2, <2>2, <2>4, ExecutionType
      DEF ExecuteStepsTemplate, ReturnAtOnce, Return, Untouched, TypeOK, controller, Step
  <1> QED
    BY <1>1, <1>2 DEF ExecuteStepsTemplate

LEMMA StepGroupType ==
  ASSUME TypeInv, executeStepGroup
  PROVE  TypeInv'
  <1> USE DEF TypeInv
  <1> DEFINE w == addChildNode(wf, Parent(cur), cur)
             g == w.nodes[cur]
  <1>1. cur \in Node /\ cur \notin Top
    BY DEF executeStepGroup, TypeOK, CursorHasParent
  <1>2. w \in Workflow
    BY <1>1, ParentExists, AddChildType DEF TypeOK
  <1>3. \/ wf' = w /\ Return("nil") /\ UNCHANGED cur
        \/ wf' = markNodePhase(w, cur, "Error") /\ Return("error") /\ UNCHANGED cur
        \/ wf' = markNodePhase(w, cur, "Succeeded") /\ Return("nil") /\ UNCHANGED cur
        \/ /\ Kids[cur] # <<>>
           /\ wf' \in {w, markNodePhase(w, cur, "Running")}
           /\ pc' = "step" /\ cur' = Kids[cur][1] /\ UNCHANGED ret
    BY DEF executeStepGroup
  <1> HIDE DEF w
  <1>4. \A phase \in NodePhase : markNodePhase(w, cur, phase) \in Workflow
    BY <1>2, MarkNodeType
  <1>5. wf' \in Workflow
    BY <1>2, <1>3, <1>4 DEF NodePhase
  <1>6. /\ pc' \in {"return", "step"} /\ ret' \in {"nil", "error", "timeout"}
        /\ cur' \in Node /\ (pc' = "step" => cur' \notin Top)
    BY <1>1, <1>3, FirstChild DEF Return, TypeOK
  <1>7. updated' \in BOOLEAN
    BY DEF executeStepGroup, TypeOK
  <1> QED
    BY <1>5, <1>6, <1>7, ExecutionType
    DEF executeStepGroup, Untouched, TypeOK, controller, cluster, Step

LEMMA LaunchStepType ==
  ASSUME TypeInv, LaunchStep
  PROVE  TypeInv'
  <1> USE DEF TypeInv
  <1> DEFINE w == addChildNode(wf, Parent(cur), cur)
  <1>1. cur \in Node /\ cur \notin Top
    BY DEF LaunchStep, TypeOK, CursorHasParent
  <1>2. w \in Workflow
    BY <1>1, ParentExists, AddChildType DEF TypeOK
  <1>3. /\ wf' \in {w, markNodePhase(w, cur, "Skipped"), markNodePhase(w, cur, "Error")}
        /\ pc' \in {"template", "return"}
        /\ ret' \in {"nil", "error", "timeout"}
    BY DEF LaunchStep, Return, TypeOK
  <1> HIDE DEF w
  <1>4. wf' \in Workflow
    BY <1>2, <1>3, MarkNodeType DEF NodePhase
  <1>5. updated' \in BOOLEAN
    BY DEF LaunchStep, TypeOK
  <1> QED
    BY <1>1, <1>3, <1>4, <1>5, ExecutionType
    DEF LaunchStep, Untouched, TypeOK, controller, cluster, Step

LEMMA StepReturnsType ==
  ASSUME TypeInv, StepReturns
  PROVE  TypeInv'
  <1> USE DEF TypeInv
  <1> DEFINE g == Parent(cur)
  <1>1. cur \in Node /\ cur \notin Top /\ pc = "return"
    BY DEF StepReturns, Returns, TypeOK
  <1>2. g \in Node /\ wf \in Workflow
    BY <1>1, ParentExists DEF TypeOK
  <1>3. CASE /\ ret = "error"
             /\ wf' = markNodePhase(markNodePhase(wf, cur, "Error"), g, "Error")
             /\ cur' = g /\ UNCHANGED pc
    <2>1. wf' \in Workflow
      BY <1>2, <1>3, MarkNodeType DEF NodePhase
    <2> QED
      BY <1>1, <1>2, <1>3, <2>1, ExecutionType
      DEF StepReturns, Untouched, TypeOK, controller, cluster
  <1>4. CASE ret = "timeout" /\ cur' = g /\ UNCHANGED <<wf, pc>>
    BY <1>1, <1>2, <1>4, ExecutionType
    DEF StepReturns, Untouched, TypeOK, controller, cluster
  <1>5. CASE /\ ret = "nil" /\ ~IsLast(g, cur)
             /\ cur' = Following(g, cur) /\ pc' = "step" /\ UNCHANGED wf
    BY <1>1, <1>2, <1>5, FollowingIsNode, ExecutionType
    DEF StepReturns, Untouched, TypeOK, controller, cluster, Step
  <1>6. CASE /\ ret = "nil" /\ IsLast(g, cur)
             /\ wf' = markNodePhase(wf, g, GroupVerdict(g))
             /\ cur' = g /\ UNCHANGED pc
    <2>1. wf' \in Workflow
      BY <1>2, <1>6, GroupVerdictType DEF markNodePhase
    <2> QED
      BY <1>1, <1>2, <1>6, <2>1, ExecutionType
      DEF StepReturns, Untouched, TypeOK, controller, cluster
  <1> QED
    BY <1>3, <1>4, <1>5, <1>6 DEF StepReturns

LEMMA GroupReturnsType ==
  ASSUME TypeInv, GroupReturns
  PROVE  TypeInv'
  <1> USE DEF TypeInv
  <1> DEFINE s == Parent(cur)
  <1>1. cur \in Node /\ cur \notin Top
    BY DEF GroupReturns, Returns, TypeOK
  <1>2. s \in Node /\ wf \in Workflow
    BY <1>1, ParentExists DEF TypeOK
  <1>3. \/ /\ wf' \in {wf, markNodePhase(wf, s, "Error"), markNodePhase(wf, s, "Failed"),
                       markNodePhase(wf, s, "Succeeded")}
           /\ cur' = s /\ pc' = "ended" /\ ret' \in {ret, "error"}
        \/ /\ ~IsLast(s, cur)
           /\ cur' = Following(s, cur) /\ pc' = "group" /\ UNCHANGED <<wf, ret>>
    BY DEF GroupReturns
  <1>4. wf' \in Workflow
    BY <1>2, <1>3, MarkNodeType DEF NodePhase
  <1>5. updated' \in BOOLEAN
    BY DEF GroupReturns, TypeOK
  <1>6. cur' \in Node /\ (pc' = "group" => cur' \notin Top) /\ pc' \in {"ended", "group"}
    BY <1>1, <1>2, <1>3, FollowingIsNode
  <1>7. ret' \in {"nil", "error", "timeout"}
    BY <1>3 DEF TypeOK
  <1> QED
    BY <1>4, <1>5, <1>6, <1>7, ExecutionType
    DEF GroupReturns, Untouched, TypeOK, controller, cluster, Step

LEMMA KillDaemonsType ==
  ASSUME TypeInv, killDeamonedChildren
  PROVE  TypeInv'
  <1> USE DEF TypeInv
  <1>1. pods' \in [Pod -> PodType]
    <2>1. \A p \in Pod : [pods[p] EXCEPT !.killed = TRUE] \in PodType /\ pods[p] \in PodType
      BY DEF TypeOK, PodType
    <2> QED
      BY <2>1 DEF killDeamonedChildren
  <1>2. /\ pc' = "return" /\ ret' \in {"nil", "error", "timeout"}
        /\ budget' \in [Fault -> Nat]
    BY SpendType DEF killDeamonedChildren, ReturnOrTimeout, Return, TypeOK, Fault
  <1> QED
    BY <1>1, <1>2, ExecutionType
    DEF killDeamonedChildren, Untouched, TypeOK, controller, Step

LEMMA TemplateReturnsType ==
  ASSUME TypeInv, TemplateReturns
  PROVE  TypeInv'
  <1> USE DEF TypeInv
  <1>1. /\ pc' \in {"persist", "template", "finish"} /\ queued' \in BOOLEAN
        /\ cur' \in {cur, OnExit} /\ (cur' # cur => OnExit # NoNode)
    BY DEF TemplateReturns, EnterTemplate, TypeOK
  <1>2. cur' \in Node
    BY <1>1, TreeAssumption DEF TypeOK
  <1> QED
    BY <1>1, <1>2, ExecutionType
    DEF TemplateReturns, Untouched, TypeOK, cluster, Step

LEMMA FewClaims ==
  ASSUME NEW S \in SUBSET Claim
  PROVE  Cardinality(S) \in 0..NumClaims
  <1>1. IsFiniteSet(Claim) /\ Cardinality(Claim) = NumClaims
    BY SpecAssumption, FS_Interval DEF Claim
  <1>2. IsFiniteSet(S) /\ Cardinality(S) <= Cardinality(Claim)
    BY <1>1, FS_Subset
  <1>3. Cardinality(S) \in Nat
    BY <1>2, FS_CardinalityType
  <1> QED
    BY <1>1, <1>2, <1>3, SpecAssumption

LEMMA FinishType ==
  ASSUME TypeInv, FinishWorkflow
  PROVE  TypeInv'
  <1> USE DEF TypeInv
  <1>1. PICK failed \in SUBSET wf.vols :
          LET w == IF failed = wf.vols THEN wf
                   ELSE [wf EXCEPT !.vols = failed, !.slots = Cardinality(failed)]
          IN  /\ pvcs' = pvcs \ (wf.vols \ failed)
              /\ \/ /\ failed = {} /\ UNCHANGED budget
                    /\ wf' = markWorkflowPhase(w, FinalPhase(w), TRUE)
                 \/ /\ failed # {} /\ Spend("api")
                    /\ wf' = markWorkflowPhase(w, "Error", FALSE)
    BY DEF FinishWorkflow
  <1> DEFINE w == IF failed = wf.vols THEN wf
                  ELSE [wf EXCEPT !.vols = failed, !.slots = Cardinality(failed)]
  <1>2. wf \in Workflow /\ failed \subseteq Claim
    BY DEF TypeOK, Workflow
  <1>3. w \in Workflow
    BY <1>2, FewClaims DEF Workflow
  <1>4. \/ wf' = markWorkflowPhase(w, FinalPhase(w), TRUE)
        \/ wf' = markWorkflowPhase(w, "Error", FALSE)
    BY <1>1
  <1> HIDE DEF w
  <1>5. wf' \in Workflow
    BY <1>3, <1>4, FinalPhaseType, MarkWorkflowType DEF NodePhase
  <1>6. budget' \in [Fault -> Nat]
    BY <1>1, SpendType DEF TypeOK, Fault
  <1>7. pvcs' \subseteq Claim
    BY <1>1 DEF TypeOK
  <1>8. updated' \in BOOLEAN
    BY DEF FinishWorkflow, TypeOK
  <1> QED
    BY <1>5, <1>6, <1>7, <1>8, ExecutionType
    DEF FinishWorkflow, Untouched, TypeOK, controller, Step

LEMMA PersistType ==
  ASSUME TypeInv, persistUpdates
  PROVE  TypeInv'
  <1> USE DEF TypeInv
  <1>1. MergePatch(store, orig, wf) \in Workflow
    BY PatchType DEF TypeOK
  <1>2. ApplyPatch => store' \in Workflow /\ watch' \in Seq(Workflow)
    BY <1>1 DEF ApplyPatch, TypeOK
  <1>3. store' \in Workflow /\ watch' \in Seq(Workflow)
    BY <1>2 DEF persistUpdates, TypeOK
  <1>4. budget' \in [Fault -> Nat]
    BY SpendType DEF persistUpdates, TypeOK, Fault
  <1>5. /\ pc' \in Step \ {"group", "step"} /\ orig' \in Workflow /\ wf' \in Workflow
        /\ updated' \in BOOLEAN /\ completedPods' \subseteq Pod
        /\ cur' \in Node /\ ret' \in {"nil", "error", "timeout"}
    <2>1. CASE ToLabeling
      BY <2>1 DEF ToLabeling, TypeOK, Step
    <2>2. CASE Leave
      BY <2>2, LeaveType DEF Step
    <2> QED
      BY <2>1, <2>2 DEF persistUpdates
  <1> QED
    BY <1>3, <1>4, <1>5 DEF persistUpdates, TypeOK, CursorHasParent, cluster

LEMMA EndType ==
  ASSUME TypeInv, NothingToPersist \/ SendCompletedPod \/ EndOperation
  PROVE  TypeInv'
  <1> USE DEF TypeInv
  <1>1. CASE SendCompletedPod
    <2>1. completedCh' \in Seq(Pod) /\ completedPods' \subseteq Pod
      BY <1>1 DEF SendCompletedPod, TypeOK
    <2> QED
      BY <1>1, <2>1 DEF SendCompletedPod, TypeOK, CursorHasParent, cluster
  <1>2. CASE NothingToPersist \/ EndOperation
    <2>1. Leave /\ UNCHANGED <<store, cluster, controller, budget>>
      BY <1>2 DEF NothingToPersist, EndOperation
    <2> QED
      BY <2>1, LeaveType DEF TypeOK, CursorHasParent, cluster, controller, Step
  <1> QED
    BY <1>1, <1>2

(* The goroutines around the worker. *)
LEMMA ControllerType ==
  ASSUME TypeInv, WatchEvent \/ Resync \/ processNextPodItem \/ podLabeler \/ Crash
  PROVE  TypeInv'
  <1> USE DEF TypeInv
  <1>1. CASE WatchEvent
    BY <1>1 DEF WatchEvent, TypeOK, CursorHasParent, cluster, operation
  <1>2. CASE Resync
    BY <1>2 DEF Resync, TypeOK, CursorHasParent, cluster, operation
  <1>3. CASE processNextPodItem
    BY <1>3 DEF processNextPodItem, TypeOK, CursorHasParent, cluster, operation
  <1>4. CASE podLabeler
    <2>1. \A p \in Pod : [pods EXCEPT ![p].labelled = TRUE] \in [Pod -> PodType]
      BY DEF TypeOK, PodType
    <2>2. pods' \in [Pod -> PodType]
      BY <1>4, <2>1 DEF podLabeler, AddPodLabel, TypeOK
    <2>3. budget' \in [Fault -> Nat]
      BY <1>4, SpendType DEF podLabeler, AddPodLabel, TypeOK, Fault
    <2>4. completedCh' \in Seq(Pod)
      BY <1>4 DEF podLabeler, TypeOK
    <2> QED
      BY <1>4, <2>2, <2>3, <2>4 DEF podLabeler, TypeOK, CursorHasParent, operation
  <1>5. CASE Crash
    <2>1. Leave /\ budget' \in [Fault -> Nat]
      BY <1>5, SpendType DEF Crash, Fault
    <2> QED
      BY <1>5, <2>1, LeaveType DEF Crash, TypeOK, CursorHasParent, cluster, Step
  <1> QED
    BY <1>1, <1>2, <1>3, <1>4, <1>5

LEMMA EnvironmentType ==
  ASSUME TypeInv, Environment
  PROVE  TypeInv'
  <1> USE DEF TypeInv
  <1>1. \A p \in Pod, from \in SUBSET PodPhase, to \in PodPhase :
          PodMoves(p, from, to) =>
            /\ pods' \in [Pod -> PodType] /\ podQueue' \subseteq Pod
            /\ UNCHANGED <<store, pvcs, watch, cache, queued, completedCh, operation>>
    BY DEF PodMoves, TypeOK, PodType
  <1>2. /\ pods' \in [Pod -> PodType] /\ podQueue' \subseteq Pod
        /\ UNCHANGED <<store, pvcs, watch, cache, queued, completedCh, operation>>
        /\ budget' \in [Fault -> Nat]
    <2>1. PICK p \in Pod : PodRuns(p) \/ DaemonReady(p) \/ PodTerminates(p)
                           \/ PodUnreachable(p) \/ PodReachable(p) \/ PodDeleted(p)
      BY DEF Environment
    <2>2. CASE PodRuns(p)
      BY <1>1, <2>2 DEF PodRuns, PodPhase, TypeOK
    <2>3. CASE DaemonReady(p)
      BY <1>1, <2>3 DEF DaemonReady, PodPhase, TypeOK
    <2>4. CASE PodTerminates(p)
      BY <1>1, <2>4 DEF PodTerminates, PodPhase, PodTerminated, TypeOK
    <2>5. CASE PodUnreachable(p)
      BY <1>1, <2>5, SpendType DEF PodUnreachable, PodPhase, Fault
    <2>6. CASE PodReachable(p)
      BY <1>1, <2>6 DEF PodReachable, PodPhase, TypeOK
    <2>7. CASE PodDeleted(p)
      <3>1. budget' \in [Fault -> Nat]
        BY <2>7, SpendType DEF PodDeleted, Fault
      <3>2. NoPod \in PodType
        BY DEF NoPod, PodType, PodPhase
      <3> QED
        BY <2>7, <3>1, <3>2 DEF PodDeleted, TypeOK
    <2> QED
      BY <2>1, <2>2, <2>3, <2>4, <2>5, <2>6, <2>7
  <1> QED
    BY <1>2 DEF TypeOK, CursorHasParent, operation

LEMMA TypeInvariant == Spec => []TypeInv
  <1>1. TypeInv /\ [Next]_vars => TypeInv'
    <2> SUFFICES ASSUME TypeInv, [Next]_vars PROVE TypeInv'
      OBVIOUS
    <2>1. CASE Worker
      BY <2>1, WorkerStartsType, ReconciliationType, CreatePVCsType, PodTemplateType,
         RetryTemplateType, StepsTemplateType, StepGroupType, LaunchStepType,
         StepReturnsType, GroupReturnsType, KillDaemonsType, TemplateReturnsType,
         FinishType, PersistType, EndType
      DEF Worker
    <2>2. CASE WatchEvent \/ Resync \/ processNextPodItem \/ podLabeler \/ Crash
      BY <2>2, ControllerType
    <2>3. CASE Environment
      BY <2>3, EnvironmentType
    <2>4. CASE UNCHANGED vars
      BY <2>4 DEF TypeInv, TypeOK, CursorHasParent, vars, cluster, controller, operation
    <2> QED
      BY <2>1, <2>2, <2>3, <2>4 DEF Next
  <1> QED
    BY TypeInit, <1>1, PTL DEF Spec

(* The type invariant of the controller is kept by every step. *)
THEOREM TypeCorrect == Spec => []TypeOK
  <1>1. TypeInv => TypeOK
    BY DEF TypeInv
  <1> QED
    BY TypeInvariant, <1>1, PTL

-----------------------------------------------------------------------------
(* A workflow that validation rejects.  Its status only ever has two forms, *)
(* in the API server, in the cache, on the way there and in an operation;   *)
(* a merge patch between two such forms gives such a form again.  So every  *)
(* operation starts with the validation and none gets beyond it.            *)

UnsetOrRejected(w) ==
  \/ w.phase = Unset /\ w.done = FALSE
  \/ w.phase = "Failed" /\ w.done = TRUE

NothingRuns ==
  /\ pvcs = {} /\ completedPods = {}
  /\ \A p \in Pod : pods[p].phase = "Absent"
  /\ pc \in {"idle", "first", "persist", "send"}

InvalidInv ==
  /\ TypeOK
  /\ NothingRuns
  /\ UnsetOrRejected(store) /\ UnsetOrRejected(cache)
  /\ UnsetOrRejected(orig) /\ UnsetOrRejected(wf)
  /\ \A i \in 1..Len(watch) : UnsetOrRejected(watch[i])

LEMMA PatchOfRejected ==
  ASSUME NEW c \in Workflow, NEW o \in Workflow, NEW n \in Workflow,
         UnsetOrRejected(c), UnsetOrRejected(o), UnsetOrRejected(n)
  PROVE  UnsetOrRejected(MergePatch(c, o, n))
  BY DEF UnsetOrRejected, MergePatch, Merge

LEMMA NewIsUnset == UnsetOrRejected(NewWorkflow)
  BY DEF UnsetOrRejected, NewWorkflow

LEMMA LeaveRejected ==
  ASSUME Leave
  PROVE  /\ pc' = "idle" /\ completedPods' = {}
         /\ UnsetOrRejected(orig') /\ UnsetOrRejected(wf')
  BY NewIsUnset DEF Leave

LEMMA InvalidInit == Init => InvalidInv
  <1> SUFFICES ASSUME Init PROVE InvalidInv
    OBVIOUS
  <1>1. TypeOK
    BY TypeInit DEF TypeInv
  <1>2. \A p \in Pod : pods[p].phase = "Absent"
    BY DEF Init, NoPod
  <1> QED
    BY <1>1, <1>2, NewIsUnset DEF Init, InvalidInv, NothingRuns

(* No action beyond the validation is enabled. *)
LEMMA InvalidWorker ==
  ASSUME ~ValidSpec, InvalidInv, Worker
  PROVE  DrainItem \/ StartOperation \/ ValidateOnce \/ NothingToPersist
         \/ persistUpdates \/ EndOperation
  <1>1. pc \in {"idle", "first", "persist", "send"} /\ completedPods = {}
    BY DEF InvalidInv, NothingRuns
  <1>2. ~podReconciliation /\ ~ListPodsFails /\ ~createPVCs
    BY <1>1 DEF podReconciliation, ListPodsFails, createPVCs
  <1>3. ~ExecutePodTemplate /\ ~ExecuteRetryTemplate /\ ~ExecuteStepsTemplate
    BY <1>1 DEF ExecutePodTemplate, ExecuteRetryTemplate, ExecuteStepsTemplate
  <1>4. ~executeStepGroup /\ ~LaunchStep /\ ~StepReturns /\ ~GroupReturns
    BY <1>1 DEF executeStepGroup, LaunchStep, StepReturns, GroupReturns, Returns
  <1>5. ~killDeamonedChildren /\ ~TemplateReturns /\ ~FinishWorkflow /\ ~SendCompletedPod
    BY <1>1 DEF killDeamonedChildren, TemplateReturns, FinishWorkflow, SendCompletedPod
  <1> QED
    BY <1>2, <1>3, <1>4, <1>5 DEF Worker

LEMMA InvalidWorkerStep ==
  ASSUME ~ValidSpec, InvalidInv, TypeOK', Worker
  PROVE  InvalidInv'
  <1> USE DEF InvalidInv
  <1>1. CASE DrainItem
    BY <1>1 DEF DrainItem, NothingRuns, cluster, operation
  <1>2. CASE StartOperation
    <2>1. cache.phase = Unset
      BY <1>2 DEF StartOperation, UnsetOrRejected
    <2> QED
      BY <1>2, <2>1 DEF StartOperation, NothingRuns, cluster
  <1>3. CASE ValidateOnce
    <2>1. UnsetOrRejected(wf')
      BY <1>3 DEF ValidateOnce, markWorkflowPhase, UnsetOrRejected, TypeOK, Workflow
    <2> QED
      BY <1>3, <2>1 DEF ValidateOnce, NothingRuns, cluster, controller
  <1>4. CASE NothingToPersist \/ EndOperation
    <2>1. Leave /\ UNCHANGED <<store, cluster, controller, budget>>
      BY <1>4 DEF NothingToPersist, EndOperation
    <2> QED
      BY <2>1, LeaveRejected DEF NothingRuns, cluster, controller
  <1>5. CASE persistUpdates
    <2>1. UnsetOrRejected(MergePatch(store, orig, wf))
      BY PatchOfRejected DEF TypeOK
    <2>2. /\ UnsetOrRejected(store')
          /\ \A i \in 1..Len(watch') : UnsetOrRejected(watch'[i])
      <3>1. CASE ApplyPatch
        <4>1. UnsetOrRejected(store')
          BY <2>1, <3>1 DEF ApplyPatch
        <4>2. watch' = Append(watch, store') /\ watch \in Seq(Workflow)
          BY <3>1 DEF ApplyPatch, TypeOK
        <4> QED
          BY <4>1, <4>2
      <3>2. CASE UNCHANGED <<store, watch>>
        BY <3>2
      <3> QED
        BY <1>5, <3>1, <3>2 DEF persistUpdates
    <2>3. /\ pc' \in {"idle", "send"} /\ completedPods' = {}
          /\ UnsetOrRejected(orig') /\ UnsetOrRejected(wf')
      <3>1. CASE ToLabeling
        BY <3>1 DEF ToLabeling, NothingRuns
      <3>2. CASE Leave
        BY <3>2, LeaveRejected
      <3> QED
        BY <1>5, <3>1, <3>2 DEF persistUpdates
    <2> QED
      BY <1>5, <2>2, <2>3 DEF persistUpdates, NothingRuns, cluster
  <1> QED
    BY <1>1, <1>2, <1>3, <1>4, <1>5, InvalidWorker

LEMMA InvalidOtherStep ==
  ASSUME InvalidInv, TypeOK',
         WatchEvent \/ Resync \/ processNextPodItem \/ podLabeler \/ Crash \/ Environment
  PROVE  InvalidInv'
  <1> USE DEF InvalidInv
  <1>1. CASE WatchEvent
    <2>1. watch \in Seq(Workflow) /\ watch # <<>>
      BY <1>1 DEF WatchEvent, TypeOK
    <2>2. UnsetOrRejected(cache')
      BY <1>1, <2>1 DEF WatchEvent
    <2>3. \A i \in 1..Len(watch') : UnsetOrRejected(watch'[i])
      BY <1>1, <2>1 DEF WatchEvent
    <2> QED
      BY <1>1, <2>2, <2>3 DEF WatchEvent, NothingRuns, cluster, operation
  <1>2. CASE Resync
    BY <1>2 DEF Resync, NothingRuns, cluster, operation
  <1>3. CASE processNextPodItem
    BY <1>3 DEF processNextPodItem, NothingRuns, cluster, operation
  <1>4. CASE podLabeler
    <2>1. pods' = pods
      BY <1>4 DEF podLabeler, AddPodLabel, NothingRuns, TypeOK
    <2> QED
      BY <1>4, <2>1 DEF podLabeler, AddPodLabel, NothingRuns, operation
  <1>5. CASE Crash
    BY <1>5, LeaveRejected DEF Crash, NothingRuns, cluster
  <1>6. CASE Environment
    BY <1>6 DEF Environment, PodRuns, DaemonReady, PodTerminates, PodUnreachable,
                PodReachable, PodDeleted, PodMoves, PodTerminated, NothingRuns
  <1> QED
    BY <1>1, <1>2, <1>3, <1>4, <1>5, <1>6

(* A workflow that validation rejects never has a pod or a claim and is    *)
(* recorded as failed, whatever the order of operations, watch events,     *)
(* restarts and lost answers.                                              *)
THEOREM InvalidNeverRuns == Spec => []InvalidRunsNothing
  <1>1. InvalidInv => InvalidRunsNothing
    BY DEF InvalidInv, NothingRuns, InvalidRunsNothing, UnsetOrRejected
  <1>2. ASSUME ~ValidSpec, InvalidInv, TypeOK', [Next]_vars
        PROVE  InvalidInv'
    <2>1. CASE UNCHANGED vars
      BY <1>2, <2>1 DEF InvalidInv, NothingRuns, vars, cluster, controller, operation
    <2> QED
      BY <1>2, <2>1, InvalidWorkerStep, InvalidOtherStep DEF Next
  <1>3. (ValidSpec \/ InvalidInv) /\ TypeOK' /\ [Next]_vars => (ValidSpec \/ InvalidInv)'
    BY <1>2
  <1>4. Init => (ValidSpec \/ InvalidInv)
    BY InvalidInit
  <1>5. (ValidSpec \/ InvalidInv) => InvalidRunsNothing
    BY <1>1 DEF InvalidRunsNothing
  <1> QED
    BY <1>3, <1>4, <1>5, TypeCorrect, PTL DEF Spec

-----------------------------------------------------------------------------
(* The number of attempts of a retried container.  The operator decides on *)
(* a new attempt from the children in its copy of the workflow, which may  *)
(* be old, and the pod is created before the child is recorded.  Two facts *)
(* carry the argument: no version of the workflow, however old, records    *)
(* more than Limit + 1 children, and a version in which the node does not  *)
(* exist records none.  The second survives a merge patch only because an  *)
(* operation starts from a version whose nodes the API server still has.   *)

Retry == {n \in Node : Kind[n] = "retry"}

AttemptsRecorded(w) ==
  \A n \in Retry : /\ w.nodes[n].children <= Limit[n] + 1
                   /\ ~Exists(w.nodes[n]) => w.nodes[n].children = 0

(* Every retry node that exists in v exists in w. *)
Preserved(v, w) == \A n \in Retry : Exists(v.nodes[n]) => Exists(w.nodes[n])

(* A change that starts no attempt. *)
Evolves(v, w) ==
  \A n \in Retry : /\ w.nodes[n].children = v.nodes[n].children
                   /\ Exists(v.nodes[n]) => Exists(w.nodes[n])

(* Attempts are not executed by themselves: the cursor never rests on one. *)
CursorInv ==
  /\ pc = "group" => Kind[Parent(cur)] = "steps"
  /\ pc = "step" => Kind[Parent(cur)] = "group"
  /\ ~IsAttempt(cur)

VersionsInv ==
  /\ AttemptsRecorded(store) /\ AttemptsRecorded(cache)
  /\ AttemptsRecorded(orig) /\ AttemptsRecorded(wf)
  /\ Preserved(cache, store) /\ Preserved(orig, store) /\ Preserved(orig, wf)
  /\ \A i \in 1..Len(watch) : AttemptsRecorded(watch[i]) /\ Preserved(watch[i], store)

NoPodBeyond(created) ==
  \A n \in Retry : \A i \in DOMAIN Kids[n] :
    i > Limit[n] + 1 => created[Kids[n][i]].phase = "Absent"

RetryInv == TypeInv /\ CursorInv /\ VersionsInv /\ NoPodBeyond(pods)

LEMMA ParentOfChild ==
  ASSUME NEW n \in Node, NEW i \in DOMAIN Kids[n]
  PROVE  Parent(Kids[n][i]) = n /\ Kind[Kids[n][i]] \in KidKinds[Kind[n]]
  <1>1. ParentOf(n, Kids[n][i])
    BY KidsAreNodes
  <1>2. ASSUME NEW p \in Node, ParentOf(p, Kids[n][i])
        PROVE  p = n
    BY <1>2, TreeAssumption DEF ParentOf
  <1>3. Parent(Kids[n][i]) = n
    BY <1>1, <1>2 DEF Parent
  <1> QED
    BY <1>3, TreeAssumption

LEMMA AttemptsArePods ==
  ASSUME NEW c \in Node, Kind[c] # "pod"
  PROVE  ~IsAttempt(c)
  <1> SUFFICES ASSUME c \notin Top, Kind[Parent(c)] = "retry"
               PROVE  FALSE
    BY DEF IsAttempt
  <1>1. PICK i \in DOMAIN Kids[Parent(c)] : Kids[Parent(c)][i] = c
    BY ParentExists DEF ParentOf
  <1>2. Kind[c] \in KidKinds["retry"]
    BY <1>1, ParentExists, ParentOfChild
  <1> QED
    BY <1>2 DEF KidKinds

(* A node of the right kind next to or above the node being executed. *)
LEMMA NextChild ==
  ASSUME NEW c \in Node, c \notin Top, ~IsLast(Parent(c), c)
  PROVE  Parent(Following(Parent(c), c)) = Parent(c)
  <1> DEFINE p == Parent(c)
             i == Order(p, c)
  <1>1. p \in Node /\ i \in DOMAIN Kids[p]
    BY ParentExists
  <1>2. Kids[p] \in Seq(Node)
    BY <1>1, TreeAssumption
  <1>3. i + 1 \in DOMAIN Kids[p]
    BY <1>1, <1>2 DEF IsLast
  <1> QED
    BY <1>1, <1>3, ParentOfChild DEF Following

LEMMA FirstChildsParent ==
  ASSUME NEW n \in Node, Kids[n] # <<>>
  PROVE  Parent(Kids[n][1]) = n /\ Kind[Kids[n][1]] \in KidKinds[Kind[n]]
  <1>1. Kids[n] \in Seq(Node)
    BY TreeAssumption
  <1>2. 1 \in DOMAIN Kids[n]
    BY <1>1
  <1> QED
    BY <1>2, ParentOfChild

LEMMA MarkEvolves ==
  ASSUME NEW w \in Workflow, NEW n, NEW phase, phase # Unset
  PROVE  Evolves(w, markNodePhase(w, n, phase))
  BY DEF Evolves, markNodePhase, Exists, Workflow, NodeStatusType, Retry

LEMMA AddChildEvolves ==
  ASSUME NEW w \in Workflow, NEW p, p \notin Retry, NEW c
  PROVE  Evolves(w, addChildNode(w, p, c))
  BY DEF Evolves, addChildNode, Exists, Workflow, NodeStatusType, Retry

LEMMA SetChildren ==
  ASSUME NEW v \in Workflow, NEW n \in Node, NEW k \in Nat
  PROVE  LET w == [v EXCEPT !.nodes[n].children = k]
         IN  /\ w \in Workflow
             /\ w.nodes[n].children = k /\ w.nodes[n].phase = v.nodes[n].phase
             /\ \A m \in Node : m # n => w.nodes[m] = v.nodes[m]
  <1>1. v.nodes \in [Node -> NodeStatusType]
    BY DEF Workflow
  <1>2. v.nodes[n] \in NodeStatusType
    BY <1>1
  <1>3. [v.nodes[n] EXCEPT !.children = k] \in NodeStatusType
    BY <1>2 DEF NodeStatusType
  <1> QED
    BY <1>1, <1>2, <1>3 DEF Workflow, NodeStatusType

LEMMA EvolvesTransitive ==
  ASSUME NEW u, NEW v, NEW w, Evolves(u, v), Evolves(v, w)
  PROVE  Evolves(u, w)
  BY DEF Evolves

LEMMA EvolvedRecorded ==
  ASSUME NEW v, NEW w, Evolves(v, w), AttemptsRecorded(v)
  PROVE  AttemptsRecorded(w)
  BY DEF Evolves, AttemptsRecorded

LEMMA EvolvedPreserved ==
  ASSUME NEW u, NEW v, NEW w, Preserved(u, v), Evolves(v, w)
  PROVE  Preserved(u, w)
  BY DEF Evolves, Preserved

LEMMA NewRecorded ==
  /\ AttemptsRecorded(NewWorkflow)
  /\ \A w : Preserved(NewWorkflow, w)
  BY SpecAssumption, SMT
  DEF AttemptsRecorded, Preserved, NewWorkflow, NoStatus, Exists, Retry

(* A merge patch keeps both facts. *)
LEMMA PatchRecorded ==
  ASSUME NEW c \in Workflow, NEW o \in Workflow, NEW n \in Workflow,
         AttemptsRecorded(c), AttemptsRecorded(o), AttemptsRecorded(n),
         Preserved(o, c), Preserved(o, n)
  PROVE  AttemptsRecorded(MergePatch(c, o, n)) /\ Preserved(c, MergePatch(c, o, n))
  BY DEF AttemptsRecorded, Preserved, MergePatch, MergeNode, Merge, Exists, Retry,
         Workflow, NodeStatusType

(* A step of the operation that starts no attempt. *)
LEMMA EvolvingStep ==
  ASSUME RetryInv, TypeInv', CursorInv',
         UNCHANGED <<store, watch, cache, orig>>,
         Evolves(wf, wf'), NoPodBeyond(pods')
  PROVE  RetryInv'
  <1>1. AttemptsRecorded(wf')
    BY EvolvedRecorded DEF RetryInv, VersionsInv
  <1>2. Preserved(orig, wf')
    BY EvolvedPreserved DEF RetryInv, VersionsInv
  <1> QED
    BY <1>1, <1>2 DEF RetryInv, VersionsInv

LEMMA Unchanging == \A w : Evolves(w, w)
  BY DEF Evolves

(* The end of an operation, whatever became of its copy. *)
LEMMA LeaveStep ==
  ASSUME RetryInv, TypeInv', Leave, UNCHANGED <<store, watch, cache, pods>>
  PROVE  RetryInv'
  <1>1. cur' = Root /\ pc' = "idle" /\ ~IsAttempt(Root)
    BY TreeAssumption DEF Leave, IsAttempt, Top
  <1>2. CursorInv'
    BY <1>1 DEF CursorInv, IsAttempt
  <1>3. orig' = NewWorkflow /\ wf' = NewWorkflow
    BY DEF Leave
  <1> QED
    BY <1>2, <1>3, NewRecorded DEF RetryInv, VersionsInv

LEMMA CreatedBeyond ==
  ASSUME RetryInv, NEW p \in Node,
         \A n \in Retry : \A i \in DOMAIN Kids[n] : Kids[n][i] = p => i <= Limit[n] + 1
  PROVE  NoPodBeyond(Created(p))
  <1> SUFFICES ASSUME NEW n \in Retry, NEW i \in DOMAIN Kids[n], i > Limit[n] + 1
               PROVE  Created(p)[Kids[n][i]].phase = "Absent"
    BY DEF NoPodBeyond
  <1>1. pods[Kids[n][i]].phase = "Absent"
    BY DEF RetryInv, NoPodBeyond
  <1>2. i \in Nat /\ Limit[n] \in Nat
    <2>1. n \in Node
      BY DEF Retry
    <2>2. Kids[n] \in Seq(Node) /\ Limit[n] \in Nat
      BY <2>1, TreeAssumption, SpecAssumption
    <2> QED
      BY <2>2
  <1>3. Kids[n][i] # p
    BY <1>2
  <1> QED
    BY <1>1, <1>3 DEF Created

LEMMA InitRetry == Init => RetryInv
  <1> SUFFICES ASSUME Init PROVE RetryInv
    OBVIOUS
  <1>1. ~IsAttempt(Root)
    BY TreeAssumption DEF IsAttempt, Top
  <1>2. NoPodBeyond(pods)
    <2> SUFFICES ASSUME NEW n \in Retry, NEW i \in DOMAIN Kids[n]
                 PROVE  pods[Kids[n][i]].phase = "Absent"
      BY DEF NoPodBeyond
    <2>1. Kids[n][i] \in Node /\ Kind[Kids[n][i]] \in KidKinds["retry"]
      BY KidsAreNodes, ParentOfChild DEF Retry
    <2>2. Kids[n][i] \in Pod
      BY <2>1 DEF KidKinds, Pod
    <2> QED
      BY <2>2 DEF Init, NoPod
  <1> QED
    BY <1>1, <1>2, TypeInit, NewRecorded DEF Init, RetryInv, CursorInv, VersionsInv

LEMMA RetryStarts ==
  ASSUME RetryInv, TypeInv', DrainItem \/ StartOperation \/ ValidateOnce
         \/ podReconciliation \/ ListPodsFails
  PROVE  RetryInv'
  <1>1. CASE DrainItem
    BY <1>1 DEF DrainItem, RetryInv, CursorInv, VersionsInv, cluster, operation
  <1>2. CASE StartOperation
    <2>1. /\ orig' = cache /\ wf' = cache /\ UNCHANGED <<store, watch, cache, pods, cur>>
          /\ pc' \in {"first", "reconcile"}
      BY <1>2 DEF StartOperation, cluster
    <2>2. CursorInv'
      BY <2>1 DEF RetryInv, CursorInv
    <2>3. Preserved(cache, cache)
      BY DEF Preserved
    <2> QED
      BY <2>1, <2>2, <2>3 DEF RetryInv, VersionsInv
  <1>3. CASE ValidateOnce
    <2>1. /\ wf'.nodes = wf.nodes
          /\ UNCHANGED <<store, watch, cache, orig, pods, cur>>
          /\ pc' \in {"pvcs", "persist"}
      BY <1>3 DEF ValidateOnce, markWorkflowPhase, cluster, controller, RetryInv,
                  TypeInv, TypeOK, Workflow
    <2>2. Evolves(wf, wf')
      BY <2>1 DEF Evolves
    <2> QED
      BY <2>1, <2>2, EvolvingStep DEF RetryInv, CursorInv
  <1>4. CASE podReconciliation
    <2>1. /\ wf' = [wf EXCEPT !.nodes = Reconciled(@)]
          /\ UNCHANGED <<store, watch, cache, orig, pods, cur>> /\ pc' = "pvcs"
      BY <1>4 DEF podReconciliation, cluster, controller
    <2>2. Evolves(wf, wf')
      <3> SUFFICES ASSUME NEW n \in Retry
                   PROVE  /\ Reconciled(wf.nodes)[n].children = wf.nodes[n].children
                          /\ Exists(wf.nodes[n]) => Exists(Reconciled(wf.nodes)[n])
        BY <2>1 DEF Evolves, RetryInv, TypeInv, TypeOK, Workflow
      <3>1. n \in Node /\ n \notin Pod /\ wf.nodes[n] \in NodeStatusType
        BY DEF Retry, Pod, RetryInv, TypeInv, TypeOK, Workflow
      <3>2. Assessed(wf.nodes)[n] = wf.nodes[n]
        BY <3>1 DEF Assessed
      <3>3. Reconciled(wf.nodes)[n] \in {wf.nodes[n], [wf.nodes[n] EXCEPT !.phase = "Error"]}
        BY <3>1, <3>2 DEF Reconciled
      <3> QED
        BY <3>1, <3>3 DEF Exists, NodeStatusType, Unset
    <2> QED
      BY <2>1, <2>2, EvolvingStep DEF RetryInv, CursorInv
  <1>5. CASE ListPodsFails
    BY <1>5, LeaveStep DEF ListPodsFails, cluster, controller
  <1> QED
    BY <1>1, <1>2, <1>3, <1>4, <1>5

LEMMA RetryCreatePVCs ==
  ASSUME RetryInv, TypeInv', createPVCs
  PROVE  RetryInv'
  <1>1. UNCHANGED <<store, watch, cache, orig, pods>>
    BY DEF createPVCs, controller
  <1>2. /\ cur' \in {cur, Root} /\ pc' \in {"template", "persist"}
    BY DEF createPVCs, EnterTemplate
  <1>3. ~IsAttempt(Root)
    BY TreeAssumption DEF IsAttempt, Top
  <1>4. CursorInv'
    BY <1>2, <1>3 DEF RetryInv, CursorInv
  <1>5. wf \in Workflow
    BY DEF RetryInv, TypeInv, TypeOK
  <1>6. wf'.nodes \in {wf.nodes, [wf.nodes EXCEPT ![Root].phase = "Error"]}
    BY <1>5 DEF createPVCs, markWorkflowPhase, markNodePhase, Workflow
  <1>7. Evolves(wf, wf')
    <2> SUFFICES ASSUME NEW n \in Retry
                 PROVE  /\ wf'.nodes[n].children = wf.nodes[n].children
                        /\ Exists(wf.nodes[n]) => Exists(wf'.nodes[n])
      BY DEF Evolves
    <2>1. n \in Node /\ wf.nodes \in [Node -> NodeStatusType]
      BY <1>5 DEF Workflow, Retry
    <2>2. wf'.nodes[n] \in {wf.nodes[n], [wf.nodes[n] EXCEPT !.phase = "Error"]}
      BY <1>6, <2>1
    <2> QED
      BY <2>1, <2>2 DEF Exists, NodeStatusType, Unset
  <1> QED
    BY <1>1, <1>4, <1>7, EvolvingStep DEF RetryInv

LEMMA RetryPodTemplate ==
  ASSUME RetryInv, TypeInv', ExecutePodTemplate
  PROVE  RetryInv'
  <1>1. wf \in Workflow /\ cur \in Node
    BY DEF RetryInv, TypeInv, TypeOK
  <1>2. wf' \in {wf, markNodePhase(wf, cur, "Running"), markNodePhase(wf, cur, "Error")}
    BY DEF ExecutePodTemplate, executeContainer, ReturnAtOnce
  <1>3. Evolves(wf, wf')
    BY <1>1, <1>2, MarkEvolves, Unchanging DEF Unset
  <1>4. pods' = pods \/ pods' = Created(cur)
    BY DEF ExecutePodTemplate, executeContainer, ReturnAtOnce
  <1>5. ~IsAttempt(cur)
    BY DEF RetryInv, CursorInv
  <1>6. \A n \in Retry : \A i \in DOMAIN Kids[n] : Kids[n][i] # cur
    BY <1>5, KidsAreNodes, ParentOfChild DEF IsAttempt, Retry
  <1>7. NoPodBeyond(pods')
    BY <1>1, <1>4, <1>6, CreatedBeyond DEF RetryInv
  <1>8. UNCHANGED <<store, watch, cache, orig, cur>> /\ pc' = "return"
    BY DEF ExecutePodTemplate, executeContainer, ReturnAtOnce, ReturnOrTimeout, Return, controller
  <1>9. CursorInv'
    BY <1>5, <1>8 DEF CursorInv
  <1> QED
    BY <1>3, <1>7, <1>8, <1>9, EvolvingStep

(* The one action that starts an attempt. *)
LEMMA RetryRetryTemplate ==
  ASSUME RetryInv, TypeInv', ExecuteRetryTemplate
  PROVE  RetryInv'
  <1>1. wf \in Workflow /\ cur \in Retry /\ cur \in Node
    BY DEF RetryInv, TypeInv, TypeOK, ExecuteRetryTemplate, Retry
  <1>2. UNCHANGED <<store, watch, cache, orig, cur>> /\ pc' = "return"
    BY DEF ExecuteRetryTemplate, NewAttempt, executeContainer, ReturnAtOnce,
           ReturnOrTimeout, Return, controller
  <1>3. CursorInv'
    BY <1>2 DEF RetryInv, CursorInv
  <1>4. CASE UNCHANGED pods /\ wf' \in {wf, markNodePhase(wf, cur, RetryVerdict(cur))}
    <2>1. RetryVerdict(cur) # Unset
      BY DEF RetryVerdict, Unset
    <2>2. Evolves(wf, wf')
      BY <1>1, <1>4, <2>1, MarkEvolves, Unchanging
    <2> QED
      BY <1>2, <1>3, <1>4, <2>2, EvolvingStep DEF RetryInv
  <1>5. CASE /\ NewAttempt(cur)
             /\ Exists(wf.nodes[cur]) => RetryVerdict(cur) = "Running"
    <2> DEFINE k == wf.nodes[cur].children + 1
               w == [markNodePhase(wf, cur, "Running") EXCEPT !.nodes[cur].children = k]
    <2>1. wf.nodes[cur].children <= Limit[cur]
      <3>1. Limit[cur] \in Nat /\ wf.nodes[cur].children \in Nat
        BY <1>1, SpecAssumption DEF Workflow, NodeStatusType
      <3>2. CASE ~Exists(wf.nodes[cur])
        BY <1>1, <3>1, <3>2 DEF RetryInv, VersionsInv, AttemptsRecorded
      <3>3. CASE Exists(wf.nodes[cur])
        BY <1>5, <3>1, <3>3 DEF RetryVerdict
      <3> QED
        BY <3>2, <3>3
    <2>2. k \in Nat /\ k <= Limit[cur] + 1 /\ Limit[cur] \in Nat
      BY <1>1, <2>1, SpecAssumption DEF Workflow, NodeStatusType
    <2>3. k \in DOMAIN Kids[cur] /\ executeContainer(w, Kids[cur][k])
      BY <1>5 DEF NewAttempt
    <2>4. Kids[cur][k] \in Node
      BY <1>1, <2>3, KidsAreNodes
    <2>5. \A n \in Retry : \A i \in DOMAIN Kids[n] :
            Kids[n][i] = Kids[cur][k] => i <= Limit[n] + 1
      <3> SUFFICES ASSUME NEW n \in Retry, NEW i \in DOMAIN Kids[n], Kids[n][i] = Kids[cur][k]
                   PROVE  i <= Limit[n] + 1
        OBVIOUS
      <3> HIDE DEF k
      <3>1. n = cur /\ i = k
        BY <1>1, <2>3, TreeAssumption DEF Retry
      <3> QED
        BY <2>2, <3>1
    <2>6. NoPodBeyond(pods')
      <3>1. pods' = pods \/ pods' = Created(Kids[cur][k])
        BY <2>3 DEF executeContainer
      <3> HIDE DEF k
      <3> QED
        BY <2>4, <2>5, <3>1, CreatedBeyond DEF RetryInv
    <2> HIDE DEF k
    <2>7. /\ \A n \in Retry : n # cur => w.nodes[n] = wf.nodes[n]
          /\ w.nodes[cur].children = k /\ Exists(w.nodes[cur])
          /\ w \in Workflow
      <3>1. markNodePhase(wf, cur, "Running") \in Workflow
        BY <1>1, MarkNodeType DEF NodePhase
      <3>2. /\ \A n \in Node : n # cur => markNodePhase(wf, cur, "Running").nodes[n] = wf.nodes[n]
            /\ markNodePhase(wf, cur, "Running").nodes[cur].phase = "Running"
        BY <1>1 DEF markNodePhase, Workflow, NodeStatusType
      <3>3. w \in Workflow /\ w.nodes[cur].children = k /\ w.nodes[cur].phase = "Running"
        BY <1>1, <2>2, <3>1, <3>2, SetChildren
      <3>4. \A n \in Retry : n # cur => w.nodes[n] = wf.nodes[n]
        BY <1>1, <2>2, <3>1, <3>2, SetChildren DEF Retry
      <3> QED
        BY <3>3, <3>4 DEF Exists, Unset
    <2> HIDE DEF w
    <2>8. wf' \in {markNodePhase(w, Kids[cur][k], "Running"), markNodePhase(w, Kids[cur][k], "Error")}
      BY <2>3 DEF executeContainer
    <2>9. Evolves(w, wf')
      BY <2>7, <2>8, MarkEvolves DEF Unset
    <2>10. AttemptsRecorded(w) /\ Preserved(orig, w)
      BY <2>2, <2>7 DEF RetryInv, VersionsInv, AttemptsRecorded, Preserved
    <2>11. AttemptsRecorded(wf') /\ Preserved(orig, wf')
      BY <2>9, <2>10, EvolvedRecorded, EvolvedPreserved
    <2> QED
      BY <1>2, <1>3, <2>6, <2>11 DEF RetryInv, VersionsInv
  <1> QED
    BY <1>4, <1>5 DEF ExecuteRetryTemplate, ReturnAtOnce

LEMMA RetryStepsTemplate ==
  ASSUME RetryInv, TypeInv', ExecuteStepsTemplate
  PROVE  RetryInv'
  <1>1. wf \in Workflow /\ cur \in Node /\ Kind[cur] = "steps"
    BY DEF RetryInv, TypeInv, TypeOK, ExecuteStepsTemplate
  <1>2. UNCHANGED <<store, watch, cache, orig, pods>>
    BY DEF ExecuteStepsTemplate, ReturnAtOnce, controller
  <1>3. wf' \in {wf, markNodePhase(wf, cur, "Running")}
    BY DEF ExecuteStepsTemplate, ReturnAtOnce
  <1>4. Evolves(wf, wf')
    BY <1>1, <1>3, MarkEvolves, Unchanging DEF Unset
  <1>5. CursorInv'
    <2>1. CASE cur' = cur /\ pc' = "return"
      BY <2>1 DEF RetryInv, CursorInv
    <2>2. CASE cur' = Kids[cur][1] /\ pc' = "group"
      <3>1. Kids[cur] # <<>>
        BY <1>1, TreeAssumption
      <3>2. cur' \in Node /\ Parent(cur') = cur /\ Kind[cur'] \in KidKinds["steps"]
        BY <1>1, <2>2, <3>1, FirstChild, FirstChildsParent
      <3>3. Kind[cur'] = "group"
        BY <3>2 DEF KidKinds
      <3> QED
        BY <1>1, <2>2, <3>2, <3>3 DEF CursorInv, IsAttempt
    <2> QED
      BY <2>1, <2>2 DEF ExecuteStepsTemplate, ReturnAtOnce, Return
  <1> QED
    BY <1>2, <1>4, <1>5, EvolvingStep DEF RetryInv

LEMMA RetryStepGroup ==
  ASSUME RetryInv, TypeInv', executeStepGroup
  PROVE  RetryInv'
  <1> DEFINE w == addChildNode(wf, Parent(cur), cur)
  <1>1. wf \in Workflow /\ cur \in Node /\ cur \notin Top /\ Kind[Parent(cur)] = "steps"
    BY DEF RetryInv, TypeInv, TypeOK, CursorHasParent, CursorInv, executeStepGroup
  <1>2. UNCHANGED <<store, watch, cache, orig, pods>>
    BY DEF executeStepGroup, controller, cluster
  <1>3. Evolves(wf, w) /\ w \in Workflow
    BY <1>1, AddChildEvolves, AddChildType, ParentExists DEF Retry
  <1>4. wf' \in {w, markNodePhase(w, cur, "Error"), markNodePhase(w, cur, "Succeeded"),
                 markNodePhase(w, cur, "Running")}
    BY DEF executeStepGroup
  <1> HIDE DEF w
  <1>5. Evolves(w, wf')
    BY <1>3, <1>4, MarkEvolves, Unchanging DEF Unset
  <1>6. Evolves(wf, wf')
    BY <1>3, <1>5, EvolvesTransitive
  <1>7. Kind[cur] = "group"
    <2>1. PICK i \in DOMAIN Kids[Parent(cur)] : Kids[Parent(cur)][i] = cur
      BY <1>1, ParentExists DEF ParentOf
    <2>2. Kind[cur] \in KidKinds["steps"]
      BY <1>1, <2>1, ParentExists, ParentOfChild
    <2> QED
      BY <2>2 DEF KidKinds
  <1>8. CursorInv'
    <2>1. CASE cur' = cur /\ pc' = "return"
      BY <2>1 DEF RetryInv, CursorInv
    <2>2. CASE Kids[cur] # <<>> /\ cur' = Kids[cur][1] /\ pc' = "step"
      <3>1. cur' \in Node /\ Parent(cur') = cur
        BY <1>1, <2>2, FirstChild, FirstChildsParent
      <3> QED
        BY <1>7, <2>2, <3>1 DEF CursorInv, IsAttempt
    <2> QED
      BY <2>1, <2>2 DEF executeStepGroup, Return
  <1> QED
    BY <1>2, <1>6, <1>8, EvolvingStep DEF RetryInv

LEMMA RetryLaunchStep ==
  ASSUME RetryInv, TypeInv', LaunchStep
  PROVE  RetryInv'
  <1> DEFINE w == addChildNode(wf, Parent(cur), cur)
  <1>1. wf \in Workflow /\ cur \in Node /\ cur \notin Top /\ Kind[Parent(cur)] = "group"
    BY DEF RetryInv, TypeInv, TypeOK, CursorHasParent, CursorInv, LaunchStep
  <1>2. UNCHANGED <<store, watch, cache, orig, pods, cur>> /\ pc' \in {"template", "return"}
    BY DEF LaunchStep, Return, controller, cluster
  <1>3. Evolves(wf, w) /\ w \in Workflow
    BY <1>1, AddChildEvolves, AddChildType, ParentExists DEF Retry
  <1>4. wf' \in {w, markNodePhase(w, cur, "Skipped"), markNodePhase(w, cur, "Error")}
    BY DEF LaunchStep
  <1> HIDE DEF w
  <1>5. Evolves(w, wf')
    BY <1>3, <1>4, MarkEvolves, Unchanging DEF Unset
  <1>6. Evolves(wf, wf')
    BY <1>3, <1>5, EvolvesTransitive
  <1>7. CursorInv'
    BY <1>2 DEF RetryInv, CursorInv
  <1> QED
    BY <1>2, <1>6, <1>7, EvolvingStep DEF RetryInv

LEMMA RetryStepReturns ==
  ASSUME RetryInv, TypeInv', StepReturns
  PROVE  RetryInv'
  <1> DEFINE g == Parent(cur)
  <1>1. /\ wf \in Workflow /\ cur \in Node /\ cur \notin Top /\ Kind[g] = "group"
        /\ pc = "return"
    BY DEF RetryInv, TypeInv, TypeOK, StepReturns, Returns
  <1>2. UNCHANGED <<store, watch, cache, orig, pods>>
    BY DEF StepReturns, controller, cluster
  <1>3. g \in Node /\ g \notin Retry /\ ~IsAttempt(g)
    BY <1>1, ParentExists, AttemptsArePods DEF Retry
  <1>4. Evolves(wf, wf')
    <2>1. CASE wf' = markNodePhase(markNodePhase(wf, cur, "Error"), g, "Error")
      <3>1. markNodePhase(wf, cur, "Error") \in Workflow
        BY <1>1, MarkNodeType DEF NodePhase
      <3> QED
        BY <1>1, <2>1, <3>1, MarkEvolves, EvolvesTransitive DEF Unset
    <2>2. CASE wf' = markNodePhase(wf, g, GroupVerdict(g))
      BY <1>1, <1>3, <2>2 DEF Evolves, markNodePhase, Workflow, Retry
    <2>3. CASE wf' = wf
      BY <2>3, Unchanging
    <2> QED
      BY <2>1, <2>2, <2>3 DEF StepReturns
  <1>5. CursorInv'
    <2>1. CASE cur' = g /\ pc' = "return"
      BY <1>3, <2>1 DEF CursorInv, IsAttempt
    <2>2. CASE ~IsLast(g, cur) /\ cur' = Following(g, cur) /\ pc' = "step"
      <3>1. Parent(cur') = g
        BY <1>1, <2>2, NextChild
      <3> QED
        BY <1>1, <2>2, <3>1 DEF CursorInv, IsAttempt
    <2> QED
      BY <1>1, <2>1, <2>2 DEF StepReturns
  <1> QED
    BY <1>2, <1>4, <1>5, EvolvingStep DEF RetryInv

LEMMA RetryGroupReturns ==
  ASSUME RetryInv, TypeInv', GroupReturns
  PROVE  RetryInv'
  <1> DEFINE s == Parent(cur)
  <1>1. wf \in Workflow /\ cur \in Node /\ cur \notin Top /\ Kind[s] = "steps"
    BY DEF RetryInv, TypeInv, TypeOK, GroupReturns, Returns
  <1>2. UNCHANGED <<store, watch, cache, orig, pods>>
    BY DEF GroupReturns, controller, cluster
  <1>3. s \in Node /\ ~IsAttempt(s)
    BY <1>1, ParentExists, AttemptsArePods
  <1>4. \/ /\ wf' \in {wf, markNodePhase(wf, s, "Error"), markNodePhase(wf, s, "Failed"),
                       markNodePhase(wf, s, "Succeeded")}
           /\ cur' = s /\ pc' = "ended"
        \/ /\ ~IsLast(s, cur)
           /\ cur' = Following(s, cur) /\ pc' = "group" /\ wf' = wf
    BY DEF GroupReturns
  <1>5. Evolves(wf, wf')
    BY <1>1, <1>4, MarkEvolves, Unchanging DEF Unset
  <1>6. CursorInv'
    <2>1. CASE cur' = s /\ pc' = "ended"
      BY <1>3, <2>1 DEF CursorInv, IsAttempt
    <2>2. CASE ~IsLast(s, cur) /\ cur' = Following(s, cur) /\ pc' = "group"
      <3>1. Parent(cur') = s
        BY <1>1, <2>2, NextChild
      <3> QED
        BY <1>1, <2>2, <3>1 DEF CursorInv, IsAttempt
    <2> QED
      BY <1>4, <2>1, <2>2
  <1> QED
    BY <1>2, <1>5, <1>6, EvolvingStep DEF RetryInv

LEMMA RetryKillDaemons ==
  ASSUME RetryInv, TypeInv', killDeamonedChildren
  PROVE  RetryInv'
  <1>1. UNCHANGED <<store, watch, cache, orig, wf, cur>> /\ pc' = "return"
    BY DEF killDeamonedChildren, ReturnOrTimeout, Return, controller
  <1>2. CursorInv'
    BY <1>1 DEF RetryInv, CursorInv
  <1>3. \A p \in Pod : pods'[p].phase = pods[p].phase
    BY DEF killDeamonedChildren, RetryInv, TypeInv, TypeOK, PodType
  <1>4. \A n \in Retry : \A i \in DOMAIN Kids[n] : Kids[n][i] \in Pod
    BY KidsAreNodes, ParentOfChild DEF Retry, Pod, KidKinds
  <1>5. NoPodBeyond(pods')
    BY <1>3, <1>4 DEF RetryInv, NoPodBeyond
  <1> QED
    BY <1>1, <1>2, <1>5, EvolvingStep, Unchanging

LEMMA RetryTemplateReturns ==
  ASSUME RetryInv, TypeInv', TemplateReturns
  PROVE  RetryInv'
  <1>1. /\ UNCHANGED <<store, watch, cache, orig, wf, pods>>
        /\ cur \in Top /\ (cur' = cur \/ (cur' = OnExit /\ OnExit # NoNode))
        /\ pc' \in {"persist", "template", "finish"}
    BY DEF TemplateReturns, EnterTemplate, cluster
  <1>2. cur' \in Top
    BY <1>1 DEF Top
  <1>3. CursorInv'
    BY <1>1, <1>2 DEF CursorInv, IsAttempt
  <1> QED
    BY <1>1, <1>3, EvolvingStep, Unchanging DEF RetryInv

LEMMA RetryFinish ==
  ASSUME RetryInv, TypeInv', FinishWorkflow
  PROVE  RetryInv'
  <1>1. /\ UNCHANGED <<store, watch, cache, orig, pods, cur>> /\ pc' = "persist"
    BY DEF FinishWorkflow, controller
  <1>2. wf'.nodes = wf.nodes
    BY DEF FinishWorkflow, markWorkflowPhase, RetryInv, TypeInv, TypeOK, Workflow
  <1>3. Evolves(wf, wf')
    BY <1>2 DEF Evolves
  <1>4. CursorInv'
    BY <1>1 DEF RetryInv, CursorInv
  <1> QED
    BY <1>1, <1>3, <1>4, EvolvingStep DEF RetryInv

LEMMA RetryApplyPatch ==
  ASSUME RetryInv, ApplyPatch
  PROVE  /\ AttemptsRecorded(store') /\ Preserved(store, store')
         /\ Preserved(cache, store') /\ Preserved(orig, store')
         /\ \A i \in 1..Len(watch') : AttemptsRecorded(watch'[i]) /\ Preserved(watch'[i], store')
  <1>1. store' = MergePatch(store, orig, wf) /\ watch' = Append(watch, store')
    BY DEF ApplyPatch
  <1>2. store \in Workflow /\ orig \in Workflow /\ wf \in Workflow /\ watch \in Seq(Workflow)
    BY DEF RetryInv, TypeInv, TypeOK
  <1>3. AttemptsRecorded(store') /\ Preserved(store, store')
    BY <1>1, <1>2, PatchRecorded DEF RetryInv, VersionsInv
  <1>4. \A w : Preserved(w, store) => Preserved(w, store')
    BY <1>3 DEF Preserved
  <1>5. \A i \in 1..Len(watch) : AttemptsRecorded(watch[i]) /\ Preserved(watch[i], store')
    BY <1>4 DEF RetryInv, VersionsInv
  <1>6. Preserved(store', store')
    BY DEF Preserved
  <1>7. \A i \in 1..Len(watch') : AttemptsRecorded(watch'[i]) /\ Preserved(watch'[i], store')
    <2> SUFFICES ASSUME NEW i \in 1..Len(watch')
                 PROVE  AttemptsRecorded(watch'[i]) /\ Preserved(watch'[i], store')
      OBVIOUS
    <2>1. (i \in 1..Len(watch) /\ watch'[i] = watch[i]) \/ watch'[i] = store'
      BY <1>1, <1>2
    <2> QED
      BY <1>3, <1>5, <1>6, <2>1
  <1> QED
    BY <1>3, <1>4, <1>7 DEF RetryInv, VersionsInv

LEMMA RetryPersist ==
  ASSUME RetryInv, TypeInv', persistUpdates
  PROVE  RetryInv'
  <1>1. UNCHANGED <<cache, pods>>
    BY DEF persistUpdates, cluster
  <1>2. /\ AttemptsRecorded(store') /\ Preserved(cache, store') /\ Preserved(orig, store')
        /\ \A i \in 1..Len(watch') : AttemptsRecorded(watch'[i]) /\ Preserved(watch'[i], store')
    <2>1. CASE ApplyPatch
      BY <2>1, RetryApplyPatch
    <2>2. CASE UNCHANGED <<store, watch>>
      BY <2>2 DEF RetryInv, VersionsInv
    <2> QED
      BY <2>1, <2>2 DEF persistUpdates
  <1>3. CASE ToLabeling
    <2>1. UNCHANGED <<orig, wf, cur>> /\ pc' = "send"
      BY <1>3 DEF ToLabeling
    <2> QED
      BY <1>1, <1>2, <2>1 DEF RetryInv, VersionsInv, CursorInv
  <1>4. CASE Leave
    <2>1. cur' = Root /\ pc' = "idle" /\ orig' = NewWorkflow /\ wf' = NewWorkflow
      BY <1>4 DEF Leave
    <2>2. CursorInv'
      BY <2>1, TreeAssumption DEF CursorInv, IsAttempt, Top
    <2> QED
      BY <1>1, <1>2, <2>1, <2>2, NewRecorded DEF RetryInv, VersionsInv
  <1> QED
    BY <1>3, <1>4 DEF persistUpdates

LEMMA RetryEnds ==
  ASSUME RetryInv, TypeInv', NothingToPersist \/ SendCompletedPod \/ EndOperation
  PROVE  RetryInv'
  <1>1. CASE SendCompletedPod
    BY <1>1 DEF SendCompletedPod, RetryInv, CursorInv, VersionsInv, cluster
  <1>2. CASE NothingToPersist \/ EndOperation
    BY <1>2, LeaveStep DEF NothingToPersist, EndOperation, cluster, controller
  <1> QED
    BY <1>1, <1>2

LEMMA RetryAround ==
  ASSUME RetryInv, TypeInv',
         WatchEvent \/ Resync \/ processNextPodItem \/ podLabeler \/ Crash
  PROVE  RetryInv'
  <1> USE DEF RetryInv
  <1>1. CASE WatchEvent
    <2>1. watch \in Seq(Workflow) /\ watch # <<>>
      BY <1>1 DEF WatchEvent, TypeInv, TypeOK
    <2>2. AttemptsRecorded(cache') /\ Preserved(cache', store)
      BY <1>1, <2>1 DEF WatchEvent, VersionsInv
    <2>3. \A i \in 1..Len(watch') : AttemptsRecorded(watch'[i]) /\ Preserved(watch'[i], store)
      BY <1>1, <2>1 DEF WatchEvent, VersionsInv
    <2> QED
      BY <1>1, <2>2, <2>3 DEF WatchEvent, VersionsInv, CursorInv, cluster, operation
  <1>2. CASE Resync \/ processNextPodItem
    BY <1>2 DEF Resync, processNextPodItem, VersionsInv, CursorInv, cluster, operation
  <1>3. CASE podLabeler
    <2>1. \A p \in Pod : pods'[p].phase = pods[p].phase
      <3>1. pods \in [Pod -> PodType] /\ AddPodLabel(Head(completedCh))
        BY <1>3 DEF podLabeler, TypeInv, TypeOK
      <3>2. \A q, p \in Pod : [pods EXCEPT ![q].labelled = TRUE][p].phase = pods[p].phase
        BY <3>1 DEF PodType
      <3>3. Head(completedCh) \in Pod
        BY <1>3 DEF podLabeler, TypeInv, TypeOK
      <3> QED
        BY <3>1, <3>2, <3>3 DEF AddPodLabel
    <2>2. \A n \in Retry : \A i \in DOMAIN Kids[n] : Kids[n][i] \in Pod
      BY KidsAreNodes, ParentOfChild DEF Retry, Pod, KidKinds
    <2>3. NoPodBeyond(pods')
      BY <2>1, <2>2 DEF NoPodBeyond
    <2> QED
      BY <1>3, <2>3 DEF podLabeler, AddPodLabel, VersionsInv, CursorInv, operation
  <1>4. CASE Crash
    <2>1. cur' = Root /\ pc' = "idle" /\ orig' = NewWorkflow /\ wf' = NewWorkflow
      BY <1>4 DEF Crash, Leave
    <2>2. CursorInv'
      BY <2>1, TreeAssumption DEF CursorInv, IsAttempt, Top
    <2>3. Preserved(store, store)
      BY DEF Preserved
    <2> QED
      BY <1>4, <2>1, <2>2, <2>3, NewRecorded DEF Crash, VersionsInv, cluster
  <1> QED
    BY <1>1, <1>2, <1>3, <1>4

LEMMA RetryEnvironment ==
  ASSUME RetryInv, TypeInv', Environment
  PROVE  RetryInv'
  <1>1. UNCHANGED <<store, watch, cache, operation>>
    BY DEF Environment, PodRuns, DaemonReady, PodTerminates, PodUnreachable, PodReachable,
           PodDeleted, PodMoves
  <1>2. ASSUME NEW q \in Pod, pods[q].phase = "Absent"
        PROVE  pods'[q].phase = "Absent"
    BY <1>2 DEF Environment, PodRuns, DaemonReady, PodTerminates, PodUnreachable,
                PodReachable, PodDeleted, PodMoves, PodTerminated, NoPod,
                RetryInv, TypeInv, TypeOK
  <1>3. \A n \in Retry : \A i \in DOMAIN Kids[n] : Kids[n][i] \in Pod
    BY KidsAreNodes, ParentOfChild DEF Retry, Pod, KidKinds
  <1>4. NoPodBeyond(pods')
    BY <1>2, <1>3 DEF RetryInv, NoPodBeyond
  <1> QED
    BY <1>1, <1>4 DEF RetryInv, VersionsInv, CursorInv, operation

(* The pods of a retry node, counted by their place among its children. *)
LEMMA FewAttempts ==
  ASSUME TypeOK, NoPodBeyond(pods), NEW n \in Retry
  PROVE  Cardinality({p \in Attempts(n) : pods[p].phase # "Absent"}) <= Limit[n] + 1
  <1> DEFINE T == {p \in Attempts(n) : pods[p].phase # "Absent"}
             f == [p \in T |-> Order(n, p)]
             bound == Limit[n] + 1
  <1>1. n \in Node /\ Limit[n] \in Nat /\ Kids[n] \in Seq(Node)
    BY TreeAssumption, SpecAssumption DEF Retry
  <1>2. ASSUME NEW p \in T
        PROVE  f[p] \in 1..bound /\ Kids[n][f[p]] = p
    <2>1. \E i \in DOMAIN Kids[n] : Kids[n][i] = p
      BY DEF Attempts, Recorded
    <2>2. Order(n, p) \in DOMAIN Kids[n] /\ Kids[n][Order(n, p)] = p
      BY <2>1 DEF Order
    <2>3. ~(Order(n, p) > bound)
      BY <2>2 DEF NoPodBeyond
    <2> QED
      BY <1>1, <2>2, <2>3
  <1>3. f \in Injection(T, 1..bound)
    <2>1. f \in [T -> 1..bound]
      BY <1>2
    <2>2. \A p, q \in T : f[p] = f[q] => p = q
      BY <1>2
    <2> HIDE DEF f, T
    <2> QED
      BY <2>1, <2>2 DEF Injection, IsInjective
  <1>4. IsFiniteSet(1..bound) /\ Cardinality(1..bound) = bound
    <2>1. bound \in Nat /\ 1 \in Int /\ bound \in Int
      BY <1>1
    <2> HIDE DEF bound
    <2> QED
      BY <2>1, FS_Interval
  <1> HIDE DEF f, T
  <1>5. Cardinality(T) <= bound
    BY <1>3, <1>4, FS_Injection
  <1> QED
    BY <1>5 DEF T

LEMMA RetryStep == RetryInv /\ TypeInv' /\ [Next]_vars => RetryInv'
  <1> SUFFICES ASSUME RetryInv, TypeInv', [Next]_vars PROVE RetryInv'
    OBVIOUS
  <1>1. CASE Worker
    BY <1>1, RetryStarts, RetryCreatePVCs, RetryPodTemplate, RetryRetryTemplate,
       RetryStepsTemplate, RetryStepGroup, RetryLaunchStep, RetryStepReturns,
       RetryGroupReturns, RetryKillDaemons, RetryTemplateReturns, RetryFinish,
       RetryPersist, RetryEnds
    DEF Worker
  <1>2. CASE WatchEvent \/ Resync \/ processNextPodItem \/ podLabeler \/ Crash
    BY <1>2, RetryAround
  <1>3. CASE Environment
    BY <1>3, RetryEnvironment
  <1>4. CASE UNCHANGED vars
    BY <1>4 DEF RetryInv, CursorInv, VersionsInv, vars, cluster, controller, operation
  <1> QED
    BY <1>1, <1>2, <1>3, <1>4 DEF Next

LEMMA RetryInvariant == Spec => []RetryInv
  BY InitRetry, TypeInvariant, RetryStep, PTL DEF Spec

(* However stale the copies an operation starts from, and wherever the     *)
(* controller restarts, a retried container never gets more pods than its  *)
(* limit allows on top of the first one.                                   *)
THEOREM RetriesNeverExceed == Spec => []RetriesBounded
  <1>1. RetryInv => RetriesBounded
    BY FewAttempts DEF RetryInv, TypeInv, RetriesBounded, Retry
  <1> QED
    BY RetryInvariant, <1>1, PTL
=============================================================================
