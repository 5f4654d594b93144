---------------------------- MODULE Success_proofs ----------------------------
(***************************************************************************)
(* A workflow only succeeds when its steps have, and a step is only        *)
(* started when the groups before it have succeeded, if operations start   *)
(* from the last persisted version.  A node's success is recorded on three *)
(* grounds: a pod's on its pod, a retry node's on its last attempt, that   *)
(* of a group or a template of steps on the success of its children.  The  *)
(* invariant is that these grounds persist: a pod that counted once is     *)
(* never created again, as its node exists in every later version.  For a  *)
(* group and a template the operator does not look at the nodes below, and *)
(* for the groups before the one it returns from not even at the children; *)
(* it relies on how it got there, which the invariant says for the node    *)
(* being executed.                                                         *)
(***************************************************************************)
EXTENDS InSync_proofs

-----------------------------------------------------------------------------
(* The nodes below a node. *)

LEMMA WithinItself ==
  ASSUME NEW n \in Node
  PROVE  n \in Within[n] /\ Within[n] \subseteq Node
  BY DEF Within

LEMMA WithinDown ==
  ASSUME NEW n \in Node, NEW m \in Within[n], NEW i \in DOMAIN Kids[m]
  PROVE  Kids[m][i] \in Within[n]
  <1>1. m \in Node /\ \A S \in ClosedSets : n \in S => m \in S
    BY DEF Within
  <1>2. Kids[m][i] \in Node
    BY <1>1, KidsAreNodes
  <1>3. \A S \in ClosedSets : m \in S => Kids[m][i] \in S
    BY DEF ClosedSets
  <1> QED
    BY <1>1, <1>2, <1>3 DEF Within

LEMMA WithinTransitive ==
  ASSUME NEW n \in Node, NEW m \in Within[n]
  PROVE  Within[m] \subseteq Within[n]
  BY DEF Within

(* What a closed set holds it holds with everything below. *)
LEMMA WithinClosed ==
  ASSUME NEW S \in ClosedSets, NEW n \in S
  PROVE  Within[n] \subseteq S
  BY DEF Within, ClosedSets

(* A node below another one is there because its parent is. *)
LEMMA WithinUp ==
  ASSUME NEW n \in Node, NEW c \in Within[n], c # n
  PROVE  c \notin Top /\ Parent(c) \in Within[n]
  <1>1. c \in Node /\ \A S \in ClosedSets : n \in S => c \in S
    BY DEF Within
  <1> DEFINE S == Within[n] \ {c}
  <1>2. S \subseteq Node /\ n \in S /\ c \notin S
    BY WithinItself
  <1>3. S \notin ClosedSets
    BY <1>1, <1>2
  <1>4. PICK p \in S : \E i \in DOMAIN Kids[p] : Kids[p][i] \notin S
    BY <1>2, <1>3 DEF ClosedSets
  <1>5. PICK i \in DOMAIN Kids[p] : Kids[p][i] \notin S
    BY <1>4
  <1>6. p \in Node /\ p \in Within[n]
    BY <1>2
  <1>7. Kids[p][i] = c
    BY <1>5, <1>6, WithinDown
  <1> QED
    BY <1>6, <1>7, KidsAreNodes, ParentOfChild

LEMMA OrderOfChild ==
  ASSUME NEW p \in Node, NEW i \in DOMAIN Kids[p]
  PROVE  Order(p, Kids[p][i]) = i
  <1>1. \E j \in DOMAIN Kids[p] : Kids[p][j] = Kids[p][i]
    OBVIOUS
  <1>2. /\ Order(p, Kids[p][i]) \in DOMAIN Kids[p]
        /\ Kids[p][Order(p, Kids[p][i])] = Kids[p][i]
    BY <1>1 DEF Order
  <1> QED
    BY <1>2, TreeAssumption

-----------------------------------------------------------------------------
(* The grounds on which nodes succeed. *)

Won == {p \in Pod : MayHaveSucceeded(p)}

(* A step of a group was skipped or has succeeded; "won" are the pods that *)
(* may have succeeded.                                                     *)
StepWon(w, won, c) ==
  \/ When[c] = "skip"
  \/ c \in won /\ Exists(w.nodes[c])
  \/ /\ Kind[c] = "retry"
     /\ \E i \in DOMAIN Kids[c] : Kids[c][i] \in won /\ Exists(w.nodes[Kids[c][i]])
  \/ Kind[c] = "steps" /\ w.nodes[c].phase = "Succeeded"

Deserved(w, won, n) ==
  /\ n \in Pod => n \in won
  /\ Kind[n] = "retry" =>
       \E i \in DOMAIN Kids[n] : Kids[n][i] \in won /\ Exists(w.nodes[Kids[n][i]])
  /\ Kind[n] = "group" => \A i \in DOMAIN Kids[n] : StepWon(w, won, Kids[n][i])
  /\ Kind[n] = "steps" => \A i \in DOMAIN Kids[n] : w.nodes[Kids[n][i]].phase = "Succeeded"

Earned(w, won) ==
  \A n \in Node : /\ w.nodes[n].phase = "Succeeded" => Deserved(w, won, n)
                  /\ w.nodes[n].phase = "Skipped" => IsStep(n) /\ When[n] = "skip"

(* A retry node that runs has an attempt to look at. *)
AttemptsStarted(w) ==
  \A n \in Retry : w.nodes[n].phase = "Running" => w.nodes[n].children \in DOMAIN Kids[n]

Judged(w) ==
  w.done /\ w.phase = "Succeeded" => \A n \in Top : w.nodes[n].phase = "Succeeded"

(* Along the way to node c: the groups before the one it leads through     *)
(* have succeeded, and the steps of a group up to the one it leads through *)
(* are recorded as the group's children.                                   *)
Placed(w, c) ==
  \A p \in Node : \A j \in DOMAIN Kids[p] : c \in Within[Kids[p][j]] =>
    /\ Kind[p] = "steps" =>
         \A i \in DOMAIN Kids[p] : i < j => w.nodes[Kids[p][i]].phase = "Succeeded"
    /\ Kind[p] = "group" => w.nodes[p].children >= j

Remembered(v, w) == \A n \in Node : Exists(v.nodes[n]) => Exists(w.nodes[n])

(* The node up to which the operator has come; a step that is yet to be    *)
(* launched is not a child of its group.                                   *)
Reached == IF pc = "step" THEN Parent(cur) ELSE cur

EarnedInv ==
  /\ Earned(store, Won) /\ AttemptsStarted(store) /\ Judged(store)
  /\ During => /\ Earned(wf, Won) /\ AttemptsStarted(wf) /\ Judged(wf)
               /\ Remembered(store, wf)
  /\ Walking => Placed(wf, Reached)

(* A fault that may still strike was never spent more often than budgeted. *)
BudgetInv == \A f \in Fault : budget[f] <= Budget[f]

LEMMA StepWonKept ==
  ASSUME NEW v, NEW w, NEW won, NEW kept, NEW c \in Node, StepWon(v, won, c),
         \A p \in Pod : p \in won /\ Exists(v.nodes[p]) => p \in kept,
         Remembered(v, w), won \subseteq Pod,
         \A n \in Node \ Pod : v.nodes[n].phase = "Succeeded" => w.nodes[n].phase = "Succeeded"
  PROVE  StepWon(w, kept, c)
  <1>1. CASE When[c] = "skip"
    BY <1>1 DEF StepWon
  <1>2. CASE c \in won /\ Exists(v.nodes[c])
    BY <1>2 DEF StepWon, Remembered
  <1>3. CASE /\ Kind[c] = "retry"
             /\ \E i \in DOMAIN Kids[c] : Kids[c][i] \in won /\ Exists(v.nodes[Kids[c][i]])
    BY <1>3, KidsAreNodes DEF StepWon, Remembered
  <1>4. CASE Kind[c] = "steps" /\ v.nodes[c].phase = "Succeeded"
    BY <1>4 DEF StepWon, Pod
  <1> QED
    BY <1>1, <1>2, <1>3, <1>4 DEF StepWon

LEMMA DeservedKept ==
  ASSUME NEW v, NEW w, NEW won, NEW kept, NEW n \in Node, Deserved(v, won, n),
         \A p \in Pod : p \in won /\ Exists(v.nodes[p]) => p \in kept,
         Remembered(v, w), won \subseteq Pod,
         \A m \in Node \ Pod : v.nodes[m].phase = "Succeeded" => w.nodes[m].phase = "Succeeded",
         n \in Pod => Exists(v.nodes[n])
  PROVE  Deserved(w, kept, n)
  <1>1. n \in Pod => n \in kept
    BY DEF Deserved
  <1>2. ASSUME Kind[n] = "retry"
        PROVE  \E i \in DOMAIN Kids[n] : Kids[n][i] \in kept /\ Exists(w.nodes[Kids[n][i]])
    BY <1>2, KidsAreNodes DEF Deserved, Remembered
  <1>3. ASSUME Kind[n] = "group", NEW i \in DOMAIN Kids[n]
        PROVE  StepWon(w, kept, Kids[n][i])
    <2>1. Kids[n][i] \in Node /\ StepWon(v, won, Kids[n][i])
      BY <1>3, KidsAreNodes DEF Deserved
    <2> QED
      BY <2>1, StepWonKept
  <1>4. ASSUME Kind[n] = "steps", NEW i \in DOMAIN Kids[n]
        PROVE  w.nodes[Kids[n][i]].phase = "Succeeded"
    <2>1. Kids[n][i] \in Node /\ Kind[Kids[n][i]] = "group"
      BY <1>4, KidsAreNodes, ParentOfChild DEF KidKinds
    <2> QED
      BY <1>4, <2>1 DEF Deserved, Pod
  <1> QED
    BY <1>1, <1>2, <1>3, <1>4 DEF Deserved

(* What has succeeded stays so, and what succeeds has its grounds. *)
LEMMA EarnedKept ==
  ASSUME NEW v, NEW w, NEW won, NEW kept, Earned(v, won), won \subseteq Pod,
         \A p \in Pod : p \in won /\ Exists(v.nodes[p]) => p \in kept,
         Remembered(v, w),
         \A n \in Node \ Pod : v.nodes[n].phase = "Succeeded" => w.nodes[n].phase = "Succeeded",
         \A n \in Node : w.nodes[n].phase = "Succeeded" =>
                           \/ v.nodes[n].phase = "Succeeded"
                           \/ n \in Pod /\ n \in kept
                           \/ n \notin Pod /\ Deserved(v, won, n),
         \A n \in Node : w.nodes[n].phase = "Skipped" =>
                           \/ v.nodes[n].phase = "Skipped"
                           \/ IsStep(n) /\ When[n] = "skip"
  PROVE  Earned(w, kept)
  <1> SUFFICES ASSUME NEW n \in Node
               PROVE  /\ w.nodes[n].phase = "Succeeded" => Deserved(w, kept, n)
                      /\ w.nodes[n].phase = "Skipped" => IsStep(n) /\ When[n] = "skip"
    BY DEF Earned
  <1>1. ASSUME w.nodes[n].phase = "Succeeded"
        PROVE  Deserved(w, kept, n)
    <2>1. CASE v.nodes[n].phase = "Succeeded"
      <3>1. Deserved(v, won, n) /\ Exists(v.nodes[n])
        BY <2>1 DEF Earned, Exists, Unset
      <3> QED
        BY <3>1, DeservedKept
    <2>2. CASE n \in Pod /\ n \in kept
      BY <2>2 DEF Deserved, Pod
    <2>3. CASE n \notin Pod /\ Deserved(v, won, n)
      BY <2>3, DeservedKept
    <2> QED
      BY <1>1, <2>1, <2>2, <2>3
  <1>2. w.nodes[n].phase = "Skipped" => IsStep(n) /\ When[n] = "skip"
    BY DEF Earned
  <1> QED
    BY <1>1, <1>2

LEMMA EarnedSame ==
  ASSUME NEW v, NEW w, NEW won, NEW kept, Earned(v, won), won \subseteq Pod,
         \A p \in Pod : p \in won /\ Exists(v.nodes[p]) => p \in kept,
         \A n \in Node : w.nodes[n].phase = v.nodes[n].phase
  PROVE  Earned(w, kept) /\ Remembered(v, w)
  <1>1. Remembered(v, w)
    BY DEF Remembered, Exists
  <1> QED
    BY <1>1, EarnedKept

(* A node of which all that is below it has succeeded: whatever of it was  *)
(* not skipped.                                                            *)
LEMMA StepsSucceeded ==
  ASSUME NEW w, Earned(w, Won), NEW n \in Node, w.nodes[n].phase = "Succeeded",
         NEW q \in StepNode, q \in Within[n]
  PROVE  StepDone(q)
  <1> DEFINE S == {m \in Node : \/ Skipped(m)
                                \/ m \in Pod /\ (IsAttempt(m) \/ m \in Won)
                                \/ /\ Kind[m] = "retry"
                                   /\ \E i \in DOMAIN Kids[m] : Kids[m][i] \in Won
                                \/ Kind[m] \in {"group", "steps"} /\ w.nodes[m].phase = "Succeeded"}
  <1>1. ASSUME NEW m \in S, NEW i \in DOMAIN Kids[m]
        PROVE  Kids[m][i] \in S
    <2> DEFINE c == Kids[m][i]
    <2>1. m \in Node /\ c \in Node /\ c \notin Top /\ Parent(c) = m
          /\ Kind[c] \in KidKinds[Kind[m]]
      BY KidsAreNodes, ParentOfChild
    <2>2. CASE Skipped(m)
      <3>1. PICK a \in Node : When[a] = "skip" /\ m \in Within[a]
        BY <2>2 DEF Skipped
      <3>2. c \in Within[a]
        BY <3>1, WithinDown
      <3> QED
        BY <2>1, <3>1, <3>2 DEF Skipped
    <2>3. CASE m \in Pod
      BY <2>1, <2>3 DEF Pod, KidKinds
    <2>4. CASE Kind[m] = "retry"
      BY <2>1, <2>4 DEF KidKinds, Pod, IsAttempt
    <2>5. CASE Kind[m] = "steps" /\ w.nodes[m].phase = "Succeeded"
      <3>1. w.nodes[c].phase = "Succeeded"
        BY <2>1, <2>5 DEF Earned, Deserved
      <3> QED
        BY <2>1, <2>5, <3>1 DEF KidKinds
    <2>6. CASE Kind[m] = "group" /\ w.nodes[m].phase = "Succeeded"
      <3>1. StepWon(w, Won, c)
        BY <2>1, <2>6 DEF Earned, Deserved
      <3>2. CASE When[c] = "skip"
        BY <2>1, <3>2, WithinItself DEF Skipped
      <3>3. CASE c \in Won
        BY <2>1, <3>3 DEF Won
      <3> QED
        BY <2>1, <3>1, <3>2, <3>3 DEF StepWon
    <2> QED
      BY <2>2, <2>3, <2>4, <2>5, <2>6
  <1>2. S \in ClosedSets
    BY <1>1 DEF ClosedSets
  <1>3. n \in S
    <2>1. Deserved(w, Won, n)
      BY DEF Earned
    <2>2. Kind[n] \in {"steps", "group", "retry", "pod"}
      BY TreeAssumption
    <2> QED
      BY <2>1, <2>2 DEF Deserved, Pod
  <1>4. q \in S /\ q \in Node /\ ~IsAttempt(q) /\ Kind[q] \in {"pod", "retry"}
    BY <1>2, <1>3, WithinClosed DEF StepNode
  <1>5. CASE Kind[q] = "retry" /\ \E i \in DOMAIN Kids[q] : Kids[q][i] \in Won
    <2>1. PICK i \in DOMAIN Kids[q] : Kids[q][i] \in Won
      BY <1>5
    <2>2. Kids[q] \in Seq(Node)
      BY <1>4, TreeAssumption
    <2>3. i <= Len(Kids[q])
      BY <2>2
    <2>4. Kids[q][i] \in Attempts(q)
      BY <2>3 DEF Attempts, Recorded
    <2> QED
      BY <1>5, <2>1, <2>4 DEF StepDone, Won
  <1> QED
    BY <1>4, <1>5 DEF StepDone, Won, Pod

-----------------------------------------------------------------------------
(* The place of the node being executed. *)

LEMMA PlacedTop ==
  ASSUME NEW w, NEW c \in Top
  PROVE  Placed(w, c)
  <1> SUFFICES ASSUME NEW p \in Node, NEW j \in DOMAIN Kids[p], c \in Within[Kids[p][j]]
               PROVE  FALSE
    BY DEF Placed
  <1>1. Kids[p][j] \in Node /\ Kids[p][j] \notin Top
    BY KidsAreNodes
  <1> QED
    BY <1>1, WithinUp

LEMMA PlacedKept ==
  ASSUME NEW v, NEW w, NEW c, Placed(v, c), v \in Workflow, w \in Workflow,
         \A n \in Node \ Pod : v.nodes[n].phase = "Succeeded" => w.nodes[n].phase = "Succeeded",
         \A n \in Node : w.nodes[n].children >= v.nodes[n].children
  PROVE  Placed(w, c)
  <1> SUFFICES ASSUME NEW p \in Node, NEW j \in DOMAIN Kids[p], c \in Within[Kids[p][j]]
               PROVE  /\ Kind[p] = "steps" =>
                           \A i \in DOMAIN Kids[p] : i < j => w.nodes[Kids[p][i]].phase = "Succeeded"
                      /\ Kind[p] = "group" => w.nodes[p].children >= j
    BY DEF Placed
  <1>1. ASSUME Kind[p] = "steps", NEW i \in DOMAIN Kids[p], i < j
        PROVE  w.nodes[Kids[p][i]].phase = "Succeeded"
    <2>1. v.nodes[Kids[p][i]].phase = "Succeeded"
      BY <1>1 DEF Placed
    <2>2. Kids[p][i] \in Node \ Pod
      BY <1>1, KidsAreNodes, ParentOfChild DEF KidKinds, Pod
    <2> QED
      BY <2>1, <2>2
  <1>2. ASSUME Kind[p] = "group"
        PROVE  w.nodes[p].children >= j
    <2>1. v.nodes[p].children >= j /\ w.nodes[p].children >= v.nodes[p].children
      BY <1>2 DEF Placed
    <2>2. v.nodes[p].children \in Nat /\ w.nodes[p].children \in Nat
      BY DEF Workflow, NodeStatusType
    <2>3. j \in Nat
      BY TreeAssumption
    <2> QED
      BY <2>1, <2>2, <2>3
  <1> QED
    BY <1>1, <1>2

LEMMA PlacedUp ==
  ASSUME NEW w, NEW c \in Node, c \notin Top, Placed(w, c)
  PROVE  Placed(w, Parent(c))
  <1> SUFFICES ASSUME NEW p \in Node, NEW j \in DOMAIN Kids[p], Parent(c) \in Within[Kids[p][j]]
               PROVE  c \in Within[Kids[p][j]]
    BY DEF Placed
  <1>1. PICK i \in DOMAIN Kids[Parent(c)] : Kids[Parent(c)][i] = c
    BY ParentExists DEF ParentOf
  <1> QED
    BY <1>1, KidsAreNodes, WithinDown

LEMMA PlacedDown ==
  ASSUME NEW w, NEW c \in Node, NEW j \in DOMAIN Kids[c], Placed(w, c),
         Kind[c] = "steps" =>
           \A i \in DOMAIN Kids[c] : i < j => w.nodes[Kids[c][i]].phase = "Succeeded",
         Kind[c] = "group" => w.nodes[c].children >= j
  PROVE  Placed(w, Kids[c][j])
  <1> DEFINE d == Kids[c][j]
  <1>1. d \in Node /\ Parent(d) = c
    BY KidsAreNodes, ParentOfChild
  <1> SUFFICES ASSUME NEW p \in Node, NEW k \in DOMAIN Kids[p], d \in Within[Kids[p][k]],
                      ~(p = c /\ k = j)
               PROVE  c \in Within[Kids[p][k]]
    BY DEF Placed
  <1>2. d # Kids[p][k]
    BY TreeAssumption
  <1> QED
    BY <1>1, <1>2, KidsAreNodes, WithinUp

-----------------------------------------------------------------------------
(* The pods that may have succeeded. *)

(* Only faults are spent, once at a time. *)
LEMMA OnlySpent ==
  ASSUME [Next]_vars
  PROVE  UNCHANGED budget \/ \E f \in Fault : Spend(f)
  <1> USE DEF Fault
  <1>1. CASE Worker
    BY <1>1 DEF Worker, DrainItem, StartOperation, ValidateOnce, podReconciliation, ListPodsFails,
                createPVCs, ExecutePodTemplate, ExecuteRetryTemplate, NewAttempt,
                ExecuteStepsTemplate, ReturnAtOnce, executeContainer, ReturnOrTimeout,
                executeStepGroup, LaunchStep, StepReturns, GroupReturns, killDeamonedChildren,
                TemplateReturns, FinishWorkflow, NothingToPersist, persistUpdates,
                SendCompletedPod, EndOperation
  <1>2. CASE WatchEvent \/ Resync \/ processNextPodItem \/ podLabeler \/ Crash \/ Environment
             \/ UNCHANGED vars
    BY <1>2 DEF WatchEvent, Resync, processNextPodItem, podLabeler, AddPodLabel, Crash,
                Environment, PodRuns, DaemonReady, PodTerminates, PodUnreachable, PodReachable,
                PodDeleted, PodMoves, vars
  <1> QED
    BY <1>1, <1>2 DEF Next

LEMMA BudgetShrinks ==
  ASSUME TypeOK, [Next]_vars
  PROVE  \A f \in Fault : budget[f] \in Nat /\ budget'[f] \in Nat /\ budget'[f] <= budget[f]
  <1>1. budget \in [Fault -> Nat]
    BY DEF TypeOK
  <1>2. CASE UNCHANGED budget
    BY <1>1, <1>2
  <1>3. ASSUME NEW f \in Fault, Spend(f)
        PROVE  \A x \in Fault : budget[x] \in Nat /\ budget'[x] \in Nat /\ budget'[x] <= budget[x]
    BY <1>1, <1>3 DEF Spend
  <1> QED
    BY <1>2, <1>3, OnlySpent

LEMMA BudgetInvariant == Spec => []BudgetInv
  <1>1. Init => BudgetInv
    BY BoundAssumption DEF Init, BudgetInv
  <1>2. TypeInv /\ BudgetInv /\ [Next]_vars => BudgetInv'
    <2> SUFFICES ASSUME TypeInv, BudgetInv, [Next]_vars, NEW f \in Fault
                 PROVE  budget'[f] <= Budget[f]
      BY DEF BudgetInv
    <2>1. budget[f] \in Nat /\ budget'[f] \in Nat /\ budget'[f] <= budget[f]
      BY BudgetShrinks DEF TypeInv
    <2> QED
      BY <2>1, BoundAssumption DEF BudgetInv
  <1> QED
    BY <1>1, <1>2, TypeInvariant, PTL DEF Spec

(* A pod that may have succeeded does not turn out not to have, unless it  *)
(* is created again.                                                       *)
LEMMA WonKept ==
  ASSUME TypeOK, BudgetInv, [Next]_vars, NEW p \in Pod, p \in Won,
         \/ pods'[p].phase = pods[p].phase
         \/ pods[p].phase \notin {"Absent", "Succeeded"} /\ pods'[p].phase \notin {"Absent", "Pending"}
         \/ pods'[p].phase = "Absent" /\ Spend("delete")
  PROVE  p \in Won'
  <1>1. /\ budget["delete"] \in Nat /\ budget'["delete"] \in Nat /\ Budget["delete"] \in Nat
        /\ budget'["delete"] <= budget["delete"] /\ budget["delete"] <= Budget["delete"]
    BY BudgetShrinks, BoundAssumption DEF Fault, BudgetInv
  <1>2. CASE pods'[p].phase = pods[p].phase
    BY <1>1, <1>2 DEF Won, MayHaveSucceeded
  <1>3. CASE pods[p].phase \notin {"Absent", "Succeeded"} /\ pods'[p].phase \notin {"Absent", "Pending"}
    BY <1>3 DEF Won, MayHaveSucceeded
  <1>4. CASE pods'[p].phase = "Absent" /\ Spend("delete")
    <2>1. budget'["delete"] < Budget["delete"]
      BY <1>1, <1>4 DEF Spend, TypeOK, Fault
    <2> QED
      BY <1>4, <2>1 DEF Won, MayHaveSucceeded
  <1> QED
    BY <1>2, <1>3, <1>4

-----------------------------------------------------------------------------
(* A step of the execution. *)

(* Whatever succeeds from u to v had its grounds in u, and no child that   *)
(* was recorded is forgotten.                                              *)
Grounded(u, v, won) ==
  /\ \A n \in Node : v.nodes[n].phase = "Succeeded" =>
       u.nodes[n].phase = "Succeeded" \/ (n \notin Pod /\ Deserved(u, won, n))
  /\ \A n \in Node : v.nodes[n].phase = "Skipped" =>
       u.nodes[n].phase = "Skipped" \/ (IsStep(n) /\ When[n] = "skip")
  /\ \A n \in Retry : v.nodes[n].phase = "Running" =>
       \/ u.nodes[n].phase = "Running" /\ v.nodes[n].children = u.nodes[n].children
       \/ v.nodes[n].children \in DOMAIN Kids[n]
  /\ \A n \in Node : v.nodes[n].children >= u.nodes[n].children

LEMMA SameGrounded ==
  ASSUME NEW w \in Workflow, NEW won
  PROVE  Grounded(w, w, won)
  BY DEF Grounded, Workflow, NodeStatusType

LEMMA MarkGrounded ==
  ASSUME NEW u, NEW v \in Workflow, NEW won, Grounded(u, v, won), NEW n \in Node, NEW phase,
         phase = "Succeeded" =>
           v.nodes[n].phase = "Succeeded" \/ (n \notin Pod /\ Deserved(u, won, n)),
         phase = "Skipped" => v.nodes[n].phase = "Skipped" \/ (IsStep(n) /\ When[n] = "skip"),
         n \in Retry => phase # "Running" \/ v.nodes[n].children \in DOMAIN Kids[n]
  PROVE  Grounded(u, markNodePhase(v, n, phase), won)
  <1> DEFINE w == markNodePhase(v, n, phase)
  <1>1. /\ w.nodes[n].phase = phase /\ w.nodes[n].children = v.nodes[n].children
        /\ \A m \in Node : m # n => w.nodes[m] = v.nodes[m]
    BY DEF markNodePhase, Workflow, NodeStatusType
  <1> HIDE DEF w
  <1>2. Grounded(u, w, won)
    BY <1>1 DEF Grounded, Retry
  <1> QED
    BY <1>2 DEF w

LEMMA AddChildGrounded ==
  ASSUME NEW w \in Workflow, NEW won, NEW p \in Node, p \notin Retry, NEW c, Order(p, c) \in Nat
  PROVE  /\ Grounded(w, addChildNode(w, p, c), won)
         /\ addChildNode(w, p, c).nodes[p].children >= Order(p, c)
  <1> DEFINE v == addChildNode(w, p, c)
  <1>1. /\ \A n \in Node : v.nodes[n].phase = w.nodes[n].phase
        /\ \A n \in Node : n # p => v.nodes[n] = w.nodes[n]
        /\ v.nodes[p].children = IF Order(p, c) > w.nodes[p].children
                                 THEN Order(p, c) ELSE w.nodes[p].children
    BY DEF addChildNode, Workflow, NodeStatusType
  <1>2. \A n \in Node : w.nodes[n].children \in Nat
    BY DEF Workflow, NodeStatusType
  <1> HIDE DEF v
  <1>3. v.nodes[p].children >= Order(p, c) /\ v.nodes[p].children >= w.nodes[p].children
    BY <1>1, <1>2
  <1>4. \A n \in Node : v.nodes[n].children >= w.nodes[n].children
    BY <1>1, <1>2, <1>3
  <1>5. Grounded(w, v, won)
    BY <1>1, <1>4 DEF Grounded, Retry
  <1> QED
    BY <1>3, <1>5 DEF v

SuccessInv == LabelInv /\ ClaimInv /\ LifeInv /\ BudgetInv /\ EarnedInv

LEMMA WonTypes == Won \subseteq Pod
  BY DEF Won

(* The place of a node is kept, whatever the step does besides. *)
LEMMA PlaceKept ==
  ASSUME SuccessInv, TypeInv', Walked, Grounded(wf, wf', Won), NEW c, Placed(wf, c)
  PROVE  Placed(wf', c)
  <1>1. wf \in Workflow /\ wf' \in Workflow
    BY DEF SuccessInv, LabelInv, RetryInv, TypeInv, TypeOK
  <1>2. \A n \in Node \ Pod : wf.nodes[n].phase = "Succeeded" => wf'.nodes[n].phase = "Succeeded"
    BY DEF Walked, Walks, Onward, Successful
  <1>3. \A n \in Node : wf'.nodes[n].children >= wf.nodes[n].children
    BY DEF Grounded
  <1> QED
    BY <1>1, <1>2, <1>3, PlacedKept

LEMMA EarnedStep ==
  ASSUME SuccessInv, [Next]_vars, Walking, UNCHANGED <<store, orig>>, SameClaims(wf, wf'),
         Walked, Grounded(wf, wf', Won), Walking' => Placed(wf', Reached'),
         Walking' \/ pc' \in {"finish", "persist"}
  PROVE  EarnedInv'
  <1>1. /\ TypeOK /\ BudgetInv /\ During /\ ~wf.done
        /\ Earned(store, Won) /\ AttemptsStarted(store) /\ Judged(store)
        /\ Earned(wf, Won) /\ AttemptsStarted(wf) /\ Remembered(store, wf)
    BY DEF SuccessInv, LabelInv, RetryInv, TypeInv, EarnedInv, ClaimInv, During, Walking, Executing
  <1>2. ASSUME NEW p \in Pod, p \in Won, Exists(wf.nodes[p])
        PROVE  p \in Won'
    <2>1. pods'[p].phase = pods[p].phase
      BY <1>2 DEF Walked, PodsKept
    <2> QED
      BY <1>1, <1>2, <2>1, WonKept
  <1>3. Remembered(wf, wf') /\ Remembered(store, wf')
    BY <1>1 DEF Walked, Walks, Onward, Remembered
  <1>4. \A n \in Node \ Pod : wf.nodes[n].phase = "Succeeded" => wf'.nodes[n].phase = "Succeeded"
    BY DEF Walked, Walks, Onward, Successful
  <1>5. Earned(wf', Won')
    BY <1>1, <1>2, <1>3, <1>4, WonTypes, EarnedKept DEF Grounded
  <1>6. Earned(store', Won')
    BY <1>1, <1>2, WonTypes, EarnedSame DEF Remembered, Pod
  <1>7. AttemptsStarted(wf')
    BY <1>1 DEF AttemptsStarted, Grounded
  <1>8. Judged(wf')
    BY <1>1 DEF Judged, SameClaims
  <1> QED
    BY <1>1, <1>3, <1>5, <1>6, <1>7, <1>8 DEF EarnedInv

LEMMA EarnedPodTemplate ==
  ASSUME SuccessInv, TypeInv', [Next]_vars, ExecutePodTemplate
  PROVE  EarnedInv'
  <1>1. /\ wf \in Workflow /\ cur \in Node /\ cur \in Pod /\ cur \notin Retry
        /\ pc = "template" /\ Walking
    BY DEF SuccessInv, LabelInv, RetryInv, TypeInv, TypeOK, ExecutePodTemplate, Pod, Retry, Walking
  <1>2. /\ UNCHANGED <<store, orig, cur>> /\ pc' = "return" /\ SameClaims(wf, wf')
    BY ExecutionSame DEF ExecutePodTemplate, executeContainer, ReturnAtOnce, ReturnOrTimeout,
                         Return, SuccessInv, LabelInv, RetryInv
  <1>3. wf' \in {wf, markNodePhase(wf, cur, "Running"), markNodePhase(wf, cur, "Error")}
    BY DEF ExecutePodTemplate, executeContainer, ReturnAtOnce
  <1>4. Grounded(wf, wf', Won)
    BY <1>1, <1>3, SameGrounded, MarkGrounded
  <1>5. Walked
    BY LifePodTemplate DEF SuccessInv
  <1>6. Placed(wf', Reached')
    <2>1. Placed(wf, cur) /\ Reached' = cur
      BY <1>1, <1>2 DEF SuccessInv, EarnedInv, Reached
    <2> QED
      BY <1>4, <1>5, <2>1, PlaceKept
  <1> QED
    BY <1>1, <1>2, <1>4, <1>5, <1>6, EarnedStep DEF Walking

(* A retry node succeeds with its last attempt. *)
LEMMA AttemptEarned ==
  ASSUME SuccessInv, Walking, NEW n \in Retry, wf.nodes[n].children \in DOMAIN Kids[n],
         Successful(LastChild(wf, n))
  PROVE  Deserved(wf, Won, n)
  <1> DEFINE i == wf.nodes[n].children
             a == Kids[n][i]
  <1>1. n \in Node /\ Kind[n] = "retry" /\ n \notin Pod
    BY DEF Retry, Pod
  <1>2. a \in Pod /\ a \in Node /\ ~IsStep(a)
    <2>1. a \in Pod /\ Parent(a) = n
      BY <1>1, AttemptOf, ParentOfChild
    <2> QED
      BY <1>1, <2>1 DEF IsStep, Pod
  <1>3. Earned(wf, Won) /\ Successful(wf.nodes[a])
    BY DEF SuccessInv, EarnedInv, During, Walking, LastChild
  <1>4. wf.nodes[a].phase = "Succeeded"
    BY <1>2, <1>3 DEF Successful, Earned
  <1>5. a \in Won /\ Exists(wf.nodes[a])
    BY <1>2, <1>3, <1>4 DEF Earned, Deserved, Exists, Unset
  <1> QED
    BY <1>1, <1>5 DEF Deserved

LEMMA EarnedRetryTemplate ==
  ASSUME SuccessInv, TypeInv', [Next]_vars, ExecuteRetryTemplate
  PROVE  EarnedInv'
  <1>1. /\ wf \in Workflow /\ cur \in Node /\ cur \in Retry /\ cur \notin Pod
        /\ pc = "template" /\ Walking /\ During
    BY DEF SuccessInv, LabelInv, RetryInv, TypeInv, TypeOK, ExecuteRetryTemplate, Retry, Pod,
           Walking, During
  <1>2. /\ UNCHANGED <<store, orig, cur>> /\ pc' = "return" /\ SameClaims(wf, wf')
    BY ExecutionSame DEF ExecuteRetryTemplate, NewAttempt, executeContainer, ReturnAtOnce,
                         ReturnOrTimeout, Return, SuccessInv, LabelInv, RetryInv
  <1>3. Walked
    BY LifeRetryTemplate DEF SuccessInv
  <1>4. ASSUME wf' = wf
        PROVE  Grounded(wf, wf', Won)
    BY <1>1, <1>4, SameGrounded
  <1>5. ASSUME /\ Exists(wf.nodes[cur]) /\ ~Completed(wf.nodes[cur])
               /\ RetryVerdict(cur) # "Running"
               /\ wf' = markNodePhase(wf, cur, RetryVerdict(cur))
        PROVE  Grounded(wf, wf', Won)
    <2>1. wf.nodes[cur].phase = "Running"
      BY <1>1, <1>5 DEF Exists, Completed, Workflow, NodeStatusType, NodePhase
    <2>2. wf.nodes[cur].children \in DOMAIN Kids[cur]
      BY <1>1, <2>1 DEF SuccessInv, EarnedInv, AttemptsStarted
    <2>3. RetryVerdict(cur) = "Succeeded" => Deserved(wf, Won, cur)
      BY <1>1, <2>2, AttemptEarned DEF RetryVerdict
    <2>4. RetryVerdict(cur) # "Skipped"
      BY DEF RetryVerdict
    <2> QED
      BY <1>1, <1>5, <2>3, <2>4, SameGrounded, MarkGrounded
  <1>6. ASSUME NewAttempt(cur)
        PROVE  Grounded(wf, wf', Won)
    <2> DEFINE k == wf.nodes[cur].children + 1
               v == markNodePhase(wf, cur, "Running")
               w == [v EXCEPT !.nodes[cur].children = k]
               a == Kids[cur][k]
    <2>1. k \in DOMAIN Kids[cur] /\ wf' \in {markNodePhase(w, a, "Running"), markNodePhase(w, a, "Error")}
      BY <1>6 DEF NewAttempt, executeContainer
    <2>2. a \in Pod /\ a \in Node /\ a \notin Retry
      BY <1>1, <2>1, AttemptOf DEF Pod, Retry
    <2>3. wf.nodes[cur].children \in Nat /\ k \in Nat /\ k >= wf.nodes[cur].children
          /\ \A n \in Node : wf.nodes[n].children \in Nat
      BY <1>1 DEF Workflow, NodeStatusType
    <2> HIDE DEF k, a
    <2>4. /\ v \in Workflow /\ v.nodes[cur].phase = "Running"
          /\ \A n \in Node : n # cur => v.nodes[n] = wf.nodes[n]
      BY <1>1, MarkNodeType, MarkPhases DEF NodePhase
    <2> HIDE DEF v
    <2>5. /\ w \in Workflow /\ w.nodes[cur].phase = "Running" /\ w.nodes[cur].children = k
          /\ \A n \in Node : n # cur => w.nodes[n] = wf.nodes[n]
      BY <1>1, <2>3, <2>4, SetChildren
    <2> HIDE DEF w
    <2>6. Grounded(wf, w, Won)
      <3>1. \A n \in Node : w.nodes[n].children >= wf.nodes[n].children
        BY <2>3, <2>5
      <3> QED
        BY <2>1, <2>5, <3>1 DEF Grounded, Retry
    <2> QED
      BY <2>1, <2>2, <2>5, <2>6, MarkGrounded
  <1>7. Grounded(wf, wf', Won)
    BY <1>4, <1>5, <1>6 DEF ExecuteRetryTemplate, ReturnAtOnce
  <1>8. Placed(wf', Reached')
    <2>1. Placed(wf, cur) /\ Reached' = cur
      BY <1>1, <1>2 DEF SuccessInv, EarnedInv, Reached
    <2> QED
      BY <1>3, <1>7, <2>1, PlaceKept
  <1> QED
    BY <1>1, <1>2, <1>3, <1>7, <1>8, EarnedStep DEF Walking

LEMMA FirstInOrder ==
  ASSUME NEW n \in Node, Kids[n] # <<>>
  PROVE  1 \in DOMAIN Kids[n] /\ DOMAIN Kids[n] \subseteq Nat \ {0}
  <1>1. Kids[n] \in Seq(Node)
    BY TreeAssumption
  <1> QED
    BY <1>1

(* A group starts with its first step, a template with its first group. *)
LEMMA EarnedStepsTemplate ==
  ASSUME SuccessInv, TypeInv', [Next]_vars, ExecuteStepsTemplate
  PROVE  EarnedInv'
  <1>1. /\ wf \in Workflow /\ cur \in Node /\ cur \notin Retry /\ Kind[cur] = "steps"
        /\ pc = "template" /\ Walking /\ Placed(wf, cur)
    BY DEF SuccessInv, LabelInv, RetryInv, TypeInv, TypeOK, ExecuteStepsTemplate, Retry, Walking,
           EarnedInv, Reached
  <1>2. UNCHANGED <<store, orig, pods>> /\ SameClaims(wf, wf')
    BY ExecutionSame DEF ExecuteStepsTemplate, ReturnAtOnce, SuccessInv, LabelInv, RetryInv
  <1>3. Walked
    BY LifeStepsTemplate DEF SuccessInv
  <1>4. /\ wf' \in {wf, markNodePhase(wf, cur, "Running")}
        /\ pc' \in {"return", "group"}
        /\ pc' = "return" => cur' = cur
        /\ pc' = "group" => cur' = Kids[cur][1]
    BY DEF ExecuteStepsTemplate, ReturnAtOnce, Return
  <1>5. Grounded(wf, wf', Won)
    BY <1>1, <1>4, SameGrounded, MarkGrounded
  <1>6. Placed(wf', cur)
    BY <1>1, <1>3, <1>5, PlaceKept
  <1>7. Placed(wf', Reached')
    <2>1. CASE pc' = "return"
      BY <1>4, <1>6, <2>1 DEF Reached
    <2>2. CASE pc' = "group"
      <3>1. 1 \in DOMAIN Kids[cur] /\ \A i \in DOMAIN Kids[cur] : ~(i < 1)
        BY <1>1, FirstInOrder, TreeAssumption
      <3>2. Placed(wf', Kids[cur][1])
        BY <1>1, <1>6, <3>1, PlacedDown
      <3> QED
        BY <1>4, <2>2, <3>2 DEF Reached
    <2> QED
      BY <1>4, <2>1, <2>2
  <1> QED
    BY <1>1, <1>2, <1>3, <1>4, <1>5, <1>7, EarnedStep DEF Walking

LEMMA EarnedStepGroup ==
  ASSUME SuccessInv, TypeInv', [Next]_vars, executeStepGroup
  PROVE  EarnedInv'
  <1> DEFINE s == Parent(cur)
             w == addChildNode(wf, s, cur)
  <1>1. /\ wf \in Workflow /\ cur \in Node /\ cur \notin Top /\ Kind[s] = "steps"
        /\ pc = "group" /\ Walking /\ Placed(wf, cur)
    BY DEF SuccessInv, LabelInv, RetryInv, TypeInv, TypeOK, CursorHasParent, CursorInv,
           executeStepGroup, Walking, EarnedInv, Reached
  <1>2. /\ s \in Node /\ s \notin Retry /\ Order(s, cur) \in Nat
        /\ Kind[cur] = "group" /\ cur \notin Retry /\ cur \notin Pod
    <2>1. PICK i \in DOMAIN Kids[s] : Kids[s][i] = cur
      BY <1>1, ParentExists DEF ParentOf
    <2>2. Kind[cur] \in KidKinds["steps"]
      BY <1>1, <2>1, ParentExists, ParentOfChild
    <2> QED
      BY <1>1, <2>2, ParentExists DEF KidKinds, Pod, Retry
  <1>3. UNCHANGED <<store, orig, pods>> /\ SameClaims(wf, wf')
    BY ExecutionSame DEF executeStepGroup, cluster, SuccessInv, LabelInv, RetryInv
  <1>4. Walked
    BY LifeStepGroup DEF SuccessInv
  <1>5. w \in Workflow /\ Grounded(wf, w, Won)
    BY <1>1, <1>2, AddChildType, AddChildGrounded
  <1>6. /\ \/ wf' \in {w, markNodePhase(w, cur, "Error"), markNodePhase(w, cur, "Running")}
           \/ wf' = markNodePhase(w, cur, "Succeeded") /\ Kids[cur] = <<>>
        /\ \/ pc' = "return" /\ cur' = cur
           \/ pc' = "step" /\ cur' = Kids[cur][1] /\ Kids[cur] # <<>>
    BY DEF executeStepGroup, Return
  <1> HIDE DEF w
  <1>7. Kids[cur] = <<>> => Deserved(wf, Won, cur)
    BY <1>2 DEF Deserved
  <1>8. Grounded(wf, wf', Won)
    BY <1>1, <1>2, <1>5, <1>6, <1>7, MarkGrounded
  <1>9. Placed(wf', cur)
    BY <1>1, <1>4, <1>8, PlaceKept
  <1>10. Placed(wf', Reached')
    <2>1. pc' = "step" => Parent(cur') = cur
      BY <1>1, <1>6, FirstChildsParent
    <2> QED
      BY <1>6, <1>9, <2>1 DEF Reached
  <1> QED
    BY <1>1, <1>3, <1>4, <1>6, <1>8, <1>10, EarnedStep DEF Walking

(* With its launch a step is recorded as a child of its group. *)
LEMMA EarnedLaunchStep ==
  ASSUME SuccessInv, TypeInv', [Next]_vars, LaunchStep
  PROVE  EarnedInv'
  <1> DEFINE g == Parent(cur)
             w == addChildNode(wf, g, cur)
  <1>1. /\ wf \in Workflow /\ cur \in Node /\ cur \notin Top /\ Kind[g] = "group"
        /\ pc = "step" /\ Walking /\ Placed(wf, g) /\ IsStep(cur)
    BY DEF SuccessInv, LabelInv, RetryInv, TypeInv, TypeOK, CursorHasParent, CursorInv,
           LaunchStep, Walking, EarnedInv, Reached, IsStep
  <1>2. /\ g \in Node /\ g \notin Retry /\ Order(g, cur) \in DOMAIN Kids[g] /\ Order(g, cur) \in Nat
        /\ Kids[g][Order(g, cur)] = cur
    <2>1. \E i \in DOMAIN Kids[g] : Kids[g][i] = cur
      BY <1>1, ParentExists DEF ParentOf
    <2> QED
      BY <1>1, <2>1, ParentExists DEF Order, Retry
  <1>3. UNCHANGED <<store, orig, pods, cur>> /\ SameClaims(wf, wf')
    BY ExecutionSame DEF LaunchStep, cluster, SuccessInv, LabelInv, RetryInv
  <1>4. Walked
    BY LifeLaunchStep DEF SuccessInv
  <1>5. w \in Workflow /\ Grounded(wf, w, Won) /\ w.nodes[g].children >= Order(g, cur)
    BY <1>1, <1>2, AddChildType, AddChildGrounded
  <1>6. /\ \/ wf' = w
           \/ wf' = markNodePhase(w, cur, "Skipped") /\ When[cur] = "skip"
           \/ wf' = markNodePhase(w, cur, "Error")
        /\ pc' \in {"template", "return"}
    BY DEF LaunchStep, Return
  <1> HIDE DEF w
  <1>7. Grounded(wf, wf', Won)
    BY <1>1, <1>5, <1>6, MarkGrounded
  <1>8. wf'.nodes[g].children >= Order(g, cur)
    <2>1. g # cur
      <3>1. Kind[cur] \in KidKinds["group"]
        BY <1>1, <1>2, ParentOfChild
      <3> QED
        BY <1>1, <3>1 DEF KidKinds
    <2> QED
      BY <1>1, <1>2, <1>5, <1>6, <2>1, MarkPhases
  <1>9. Placed(wf', g)
    BY <1>1, <1>4, <1>7, PlaceKept
  <1>10. Placed(wf', cur)
    BY <1>1, <1>2, <1>8, <1>9, PlacedDown
  <1>11. Placed(wf', Reached')
    BY <1>3, <1>6, <1>10 DEF Reached
  <1> QED
    BY <1>1, <1>3, <1>4, <1>6, <1>7, <1>11, EarnedStep DEF Walking

(* A group is judged on all of its steps: the place of the last one says   *)
(* that all of them are recorded as children.                              *)
LEMMA GroupEarned ==
  ASSUME SuccessInv, Walking, NEW g \in Node, Kind[g] = "group",
         \A i \in DOMAIN Kids[g] : wf.nodes[g].children >= i,
         GroupVerdict(g) = "Succeeded", wf.nodes[g].phase # "Succeeded"
  PROVE  Deserved(wf, Won, g)
  <1>1. Earned(wf, Won)
    BY DEF SuccessInv, EarnedInv, During, Walking
  <1>2. ASSUME NEW i \in DOMAIN Kids[g]
        PROVE  StepWon(wf, Won, Kids[g][i])
    <2> DEFINE c == Kids[g][i]
    <2>1. c \in Node /\ Kind[c] \in {"steps", "retry", "pod"}
      BY KidsAreNodes, ParentOfChild DEF KidKinds
    <2>2. i <= wf.nodes[g].children
      <3>1. i \in Nat
        BY TreeAssumption
      <3>2. wf.nodes[g] \in NodeStatusType
        BY DEF SuccessInv, LabelInv, RetryInv, TypeInv, TypeOK, Workflow
      <3> QED
        BY <3>1, <3>2 DEF NodeStatusType
    <2>3. c \in Recorded(g, wf.nodes[g].children)
      BY <2>2 DEF Recorded
    <2>4. Successful(wf.nodes[c])
      BY <2>3 DEF GroupVerdict
    <2>5. CASE wf.nodes[c].phase = "Skipped"
      BY <1>1, <2>1, <2>5 DEF Earned, StepWon
    <2>6. CASE wf.nodes[c].phase = "Succeeded"
      <3>1. Deserved(wf, Won, c) /\ Exists(wf.nodes[c])
        BY <1>1, <2>1, <2>6 DEF Earned, Exists, Unset
      <3> QED
        BY <2>1, <2>6, <3>1 DEF Deserved, StepWon, Pod
    <2> QED
      BY <2>4, <2>5, <2>6 DEF Successful
  <1> QED
    BY <1>2 DEF Deserved, Pod

LEMMA ChildInOrder ==
  ASSUME NEW c \in Node, c \notin Top
  PROVE  LET p == Parent(c)
         IN  /\ Order(p, c) \in DOMAIN Kids[p] /\ Kids[p][Order(p, c)] = c
             /\ DOMAIN Kids[p] = 1..Len(Kids[p]) /\ Len(Kids[p]) \in Nat
  <1> DEFINE p == Parent(c)
  <1>1. \E i \in DOMAIN Kids[p] : Kids[p][i] = c
    BY ParentExists DEF ParentOf
  <1>2. Kids[p] \in Seq(Node)
    BY ParentExists, TreeAssumption
  <1> QED
    BY <1>1, <1>2 DEF Order

LEMMA EarnedStepReturns ==
  ASSUME SuccessInv, TypeInv', [Next]_vars, StepReturns
  PROVE  EarnedInv'
  <1> DEFINE g == Parent(cur)
             v == markNodePhase(wf, cur, "Error")
  <1>1. /\ wf \in Workflow /\ cur \in Node /\ cur \notin Top /\ Kind[g] = "group"
        /\ pc = "return" /\ Walking /\ Open(wf, cur) /\ Placed(wf, cur)
    BY DEF SuccessInv, LabelInv, RetryInv, TypeInv, TypeOK, StepReturns, Returns, Walking,
           LifeInv, WalkInv, EarnedInv, Reached
  <1>2. UNCHANGED <<store, orig, pods>> /\ SameClaims(wf, wf')
    BY ExecutionSame DEF StepReturns, cluster, SuccessInv, LabelInv, RetryInv
  <1>3. g \in Node /\ g \notin Pod /\ g \notin Retry /\ ~Successful(wf.nodes[g])
    BY <1>1, CallerOpen DEF Retry
  <1>4. Walked
    BY LifeStepReturns DEF SuccessInv
  <1>5. /\ \/ wf' = markNodePhase(v, g, "Error")
           \/ wf' = wf
           \/ wf' = markNodePhase(wf, g, GroupVerdict(g)) /\ IsLast(g, cur)
        /\ \/ cur' = g /\ pc' = "return"
           \/ cur' = Following(g, cur) /\ pc' = "step" /\ ~IsLast(g, cur)
    BY <1>1 DEF StepReturns
  <1>6. v \in Workflow /\ Grounded(wf, v, Won)
    <2>1. Grounded(wf, wf, Won)
      BY <1>1, SameGrounded
    <2> QED
      BY <1>1, <2>1, MarkNodeType, MarkGrounded DEF NodePhase
  <1> HIDE DEF v
  <1>7. ASSUME IsLast(g, cur), GroupVerdict(g) = "Succeeded"
        PROVE  Deserved(wf, Won, g)
    <2>1. Len(Kids[g]) \in DOMAIN Kids[g] /\ Kids[g][Len(Kids[g])] = cur
          /\ \A i \in DOMAIN Kids[g] : i \in Nat /\ i <= Len(Kids[g])
      BY <1>1, <1>7, ChildInOrder DEF IsLast
    <2>2. cur \in Within[Kids[g][Len(Kids[g])]]
      BY <1>1, <2>1, WithinItself
    <2>3. wf.nodes[g].children >= Len(Kids[g])
      BY <1>1, <1>3, <2>1, <2>2 DEF Placed
    <2>4. wf.nodes[g].children \in Nat
      BY <1>1, <1>3 DEF Workflow, NodeStatusType
    <2>5. \A i \in DOMAIN Kids[g] : wf.nodes[g].children >= i
      BY <2>1, <2>3, <2>4
    <2> QED
      BY <1>1, <1>3, <1>7, <2>5, GroupEarned DEF Successful
  <1>8. GroupVerdict(g) \in {wf.nodes[g].phase, "Failed", "Succeeded"}
    BY DEF GroupVerdict
  <1>9. Grounded(wf, wf', Won)
    <2>1. CASE wf' = markNodePhase(v, g, "Error")
      BY <1>3, <1>6, <2>1, MarkGrounded
    <2>2. CASE wf' = wf
      BY <1>1, <2>2, SameGrounded
    <2>3. CASE wf' = markNodePhase(wf, g, GroupVerdict(g)) /\ IsLast(g, cur)
      BY <1>1, <1>3, <1>7, <1>8, <2>3, SameGrounded, MarkGrounded
    <2> QED
      BY <1>5, <2>1, <2>2, <2>3
  <1>10. Placed(wf', g)
    <2>1. Placed(wf, g)
      BY <1>1, PlacedUp
    <2> QED
      BY <1>4, <1>9, <2>1, PlaceKept
  <1>11. Placed(wf', Reached')
    <2>1. pc' = "step" => Parent(cur') = g
      BY <1>1, <1>5, NextChild
    <2> QED
      BY <1>5, <1>10, <2>1 DEF Reached
  <1> QED
    BY <1>1, <1>2, <1>4, <1>5, <1>9, <1>11, EarnedStep DEF Walking

(* A template of steps succeeds after its last group, and the groups       *)
(* before that have succeeded or the operator would not be there.          *)
LEMMA EarnedGroupReturns ==
  ASSUME SuccessInv, TypeInv', [Next]_vars, GroupReturns
  PROVE  EarnedInv'
  <1> DEFINE s == Parent(cur)
             o == Order(s, cur)
  <1>1. /\ wf \in Workflow /\ cur \in Node /\ cur \notin Top /\ Kind[s] = "steps"
        /\ pc = "return" /\ Walking /\ Open(wf, cur) /\ Placed(wf, cur) /\ Earned(wf, Won)
    BY DEF SuccessInv, LabelInv, RetryInv, TypeInv, TypeOK, GroupReturns, Returns, Walking,
           LifeInv, WalkInv, EarnedInv, Reached, During
  <1>2. UNCHANGED <<store, orig, pods>> /\ SameClaims(wf, wf')
    BY ExecutionSame DEF GroupReturns, cluster, SuccessInv, LabelInv, RetryInv
  <1>3. s \in Node /\ s \notin Pod /\ s \notin Retry
    BY <1>1, CallerOpen DEF Retry
  <1>4. Walked
    BY LifeGroupReturns DEF SuccessInv
  <1>5. /\ o \in DOMAIN Kids[s] /\ Kids[s][o] = cur
        /\ DOMAIN Kids[s] = 1..Len(Kids[s]) /\ Len(Kids[s]) \in Nat
    BY <1>1, ChildInOrder
  <1>6. ASSUME Successful(wf.nodes[cur]), NEW i \in DOMAIN Kids[s], i <= o
        PROVE  wf.nodes[Kids[s][i]].phase = "Succeeded"
    <2>1. CASE i = o
      <3>1. ~IsStep(cur)
        BY <1>1 DEF IsStep
      <3> QED
        BY <1>1, <1>5, <1>6, <2>1, <3>1 DEF Successful, Earned
    <2>2. CASE i < o
      <3>1. cur \in Within[Kids[s][o]]
        BY <1>1, <1>5, WithinItself
      <3> QED
        BY <1>1, <1>3, <1>5, <2>2, <3>1 DEF Placed
    <2> QED
      BY <1>5, <1>6, <2>1, <2>2
  <1>7. /\ \/ wf' \in {wf, markNodePhase(wf, s, "Error"), markNodePhase(wf, s, "Failed")}
           \/ /\ wf' = markNodePhase(wf, s, "Succeeded")
              /\ Successful(wf.nodes[cur]) /\ IsLast(s, cur)
        /\ \/ cur' = s /\ pc' = "ended"
           \/ /\ cur' = Following(s, cur) /\ pc' = "group"
              /\ Successful(wf.nodes[cur]) /\ ~IsLast(s, cur)
    BY DEF GroupReturns
  <1>8. ASSUME Successful(wf.nodes[cur]), IsLast(s, cur)
        PROVE  Deserved(wf, Won, s)
    <2>1. \A i \in DOMAIN Kids[s] : i <= o
      BY <1>5, <1>8 DEF IsLast
    <2> QED
      BY <1>1, <1>3, <1>6, <1>8, <2>1 DEF Deserved
  <1> HIDE DEF o
  <1>9. Grounded(wf, wf', Won)
    BY <1>1, <1>3, <1>7, <1>8, SameGrounded, MarkGrounded
  <1>10. Placed(wf', s)
    <2>1. Placed(wf, s)
      BY <1>1, PlacedUp
    <2> QED
      BY <1>4, <1>9, <2>1, PlaceKept
  <1>11. Placed(wf', Reached')
    <2>1. CASE cur' = s /\ pc' = "ended"
      BY <1>10, <2>1 DEF Reached
    <2>2. CASE /\ cur' = Following(s, cur) /\ pc' = "group"
               /\ Successful(wf.nodes[cur]) /\ ~IsLast(s, cur)
      <3>1. o + 1 \in DOMAIN Kids[s] /\ cur' = Kids[s][o + 1]
        BY <1>5, <2>2 DEF IsLast, Following, o
      <3>2. ASSUME NEW i \in DOMAIN Kids[s], i < o + 1
            PROVE  wf'.nodes[Kids[s][i]].phase = "Succeeded"
        <4>1. i <= o /\ o \in Nat
          BY <1>5, <3>2
        <4>2. wf.nodes[Kids[s][i]].phase = "Succeeded" /\ Kids[s][i] \in Node
          BY <1>3, <1>6, <2>2, <4>1, KidsAreNodes
        <4> QED
          BY <1>4, <4>2 DEF Walked, Walks, Onward, Successful
      <3>3. Placed(wf', Kids[s][o + 1])
        BY <1>1, <1>3, <1>10, <3>1, <3>2, PlacedDown
      <3> QED
        BY <2>2, <3>1, <3>3 DEF Reached
    <2> QED
      BY <1>7, <2>1, <2>2
  <1> QED
    BY <1>1, <1>2, <1>4, <1>7, <1>9, <1>11, EarnedStep DEF Walking

LEMMA EarnedKillDaemons ==
  ASSUME SuccessInv, TypeInv', [Next]_vars, killDeamonedChildren
  PROVE  EarnedInv'
  <1>1. /\ pc = "ended" /\ Walking /\ pc' = "return" /\ wf \in Workflow
        /\ UNCHANGED <<store, orig, wf, cur>>
    BY DEF killDeamonedChildren, ReturnOrTimeout, Return, Walking, SuccessInv, LabelInv, RetryInv,
           TypeInv, TypeOK
  <1>2. Walked
    BY LifeKillDaemons DEF SuccessInv
  <1>3. SameClaims(wf, wf') /\ Grounded(wf, wf', Won)
    BY <1>1, SameGrounded DEF SameClaims
  <1>4. Placed(wf', Reached')
    BY <1>1 DEF SuccessInv, EarnedInv, Reached
  <1> QED
    BY <1>1, <1>2, <1>3, <1>4, EarnedStep DEF Walking

LEMMA EarnedTemplateReturns ==
  ASSUME SuccessInv, TypeInv', [Next]_vars, TemplateReturns
  PROVE  EarnedInv'
  <1>1. /\ pc = "return" /\ Walking /\ wf \in Workflow
        /\ UNCHANGED <<store, orig, wf, pods>>
    BY DEF TemplateReturns, cluster, Walking, SuccessInv, LabelInv, RetryInv, TypeInv, TypeOK
  <1>2. Walked
    BY LifeTemplateReturns DEF SuccessInv
  <1>3. SameClaims(wf, wf') /\ Grounded(wf, wf', Won)
    BY <1>1, SameGrounded DEF SameClaims
  <1>4. \/ pc' \in {"persist", "finish"}
        \/ pc' = "template" /\ cur' = OnExit /\ OnExit # NoNode
    BY DEF TemplateReturns, EnterTemplate
  <1>5. Walking' => Placed(wf', Reached')
    BY <1>4, PlacedTop DEF Walking, Reached, Top
  <1> QED
    BY <1>1, <1>2, <1>3, <1>4, <1>5, EarnedStep DEF Walking

-----------------------------------------------------------------------------
(* The steps outside of the execution. *)

LEMMA WonGrows ==
  ASSUME TypeOK, BudgetInv, [Next]_vars,
         \A p \in Pod :
           \/ pods'[p].phase = pods[p].phase
           \/ pods[p].phase \notin {"Absent", "Succeeded"} /\ pods'[p].phase \notin {"Absent", "Pending"}
           \/ pods'[p].phase = "Absent" /\ Spend("delete")
  PROVE  Won \subseteq Won'
  <1> SUFFICES ASSUME NEW p \in Won PROVE p \in Won'
    OBVIOUS
  <1>1. p \in Pod
    BY WonTypes
  <1> QED
    BY <1>1, WonKept

(* A step that does not touch the operation, or ends it. *)
LEMMA EarnedElsewhere ==
  ASSUME EarnedInv, UNCHANGED store, Won \subseteq Won',
         UNCHANGED operation \/ pc' \in {"idle", "send"}
  PROVE  EarnedInv'
  <1>1. /\ Earned(store, Won) /\ AttemptsStarted(store) /\ Judged(store)
        /\ During => Earned(wf, Won) /\ AttemptsStarted(wf) /\ Judged(wf) /\ Remembered(store, wf)
    BY DEF EarnedInv
  <1>2. Earned(store', Won')
    BY <1>1, WonTypes, EarnedSame
  <1>3. CASE UNCHANGED operation
    <2>1. UNCHANGED <<pc, wf, cur>>
      BY <1>3 DEF operation
    <2>2. During => Earned(wf', Won')
      BY <1>1, <2>1, WonTypes, EarnedSame
    <2> QED
      BY <1>1, <1>2, <2>1, <2>2 DEF EarnedInv, During, Walking, Reached, Placed
  <1>4. CASE pc' \in {"idle", "send"}
    BY <1>1, <1>2, <1>4 DEF EarnedInv, During, Walking
  <1> QED
    BY <1>3, <1>4

LEMMA EarnedStarts ==
  ASSUME InSync, SuccessInv, [Next]_vars, StartOperation \/ ValidateOnce
  PROVE  EarnedInv'
  <1>1. /\ UNCHANGED <<store, pods>> /\ TypeOK /\ BudgetInv
        /\ Earned(store, Won) /\ AttemptsStarted(store) /\ Judged(store)
    BY DEF StartOperation, ValidateOnce, cluster, SuccessInv, LabelInv, RetryInv, TypeInv, EarnedInv
  <1>2. Won \subseteq Won'
    BY <1>1, WonGrows
  <1>3. Earned(store', Won')
    BY <1>1, <1>2, WonTypes, EarnedSame
  <1>4. CASE StartOperation
    <2>1. wf' = store /\ ~store.done /\ ~Walking'
      BY <1>4 DEF StartOperation, SuccessInv, LabelInv, SyncInv, Walking
    <2>2. Remembered(store, store)
      BY DEF Remembered
    <2> QED
      BY <1>1, <1>3, <2>1, <2>2 DEF EarnedInv
  <1>5. CASE ValidateOnce
    <2>1. /\ During /\ ~wf.done /\ wf \in Workflow
          /\ Earned(wf, Won) /\ AttemptsStarted(wf) /\ Remembered(store, wf)
      BY <1>5 DEF ValidateOnce, During, SuccessInv, LabelInv, RetryInv, TypeInv, TypeOK, ClaimInv,
                  StartingInv, EarnedInv
    <2>2. wf'.nodes = wf.nodes /\ (wf'.done => wf'.phase = "Failed") /\ ~Walking'
      BY <1>5, <2>1 DEF ValidateOnce, markWorkflowPhase, Workflow, Walking
    <2>3. Earned(wf', Won')
      BY <1>2, <2>1, <2>2, WonTypes, EarnedSame
    <2>4. AttemptsStarted(wf') /\ Judged(wf') /\ Remembered(store', wf')
      BY <1>1, <2>1, <2>2 DEF AttemptsStarted, Judged, Remembered
    <2> QED
      BY <1>1, <1>3, <2>2, <2>3, <2>4 DEF EarnedInv
  <1> QED
    BY <1>4, <1>5

(* A pod's node succeeds because of its pod. *)
LEMMA EarnedReconciliation ==
  ASSUME SuccessInv, [Next]_vars, podReconciliation
  PROVE  EarnedInv'
  <1>1. /\ UNCHANGED <<store, pods, budget>> /\ During /\ ~Walking' /\ wf \in Workflow
        /\ Earned(store, Won) /\ AttemptsStarted(store) /\ Judged(store)
        /\ Earned(wf, Won) /\ AttemptsStarted(wf) /\ Remembered(store, wf)
        /\ ~wf.done
    BY DEF podReconciliation, cluster, During, Walking, SuccessInv, LabelInv, RetryInv, TypeInv,
           TypeOK, EarnedInv, ClaimInv, StartingInv
  <1>2. Won' = Won
    BY <1>1 DEF Won, MayHaveSucceeded
  <1>3. ASSUME NEW n \in Node
        PROVE  /\ Exists(wf.nodes[n]) => Exists(wf'.nodes[n])
               /\ wf'.nodes[n].phase = "Succeeded" =>
                    wf.nodes[n].phase = "Succeeded" \/ (n \in Pod /\ n \in Won)
               /\ wf'.nodes[n].phase = "Skipped" => wf.nodes[n].phase = "Skipped"
               /\ n \notin Pod => \/ wf'.nodes[n] = wf.nodes[n]
                                  \/ ~Completed(wf.nodes[n]) /\ wf'.nodes[n].phase = "Error"
    <2>1. wf.nodes[n] \in NodeStatusType
      BY <1>1 DEF Workflow
    <2>2. CASE wf'.nodes[n] = wf.nodes[n]
      BY <2>2
    <2>3. CASE ~Completed(wf.nodes[n]) /\ wf'.nodes[n].phase = "Error"
      BY <2>3 DEF Exists, Unset
    <2>4. CASE /\ n \in Pod /\ Exists(wf.nodes[n]) /\ pods[n].phase # "Absent"
               /\ wf'.nodes[n] = assessNodeStatus(pods[n].phase, wf.nodes[n])
      <3>1. pods[n].phase = "Ready" => n \in Daemon
        BY <2>4 DEF SuccessInv, LifeInv, PodsInv
      <3>2. pods[n].phase \in {"Succeeded", "Ready"} => n \in Won
        BY <2>4, <3>1 DEF Won, MayHaveSucceeded
      <3>3. /\ pods[n].phase \in {"Succeeded", "Ready"} => wf'.nodes[n].phase = "Succeeded"
            /\ pods[n].phase \notin {"Succeeded", "Ready"} =>
                 wf'.nodes[n] = wf.nodes[n] \/ wf'.nodes[n].phase \in {"Failed", "Error"}
        BY <2>1, <2>4 DEF assessNodeStatus, inferFailedReason, NodeStatusType
      <3> QED
        BY <2>4, <3>2, <3>3 DEF Exists, Unset
    <2> QED
      BY <1>1, <2>2, <2>3, <2>4, ReconciledNode
  <1>4. Remembered(wf, wf') /\ Remembered(store', wf')
    BY <1>1, <1>3 DEF Remembered
  <1>5. \A n \in Node \ Pod : wf.nodes[n].phase = "Succeeded" => wf'.nodes[n].phase = "Succeeded"
    BY <1>3 DEF Completed
  <1>6. Earned(wf', Won')
    BY <1>1, <1>2, <1>3, <1>4, <1>5, WonTypes, EarnedKept
  <1>7. AttemptsStarted(wf')
    <2> SUFFICES ASSUME NEW n \in Retry, wf'.nodes[n].phase = "Running"
                 PROVE  wf'.nodes[n].children \in DOMAIN Kids[n]
      BY DEF AttemptsStarted
    <2>1. n \in Node /\ n \notin Pod
      BY DEF Retry, Pod
    <2>2. wf'.nodes[n] = wf.nodes[n]
      BY <1>3, <2>1
    <2> QED
      BY <1>1, <2>2 DEF AttemptsStarted
  <1>8. Judged(wf')
    BY <1>1 DEF podReconciliation, Workflow, Judged
  <1> QED
    BY <1>1, <1>2, <1>4, <1>6, <1>7, <1>8 DEF EarnedInv

LEMMA EarnedCreatePVCs ==
  ASSUME SuccessInv, [Next]_vars, createPVCs
  PROVE  EarnedInv'
  <1>1. /\ UNCHANGED <<store, pods>> /\ During /\ wf \in Workflow /\ TypeOK /\ BudgetInv
        /\ Earned(store, Won) /\ AttemptsStarted(store) /\ Judged(store)
        /\ Earned(wf, Won) /\ AttemptsStarted(wf) /\ Remembered(store, wf)
        /\ ~wf.done
    BY DEF createPVCs, During, SuccessInv, LabelInv, RetryInv, TypeInv, TypeOK, EarnedInv, ClaimInv,
           StartingInv
  <1>2. Root \in Node /\ Root \in Top /\ Root \notin {NoNode}
    BY TreeAssumption DEF Top
  <1>3. Won \subseteq Won'
    BY <1>1, WonGrows
  <1>4. Earned(store', Won')
    BY <1>1, <1>3, WonTypes, EarnedSame
  <1>5. CASE EnterTemplate(Root) /\ wf'.nodes = wf.nodes /\ wf'.done = wf.done
    <2>1. Earned(wf', Won')
      BY <1>1, <1>3, <1>5, WonTypes, EarnedSame
    <2>2. AttemptsStarted(wf') /\ Judged(wf') /\ Remembered(store', wf')
      BY <1>1, <1>5 DEF AttemptsStarted, Judged, Remembered
    <2>3. Placed(wf', Reached')
      BY <1>2, <1>5, PlacedTop DEF EnterTemplate, Reached
    <2> QED
      BY <1>1, <1>4, <2>1, <2>2, <2>3 DEF EarnedInv
  <1>6. CASE /\ pc' = "persist" /\ ~NothingToCreate
             /\ \E k \in Claim :
                  wf' = markWorkflowPhase(
                          markNodePhase([wf EXCEPT !.slots = NumClaims, !.vols = @ \cup 1..(k-1)],
                                        Root, "Error"),
                          "Error", TRUE)
    <2>1. wf'.done /\ wf'.phase = "Error" /\ wf'.nodes = markNodePhase(wf, Root, "Error").nodes
      BY <1>1, <1>6 DEF markWorkflowPhase, markNodePhase, Workflow
    <2>2. wf'.nodes[Root].phase = "Error" /\ \A n \in Node : n # Root => wf'.nodes[n] = wf.nodes[n]
      BY <1>1, <1>2, <2>1, MarkPhases
    <2>3. ~Exists(wf.nodes[Root])
      BY <1>6 DEF createPVCs, NothingToCreate, SuccessInv, LifeInv, PhaseInv
    <2>4. Remembered(wf, wf') /\ Remembered(store', wf')
      BY <1>1, <2>2 DEF Remembered, Exists, Unset
    <2>5. \A n \in Node : \/ wf'.nodes[n] = wf.nodes[n]
                          \/ wf'.nodes[n].phase = "Error" /\ wf.nodes[n].phase = Unset
      BY <2>2, <2>3 DEF Exists
    <2>6. Earned(wf', Won')
      <3>1. \A n \in Node \ Pod : wf.nodes[n].phase = "Succeeded" => wf'.nodes[n].phase = "Succeeded"
        BY <2>5 DEF Unset
      <3>2. \A n \in Node : /\ wf'.nodes[n].phase = "Succeeded" => wf.nodes[n].phase = "Succeeded"
                            /\ wf'.nodes[n].phase = "Skipped" => wf.nodes[n].phase = "Skipped"
        BY <2>5
      <3> QED
        BY <1>1, <1>3, <2>4, <3>1, <3>2, WonTypes, EarnedKept
    <2>7. AttemptsStarted(wf') /\ Judged(wf')
      BY <1>1, <2>1, <2>5 DEF AttemptsStarted, Judged, Retry
    <2> QED
      BY <1>1, <1>4, <1>6, <2>4, <2>6, <2>7 DEF EarnedInv, Walking
  <1>7. \/ EnterTemplate(Root) /\ wf' = wf
        \/ EnterTemplate(Root) /\ wf' = [wf EXCEPT !.slots = NumClaims, !.vols = Claim]
        \/ /\ pc' = "persist" /\ ~NothingToCreate
           /\ \E k \in Claim :
                wf' = markWorkflowPhase(
                        markNodePhase([wf EXCEPT !.slots = NumClaims, !.vols = @ \cup 1..(k-1)],
                                      Root, "Error"),
                        "Error", TRUE)
    BY DEF createPVCs
  <1>8. CASE EnterTemplate(Root) /\ wf' = [wf EXCEPT !.slots = NumClaims, !.vols = Claim]
    <2>1. wf'.nodes = wf.nodes /\ wf'.done = wf.done
      BY <1>1, <1>8 DEF Workflow
    <2> QED
      BY <1>5, <1>8, <2>1
  <1> QED
    BY <1>5, <1>6, <1>7, <1>8

(* The workflow succeeds if its entrypoint and its exit handler have. *)
LEMMA EarnedFinish ==
  ASSUME SuccessInv, [Next]_vars, FinishWorkflow
  PROVE  EarnedInv'
  <1>1. /\ UNCHANGED <<store, pods>> /\ During /\ ~Walking' /\ wf \in Workflow /\ TypeOK /\ BudgetInv
        /\ Earned(store, Won) /\ AttemptsStarted(store) /\ Judged(store)
        /\ Earned(wf, Won) /\ AttemptsStarted(wf) /\ Remembered(store, wf)
        /\ ~wf.done /\ \A n \in Top : Completed(wf.nodes[n])
    BY DEF FinishWorkflow, During, Walking, SuccessInv, LabelInv, RetryInv, TypeInv, TypeOK,
           EarnedInv, ClaimInv, Executing, LifeInv, WalkInv
  <1>2. Won \subseteq Won'
    BY <1>1, WonGrows
  <1>3. Earned(store', Won')
    BY <1>1, <1>2, WonTypes, EarnedSame
  <1>4. PICK failed \in SUBSET wf.vols :
          LET w == IF failed = wf.vols THEN wf
                   ELSE [wf EXCEPT !.vols = failed, !.slots = Cardinality(failed)]
          IN  \/ wf' = markWorkflowPhase(w, FinalPhase(w), TRUE)
              \/ wf' = markWorkflowPhase(w, "Error", FALSE)
    BY DEF FinishWorkflow
  <1> DEFINE w == IF failed = wf.vols THEN wf
                  ELSE [wf EXCEPT !.vols = failed, !.slots = Cardinality(failed)]
  <1>5. w.nodes = wf.nodes /\ w.done = wf.done
    BY <1>1 DEF Workflow
  <1>6. wf'.nodes = wf.nodes /\ (wf'.done => wf'.phase = FinalPhase(w))
    <2>1. DOMAIN w = {"phase", "done", "nodes", "slots", "vols"} /\ w = [x \in DOMAIN w |-> w[x]]
      BY <1>1 DEF Workflow
    <2>2. wf' \in {markWorkflowPhase(w, FinalPhase(w), TRUE), markWorkflowPhase(w, "Error", FALSE)}
      BY <1>4
    <2> HIDE DEF w
    <2> QED
      BY <1>1, <1>5, <2>1, <2>2 DEF markWorkflowPhase
  <1> HIDE DEF w
  <1>7. Judged(wf')
    <2> SUFFICES ASSUME FinalPhase(w) = "Succeeded", NEW n \in Top
                 PROVE  wf.nodes[n].phase = "Succeeded"
      BY <1>6 DEF Judged
    <2>1. \A t \in Top : t \in Node /\ ~IsStep(t) /\ t \in {Root, OnExit} /\ t # NoNode
      BY TreeAssumption DEF Top, IsStep
    <2>2. Successful(wf.nodes[Root])
      BY <1>5 DEF FinalPhase, Successful
    <2>3. OnExit # NoNode => Successful(wf.nodes[OnExit])
      BY <1>5, <2>2 DEF FinalPhase, Successful
    <2>4. Successful(wf.nodes[n]) /\ n \in Node /\ ~IsStep(n)
      BY <2>1, <2>2, <2>3
    <2> QED
      BY <1>1, <2>4 DEF Earned, Successful
  <1>8. Earned(wf', Won') /\ AttemptsStarted(wf') /\ Remembered(store', wf')
    <2>1. Earned(wf', Won')
      BY <1>1, <1>2, <1>6, WonTypes, EarnedSame
    <2> QED
      BY <1>1, <1>6, <2>1 DEF AttemptsStarted, Remembered
  <1> QED
    BY <1>1, <1>3, <1>7, <1>8 DEF EarnedInv

LEMMA EarnedPersist ==
  ASSUME SuccessInv, [Next]_vars, persistUpdates
  PROVE  EarnedInv'
  <1>1. UNCHANGED pods /\ pc' \in {"send", "idle"} /\ TypeOK /\ BudgetInv
    BY DEF persistUpdates, ToLabeling, Leave, cluster, SuccessInv, LabelInv, RetryInv, TypeInv
  <1>2. Won \subseteq Won'
    BY <1>1, WonGrows
  <1>3. CASE ApplyPatch
    <2>1. /\ orig = store /\ During /\ SameClaims(wf, store')
          /\ \A n \in Node : store'.nodes[n].phase = wf.nodes[n].phase
      BY <1>3, Patched DEF SuccessInv
    <2>2. \A n \in Node : store'.nodes[n].children = wf.nodes[n].children
      BY <1>1, <1>3, <2>1, PatchOfLatest DEF ApplyPatch, TypeOK
    <2>3. Earned(wf, Won) /\ AttemptsStarted(wf) /\ Judged(wf)
      BY <2>1 DEF SuccessInv, EarnedInv
    <2>4. Earned(store', Won')
      BY <1>2, <2>1, <2>3, WonTypes, EarnedSame
    <2>5. AttemptsStarted(store') /\ Judged(store')
      <3>1. Top \subseteq Node
        BY TreeAssumption DEF Top
      <3> QED
        BY <2>1, <2>2, <2>3, <3>1 DEF AttemptsStarted, Judged, SameClaims, Retry
    <2> QED
      BY <1>1, <2>4, <2>5 DEF EarnedInv, During, Walking
  <1>4. CASE UNCHANGED store
    BY <1>1, <1>2, <1>4, EarnedElsewhere DEF SuccessInv
  <1> QED
    BY <1>3, <1>4 DEF persistUpdates

LEMMA EarnedOthers ==
  ASSUME SuccessInv, [Next]_vars,
         DrainItem \/ ListPodsFails \/ NothingToPersist \/ SendCompletedPod \/ EndOperation
         \/ WatchEvent \/ Resync \/ processNextPodItem \/ podLabeler \/ Crash \/ Environment
         \/ UNCHANGED vars
  PROVE  EarnedInv'
  <1>1. pods \in [Pod -> PodType] /\ TypeOK /\ BudgetInv /\ EarnedInv
    BY DEF SuccessInv, LabelInv, RetryInv, TypeInv, TypeOK
  <1>2. CASE ListPodsFails \/ NothingToPersist \/ SendCompletedPod \/ EndOperation \/ Crash
    <2>1. UNCHANGED <<store, pods>> /\ pc' \in {"idle", "send"}
      BY <1>2 DEF ListPodsFails, NothingToPersist, SendCompletedPod, EndOperation, Crash, Leave,
                  cluster
    <2> QED
      BY <1>1, <2>1, WonGrows, EarnedElsewhere
  <1>3. CASE DrainItem \/ WatchEvent \/ Resync \/ processNextPodItem \/ UNCHANGED vars
    <2>1. UNCHANGED <<store, operation, pods>>
      BY <1>3 DEF DrainItem, WatchEvent, Resync, processNextPodItem, vars, cluster
    <2> QED
      BY <1>1, <2>1, WonGrows, EarnedElsewhere
  <1>4. CASE podLabeler
    <2>1. /\ UNCHANGED <<store, operation>>
          /\ pods' = pods \/ \E p \in Pod : pods' = [pods EXCEPT ![p].labelled = TRUE]
      BY <1>1, <1>4 DEF podLabeler, AddPodLabel, TypeOK
    <2>2. \A p \in Pod : pods'[p].phase = pods[p].phase
      BY <1>1, <2>1 DEF PodType
    <2> QED
      BY <1>1, <2>1, <2>2, WonGrows, EarnedElsewhere
  <1>5. CASE Environment
    <2>1. UNCHANGED <<store, operation>>
      BY <1>5 DEF Environment, PodRuns, DaemonReady, PodTerminates, PodUnreachable,
                  PodReachable, PodDeleted, PodMoves
    <2>2. PICK p \in Pod : \/ pods' = [pods EXCEPT ![p] = NoPod] /\ Spend("delete")
                           \/ \E to \in PodPhase \ {"Absent", "Pending"} :
                                /\ pods' = [pods EXCEPT ![p].phase = to]
                                /\ pods[p].phase \in {"Pending", "Running", "Ready", "Unknown"}
      BY <1>5 DEF Environment, PodRuns, DaemonReady, PodTerminates, PodUnreachable,
                  PodReachable, PodDeleted, PodMoves, PodPhase, PodTerminated
    <2>3. Won \subseteq Won'
      BY <1>1, <2>2, WonGrows DEF PodType, NoPod
    <2> QED
      BY <1>1, <2>1, <2>3, EarnedElsewhere
  <1> QED
    BY <1>2, <1>3, <1>4, <1>5

LEMMA EarnedInit == Init => EarnedInv
  <1> SUFFICES ASSUME Init PROVE EarnedInv
    OBVIOUS
  <1>1. /\ pc = "idle" /\ ~store.done /\ \A n \in Node : store.nodes[n].phase = Unset
    BY DEF Init, NewWorkflow, NoStatus
  <1> QED
    BY <1>1 DEF EarnedInv, Earned, AttemptsStarted, Judged, During, Walking, Unset, Retry

LEMMA SuccessInvariant == InSync => (Spec => []SuccessInv)
  <1> SUFFICES ASSUME InSync PROVE Spec => []SuccessInv
    OBVIOUS
  <1>1. LabelInv /\ ClaimInv /\ LifeInv /\ BudgetInv /\ EarnedInv /\ TypeInv' /\ [Next]_vars
          => EarnedInv'
    <2> SUFFICES ASSUME SuccessInv, TypeInv', [Next]_vars PROVE EarnedInv'
      BY DEF SuccessInv
    <2> QED
      BY EarnedStarts, EarnedReconciliation, EarnedCreatePVCs, EarnedPodTemplate,
         EarnedRetryTemplate, EarnedStepsTemplate, EarnedStepGroup, EarnedLaunchStep,
         EarnedStepReturns, EarnedGroupReturns, EarnedKillDaemons, EarnedTemplateReturns,
         EarnedFinish, EarnedPersist, EarnedOthers
      DEF Next, Worker
  <1>2. Spec => []LabelInv /\ []ClaimInv /\ []LifeInv /\ []BudgetInv /\ []TypeInv
    BY LabelInvariant, ClaimInvariant, LifeInvariant, BudgetInvariant, TypeInvariant
  <1> QED
    BY EarnedInit, <1>1, <1>2, PTL DEF Spec, SuccessInv

-----------------------------------------------------------------------------
(* The theorems. *)

(* A workflow that reports success ran every step of its entrypoint and of *)
(* its exit handler to success, according to the pods themselves: whatever *)
(* the tree, and whatever crashes, deadlines, deleted pods and lost        *)
(* answers came between two operations.                                    *)
THEOREM SuccessWasEarned == InSync => (Spec => []SuccessIsEarned)
  <1> SUFFICES ASSUME InSync PROVE Spec => []SuccessIsEarned
    OBVIOUS
  <1>1. SuccessInv => SuccessIsEarned
    <2> SUFFICES ASSUME SuccessInv, store.done, store.phase = "Succeeded", NEW q \in StepNode
                 PROVE  StepDone(q)
      BY DEF SuccessIsEarned
    <2>1. PICK t \in Top : q \in Within[t]
      BY TreeAssumption DEF StepNode
    <2>2. t \in Node /\ store.nodes[t].phase = "Succeeded" /\ Earned(store, Won)
      BY TreeAssumption DEF SuccessInv, EarnedInv, Judged, Top
    <2> QED
      BY <2>1, <2>2, StepsSucceeded
  <1>2. Spec => []SuccessInv
    BY SuccessInvariant
  <1> QED
    BY <1>1, <1>2, PTL

(* A pod is created by the execution of its own node, or as the attempt of *)
(* the retry node being executed.                                          *)
LEMMA WhoCreates ==
  ASSUME TypeInv, [Next]_vars, NEW p \in Pod, PodCreated(p)
  PROVE  /\ pc = "template"
         /\ \/ p = cur
            \/ /\ ExecuteRetryTemplate /\ cur \in Retry
               /\ \E i \in DOMAIN Kids[cur] : Kids[cur][i] = p
  <1>1. pods \in [Pod -> PodType] /\ pods[p].phase = "Absent" /\ pods'[p].phase # "Absent"
    BY DEF TypeInv, TypeOK, PodCreated
  <1>2. CASE ExecutePodTemplate
    BY <1>1, <1>2 DEF ExecutePodTemplate, executeContainer, ReturnAtOnce, Created
  <1>3. CASE ExecuteRetryTemplate
    <2>1. cur \in Retry /\ pc = "template" /\ NewAttempt(cur)
      BY <1>1, <1>3 DEF ExecuteRetryTemplate, ReturnAtOnce, Retry, TypeInv, TypeOK
    <2>2. PICK k \in DOMAIN Kids[cur] : pods' \in {pods, Created(Kids[cur][k])}
      BY <2>1 DEF NewAttempt, executeContainer
    <2> QED
      BY <1>1, <1>3, <2>1, <2>2 DEF Created
  <1>4. CASE killDeamonedChildren
    <2>1. pods'[p] = pods[p]
      BY <1>1, <1>4 DEF killDeamonedChildren
    <2> QED
      BY <1>1, <2>1
  <1>5. CASE DrainItem \/ StartOperation \/ ValidateOnce \/ podReconciliation \/ ListPodsFails
             \/ createPVCs \/ ExecuteStepsTemplate \/ executeStepGroup \/ LaunchStep \/ StepReturns
             \/ GroupReturns \/ TemplateReturns \/ FinishWorkflow \/ NothingToPersist
             \/ persistUpdates \/ SendCompletedPod \/ EndOperation \/ WatchEvent \/ Resync
             \/ processNextPodItem \/ Crash \/ UNCHANGED vars
    <2>1. UNCHANGED pods
      BY <1>5 DEF DrainItem, StartOperation, ValidateOnce, podReconciliation, ListPodsFails,
                  createPVCs, ExecuteStepsTemplate, ReturnAtOnce, executeStepGroup, LaunchStep,
                  StepReturns, GroupReturns, TemplateReturns, FinishWorkflow, NothingToPersist,
                  persistUpdates, SendCompletedPod, EndOperation, WatchEvent, Resync,
                  processNextPodItem, Crash, vars, cluster
    <2> QED
      BY <1>1, <2>1
  <1>6. CASE podLabeler
    <2>1. pods' = pods \/ \E q \in Pod : pods' = [pods EXCEPT ![q].labelled = TRUE]
      BY <1>6 DEF podLabeler, AddPodLabel, TypeInv, TypeOK
    <2> QED
      BY <1>1, <2>1 DEF PodType
  <1>7. CASE Environment
    <2>1. \E q \in Pod : \/ pods' = [pods EXCEPT ![q] = NoPod]
                         \/ /\ \E to : pods' = [pods EXCEPT ![q].phase = to]
                            /\ pods[q].phase # "Absent"
      BY <1>7 DEF Environment, PodRuns, DaemonReady, PodTerminates, PodUnreachable,
                  PodReachable, PodDeleted, PodMoves, PodTerminated
    <2> QED
      BY <1>1, <2>1 DEF NoPod
  <1> QED
    BY <1>2, <1>3, <1>4, <1>5, <1>6, <1>7 DEF Next, Worker

(* No pod of a step group is created before every step of the groups       *)
(* before it has succeeded, by whichever operation: what the operation     *)
(* knows of the earlier groups is what an earlier operation recorded of    *)
(* them, and that record is only ever one of steps that have succeeded.    *)
THEOREM GroupsInOrder == InSync => (Spec => StepsInOrder)
  <1> SUFFICES ASSUME InSync PROVE Spec => StepsInOrder
    OBVIOUS
  <1>1. SuccessInv /\ [Next]_vars =>
          \A p \in Pod : PodCreated(p) => \A q \in StepsBefore(p) : StepDone(q)
    <2> SUFFICES ASSUME SuccessInv, [Next]_vars, NEW p \in Pod, PodCreated(p),
                        NEW q \in StepsBefore(p)
                 PROVE  StepDone(q)
      OBVIOUS
    <2>1. PICK s \in Node : Kind[s] = "steps" /\ \E i, j \in DOMAIN Kids[s] :
            i < j /\ q \in Within[Kids[s][i]] /\ p \in Within[Kids[s][j]]
      BY DEF StepsBefore
    <2>2. PICK i \in DOMAIN Kids[s], j \in DOMAIN Kids[s] :
            i < j /\ q \in Within[Kids[s][i]] /\ p \in Within[Kids[s][j]]
      BY <2>1
    <2>3. /\ pc = "template"
          /\ p = cur \/ (cur \in Retry /\ \E k \in DOMAIN Kids[cur] : Kids[cur][k] = p)
      BY WhoCreates DEF SuccessInv, LabelInv, RetryInv
    <2>4. Kids[s][j] \in Node /\ Kids[s][i] \in Node /\ Kind[Kids[s][j]] = "group"
      BY <2>1, KidsAreNodes, ParentOfChild DEF KidKinds
    <2>5. cur \in Within[Kids[s][j]]
      <3>1. CASE p = cur
        BY <2>2, <3>1
      <3>2. CASE cur \in Retry /\ \E k \in DOMAIN Kids[cur] : Kids[cur][k] = p
        <4>1. Parent(p) = cur /\ p # Kids[s][j]
          BY <2>4, <3>2, ParentOfChild DEF Retry, Pod
        <4> QED
          BY <2>2, <2>4, <4>1, WithinUp
      <3> QED
        BY <2>3, <3>1, <3>2
    <2>6. Placed(wf, cur) /\ Earned(wf, Won)
      BY <2>3 DEF SuccessInv, EarnedInv, Reached, Walking, During
    <2>7. wf.nodes[Kids[s][i]].phase = "Succeeded"
      BY <2>1, <2>2, <2>5, <2>6 DEF Placed
    <2>8. q \in StepNode
      BY DEF StepsBefore
    <2> QED
      BY <2>2, <2>4, <2>6, <2>7, <2>8, StepsSucceeded
  <1>2. Spec => []SuccessInv
    BY SuccessInvariant
  <1> QED
    BY <1>1, <1>2, PTL DEF Spec, StepsInOrder
=============================================================================
