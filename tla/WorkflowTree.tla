---------------------------- MODULE WorkflowTree ----------------------------
(***************************************************************************)
(* The shape of one workflow: its nodes as the operator names them, after  *)
(* the expansion of withItems.  A template of steps is a node of kind      *)
(* "steps", each of its step groups a node of kind "group", each step of a *)
(* group a child of that node.  A container with a retry strategy is a     *)
(* node of kind "retry", its attempts are its children.  A container, a    *)
(* script, a resource and an attempt are nodes of kind "pod", whose pod    *)
(* has the node's ID for a name.                                           *)
(***************************************************************************)
EXTENDS NodeStatus, Sequences

CONSTANTS
  Node,          \* every node of the workflow
  NoNode,        \* stands for "no such node"
  Kind,          \* [Node -> {"steps", "group", "retry", "pod"}]
  Kids,          \* [Node -> Seq(Node)]: groups, steps or attempts, in order
  Root,          \* the node of the entrypoint
  OnExit,        \* the node of the onExit handler, NoNode when there is none
  Limit,         \* [Node -> Nat]: retryStrategy.limit of a retry node
  Daemon,        \* the pods whose template is marked daemon
  When,          \* [Node -> {"run", "skip", "bad"}]: value of a step's when clause
  Unresolvable,  \* groups whose references, steps whose outputs do not resolve
  ValidSpec,     \* whether ValidateWorkflow accepts the workflow
  NumClaims      \* number of its volumeClaimTemplates

Pod == {n \in Node : Kind[n] = "pod"}

Top == {Root, OnExit} \ {NoNode}

Claim == 1..NumClaims

ParentOf(p, c) == \E i \in DOMAIN Kids[p] : Kids[p][i] = c

Parent(c) == CHOOSE p \in Node : ParentOf(p, c)

(* The place of child c among the children of p. *)
Order(p, c) == CHOOSE i \in DOMAIN Kids[p] : Kids[p][i] = c

IsLast(p, c) == Order(p, c) = Len(Kids[p])

Following(p, c) == Kids[p][Order(p, c) + 1]

(* The children recorded in a status with the given number of them. *)
Recorded(p, count) == {Kids[p][i] : i \in {j \in DOMAIN Kids[p] : j <= count}}

(* The sets of nodes that hold the children of each of their nodes. *)
ClosedSets == {S \in SUBSET Node : \A p \in S : \A i \in DOMAIN Kids[p] : Kids[p][i] \in S}

(* A node and all the nodes below it. *)
Within == [n \in Node |-> {m \in Node : \A S \in ClosedSets : n \in S => m \in S}]

KidKinds == [steps |-> {"group"}, group |-> {"steps", "retry", "pod"},
             retry |-> {"pod"}, pod |-> {}]

(* A node is a child of one node and in one place, as node names are built *)
(* from the path to the node.  Only the top nodes are nobody's child, and  *)
(* every path starts at one of them.                                       *)
ASSUME TreeAssumption ==
  /\ NoNode \notin Node
  /\ Root \in Node
  /\ OnExit \in Node \cup {NoNode}
  /\ Kind \in [Node -> {"steps", "group", "retry", "pod"}]
  /\ Kids \in [Node -> Seq(Node)]
  /\ \A c \in Node : c \notin Top <=> \E p \in Node : ParentOf(p, c)
  /\ \A p, q \in Node : \A i \in DOMAIN Kids[p], j \in DOMAIN Kids[q] :
       Kids[p][i] = Kids[q][j] => p = q /\ i = j
  /\ \A p \in Node : \A i \in DOMAIN Kids[p] : Kind[Kids[p][i]] \in KidKinds[Kind[p]]
  /\ \A n \in Node : \E t \in Top : n \in Within[t]
  /\ \A n \in Top : Kind[n] # "group"
  /\ \A n \in Node : Kind[n] = "steps" => Kids[n] # <<>>

ASSUME SpecAssumption ==
  /\ Limit \in [Node -> Nat]
  /\ Daemon \subseteq Node
  /\ When \in [Node -> {"run", "skip", "bad"}]
  /\ Unresolvable \subseteq Node
  /\ ValidSpec \in BOOLEAN
  /\ NumClaims \in Nat
=============================================================================
