------------------------- MODULE WorkflowLifecycle --------------------------
(***************************************************************************)
(* What a user of the API server may rely on when watching one workflow:   *)
(* it starts, it may show an error while its volumes cannot be removed, it *)
(* completes once, and a completed workflow never changes again.           *)
(***************************************************************************)
CONSTANT Unset

VARIABLES phase, done, nodes

lifecycle == <<phase, done, nodes>>

Outcome == {"Succeeded", "Failed", "Error"}

Init == phase = Unset /\ done = FALSE /\ \A n \in DOMAIN nodes : nodes[n] = Unset

(* Nodes are added and move from "Running" to an outcome.  A failure may   *)
(* turn out to be a success, but never the other way round.                *)
NodesProgress ==
  /\ DOMAIN nodes' = DOMAIN nodes
  /\ \A n \in DOMAIN nodes :
       /\ nodes[n] # Unset => nodes'[n] # Unset
       /\ nodes[n] \in {"Failed", "Error"} => nodes'[n] # "Running"
       /\ nodes[n] \in {"Succeeded", "Skipped"} => nodes'[n] = nodes[n]

Work ==
  /\ ~done /\ phase \in {Unset, "Running"}
  /\ phase' = "Running" /\ UNCHANGED done
  /\ NodesProgress

(* Every node is finished but the claims cannot all be removed yet. *)
CleanupFails ==
  /\ ~done /\ phase' = "Error" /\ UNCHANGED done
  /\ NodesProgress

Complete ==
  /\ ~done /\ done' = TRUE
  /\ phase' \in Outcome
  /\ NodesProgress

Next == Work \/ CleanupFails \/ Complete

Spec == Init /\ [][Next]_lifecycle
=============================================================================
