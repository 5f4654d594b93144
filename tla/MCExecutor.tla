----------------------------- MODULE MCExecutor ------------------------------
(* Small pods for TLC. *)
EXTENDS ExecutorProperties

NoFault    == [f \in Fault |-> 0]
SomeFaults == [NoFault EXCEPT !["api"] = 1, !["docker"] = 1, !["save"] = 1, !["evict"] = 1]

Script ==
  [init |-> TRUE, daemon |-> FALSE, sidecars |-> {"s"}, outputs |-> Output,
   action |-> "none", conditions |-> {}]

Daemon == [Script EXCEPT !.init = FALSE, !.daemon = TRUE, !.outputs = {}]

(* Templates that create, read, apply and delete a resource. *)
Create == [Script EXCEPT !.init = FALSE, !.sidecars = {}, !.outputs = {"parameters"},
                         !.action = "create", !.conditions = Condition]
Get    == [Create EXCEPT !.action = "get", !.conditions = {"failure"}, !.outputs = {}]
Apply  == [Create EXCEPT !.action = "apply", !.conditions = {}]
Delete == [Create EXCEPT !.action = "delete", !.conditions = {"success"}, !.outputs = {}]

AllKinds == {Script, Daemon, Create, Get, Apply, Delete}
=============================================================================
