----------------------------- MODULE MCWorkflow -----------------------------
(***************************************************************************)
(* Small workflows for TLC.                                                *)
(***************************************************************************)
EXTENDS WorkflowProperties, TLC

None == "none"

NoFaults == [f \in Fault |-> 0]

AllRun(nodes) == [n \in nodes |-> "run"]
NoLimits(nodes) == [n \in nodes |-> 0]

(* [a] then [b] *)
Chain == {"root", "g0", "a", "g1", "b"}
ChainKids ==
  [n \in Chain |-> CASE n = "root" -> <<"g0", "g1">>
                     [] n = "g0"   -> <<"a">>
                     [] n = "g1"   -> <<"b">>
                     [] OTHER      -> <<>>]
ChainKind ==
  [n \in Chain |-> CASE n = "root" -> "steps"
                     [] n \in {"g0", "g1"} -> "group"
                     [] OTHER -> "pod"]
ChainWhen  == AllRun(Chain)
ChainLimit == NoLimits(Chain)

(* [a, b] *)
Pair == {"root", "g0", "a", "b"}
PairKids ==
  [n \in Pair |-> CASE n = "root" -> <<"g0">>
                    [] n = "g0"   -> <<"a", "b">>
                    [] OTHER      -> <<>>]
PairKind ==
  [n \in Pair |-> CASE n = "root" -> "steps"
                    [] n = "g0"   -> "group"
                    [] OTHER      -> "pod"]
PairWhen  == AllRun(Pair)
PairLimit == NoLimits(Pair)

(* A container retried once, with an exit handler.  The retry node is      *)
(* offered one attempt more than its limit allows.                         *)
Retried == {"r", "r0", "r1", "r2", "x"}
RetriedKids ==
  [n \in Retried |-> IF n = "r" THEN <<"r0", "r1", "r2">> ELSE <<>>]
RetriedKind  == [n \in Retried |-> IF n = "r" THEN "retry" ELSE "pod"]
RetriedWhen  == AllRun(Retried)
RetriedLimit == [NoLimits(Retried) EXCEPT !["r"] = 1]

(* A single container. *)
Single == {"a"}
SingleKids  == [n \in Single |-> <<>>]
SingleKind  == [n \in Single |-> "pod"]
SingleWhen  == AllRun(Single)
SingleLimit == NoLimits(Single)

(* [s, a], where s is [b] then an empty group; then [k, c], k skipped.     *)
(* The exit handler is a steps template whose group has a bad reference.   *)
Nested == {"root", "g0", "s", "h0", "b", "h1", "a", "g1", "k", "c", "x", "e0", "y"}
NestedKids ==
  [n \in Nested |-> CASE n = "root" -> <<"g0", "g1">>
                      [] n = "g0"   -> <<"s", "a">>
                      [] n = "s"    -> <<"h0", "h1">>
                      [] n = "h0"   -> <<"b">>
                      [] n = "g1"   -> <<"k", "c">>
                      [] n = "x"    -> <<"e0">>
                      [] n = "e0"   -> <<"y">>
                      [] OTHER      -> <<>>]
NestedKind ==
  [n \in Nested |-> CASE n \in {"root", "s", "x"} -> "steps"
                      [] n \in {"g0", "h0", "h1", "g1", "e0"} -> "group"
                      [] OTHER -> "pod"]
NestedWhen  == [AllRun(Nested) EXCEPT !["k"] = "skip"]
NestedLimit == NoLimits(Nested)

(* [s], where s is [b] and has outputs that do not resolve; the exit       *)
(* handler is [z], z with a when clause that cannot be evaluated.          *)
Broken == {"root", "g0", "s", "h0", "b", "x", "e0", "z"}
BrokenKids ==
  [n \in Broken |-> CASE n = "root" -> <<"g0">>
                      [] n = "g0"   -> <<"s">>
                      [] n = "s"    -> <<"h0">>
                      [] n = "h0"   -> <<"b">>
                      [] n = "x"    -> <<"e0">>
                      [] n = "e0"   -> <<"z">>
                      [] OTHER      -> <<>>]
BrokenKind ==
  [n \in Broken |-> CASE n \in {"root", "s", "x"} -> "steps"
                      [] n \in {"g0", "h0", "e0"} -> "group"
                      [] OTHER -> "pod"]
BrokenWhen  == [AllRun(Broken) EXCEPT !["z"] = "bad"]
BrokenLimit == NoLimits(Broken)

(* Budgets of faults. *)
OneOfEach == [NoFaults EXCEPT !["crash"] = 1, !["api"] = 1, !["lost"] = 1]
CrashAndSlow == [NoFaults EXCEPT !["crash"] = 1, !["slow"] = 1]
AnyFailure == [OneOfEach EXCEPT !["slow"] = 1]
OneCrash == [NoFaults EXCEPT !["crash"] = 1]
OneDeletion == [NoFaults EXCEPT !["delete"] = 1]
ClusterFaults == [NoFaults EXCEPT !["crash"] = 1, !["api"] = 1,
                                  !["delete"] = 1, !["unreachable"] = 1]
ManyFaults == [NoFaults EXCEPT !["crash"] = 2, !["api"] = 2, !["lost"] = 2]
=============================================================================
