--------------------------- MODULE MCInstallation ----------------------------
(***************************************************************************)
(* Small installations for TLC.                                            *)
(***************************************************************************)
EXTENDS InstallationProperties, TLC

(* The interface is given an account, the controller gets one made. *)
Accounts == [p \in Part |-> IF p = "ui" THEN "own" ELSE ""]

(* Two commands for one namespace, of two releases, the later one with     *)
(* --upgrade and another instance id.                                      *)
TwoReleases ==
  [i \in {"install", "upgrade"} |->
     [ns |-> "ns", release |-> IF i = "install" THEN 1 ELSE 2,
      instance |-> IF i = "install" THEN 1 ELSE 2,
      upgrade |-> i = "upgrade", account |-> Accounts]]

(* Resources are added, with a comment; the map is no longer YAML; the     *)
(* instance id is another one and the image is missing.                    *)
Edits ==
  {[readable |-> TRUE, image |-> 1, resources |-> "some", instance |-> 1,
    others |-> "some"],
   [readable |-> FALSE, image |-> 1, resources |-> "none", instance |-> 1, others |-> "none"],
   [readable |-> TRUE, image |-> 0, resources |-> "none", instance |-> 2, others |-> "none"]}
=============================================================================
