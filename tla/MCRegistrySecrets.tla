--------------------------- MODULE MCRegistrySecrets ---------------------------
(***************************************************************************)
(* Small instances of RegistrySecrets for TLC.                             *)
(***************************************************************************)
EXTENDS RegistrySecrets

\* A mirror for each cluster; a workload cluster's login and certificate are renewed.
OneMirrorEach ==
    [c \in Clusters |->
        IF c = Management THEN {[login |-> "m", ca |-> "ca0", insecure |-> FALSE]}
        ELSE {[login |-> "w1", ca |-> "ca1", insecure |-> TRUE],
              [login |-> "w2", ca |-> "ca2", insecure |-> FALSE]}]
OneNamespaceEach == [c \in Clusters |-> IF c = Management THEN {Own} ELSE {"apps"}]
=============================================================================
