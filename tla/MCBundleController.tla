-------------------------- MODULE MCBundleController --------------------------
(***************************************************************************)
(* Small instances of BundleController for TLC.                            *)
(***************************************************************************)
EXTENDS BundleController

\* Bundles "v1-21-..." are for Kubernetes 1.21, "v1-22-1" for 1.22.
ByPrefix == [b \in BundleNames |-> IF b = "v1-22-1" THEN "1.22" ELSE "1.21"]
OnePerVersion == [c \in Clusters |-> {"v1-21-1", "v1-22-1", None}]
AnyBundle == [c \in Clusters |-> BundleNames \cup {None}]
\* The management cluster's PBC is only ever created.
ForeignToo == [c \in Clusters |-> IF c = "mgmt" THEN {None} ELSE {"v1-21-1", "v1-21-9", None}]
ToNewer == Clusters \X {"1.22"}
=============================================================================
