-------------------------- MODULE MCPackageLifecycle --------------------------
(***************************************************************************)
(* Small instances of PackageLifecycle for TLC.                            *)
(***************************************************************************)
EXTENDS PackageLifecycle

AllCluster == [n \in Names |-> "cluster"]
ByName == [n \in Names |-> n]          \* namespaces of Packages called "old", "cluster"
OwnRelease == [n \in Names |-> n]      \* every Package has a release of its own

\* Package "p": bundle b1 offers p1, bundle b2 offers p2.
FindP == [b \in Bundles |-> [p \in PackageNames |-> [v \in Versions |->
             IF b = "b1" THEN "p1" ELSE "p2"]]]
\* Packages "app" and "lib".  Bundle b1 offers app1, b2 offers app2; version v1 of app
\* is always app1.  Both bundles offer lib.
FindApp == [b \in Bundles |-> [p \in PackageNames |-> [v \in Versions |->
               IF p = "lib" THEN "lib" ELSE IF b = "b1" \/ v = "v1" THEN "app1" ELSE "app2"]]]

NoDeps == [s \in Sources |-> {}]
AppNeedsLib == [s \in Sources |-> IF s = "lib" THEN {} ELSE {"lib"}]
App2NeedsLib == [s \in Sources |-> IF s = "app2" THEN {"lib"} ELSE {}]
AcceptAll == [s \in Sources |-> Configs \ Unparsable]
ChartDefault == [s \in Sources |-> "dflt"]
LibApart == [s \in Sources |-> IF s = "lib" THEN "libs" ELSE "apps"]
SelfKey == [n \in Names |-> [p \in PackageNames |-> n]]
KeyIsName == [n \in Names |-> [p \in PackageNames |-> p]]

AnyChange == ((Bundles \cup {None}) \X (Bundles \cup {None})) \ {<<b, b>> : b \in Bundles \cup {None}}
Forward == {<<None, "b1">>, <<None, "b2">>, <<"b1", "b2">>}

WantP == [n \in Names |-> [pn : {"p"}, ver : {Latest}, cfg : Configs, tns : {None}]]
WantApp == [n \in Names |-> IF n = "app"
               THEN [pn : {"app"}, ver : Versions, cfg : Configs, tns : {None}] ELSE {}]
=============================================================================
