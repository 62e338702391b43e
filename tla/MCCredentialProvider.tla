------------------------- MODULE MCCredentialProvider -------------------------
(***************************************************************************)
(* Small instances of CredentialProvider for TLC.                          *)
(***************************************************************************)
EXTENDS CredentialProvider

Ubuntu == [os |-> "linux", layout |-> "keys", paths |-> Paths, reads |-> "legacy",
           version |-> 0, kube |-> 0]
RedHat == [Ubuntu EXCEPT !.layout = "config", !.paths = {"extra args"}, !.reads = "extra args"]
Bottlerocket == [RedHat EXCEPT !.os = "bottlerocket", !.version = 1301, !.kube = 25]
OldBottlerocket == [Bottlerocket EXCEPT !.layout = "keys", !.version = 1300]
AllNodes == {Ubuntu, RedHat, Bottlerocket, OldBottlerocket,
             [OldBottlerocket EXCEPT !.kube = 24]}
SomeLines == {<<>>, <<"other">>, <<"custom config">>}
=============================================================================
