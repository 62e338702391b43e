------------------------- MODULE MCBundlePublication -------------------------
(***************************************************************************)
(* A small instance of BundlePublication for TLC: two repositories, a      *)
(* chart without requires.yaml and one with an empty one, an artifact that *)
(* is no chart, and every kind of requested tag.                           *)
(***************************************************************************)
EXTENDS BundlePublication

Contents == [d \in Charts |-> IF d = "r3" THEN "no" ELSE IF d = "s0" THEN "empty" ELSE "good"]
KindOfTag == [t \in Tags |-> IF t \in {"1.0", "2.0"} THEN "exact"
                             ELSE IF t = "latest" THEN "latest"
                             ELSE IF t = "nightlylatest" THEN "other" ELSE "version-latest"]
LatestTags == {"latest", "1.0-latest", "1.0.1-latest", "nightlylatest"}
KeptTags == [t \in Tags |-> IF t = "latest" THEN LatestTags
                            ELSE IF t = "1.0-latest" THEN {"1.0-latest", "1.0.1-latest"}
                            ELSE {}]

Image(d, tags, at) == [dig |-> d, tags |-> tags, at |-> at]
FirstStock == [r \in Repositories |->
    IF r = "r" THEN <<Image("r2", <<"2.0", "1.0.1-latest">>, 5), Image("r1", <<"1.0", "1.0-latest">>, 3),
                      Image("tool", <<"nightlylatest">>, 7)>>
    ELSE <<Image("s0", <<"1.0">>, 2), Image("s1", <<"2.0", "latest">>, 4)>>]
LaterPushes == {[repository |-> "r", dig |-> "r3", tags |-> <<"1.0-latest", "1.0.1-latest">>],
                [repository |-> "s", dig |-> "tool2", tags |-> <<"2.0">>]}

Wants(name, repository, tags) ==
    [name |-> name, repository |-> repository, ecr |-> TRUE, wanted |-> tags]
File(projects) ==
    [kube |-> "1.21", minVersion |-> "v1", complete |-> TRUE, projects |-> projects]
Mixed == File(<<Wants("p", "r", <<"1.0-latest", "nightlylatest", "1.0">>), Wants("q", "s", <<"2.0">>)>>)
Newest == File(<<Wants("p", "r", <<"latest">>)>>)
Files == {<<Newest, Mixed>>, <<File(<<Wants("q", "s", <<"1.0">>)>>)>>, <<File(<<>>)>>,
          <<[Newest EXCEPT !.complete = FALSE]>>, <<[Newest EXCEPT !.projects[1].ecr = FALSE]>>}
=============================================================================
