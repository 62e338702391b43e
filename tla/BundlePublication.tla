--------------------------- MODULE BundlePublication ---------------------------
(***************************************************************************)
(* How a PackageBundle comes into being and into a cluster: the generator  *)
(* (generatebundlefile/) looks the versions of its packages up in ECR,     *)
(* pulls their charts, signs the bundle and writes bundle.yaml; a script   *)
(* pushes the file; the controller downloads it                            *)
(* (pkg/bundle/registry_client.go) and creates it, and the webhook checks  *)
(* whatever is created or changed.                                         *)
(*                                                                         *)
(* Others push charts and move tags while the generator runs, and it may   *)
(* end at any call, leaving what it has unpacked and written.  A chart is  *)
(* its digest; what a version records of its chart (images, schema,        *)
(* dependencies) is the digest of the chart it was taken from.             *)
(***************************************************************************)
EXTENDS BundleSignature, FiniteSets, SequencesExt

CONSTANTS
    Repositories, Charts,  \* ECR repositories; charts, by digest
    Requires,              \* Requires[d]: chart d has "no" requires.yaml, one that
                           \* is "empty" of images, or a "good" one
    OtherMedia,            \* artifacts that are no OCI image manifests
    Tags, Kind, Keeps,     \* tags; the kind of a requested one; the tags of which
                           \* ImageTagFilter keeps the images for it
    Stock, Pushes,         \* the registry at first; what others push later
    PageSize,              \* images per answer of DescribeImages
    Invocations,           \* the sequences of input files the generator is run on
    KmsKey, OtherKey,      \* the key the generator signs with; one nobody trusts
    Torn,                  \* the content of a file that is half written
    MaxRuns, MaxEdits, MaxFaults

ASSUME RegistryAssumption ==
    /\ Requires \in [Charts -> {"no", "empty", "good"}] /\ OtherMedia \subseteq Charts
    /\ Kind \in [Tags -> {"exact", "latest", "version-latest", "other"}]
    /\ Keeps \in [Tags -> SUBSET Tags]
    /\ PageSize \in Nat \ {0}

\* The images of ECR; the packages of a bundle and their versions; the projects of an
\* input file.
Images == [dig : Charts, tags : Seq(Tags), at : Nat \ {0}]
SourceVersions == [name : Tags, digest : Charts, chart : Charts \cup {None}]
BundlePackages == [name : STRING, registry : {"ecr", None}, repository : Repositories,
                   versions : Seq(SourceVersions)]
Projects == [name : STRING, repository : Repositories, ecr : BOOLEAN, wanted : Seq(Tags)]
ASSUME NothingAssumption == None # "ecr" /\ None \notin Charts /\ None \notin Seq(BundlePackages)

\* In ECR a tag belongs to one image of a repository.
TagsApart(list) ==
    \A d, e \in Range(list) : d # e => Range(d.tags) \cap Range(e.tags) = {}
ASSUME StockAssumption ==
    /\ Stock \in [Repositories -> Seq(Images)] /\ \A r \in Repositories : TagsApart(Stock[r])
    /\ Pushes \subseteq [repository : Repositories, dig : Charts, tags : Seq(Tags)]
ASSUME KeysAssumption == KmsKey = TrustedKey /\ OtherKey # TrustedKey
\* The names of the bundles of valid input files are versions.
ASSUME InputsAssumption ==
    \A files \in Invocations :
        /\ Len(files) \in Nat \ {0}
        /\ \A i \in 1..Len(files) : files[i].kube # None /\ files[i].projects \in Seq(Projects)
ASSUME LimitsAssumption == MaxRuns \in Nat /\ MaxEdits \in Nat /\ MaxFaults \in Nat

VARIABLES
    ecr,      \* the registry: per repository a list of [dig, tags, at]
    clock,    \* the time of the last push
    g,        \* the generator's process, or None
    workdir,  \* per repository: the chart whose requires.yaml lies unpacked in the
              \* working directory, or None
    out,      \* bundle.yaml, or None
    latest,   \* registry: the bundle tagged latest, or None
    signed,   \* the bundles the generator has signed
    obj,      \* API server: the PackageBundle, or None
    runs, edits, faults

vars == <<ecr, clock, g, workdir, out, latest, signed, obj, runs, edits, faults>>

Init ==
    /\ ecr = Stock /\ clock = 9
    /\ g = None /\ workdir = [r \in Repositories |-> None]
    /\ out = None /\ latest = None /\ signed = {} /\ obj = None
    /\ runs = 0 /\ edits = 0 /\ faults = 0

Fault == faults < MaxFaults /\ faults' = faults + 1
Edit == edits < MaxEdits /\ edits' = edits + 1

-----------------------------------------------------------------------------
(* ECR, as others use it.  A tag belongs to one image: it moves.           *)

\* The elements of s that are in S, in their order.
Only(s, S) ==
    LET kept[n \in 0..Len(s)] ==
            IF n = 0 THEN <<>>
            ELSE IF s[n] \in S THEN Append(kept[n - 1], s[n]) ELSE kept[n - 1]
    IN  kept[Len(s)]

Push(p) ==
    LET r == p.repository
        others == [i \in DOMAIN ecr[r] |->
                      [ecr[r][i] EXCEPT !.tags = Only(@, Tags \ Range(p.tags))]]
        image == [dig |-> p.dig, tags |-> p.tags, at |-> clock + 1]
    IN
    /\ \A i \in DOMAIN others : others[i].dig # p.dig
    /\ clock' = clock + 1
    /\ ecr' \in {[ecr EXCEPT ![r] = Append(others, image)], [ecr EXCEPT ![r] = <<image>> \o others]}
    /\ g' = IF g = None THEN None ELSE [g EXCEPT !.moved = @ \cup {<<r, t>> : t \in Range(p.tags)}]
    /\ UNCHANGED <<workdir, out, latest, signed, obj, runs, edits, faults>>

-----------------------------------------------------------------------------
(* The generator's process: cmdGenerate.  It takes the input files one     *)
(* after the other; annotations is the map all its bundles share.          *)

Running(pc) == g # None /\ g.pc = pc
Input == g.files[g.file]
Project == Input.projects[g.index]
NotGenerator == UNCHANGED <<ecr, clock, latest, obj, runs, edits>>

Start(files) ==
    /\ g = None /\ runs < MaxRuns /\ runs' = runs + 1
    /\ g' = [pc |-> "input", files |-> files, file |-> 1, index |-> 1, tag |-> 1, name |-> None,
             versions |-> <<>>, packages |-> None, bundle |-> None,
             annotations |-> [excludes |-> Excludes, sig |-> NoSignature],
             unpacked |-> {}, moved |-> {}, lost |-> FALSE]
    /\ UNCHANGED <<ecr, clock, workdir, out, latest, signed, obj, edits, faults>>

\* os.Exit(1): what is unpacked or written stays.
Exit == g' = None /\ UNCHANGED workdir

\* The deferred calls of cmdGenerate remove what this process has unpacked.
CleanUp == workdir' = [r \in Repositories |-> IF r \in g.unpacked THEN None ELSE workdir[r]]

\* The file lists organisations, and has a name and a version.
ValidateInputConfig == Input.complete

\* The start of NewBundleFromInput.  The name holds the second in which it is made.
ReadInput ==
    /\ Running("input") /\ ValidateInputConfig
    /\ g' = [g EXCEPT !.pc = IF Input.projects = <<>> THEN "chart" ELSE "lookup",
                      !.name = [kube |-> Input.kube, epoch |-> <<runs, clock>>],
                      !.index = 1, !.tag = 1, !.versions = <<>>, !.packages = None]
    /\ UNCHANGED <<workdir, out, signed, faults>> /\ NotGenerator

\* The file is not readable or not valid; there is no login for ECR, or no place for the
\* auth file.
ReadInputFails ==
    /\ Running("input")
    /\ IF ValidateInputConfig THEN Fault ELSE UNCHANGED faults
    /\ Exit
    /\ UNCHANGED <<out, signed>> /\ NotGenerator

-----------------------------------------------------------------------------
(* The lookup of versions: NewPackageFromInput and GetShaForInputs, one    *)
(* requested tag after the other.                                          *)

\* Describe: the images on the first n pages of a list.
Pages(list) == IF list = <<>> THEN 1 ELSE (Len(list) + PageSize - 1) \div PageSize
Describe(list, n) == IF n = Pages(list) THEN list ELSE SubSeq(list, 1, n * PageSize)

IsChart(d) == d.dig \notin OtherMedia /\ d.tags # <<>>
ImageTagFilter(list, t) == Only(list, {d \in Range(list) : Range(d.tags) \cap Keeps[t] # {}})

\* The image that stands for none: without tags, pushed at the zero time.
NoImage == [dig |-> None, tags |-> <<>>, at |-> 0]

\* Variant: the list is taken to be in the order of the pushes.
getLatestImageShaLast(list) ==
    LET newest[n \in 0..Len(list)] ==
            IF n = 0 THEN NoImage
            ELSE IF IsChart(list[n]) THEN list[n] ELSE newest[n - 1]
    IN  newest[Len(list)]

\* The chart pushed last, of a list in any order.
getLatestImageSha(list) ==
    LET newest[n \in 0..Len(list)] ==
            IF n = 0 THEN NoImage
            ELSE IF IsChart(list[n]) /\ newest[n - 1].at < list[n].at THEN list[n]
            ELSE newest[n - 1]
    IN  newest[Len(list)]

\* The first version of each name stays.
removeDuplicates(vs) ==
    LET l[n \in 0..Len(vs)] ==
            IF n = 0 THEN <<>>
            ELSE IF \E i \in DOMAIN l[n - 1] : l[n - 1][i].name = vs[n].name THEN l[n - 1]
            ELSE Append(l[n - 1], vs[n])
    IN  l[Len(vs)]

SourceVersion(name, d) == [name |-> name, digest |-> d.dig, chart |-> None]

BundlePackage(vs) ==
    [name |-> Project.name, registry |-> "ecr", repository |-> Project.repository, versions |-> vs]

\* The lookup of a tag has given the versions vs (one or none).  After the last one the
\* project's package is complete, unless nothing was found at all.
Found(vs, lost) ==
    LET all == g.versions \o vs
        h == [g EXCEPT !.lost = @ \/ lost]
        more == g.index < Len(Input.projects)
    IN
    IF g.tag < Len(Project.wanted) THEN g' = [h EXCEPT !.tag = @ + 1, !.versions = all]
    ELSE IF all = <<>> THEN g' = None
    ELSE g' = [h EXCEPT !.tag = 1, !.versions = <<>>,
                        !.packages = Append(IF @ = None THEN <<>> ELSE @,
                                            BundlePackage(removeDuplicates(all))),
                        !.index = IF more THEN @ + 1 ELSE 1,
                        !.pc = IF more THEN "lookup" ELSE "chart"]

LookingUp(kinds) ==
    /\ Running("lookup") /\ Project.ecr /\ g.tag \in DOMAIN Project.wanted
    /\ Kind[Project.wanted[g.tag]] \in kinds
List == ecr[Project.repository]
Wanted == Project.wanted[g.tag]

\* DescribeImages for one tag; an artifact of another media type is passed over.
LookupExact ==
    /\ LookingUp({"exact"})
    /\ \E i \in DOMAIN List :
          /\ Wanted \in Range(List[i].tags)
          /\ Found(IF IsChart(List[i]) THEN <<SourceVersion(Wanted, List[i])>> ELSE <<>>, FALSE)
    /\ UNCHANGED <<workdir, out, signed, faults>> /\ NotGenerator

\* The whole repository is listed; an error on any page but the first is dropped with
\* the pages after it.  Without a match getLatestImageSha panics.
LookupLatest ==
    /\ LookingUp({"latest", "version-latest"})
    /\ \E n \in 1..Pages(List) :
          LET d == getLatestImageSha(ImageTagFilter(Describe(List, n), Wanted)) IN
          /\ IF n = Pages(List) THEN UNCHANGED faults ELSE Fault
          /\ IF d = NoImage THEN g' = None /\ CleanUp
             ELSE Found(<<SourceVersion(d.tags[1], d)>>, n # Pages(List)) /\ UNCHANGED workdir
    /\ UNCHANGED <<out, signed>> /\ NotGenerator

\* A tag that ends in "latest" without a dash before it is passed over.
LookupOther ==
    /\ LookingUp({"other"})
    /\ Found(<<>>, FALSE)
    /\ UNCHANGED <<workdir, out, signed, faults>> /\ NotGenerator

\* ECR fails, or does not know the tag; or the project is not in ECR or wants nothing.
LookupFails ==
    /\ Running("lookup")
    /\ IF \/ ~Project.ecr \/ Project.wanted = <<>>
          \/ /\ LookingUp({"exact"})
             /\ \A i \in DOMAIN List : Wanted \notin Range(List[i].tags)
       THEN UNCHANGED faults
       ELSE Fault /\ ~LookingUp({"other"})
    /\ Exit
    /\ UNCHANGED <<out, signed>> /\ NotGenerator

-----------------------------------------------------------------------------
(* The charts: PullHelmChart takes the image that has the tag of the       *)
(* package's first version now.  Only that version is completed.           *)

Package == g.packages[g.index]
Tag == Package.versions[1].name
Pullable(d) == Tag \in Range(d.tags) /\ d.dig \notin OtherMedia

\* Variant: a chart of the repository that is unpacked already is not unpacked again.
UnpackOnce(d, r) == IF workdir[r] = None /\ Requires[d] # "no" THEN d ELSE workdir[r]

\* UnTarHelmChart unpacks over what is there: a requires.yaml that was unpacked earlier
\* stays when the chart has none.
Unpack(d, r) == IF Requires[d] # "no" THEN d ELSE workdir[r]

\* requires.yaml exists and lists images.
validateHelmRequires(d) == d # None /\ Requires[d] # "empty"

PullChart ==
    /\ Running("chart") /\ g.packages # None
    /\ \E i \in DOMAIN ecr[Package.repository] :
       LET d == ecr[Package.repository][i]
           r == Package.repository
           left == Unpack(d.dig, r)
           more == g.index < Len(g.packages)
       IN
       /\ Pullable(d)
       /\ workdir' = [workdir EXCEPT ![r] = left]
       /\ g' = IF ~validateHelmRequires(left) THEN None
               ELSE [g EXCEPT !.packages[g.index].versions[1].chart = left,
                              !.packages[g.index].registry = None,
                              !.unpacked = @ \cup {r},
                              !.index = IF more THEN @ + 1 ELSE 1,
                              !.pc = IF more THEN "chart" ELSE "sign"]
    /\ UNCHANGED <<out, signed, faults>> /\ NotGenerator

\* The tag is gone, or the registry or the file system fails.
PullChartFails ==
    /\ Running("chart") /\ g.packages # None
    /\ IF \E i \in DOMAIN ecr[Package.repository] : Pullable(ecr[Package.repository][i])
       THEN Fault ELSE UNCHANGED faults
    /\ Exit
    /\ UNCHANGED <<out, signed>> /\ NotGenerator

\* A file without projects has no charts to pull.
NoCharts ==
    /\ Running("chart") /\ g.packages = None
    /\ g' = [g EXCEPT !.pc = "sign"]
    /\ UNCHANGED <<workdir, out, signed, faults>> /\ NotGenerator

-----------------------------------------------------------------------------
(* The signature and the file.                                             *)

\* The bundle as AddMetadata makes it; its annotations may hold the signature of the
\* bundle before.
AddMetadata ==
    [name |-> g.name, namespace |-> "eksa-packages", generated |-> "local", status |-> "zero",
     minVersion |-> Input.minVersion, excludes |-> g.annotations.excludes,
     sig |-> g.annotations.sig, other |-> None, packages |-> g.packages]

Sign ==
    LET b == [AddMetadata EXCEPT !.excludes = Excludes]
        s == [key |-> KmsKey, digest |-> GetDigest(b)]
        result == [b EXCEPT !.sig = s]
    IN
    /\ Running("sign")
    /\ g' = [g EXCEPT !.pc = "write", !.bundle = result,
                      !.annotations = [excludes |-> Excludes, sig |-> s]]
    /\ signed' = signed \cup {result}
    /\ UNCHANGED <<workdir, out, faults>> /\ NotGenerator

SignFails ==
    /\ Running("sign") /\ Fault
    /\ Exit
    /\ UNCHANGED <<out, signed>> /\ NotGenerator

\* Variant: the namespace is removed with the generated metadata.
serializeBundleBare(b) == [b EXCEPT !.status = None, !.generated = None, !.namespace = None]
serializeBundle(b) == [b EXCEPT !.status = None, !.generated = None]

\* Every input file's bundle is written to the same place.
Write ==
    LET more == g.file < Len(g.files) IN
    /\ Running("write")
    /\ out' = serializeBundle(g.bundle)
    /\ g' = [g EXCEPT !.pc = IF more THEN "input" ELSE "done", !.file = IF more THEN @ + 1 ELSE @]
    /\ IF more THEN UNCHANGED workdir ELSE CleanUp
    /\ UNCHANGED <<signed, faults>> /\ NotGenerator

WriteFails ==
    /\ Running("write") /\ Fault
    /\ out' \in {out, Torn}
    /\ Exit
    /\ UNCHANGED signed /\ NotGenerator

\* What GetDigest leaves of the sample of NewBundleGenerate.
SampleBundle ==
    [name |-> [kube |-> None, epoch |-> <<0, 0>>], namespace |-> "eksa-packages",
     generated |-> None, status |-> None, minVersion |-> None,
     excludes |-> Excludes, sig |-> NoSignature, other |-> None,
     packages |-> <<[name |-> "sample", registry |-> None, repository |-> None,
                     versions |-> <<[name |-> "v0.0", digest |-> "sample", chart |-> None]>>]>>]

\* The sample is written over the start of the file that is there.
GenerateSample ==
    /\ g = None /\ Edit
    /\ out' = IF out \in {None, SampleBundle} THEN SampleBundle ELSE Torn
    /\ UNCHANGED <<ecr, clock, g, workdir, latest, signed, obj, runs, faults>>

\* hack/common.sh: the file is pushed after a run that succeeded.
PushBundle ==
    /\ Running("done") /\ g' = None
    /\ \/ latest' = out /\ UNCHANGED faults
       \/ latest' = latest /\ Fault
    /\ UNCHANGED <<ecr, clock, workdir, out, signed, obj, runs, edits>>

-----------------------------------------------------------------------------
(* The cluster.  The webhook sees the object the API server has completed, *)
(* and the schema of the resource requires packages.                       *)

Admitted(b) == b.packages # None /\ isPackageBundleValid(b)

\* yaml.Unmarshal in DownloadBundle, Create, and what the API server fills in.
Created(b) == [b EXCEPT !.status = "zero", !.generated = "server"]

ImportLatest ==
    /\ obj = None /\ latest # None /\ Admitted(Created(latest))
    /\ obj' = Created(latest)
    /\ UNCHANGED <<ecr, clock, g, workdir, out, latest, signed, runs, edits, faults>>

\* What users may change of a bundle, or of the copy they create of one.
Changes(b) ==
    {[b EXCEPT !.other = "note"]} \cup {[b EXCEPT !.minVersion = "v9"]}
    \cup {[b EXCEPT !.excludes = x] : x \in {None} \cup SUBSET Selectors}
    \cup {[b EXCEPT !.sig = s] : s \in {NoSignature} \cup {c.sig : c \in signed}}
    \cup {[b EXCEPT !.sig = [key |-> OtherKey, digest |-> GetDigest(b)]]}
    \cup {[b EXCEPT !.packages = Tail(@)]}
    \cup UNION {{[b EXCEPT !.packages[i].registry = "mirror"],
                 [b EXCEPT !.packages[i].repository = "moved"],
                 [b EXCEPT !.packages[i].versions[1].digest = "other"],
                 [b EXCEPT !.packages[i].versions[1].chart = None]} : i \in DOMAIN b.packages}
Copies(b) ==
    {[b EXCEPT !.name = n] : n \in {c.name : c \in signed} \cup {[kube |-> None, epoch |-> <<0, 0>>]}}
    \cup {[b EXCEPT !.namespace = "default"]}

UserCreate(b) ==
    /\ Edit /\ obj = None /\ Admitted(Created(b))
    /\ obj' = Created(b)
    /\ UNCHANGED <<ecr, clock, g, workdir, out, latest, signed, runs, faults>>

UserUpdate(b) ==
    /\ Edit /\ b # obj /\ Admitted(b)
    /\ obj' = b
    /\ UNCHANGED <<ecr, clock, g, workdir, out, latest, signed, runs, faults>>

UserDelete ==
    /\ obj # None /\ Edit
    /\ obj' = None
    /\ UNCHANGED <<ecr, clock, g, workdir, out, latest, signed, runs, faults>>

\* ProcessBundle saves the status, a subresource the webhook is not asked about.
SaveStatus ==
    /\ obj # None /\ obj.status = "zero"
    /\ obj' = [obj EXCEPT !.status = "set"]
    /\ UNCHANGED <<ecr, clock, g, workdir, out, latest, signed, runs, edits, faults>>

-----------------------------------------------------------------------------
Generator ==
    \/ \E files \in Invocations : Start(files)
    \/ ReadInput \/ ReadInputFails
    \/ LookupExact \/ LookupLatest \/ LookupOther \/ LookupFails
    \/ PullChart \/ PullChartFails \/ NoCharts
    \/ Sign \/ SignFails \/ Write \/ WriteFails \/ GenerateSample \/ PushBundle

Cluster ==
    \/ ImportLatest \/ SaveStatus \/ UserDelete
    \/ latest # None /\ latest.packages # None
       /\ \E b \in Changes(latest) \cup Copies(latest) : UserCreate(b)
    \/ obj # None /\ \E b \in Changes(obj) : UserUpdate(b)

Next == Generator \/ Cluster \/ \E p \in Pushes : Push(p)

Spec == Init /\ [][Next]_vars

-----------------------------------------------------------------------------
(* Properties.                                                             *)

\* The file a run leaves is a bundle every cluster takes: whatever the process has done
\* before, what is signed survives the serialization, the download and the fields the
\* API server adds.
PublishedIsAccepted ==
    latest # None => latest.packages = None \/ Admitted(Created(latest))

\* A bundle in the cluster keeps passing the webhook, so that later harmless changes of
\* it are not refused: the status the controller saves does not break the signature.
StoredVerifies == obj # None => Admitted(obj)

\* What a signature stands for: the name, the namespace and the packages with the
\* digests and images of their versions.
Protected(b) ==
    [name |-> b.name, namespace |-> b.namespace,
     packages |-> [i \in DOMAIN b.packages |-> [name |-> b.packages[i].name,
                                                versions |-> b.packages[i].versions]]]

\* Whatever users change, exclude or copy, the bundle in the cluster offers what the
\* generator signed.
AcceptedIsSigned ==
    obj # None => \E b \in signed : b.packages # None /\ Protected(b) = Protected(obj)

\* What the first version of a package records is taken from the chart its digest names,
\* unless somebody has moved its tag meanwhile or the chart has nothing to record.
ChartMatchesDigest ==
    g # None /\ g.packages # None =>
        \A i \in DOMAIN g.packages :
            LET p == g.packages[i]
                v == p.versions[1]
            IN  p.registry = None /\ <<p.repository, v.name>> \notin g.moved =>
                    Requires[v.digest] = "no" \/ v.chart = v.digest

\* A chart is one a request means: it has the tag, or no other that the request covers
\* was pushed later.
Means(t, list, d) ==
    IF Kind[t] = "exact" THEN t \in Range(d.tags)
    ELSE /\ Range(d.tags) \cap Keeps[t] # {}
         /\ \A e \in Range(list) :
                IsChart(e) /\ Range(e.tags) \cap Keeps[t] # {} => e.at <= d.at

\* One of the versions vs has the digest of a chart the request means, if there is one.
Answered(t, list, vs) ==
    LET meant == {d \in Range(list) : IsChart(d) /\ Means(t, list, d)} IN
    Kind[t] = "other" \/ meant = {} \/ \E d \in meant, v \in Range(vs) : v.digest = d.dig

\* As long as the registry stays as it is and shows all its pages, every request of the
\* input file that means a chart has led to a version with its digest.
AsRequested ==
    g # None /\ g.pc \in {"chart", "sign", "write", "done"} /\ g.moved = {} /\ ~g.lost =>
        \A i \in DOMAIN Input.projects : \A j \in DOMAIN Input.projects[i].wanted :
            Answered(Input.projects[i].wanted[j], ecr[Input.projects[i].repository],
                     g.packages[i].versions)
=============================================================================
