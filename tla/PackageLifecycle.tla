--------------------------- MODULE PackageLifecycle ---------------------------
(***************************************************************************)
(* The life of Package custom resources on one cluster: the package        *)
(* reconciler (controllers/package_controller.go), the state machine it    *)
(* drives (pkg/packages/manager.go), the helm driver that turns a package  *)
(* into a helm release (pkg/driver/helmdriver.go), the ns-secret-map it    *)
(* keeps (pkg/authenticator/ecrsecret.go) and the admission webhook that   *)
(* guards the resources (pkg/webhook/package_webhook.go).                  *)
(*                                                                         *)
(* Three views of a Package exist and may disagree: the API server's       *)
(* (pkg), the informer cache the reconciler reads (cache, which follows    *)
(* pkg through the watch events pending in stream) and the copy a running  *)
(* reconciliation holds (w.obj).  A status update succeeds only if that    *)
(* copy is still the API server's latest version (w.fresh), which is how   *)
(* Kubernetes checks the resourceVersion.                                  *)
(***************************************************************************)
EXTENDS Naturals, Sequences, FiniteSets

CONSTANTS
    Names,        \* Package resources, by namespace and name
    NsOf,         \* the kind of namespace each one lives in
    ReleaseNames, \* helm releases; a release carries the name of its Package,
    RelOf,        \* without the Package's namespace
    PackageNames, Versions, Latest,    \* spec.packageName, spec.packageVersion
    Configs, Unparsable, OwnPull,      \* spec.config; the ones that are not YAML,
                                       \* and that define imagePullSecrets themselves
    Namespaces,                        \* spec.targetNamespace, besides the empty one
    Bundles, Sources, Find,            \* Find[b][pn][v]: what bundle b offers
    Deps, Accepts, ChartNs,            \* per source: dependencies, configurations
                                       \* its schema accepts, default namespace
    DepKey,       \* DepKey[n][d]: the Package named d in n's namespace
    Internal,     \* Packages annotated anywhere.eks.aws.com/internal
    Management,   \* Packages of the management cluster's own namespace
    WorkloadOnly, \* sources of packages that are for workload clusters only
    Wanted,       \* Wanted[n]: the specs users write for n
    Activations,  \* pairs of active bundles, before and after a change
    Deletable,    \* Packages users delete
    HelmMayHang,  \* a helm operation that fails or dies may leave its release pending
    Placeholders, \* namespaces ns-secret-map has an entry for when it is created
    Suspended,    \* the CronJob of the token refresher is suspended
    None,         \* "nothing": no object, empty string, no release
    MaxEdits, MaxFaults, MaxCrashes    \* bounds on what the environment does

Kinds == {"cluster", "old", "invalid"}   \* eksa-packages-<name>, eksa-packages, other
Specs == [pn : PackageNames, ver : Versions, cfg : Configs, tns : Namespaces \cup {None}]
States == {"", "installing dependencies", "installing", "installed", "updating", "unknown"}
Details == {"", "waiting", "error", "deprecated", "bad namespace"}
Objects == [spec : Specs, st : States, src : Sources \cup {None},
            cur : Sources \cup {None}, detail : Details, stns : Namespaces \cup {None}]
Releases == [status : {"deployed", "failed", "unfinished"}, src : Sources,
             cfg : Configs, pull : {"driver"}, ns : Namespaces]
\* helmDriver.Install before helm runs, while it creates the release, and after it has
\* created one, upgraded one or failed to create it; Uninstall, and after helm has removed
\* the release from namespace ns; the status update.
Pcs == {"install", "create", "created", "upgraded", "undo", "uninstall", "unlist", "commit"}
Workers == [pc : Pcs, n : Names, obj : Objects \cup {None}, src : Sources \cup {None},
            ns : Namespaces \cup {None}, fresh : BOOLEAN, again : BOOLEAN]

ASSUME NamesAssumption ==
    /\ NsOf \in [Names -> Kinds]
    /\ RelOf \in [Names -> ReleaseNames]
    /\ DepKey \in [Names -> [PackageNames -> Names]]
    /\ \A n \in Names, d \in PackageNames : NsOf[DepKey[n][d]] = NsOf[n]
    /\ Internal \subseteq Names /\ Deletable \subseteq Names
    /\ Management \subseteq {n \in Names : NsOf[n] = "cluster"}
ASSUME CatalogAssumption ==
    /\ Latest \in Versions
    /\ Find \in [Bundles -> [PackageNames -> [Versions -> Sources \cup {None}]]]
    /\ Deps \in [Sources -> SUBSET PackageNames] /\ WorkloadOnly \subseteq Sources
    /\ ChartNs \in [Sources -> Namespaces]
    /\ Unparsable \subseteq Configs /\ OwnPull \subseteq Configs
    /\ Accepts \in [Sources -> SUBSET (Configs \ Unparsable)]
    /\ Wanted \in [Names -> SUBSET Specs]
    /\ Activations \subseteq (Bundles \cup {None}) \X (Bundles \cup {None})
ASSUME NoneAssumption ==
    /\ None \notin Objects /\ None \notin Releases /\ None \notin Workers
    /\ None \notin Bundles /\ None \notin Sources /\ None \notin Namespaces /\ None \notin ReleaseNames
ASSUME ClusterAssumption ==
    HelmMayHang \in BOOLEAN /\ Suspended \in BOOLEAN /\ Placeholders \subseteq Namespaces
ASSUME BoundsAssumption == MaxEdits \in Nat /\ MaxFaults \in Nat /\ MaxCrashes \in Nat

VARIABLES
    pkg,      \* API server: the Package objects, None when absent
    cache,    \* the informer's copy of pkg
    stream,   \* watch events on their way to the informer, oldest first
    queue,    \* the workqueue: Packages to reconcile
    timers,   \* delayed and rate-limited requeues
    w,        \* the reconciliation in progress (there is one worker), or None
    rel,      \* the target cluster: helm releases
    nsmap,    \* config map ns-secret-map: <<namespace, package name>>, None a placeholder
    job,      \* a token-refresher Job has been created and has not run yet
    secretNs, \* namespaces the refresher has given the pull secrets to
    bundle,   \* the active bundle of the cluster's PackageBundleController
    up,       \* the controller (reconcilers and webhooks) is running
    drifted,  \* releases removed behind the controller's back
    edits, faults, crashes   \* what the environment has done so far

helm == <<rel, nsmap, job, secretNs, drifted>>
vars == <<pkg, cache, stream, queue, timers, w, rel, nsmap, job, secretNs, bundle, up,
          drifted, edits, faults, crashes>>

TypeOK ==
    /\ pkg \in [Names -> Objects \cup {None}]
    /\ cache \in [Names -> Objects \cup {None}]
    /\ stream \in [Names -> Seq(Objects \cup {None})]
    /\ queue \subseteq Names /\ timers \subseteq Names
    /\ w \in Workers \cup {None}
    /\ rel \in [ReleaseNames -> Releases \cup {None}]
    /\ nsmap \subseteq Namespaces \X (ReleaseNames \cup {None})
    /\ job \in BOOLEAN /\ secretNs \subseteq Namespaces
    /\ bundle \in Bundles \cup {None} /\ up \in BOOLEAN
    /\ drifted \subseteq ReleaseNames
    /\ edits \in Nat /\ faults \in Nat /\ crashes \in Nat

\* ns-secret-map as CreateClusterConfigMap makes it.
PlaceholderEntries == {<<ns, None>> : ns \in Placeholders}

Init ==
    /\ pkg = [n \in Names |-> None] /\ cache = pkg
    /\ stream = [n \in Names |-> <<>>]
    /\ queue = {} /\ timers = {} /\ w = None
    /\ rel = [r \in ReleaseNames |-> None] /\ nsmap = PlaceholderEntries
    /\ job = FALSE /\ secretNs = {} /\ drifted = {}
    /\ bundle \in Bundles \cup {None} /\ up = TRUE
    /\ edits = 0 /\ faults = 0 /\ crashes = 0

-----------------------------------------------------------------------------
(* Pure parts: the bundle lookups and the admission decision.              *)

\* FindPackage then FindVersion then GetOCISource, in the active bundle.
Resolve(b, spec) == IF b = None THEN None ELSE Find[b][spec.pn][spec.ver]

\* FindPackage succeeds: the bundle has the package in some version.
InBundle(b, pn) == \E v \in Versions : Find[b][pn][v] # None

\* Variant: no fallback.
EffNsNoFallback(spec, s) == spec.tns

\* An empty spec.targetNamespace falls back to the chart's default namespace.
EffNs(spec, s) == IF spec.tns = None THEN ChartNs[s] ELSE spec.tns

\* The cluster in the namespace's name is not the management cluster's; the namespace
\* eksa-packages names none.
IsInstalledOnWorkload(n) == n \notin Management

\* isPackageValid; stns is status.spec.targetNamespace.
IsPackageValid(n, spec, stns) ==
    LET s == Resolve(bundle, spec) IN
    /\ s # None
    /\ s \in WorkloadOnly => IsInstalledOnWorkload(n)
    /\ spec.cfg \in Accepts[s]
    /\ stns # None => stns = spec.tns

\* packageValidator.Handle, for a Package a user writes.
Admit(n, spec, stns) == n \in Internal \/ IsPackageValid(n, spec, stns)

NewObject(spec) ==
    [spec |-> spec, st |-> "", src |-> None, cur |-> None, detail |-> "", stns |-> None]

-----------------------------------------------------------------------------
(* Writes to the API server: each one is a new version, sent to the        *)
(* informer, and makes the copy of a running reconciliation outdated.      *)

Write(K, new) ==
    /\ pkg' = [n \in Names |-> IF n \in K THEN new[n] ELSE pkg[n]]
    /\ stream' = [n \in Names |->
                     IF n \in K THEN Append(stream[n], new[n]) ELSE stream[n]]

Outdate(n) == w' = IF w # None /\ w.n = n THEN [w EXCEPT !.fresh = FALSE] ELSE w

UserWrite(n, o) ==
    /\ edits < MaxEdits /\ edits' = edits + 1
    /\ Write({n}, [m \in {n} |-> o])
    /\ Outdate(n)
    /\ UNCHANGED <<cache, queue, timers, helm, bundle, up, faults, crashes>>

\* The webhook fails closed (failurePolicy=fail): nothing is created or updated
\* while the controller is down.
UserCreate(n, spec) ==
    /\ up /\ pkg[n] = None /\ spec \in Wanted[n] /\ Admit(n, spec, None)
    /\ UserWrite(n, NewObject(spec))

UserUpdate(n, spec) ==
    /\ up /\ pkg[n] # None /\ spec \in Wanted[n] /\ spec # pkg[n].spec
    /\ Admit(n, spec, pkg[n].stns)
    /\ UserWrite(n, [pkg[n] EXCEPT !.spec = spec])

\* No finalizer and no webhook for DELETE: always possible.
UserDelete(n) ==
    /\ n \in Deletable /\ pkg[n] # None
    /\ UserWrite(n, None)

ChangeBundle(b) ==
    /\ edits < MaxEdits /\ edits' = edits + 1
    /\ <<bundle, b>> \in Activations /\ bundle' = b
    /\ UNCHANGED <<pkg, cache, stream, queue, timers, w, helm, up, faults, crashes>>

-----------------------------------------------------------------------------
(* controller-runtime: the informer, the workqueue, its delayed requeues.  *)

Deliver(n) ==
    /\ up /\ stream[n] # <<>>
    /\ cache' = [cache EXCEPT ![n] = Head(stream[n])]
    /\ stream' = [stream EXCEPT ![n] = Tail(stream[n])]
    /\ queue' = queue \cup {n}
    /\ UNCHANGED <<pkg, timers, w, helm, bundle, up, edits, faults, crashes>>

TimerFires(n) ==
    /\ up /\ n \in timers
    /\ timers' = timers \ {n} /\ queue' = queue \cup {n}
    /\ UNCHANGED <<pkg, cache, stream, w, helm, bundle, up, edits, faults, crashes>>

\* mapBundleChangesToPackageUpdate lists the packages of namespace eksa-packages
\* only; the packages of a cluster's own namespace wait for their timer.
BundleEvent ==
    /\ up
    /\ queue' = queue \cup {n \in Names : NsOf[n] = "old" /\ cache[n] # None}
    /\ queue' # queue
    /\ UNCHANGED <<pkg, cache, stream, timers, w, helm, bundle, up, edits, faults, crashes>>

-----------------------------------------------------------------------------
(* PackageReconciler.Reconcile and manager.Process, up to the first slow   *)
(* operation: what the request turns into depends on the cached object.    *)

Take(n) == up /\ w = None /\ n \in queue /\ queue' = queue \ {n}

\* Variant: a copy passes for the latest version whatever the cache has missed.
HoldAsFresh(pc, n, o, s, again) ==
    w' = [pc |-> pc, n |-> n, obj |-> o, src |-> s, ns |-> None, fresh |-> TRUE,
          again |-> again]

Hold(pc, n, o, s, again) ==
    w' = [pc |-> pc, n |-> n, obj |-> o, src |-> s, ns |-> None,
          fresh |-> (stream[n] = <<>>), again |-> again]

Fault == faults < MaxFaults /\ faults' = faults + 1

Source(n) == Resolve(bundle, cache[n].spec)

\* Variant: Process does not look at the namespace.
InStateAnywhere(n, st) == cache[n] # None /\ Source(n) # None /\ cache[n].st = st

\* The guard of a state function: the object is cached, the active bundle has its
\* source, the namespace is a package namespace, and the state is st.
InState(n, st) ==
    /\ cache[n] # None /\ Source(n) # None /\ NsOf[n] # "invalid" /\ cache[n].st = st

\* The reconciliation only changes its own copy, which Commit will save.
Save(n, o, again) ==
    /\ Hold("commit", n, o, Source(n), again)
    /\ UNCHANGED <<pkg, cache, stream, timers, helm, bundle, up, edits, crashes>>

\* Variant: any failure of r.Get is taken for NotFound.
GetFailsAsNotFound(n) ==
    /\ Take(n) /\ Fault
    /\ Hold("uninstall", n, None, None, TRUE)
    /\ UNCHANGED <<pkg, cache, stream, timers, helm, bundle, up, edits, crashes>>

\* r.Get fails with something else than NotFound.
GetFails(n) ==
    /\ Take(n) /\ Fault
    /\ timers' = timers \cup {n}
    /\ UNCHANGED <<pkg, cache, stream, w, helm, bundle, up, edits, crashes>>

\* NotFound: SetUninstalling.
BeginUninstall(n) ==
    /\ Take(n) /\ cache[n] = None /\ NsOf[n] # "invalid"
    /\ Hold("uninstall", n, None, None, TRUE)
    /\ UNCHANGED <<pkg, cache, stream, timers, helm, bundle, up, edits, faults, crashes>>

\* NotFound, in a namespace that is not a package namespace: Process answers "save
\* state unknown", and the update of an object that does not exist fails.
RejectDeleted(n) ==
    /\ Take(n) /\ cache[n] = None /\ NsOf[n] = "invalid"
    /\ timers' = timers \cup {n}
    /\ UNCHANGED <<pkg, cache, stream, w, helm, bundle, up, edits, faults, crashes>>

\* No PackageBundleController or active bundle, or package or version not in it.
SaveUnresolved(n) ==
    /\ Take(n) /\ cache[n] # None /\ Source(n) = None
    /\ Save(n, [cache[n] EXCEPT !.detail = "error"], TRUE)
    /\ UNCHANGED faults

\* Variant: RequeueAfter is left at its default.
ProcessInvalidNamespaceRequeues(n) ==
    /\ Take(n) /\ cache[n] # None /\ Source(n) # None /\ NsOf[n] = "invalid"
    /\ Save(n, [cache[n] EXCEPT !.detail = "bad namespace", !.st = "unknown"], TRUE)
    /\ UNCHANGED faults

ProcessInvalidNamespace(n) ==
    /\ Take(n) /\ cache[n] # None /\ Source(n) # None /\ NsOf[n] = "invalid"
    /\ IF cache[n].st = "unknown"
       THEN UNCHANGED <<pkg, cache, stream, timers, w, helm, bundle, up, edits, crashes>>
       ELSE Save(n, [cache[n] EXCEPT !.detail = "bad namespace", !.st = "unknown"], FALSE)
    /\ UNCHANGED faults

ProcessInitializing(n) ==
    /\ Take(n) /\ InState(n, "")
    /\ Save(n, [cache[n] EXCEPT !.src = Source(n), !.st = "installing dependencies",
                                !.stns = cache[n].spec.tns], TRUE)
    /\ UNCHANGED faults

ProcessUpdating(n) ==
    /\ Take(n) /\ InState(n, "updating")
    /\ Save(n, [cache[n] EXCEPT !.st = "installing dependencies"], TRUE)
    /\ UNCHANGED faults

-----------------------------------------------------------------------------
(* State "installing dependencies".                                        *)

\* The cached Packages of n's namespace that ask for package d.
Providers(n, d) ==
    {m \in Names : NsOf[m] = NsOf[n] /\ cache[m] # None /\ cache[m].spec.pn = d}

Missing(n) == {d \in Deps[Source(n)] : Providers(n, d) = {}}

\* What CreatePackage sends for dependency d: the parent's configuration and target
\* namespace, no version.
DepSpec(n, d) ==
    [pn |-> d, ver |-> Latest, cfg |-> cache[n].spec.cfg, tns |-> cache[n].spec.tns]

\* The API server refuses an existing name, the webhook an invalid configuration.
Creatable(n) ==
    {d \in Missing(n) : /\ pkg[DepKey[n][d]] = None
                        /\ IsPackageValid(DepKey[n][d], DepSpec(n, d), None)}

AllInBundle(n) == \A d \in Deps[Source(n)] : InBundle(bundle, d)

\* GetDependencies or GetPackageList fails.
DependenciesUnknown(n) ==
    /\ Take(n) /\ InState(n, "installing dependencies")
    /\ IF AllInBundle(n) THEN Fault ELSE UNCHANGED faults
    /\ Save(n, [cache[n] EXCEPT !.detail = "error"], TRUE)

\* Variant: a dependency counts as soon as its Package exists.
DependenciesReadyEarly(n) ==
    /\ Take(n) /\ InState(n, "installing dependencies") /\ AllInBundle(n)
    /\ \A d \in Deps[Source(n)] : Providers(n, d) # {}
    /\ Save(n, [cache[n] EXCEPT !.st = "installing", !.detail = ""], TRUE)
    /\ UNCHANGED faults

\* The list is in no particular order and the last match wins: any provider of a
\* dependency may be the one whose state is looked at.
DependenciesReady(n) ==
    /\ Take(n) /\ InState(n, "installing dependencies") /\ AllInBundle(n)
    /\ \A d \in Deps[Source(n)] : \E m \in Providers(n, d) : cache[m].st = "installed"
    /\ Save(n, [cache[n] EXCEPT !.st = "installing", !.detail = ""], TRUE)
    /\ UNCHANGED faults

\* Variant: no requeue while waiting.
DependenciesWaitingOnce(n) ==
    /\ Take(n) /\ InState(n, "installing dependencies") /\ AllInBundle(n)
    /\ \E d \in Deps[Source(n)] :
          Providers(n, d) = {} \/ \E m \in Providers(n, d) : cache[m].st # "installed"
    /\ Write({DepKey[n][d] : d \in Creatable(n)},
             [m \in {DepKey[n][d] : d \in Creatable(n)} |->
                 NewObject(DepSpec(n, CHOOSE d \in Creatable(n) : DepKey[n][d] = m))])
    /\ Hold("commit", n, [cache[n] EXCEPT !.detail = "waiting"], Source(n), FALSE)
    /\ UNCHANGED <<cache, timers, helm, bundle, up, edits, faults, crashes>>

\* Some dependency is absent or not installed.  The absent ones are created; an error
\* while creating one is only logged.
DependenciesWaiting(n) ==
    /\ Take(n) /\ InState(n, "installing dependencies") /\ AllInBundle(n)
    /\ \E d \in Deps[Source(n)] :
          Providers(n, d) = {} \/ \E m \in Providers(n, d) : cache[m].st # "installed"
    /\ \E D \in SUBSET Creatable(n) :
          /\ IF D = Creatable(n) THEN UNCHANGED faults ELSE Fault
          /\ Write({DepKey[n][d] : d \in D},
                   [m \in {DepKey[n][d] : d \in D} |->
                       NewObject(DepSpec(n, CHOOSE d \in D : DepKey[n][d] = m))])
    /\ Hold("commit", n, [cache[n] EXCEPT !.detail = "waiting"], Source(n), TRUE)
    /\ UNCHANGED <<cache, timers, helm, bundle, up, edits, crashes>>

-----------------------------------------------------------------------------
(* State "installed": has the source or the configuration changed?         *)

SourceChanged(n) ==
    /\ Take(n) /\ InState(n, "installed") /\ cache[n].src # Source(n)
    /\ Save(n, [cache[n] EXCEPT !.src = Source(n), !.st = "updating"], TRUE)
    /\ UNCHANGED faults

\* Variant: a release that is not found has not changed.
IsConfigChangedIfFound(n) ==
    LET r == rel[RelOf[n]] IN r # None /\ r.cfg # cache[n].spec.cfg

\* helmDriver.IsConfigChanged: the driver's pull secrets count as the user's unless
\* the user has some.
IsConfigChanged(n) ==
    LET r == rel[RelOf[n]]
        c == cache[n].spec.cfg
    IN  \/ r = None
        \/ r.cfg # c
        \/ r.pull # IF c \in OwnPull THEN "user" ELSE r.pull

Checkable(n) ==
    InState(n, "installed") /\ cache[n].src = Source(n)

\* The configuration is not YAML, or the helm driver cannot be initialized.
CheckFails(n) ==
    /\ Take(n) /\ Checkable(n)
    /\ IF cache[n].spec.cfg \in Unparsable THEN UNCHANGED faults ELSE Fault
    /\ Save(n, [cache[n] EXCEPT !.detail = "error"], TRUE)

\* Any failure to read the release counts as a change.
ConfigChanged(n) ==
    /\ Take(n) /\ Checkable(n) /\ cache[n].spec.cfg \notin Unparsable
    /\ IF IsConfigChanged(n) THEN UNCHANGED faults ELSE Fault
    /\ Save(n, [cache[n] EXCEPT !.st = "updating", !.stns = cache[n].spec.tns], TRUE)

NothingToDo(n) ==
    /\ Take(n) /\ Checkable(n) /\ cache[n].spec.cfg \notin Unparsable
    /\ ~IsConfigChanged(n)
    /\ timers' = timers \cup {n}
    /\ UNCHANGED <<pkg, cache, stream, w, helm, bundle, up, edits, faults, crashes>>

-----------------------------------------------------------------------------
(* State "installing": helmDriver.Install, a slow operation of its own.    *)

BeginInstall(n) ==
    /\ Take(n) /\ InState(n, "installing")
    /\ Hold("install", n, [cache[n] EXCEPT !.src = Source(n)], Source(n), TRUE)
    /\ UNCHANGED <<pkg, cache, stream, timers, helm, bundle, up, edits, faults, crashes>>

\* ecrSecret.Initialize("") points the old namespace's packages at a namespace that
\* cannot exist, so their calls on ns-secret-map fail; the failure is only logged.
AddToConfigMap(n, ns) ==
    IF NsOf[n] = "cluster" THEN nsmap \cup {<<ns, RelOf[n]>>} ELSE nsmap
\* Variant: the entry is left behind.
DelFromConfigMapForgotten(n, ns) == nsmap
DelFromConfigMap(n, ns) ==
    IF NsOf[n] = "cluster" THEN nsmap \ {<<ns, RelOf[n]>>} ELSE nsmap

Installed(o) ==
    [o EXCEPT !.st = "installed", !.cur = o.src, !.stns = o.spec.tns,
              !.detail = IF NsOf[w.n] = "old" THEN "deprecated" ELSE ""]
Failed(o) == [o EXCEPT !.detail = "error"]

\* The operation goes on, or returns to Reconcile.
Goto(pc) ==
    /\ w' = [w EXCEPT !.pc = pc]
    /\ UNCHANGED <<pkg, cache, stream, queue, timers, secretNs, bundle, up, edits, crashes>>
Return(o) ==
    /\ w' = [w EXCEPT !.pc = "commit", !.obj = o]
    /\ UNCHANGED <<pkg, cache, stream, queue, timers, secretNs, bundle, up, edits, crashes>>

\* The release the driver writes; ns is where its resources are.
Release(status, ns) ==
    [status |-> status, src |-> w.src, cfg |-> w.obj.spec.cfg, pull |-> "driver", ns |-> ns]

Put(r) == /\ rel' = [rel EXCEPT ![RelOf[w.n]] = r]
          /\ drifted' = IF r = None THEN drifted ELSE drifted \ {RelOf[w.n]}
NoPut == UNCHANGED <<rel, drifted>>

At(pc) == up /\ w # None /\ w.pc = pc
Parsable == w.obj.spec.cfg \notin Unparsable
TargetNs == EffNs(w.obj.spec, w.src)

\* Bad configuration, unreachable cluster or registry, unreadable release.
InstallFails ==
    /\ At("install")
    /\ IF Parsable THEN Fault ELSE UNCHANGED faults
    /\ Return(Failed(w.obj))
    /\ NoPut /\ UNCHANGED <<nsmap, job>>

\* AddSecretToAllNamespace creates a refresher Job, unless the CronJob is suspended.
WithJob == job \/ ~Suspended

\* The namespace is entered in ns-secret-map and a Job is created; a failure of either is
\* only logged.
Register ==
    \/ nsmap' = AddToConfigMap(w.n, TargetNs) /\ job' = WithJob /\ UNCHANGED faults
    \/ nsmap' \in {nsmap, AddToConfigMap(w.n, TargetNs)} /\ job' \in {job, WithJob} /\ Fault

\* No release: the namespace is registered before helm runs.
PrepareRelease ==
    /\ At("install") /\ Parsable /\ rel[RelOf[w.n]] = None
    /\ Register /\ Goto("create")
    /\ NoPut

CreateRelease ==
    /\ At("create")
    /\ Put(Release("deployed", TargetNs)) /\ Goto("created")
    /\ UNCHANGED <<nsmap, job, faults>>

\* Variant: without the failsafe.
ReturnCreatedNoJob ==
    /\ At("created")
    /\ Return(Installed(w.obj))
    /\ NoPut /\ UNCHANGED <<nsmap, job, faults>>

\* The failsafe: a Job once more, for a namespace the chart has created.
ReturnCreated ==
    /\ At("created")
    /\ (job' = WithJob /\ UNCHANGED faults) \/ (job' = job /\ Fault)
    /\ Return(Installed(w.obj))
    /\ NoPut /\ UNCHANGED nsmap

\* Variant: the error of createRelease is dropped.
CreateReleaseErrorDropped ==
    /\ At("create") /\ Fault
    /\ Put(None) /\ Goto("created")
    /\ UNCHANGED <<nsmap, job>>

\* The failed attempt may leave a failed release.
CreateReleaseFails ==
    /\ At("create") /\ Fault
    /\ Put(None) \/ Put(Release("failed", TargetNs))
    /\ Goto("undo")
    /\ UNCHANGED <<nsmap, job>>

\* Its entry is taken back, if the API server lets it.
ReturnUndone ==
    /\ At("undo")
    /\ \/ nsmap' = DelFromConfigMap(w.n, TargetNs) /\ UNCHANGED faults
       \/ nsmap' = nsmap /\ Fault
    /\ Return(Failed(w.obj))
    /\ NoPut /\ UNCHANGED job

\* helm upgrades a release where it is: the namespace of the resources stays.
UpgradeRelease ==
    LET r == rel[RelOf[w.n]] IN
    /\ At("install") /\ Parsable /\ r # None /\ r.status # "unfinished"
    /\ Put(Release("deployed", r.ns)) /\ Goto("upgraded")
    /\ UNCHANGED <<nsmap, job, faults>>

\* The namespace is registered after helm has run.
ReturnUpgraded ==
    /\ At("upgraded")
    /\ Register /\ Return(Installed(w.obj))
    /\ NoPut

\* helm refuses to upgrade a release another operation has not finished with.
UpgradeReleaseFails ==
    LET r == rel[RelOf[w.n]] IN
    /\ At("install") /\ Parsable /\ r # None
    /\ IF r.status = "unfinished"
       THEN NoPut /\ UNCHANGED faults
       ELSE Fault /\ (Put(r) \/ Put(Release("failed", r.ns)))
    /\ Return(Failed(w.obj))
    /\ UNCHANGED <<nsmap, job>>

-----------------------------------------------------------------------------
(* The Package is gone: helmDriver.Uninstall.  Nothing is saved.           *)

Finish(again) ==
    /\ w' = None
    /\ timers' = IF again THEN timers \cup {w.n} ELSE timers

\* A release that is not found counts as uninstalled.
NothingToUninstall ==
    /\ At("uninstall") /\ rel[RelOf[w.n]] = None
    /\ Finish(FALSE)
    /\ UNCHANGED <<pkg, cache, stream, queue, helm, bundle, up, edits, faults, crashes>>

Uninstall ==
    LET r == rel[RelOf[w.n]] IN
    /\ At("uninstall") /\ r # None
    /\ Put(None)
    /\ w' = [w EXCEPT !.pc = "unlist", !.ns = r.ns]
    /\ UNCHANGED <<pkg, cache, stream, queue, timers, nsmap, job, secretNs, bundle, up, edits,
                   faults, crashes>>

\* The entry of the release is removed; a failure is only logged.
Unlist ==
    /\ At("unlist")
    /\ \/ nsmap' = DelFromConfigMap(w.n, w.ns) /\ UNCHANGED faults
       \/ nsmap' = nsmap /\ Fault
    /\ Finish(FALSE)
    /\ NoPut
    /\ UNCHANGED <<pkg, cache, stream, queue, job, secretNs, bundle, up, edits, crashes>>

\* Variant: RequeueAfter is retryNever before the outcome is known.
UninstallFailsForGood ==
    /\ At("uninstall") /\ Fault
    /\ Finish(FALSE)
    /\ UNCHANGED <<pkg, cache, stream, queue, helm, bundle, up, edits, crashes>>

UninstallFails ==
    LET r == rel[RelOf[w.n]] IN
    /\ At("uninstall") /\ Fault
    /\ Put(r) \/ (HelmMayHang /\ r # None /\ Put([r EXCEPT !.status = "unfinished"]))
    /\ Finish(TRUE)
    /\ UNCHANGED <<pkg, cache, stream, queue, nsmap, job, secretNs, bundle, up, edits, crashes>>

-----------------------------------------------------------------------------
(* r.Status().Update and what Reconcile returns.                           *)

\* Variant: the status is written whatever version it was computed from.
CommitUnconditionally ==
    /\ At("commit") /\ pkg[w.n] # None
    /\ Write({w.n}, [m \in {w.n} |-> [w.obj EXCEPT !.spec = pkg[w.n].spec]])
    /\ Finish(w.again)
    /\ UNCHANGED <<cache, queue, helm, bundle, up, edits, faults, crashes>>

\* An update that changes nothing makes no new version and no event.
Commit ==
    /\ At("commit") /\ w.fresh
    /\ IF w.obj = pkg[w.n]
       THEN UNCHANGED <<pkg, stream>>
       ELSE Write({w.n}, [m \in {w.n} |-> w.obj])
    /\ Finish(w.again)
    /\ UNCHANGED <<cache, queue, helm, bundle, up, edits, faults, crashes>>

\* A conflict, or the API server fails: a rate-limited retry.
CommitFails ==
    /\ At("commit")
    /\ IF w.fresh THEN Fault ELSE UNCHANGED faults
    /\ Finish(TRUE)
    /\ UNCHANGED <<pkg, cache, stream, queue, helm, bundle, up, edits, crashes>>

-----------------------------------------------------------------------------
(* The environment: the refresher Job, crashes, helm used behind the back  *)
(* of the controller.                                                      *)

\* A listed namespace gets the secrets if it exists, as one with a release does; others
\* may still have to be created by helm or by the chart.
RunJob ==
    LET listed == {e[1] : e \in nsmap}
        known == {ns \in listed : \E r \in ReleaseNames : rel[r] # None /\ rel[r].ns = ns}
    IN
    /\ job /\ job' = FALSE
    /\ \E N \in SUBSET listed : known \subseteq N /\ secretNs' = secretNs \cup N
    /\ UNCHANGED <<pkg, cache, stream, queue, timers, w, rel, nsmap, bundle, up, drifted,
                   edits, faults, crashes>>

\* The controller dies, between two calls: after AddToConfigMap and before the Job, too;
\* or within a helm operation, which may leave a release in a pending state.
Crash ==
    /\ up /\ crashes < MaxCrashes /\ crashes' = crashes + 1
    /\ up' = FALSE /\ w' = None /\ queue' = {} /\ timers' = {}
    /\ \/ NoPut /\ UNCHANGED nsmap
       \/ /\ (At("install") /\ Parsable /\ rel[RelOf[w.n]] = None) \/ At("upgraded")
          /\ nsmap' = AddToConfigMap(w.n, TargetNs) /\ NoPut
       \/ LET r == rel[RelOf[w.n]] IN
          /\ HelmMayHang /\ UNCHANGED nsmap
          /\ \/ At("create") /\ Put(Release("unfinished", TargetNs))
             \/ At("install") /\ Parsable /\ r # None /\ Put(Release("unfinished", r.ns))
             \/ At("uninstall") /\ r # None /\ Put([r EXCEPT !.status = "unfinished"])
    /\ UNCHANGED <<pkg, cache, stream, job, secretNs, bundle, edits, faults>>

\* The informer lists the Packages that exist; nothing else is enqueued.
Restart ==
    /\ ~up /\ up' = TRUE
    /\ cache' = pkg /\ stream' = [n \in Names |-> <<>>]
    /\ queue' = {n \in Names : pkg[n] # None}
    /\ UNCHANGED <<pkg, timers, w, helm, bundle, edits, faults, crashes>>

Drift(r) ==
    /\ rel[r] # None /\ Fault
    /\ rel' = [rel EXCEPT ![r] = None] /\ drifted' = drifted \cup {r}
    /\ UNCHANGED <<pkg, cache, stream, queue, timers, w, nsmap, job, secretNs, bundle, up,
                   edits, crashes>>

-----------------------------------------------------------------------------
Reconcile(n) ==
    \/ GetFails(n) \/ BeginUninstall(n) \/ RejectDeleted(n) \/ SaveUnresolved(n)
    \/ ProcessInvalidNamespace(n) \/ ProcessInitializing(n) \/ ProcessUpdating(n)
    \/ DependenciesUnknown(n) \/ DependenciesReady(n) \/ DependenciesWaiting(n)
    \/ SourceChanged(n) \/ CheckFails(n) \/ ConfigChanged(n) \/ NothingToDo(n)
    \/ BeginInstall(n)

WorkerStep ==
    \/ InstallFails \/ PrepareRelease \/ CreateRelease \/ ReturnCreated
    \/ CreateReleaseFails \/ ReturnUndone
    \/ UpgradeRelease \/ ReturnUpgraded \/ UpgradeReleaseFails
    \/ NothingToUninstall \/ Uninstall \/ Unlist \/ UninstallFails \/ Commit \/ CommitFails

User ==
    \/ \E n \in Names : \E spec \in Wanted[n] : UserCreate(n, spec) \/ UserUpdate(n, spec)
    \/ \E n \in Names : UserDelete(n)
    \/ \E b \in Bundles \cup {None} : ChangeBundle(b)

Next ==
    \/ User
    \/ \E n \in Names : Deliver(n) \/ TimerFires(n) \/ Reconcile(n)
    \/ BundleEvent \/ WorkerStep \/ RunJob \/ Crash \/ Restart
    \/ \E r \in ReleaseNames : Drift(r)

Spec == Init /\ [][Next]_vars

\* The controller keeps running: watch events arrive, timers expire, the worker ends
\* what it began, the workqueue is first in, first out (no request starves), Jobs run
\* and the pod is restarted.  Users, bundle changes and faults owe nothing.
Fairness ==
    /\ \A n \in Names : WF_vars(Deliver(n)) /\ WF_vars(TimerFires(n)) /\ SF_vars(Reconcile(n))
    /\ WF_vars(WorkerStep) /\ WF_vars(RunJob) /\ WF_vars(Restart)

FairSpec == Spec /\ Fairness

-----------------------------------------------------------------------------
(* Properties.                                                             *)

\* Releases are not shared: no two Packages of one name in eksa-packages and in the
\* management cluster's own namespace, which the same release would stand for.
DistinctReleases == \A m, n \in Names : RelOf[m] = RelOf[n] => m = n

HasState(n, st) == pkg[n] # None /\ pkg[n].st = st

\* Status "installed" is backed by a helm release, unless somebody removed it with helm:
\* whatever versions of the object the cache serves, no late uninstall, stale
\* reconciliation or crash leaves an installed Package without its release.
InstalledHasRelease ==
    \A n \in Names : HasState(n, "installed") =>
        rel[RelOf[n]] # None \/ RelOf[n] \in drifted

\* The states a Package goes through, as the state functions of manager.go chain them.
Arcs == {<<"", "installing dependencies">>, <<"installing dependencies", "installing">>,
         <<"installing", "installed">>, <<"installed", "updating">>,
         <<"updating", "installing dependencies">>, <<"", "unknown">>}

\* Why it holds, as an inductive invariant.  The cache follows the object through the
\* pending events, whose last one is the object as it is; an object deleted since the
\* version the cache holds has not been looked at yet (state ""); a reconciliation
\* whose copy is fresh holds a successor of the latest version; one that is
\* uninstalling works for an object that is gone or new; helm runs to create a release
\* while there is none, and there is one after it has run.
CacheFollows ==
    \A n \in Names : IF stream[n] = <<>> THEN cache[n] = pkg[n]
                     ELSE stream[n][Len(stream[n])] = pkg[n]

Deleted(n) == cache[n] = None \/ \E i \in 1..Len(stream[n]) : stream[n][i] = None
DeletedIsNew == \A n \in Names : Deleted(n) /\ pkg[n] # None => pkg[n].st = ""

WrongNamespaceStates ==
    \A n \in Names : NsOf[n] = "invalid" /\ pkg[n] # None => pkg[n].st \in {"", "unknown"}

\* What a reconciliation with a fresh copy may save.
FreshSave ==
    /\ stream[w.n] = <<>> /\ pkg[w.n] # None
    /\ w.obj.st # pkg[w.n].st => <<pkg[w.n].st, w.obj.st>> \in Arcs
    /\ w.pc # "commit" => pkg[w.n].st = "installing"
    /\ w.obj.st = "installed" => rel[RelOf[w.n]] # None \/ RelOf[w.n] \in drifted
    /\ NsOf[w.n] = "invalid" => w.obj.st \in {"", "unknown"}
WorkerConsistent ==
    w # None =>
        /\ up
        /\ w.pc = "uninstall" => pkg[w.n] = None \/ pkg[w.n].st = ""
        /\ w.pc = "create" => rel[RelOf[w.n]] = None
        /\ w.pc \in {"created", "upgraded"} => rel[RelOf[w.n]] # None \/ RelOf[w.n] \in drifted
        /\ w.pc \notin {"uninstall", "unlist"} =>
              /\ w.pc # "commit" => w.obj.st = "installing" /\ NsOf[w.n] # "invalid"
              /\ w.fresh => FreshSave

Consistent ==
    /\ CacheFollows /\ DeletedIsNew /\ WrongNamespaceStates /\ WorkerConsistent
    /\ InstalledHasRelease

\* The controller removes a release only when its Package does not exist, or has just
\* been created again and not been looked at: a Package in use is never uninstalled.
NeverUninstallLive ==
    [][\A n \in Names :
          rel[RelOf[n]] # None /\ rel'[RelOf[n]] = None /\ RelOf[n] \notin drifted' =>
              pkg[n] = None \/ pkg[n].st = ""]_vars

\* As long as it exists, a Package only moves along the arcs of the state machine: a
\* reconciliation that read an old version never takes it back.
StatesFollowArcs ==
    [][\A n \in Names : pkg[n] # None /\ pkg'[n] # None /\ pkg'[n].st # pkg[n].st =>
          <<pkg[n].st, pkg'[n].st>> \in Arcs]_vars

\* The cache is at most one state behind: it never hides two changes of the state of a
\* Package that has not been deleted meanwhile, since a status is saved only by a
\* reconciliation that has read the latest version.  The versions still on their way
\* show the state as it is.
CacheOneBehind ==
    \A n \in Names :
        /\ \A i \in 1..Len(stream[n]) :
               (\A j \in i..Len(stream[n]) : stream[n][j] # None) => stream[n][i].st = pkg[n].st
        /\ ~Deleted(n) /\ pkg[n] # None =>
               cache[n].st = pkg[n].st \/ <<cache[n].st, pkg[n].st>> \in Arcs

\* What users are promised, without the machinery: the states in their order, a release
\* behind every "installed", nothing installed before its turn, nothing in use removed.
Contract == INSTANCE PackageContract WITH
    Packages <- Names,
    status <- [n \in Names |-> IF pkg[n] = None THEN "absent" ELSE pkg[n].st],
    running <- [n \in Names |-> rel[RelOf[n]] # None],
    lost <- [n \in Names |-> RelOf[n] \in drifted]
ImplementsContract == Contract!Spec

\* The controller is done with n: nothing about it is queued, delayed, delivered or
\* being worked on.
Quiet(n) ==
    /\ up /\ n \notin queue /\ n \notin timers /\ stream[n] = <<>>
    /\ w = None \/ w.n # n

\* A deleted Package the controller is done with has no release left.
NoOrphan == \A n \in Names : Quiet(n) /\ pkg[n] = None => rel[RelOf[n]] = None

\* A release is created, or moved to another source, only when every package its source
\* depends on has a release in the cluster (or had one that was removed with helm).
DependenciesFirst ==
    [][\A n \in Names :
          LET r == rel'[RelOf[n]] IN
          r # None /\ (rel[RelOf[n]] = None \/ rel[RelOf[n]].src # r.src) =>
              \A d \in Deps[r.src] : \E m \in Names :
                  /\ NsOf[m] = NsOf[n] /\ pkg[m] # None /\ pkg[m].spec.pn = d
                  /\ rel[RelOf[m]] # None \/ RelOf[m] \in drifted]_vars

\* While nothing has failed, ns-secret-map lists the namespaces of the releases of the
\* cluster's own packages and the placeholders, and nothing else but the namespace of the one
\* release that helm is just creating or has just removed: the driver adds an entry before
\* helm runs and deletes it afterwards.  Every Package has one namespace here: an upgrade
\* to a chart of another default namespace registers that one and leaves the release
\* where it is.
ListedReleases ==
    {<<rel[RelOf[n]].ns, RelOf[n]>> :
        n \in {m \in Names : NsOf[m] = "cluster" /\ rel[RelOf[m]] # None}}
InTransit ==
    IF w = None \/ w.pc \notin {"create", "unlist"} THEN {}
    ELSE IF NsOf[w.n] # "cluster" THEN {}
    ELSE {<<IF w.pc = "create" THEN TargetNs ELSE w.ns, RelOf[w.n]>>}
NsMapMatchesReleases ==
    faults = 0 /\ crashes = 0 => nsmap = PlaceholderEntries \cup ListedReleases \cup InTransit

\* What the controller works towards: a Package the active bundle can serve is
\* installed, with its configuration and from its source; a deleted one is gone, unless
\* a crash may have hidden the deletion.
Settled(n) ==
    LET r == rel[RelOf[n]] IN
    IF pkg[n] = None THEN r = None \/ crashes > 0
    ELSE LET s == Resolve(bundle, pkg[n].spec) IN
         s = None \/ (/\ HasState(n, "installed") /\ r # None
                      /\ r.cfg = pkg[n].spec.cfg /\ r.src = s)

\* Once users, bundle changes and faults leave it alone, every Package settles.
Converges == \A n \in Names : <>[]Settled(n)

\* While nothing fails and the CronJob is not suspended, a namespace that has a release
\* eventually has the pull secrets, or has lost the release again: also when the Job that
\* was created before helm ran was too early for the namespace, or when the controller
\* died before the one it creates afterwards, unless the Package was deleted meanwhile
\* and nobody looks at its release again.
NamespaceGetsSecret ==
    \A n \in Names, ns \in Namespaces :
        (~Suspended /\ rel[RelOf[n]] # None /\ rel[RelOf[n]].ns = ns)
            ~> \/ ns \in secretNs \/ rel[RelOf[n]] = None \/ faults > 0
               \/ pkg[n] = None /\ crashes > 0

\* A Package outside the package namespaces is ignored: sooner or later the controller
\* has nothing more to do about it, as long as it exists.
WrongNamespaceIgnored ==
    \A n \in Names : NsOf[n] = "invalid" => <>[](pkg[n] # None => n \notin timers)

\* They never get a release, and only those of a cluster's own namespace get an entry in
\* ns-secret-map.
WrongNamespaceInert ==
    \A n \in Names :
        /\ NsOf[n] = "invalid" => rel[RelOf[n]] = None
        /\ NsOf[n] # "cluster" => \A ns \in Namespaces : <<ns, RelOf[n]>> \notin nsmap
=============================================================================
