# EKS Anywhere Packages: a TLA+ verification project

This directory models the control loops of the EKS Anywhere package controller, the
programs around it and the way bundles are published, checks them on small instances
with TLC, and proves their safety properties for every size with TLAPS.  Paths below are
relative to `src/`.

    tlc -workers 2 -config Lifecycle.cfg MCPackageLifecycle
    tlapm PackageLifecycleProofs.tla
    tlapm PackageRefinementProofs.tla
    tlapm PackageReleasesProofs.tla
    tlapm PackageDependenciesProofs.tla
    tlapm BundleControllerProofs.tla
    tlapm RegistrySecretsProofs.tla
    tlapm CredentialProviderProofs.tla
    tlapm BundlePublicationProofs.tla

`PROJECT.json` lists the runs with what each one shows, the source lines every
definition stands for, the mutants that show each property can fail, the hazards
found in the code and the theorems.

## 1. Inventory

Three programs run in a cluster: the controller, the token refresher and the credential
provider's agent on every node.  A fourth, the bundle generator, runs in the build
pipeline and makes what they install.

The controller is one process on the management cluster (`cmd/server.go`): three
reconcilers of controller-runtime, each with a work queue and **one** worker, three
admission webhooks that serve requests concurrently, and shared informer caches.  It
acts on the Kubernetes API, on target clusters through helm, and on registries.  A
goroutine of it renews a registry login every hour.  The token refresher is a Job that a
CronJob and the helm driver start; the agent is a DaemonSet.

| Component | State it keeps | Operations | Properties that make it correct |
|---|---|---|---|
| Package reconciler, `controllers/package_controller.go` | work queue, delayed requeues | `Reconcile`: read a cached Package, resolve its source in the active bundle, `Process`, update the status | acts on stale copies without harm; retries what failed; converges |
| Package state machine, `pkg/packages/manager.go` | `Status.State` of the Package | one function per state; creates missing dependencies | only its own arcs; dependencies first; wrong namespaces ignored |
| Helm driver, `pkg/driver/helmdriver.go` | helm releases of the target cluster | `Install` (create or upgrade), `Uninstall`, `IsConfigChanged` | installed means a release exists; never uninstalls a Package in use |
| Secret map, `pkg/authenticator/ecrsecret.go` | config map `ns-secret-map`, refresher Jobs | `AddToConfigMap`, `DelFromConfigMap`, `AddSecretToAllNamespace` | lists the namespaces of the releases, entered before helm runs and taken off after it, and nothing else but its placeholders |
| Package webhook, `pkg/webhook/package_webhook.go` | none | accepts or refuses a Package | what is refused later is refused here |
| PBC reconciler, `controllers/packagebundlecontroller_controller.go` | work queue, `webhookInitialized` | `Reconcile`, three requeue intervals | problems are looked at again soon |
| Bundle manager, `pkg/bundle/manager.go` | status and `activeBundle` of the PBC, infrastructure of the target cluster | `ProcessBundleController`, `ProcessBundle` | users' choices survive; clusters are prepared; upgrades announced |
| PBC webhook, `pkg/webhook/packagebundlecontroller_webhook.go` | one target cluster client shared by all requests | accepts or refuses an active bundle | a bundle becomes active only on its Kubernetes version |
| Bundle reconciler and webhook | state of the PackageBundle | `Reconcile` | foreign bundles have no effect |
| Token refresher, `ecrtokenrefresher/` | pull secrets, `registry-mirror-cred` | a Job per trigger and a CronJob | every namespace of `ns-secret-map` gets secrets |
| Registry certificates and credentials, `pkg/registry/` | certificate files, `registry-mirror-cred` | `UpdateIfNeeded`, `Refresh` | writers of one secret do not undo each other |
| Credential provider, `credentialproviderpackage/` | files and kubelet of a node | watches mounted credentials, rewrites configuration, restarts the kubelet | every node ends up with the latest credentials |
| Bundle generator, `generatebundlefile/` | charts unpacked in the working directory, `bundle.yaml` | look up versions in ECR, pull charts, sign, write; the sample | the bundle holds what was asked for, and what is recorded of a chart is of the chart its digest names |
| Bundle signatures, `pkg/signature/manifest.go` | none | `GetDigest`, `ValidateSignature` | clusters accept what was signed, also after it has been stored, and nothing else |
| Command line, deepcopy, charts, other tooling | none at run time | - | - |

**Interactions.**  A user writes Packages and PBCs through the webhooks.  The API
server sends watch events to the informers; an event enqueues the object, and a
bundle's event also enqueues the Packages of `eksa-packages` (not the ones of cluster
namespaces, which wait for their timers).  The Package reconciler reads the active
bundle the PBC reconciler maintains.  The helm driver writes `ns-secret-map`, which a
refresher Job reads.  The PBC reconciler's own write of `activeBundle` goes through the
PBC webhook of the same process.  The refresher copies the users' `registry-mirror-secret`
of every cluster into `registry-mirror-cred`, which the controller mounts and also writes
(certificates, the ECR login).  The agent shares nothing with the others but the AWS
secret that is mounted.  The generator reads the charts others push to ECR; a script
pushes its file under the tag the PBC reconciler downloads; generator and webhook hash a
bundle with the same code, the one before it is serialized, the other after the API
server has completed it.

**What is hard here.**
- *Stale reads.*  A reconciliation reads the informer cache, works for seconds or
  minutes, and writes; only the optimistic version check of the status update tells it
  that it was overtaken - after helm has run.
- *Deletion without a finalizer.*  A deletion is a watch event and nothing else.
- *Retries re-run everything*, on another version of the object and of the bundle.
- *Partial failure.*  An installation is six calls to three systems; the preparation
  of a cluster is three.
- *Liveness through timers.*  Nothing wakes a Package whose dependency became
  installed, or a PBC when a bundle is published: only the requeue does.
- *Concurrent admission*, with a client shared between requests.
- *Three writers of one secret*, each of which reads it, computes and writes all of it.
- *A signature over part of an object*, where an annotation of the object names the part,
  and several parties add fields.
- *A registry that changes while it is read*, page by page and first by tag, then by tag
  again, by a process that leaves its files behind when it fails.
- *Files rewritten in place* by an agent that may be killed and is then started again,
  and *a mounted secret read key by key* while the kubelet replaces it.

## 2. Plan

The most important behaviour comes first; each module is parameterised so that it can
be proved about as well as checked.

1. `PackageLifecycle` with `MCPackageLifecycle`: the Package reconciler, the state
   machine, the helm driver, `ns-secret-map`, the Package webhook.  Its safety is proved in
   `PackageLifecycleProofs`, `PackageReleasesProofs` and `PackageDependenciesProofs`.
   **Checked and proved.**
2. `BundleController` with `MCBundleController` and `BundleControllerProofs`: PBC and
   bundle reconcilers, the bundle manager, both webhooks.  **Checked and proved.**
3. `RegistrySecrets` with `MCRegistrySecrets` and `RegistrySecretsProofs`: the refresher
   and the injectors.  **Checked and proved.**
4. `CredentialProvider` with `MCCredentialProvider` and `CredentialProviderProofs`: the
   node agent.  **Checked and proved.**
5. `PackageContract`, what the controller promises about a Package, and
   `PackageRefinementProofs`: `PackageLifecycle` implements it.  **Checked and proved.**
6. `BundleSignature` and `BundlePublication` with `MCBundlePublication`: the generator,
   the signatures and the webhook that checks them; `BundlePublicationProofs`: what the
   signature protects, and what the generator signs.  **Checked and proved.**

## 3. Modules

### PackageLifecycle

One cluster's Packages.  The state has three views of a Package, which is where the
difficulty lies: `pkg` (API server), `cache` with the events in `stream` still to
reach it, and `w.obj`, the copy of the running reconciliation.  `w.fresh` says that the
copy is still the latest version; it replaces resource versions, which would be
unbounded.  A *Package* is a namespace and a name (`Names`); `NsOf` is the kind of its
namespace and `RelOf` the release it is installed as, which carries its name only.

| Definition | Code |
|---|---|
| `UserCreate`, `UserUpdate`, `UserDelete` | a user's write and the webhook's verdict (`IsPackageValid`) |
| `Deliver`, `TimerFires`, `ChangeBundle`, `BundleEvent` | informers, work queue, the active bundle and `mapBundleChanges` |
| `Reconcile` and its parts | `Reconcile` up to the first call that takes long; one action per early return and per state function |
| `BeginInstall`, `InstallFails` | `helmDriver.Install` up to the decision between creating and upgrading |
| `PrepareRelease`, `CreateRelease`, `ReturnCreated`; `CreateReleaseFails`, `ReturnUndone` | no release yet: entry and Job, then helm, then the failsafe Job; or helm fails and the entry is taken back |
| `UpgradeRelease`, `ReturnUpgraded`; `UpgradeReleaseFails` | a release exists: helm, then entry and Job |
| `Uninstall`, `Unlist`; `NothingToUninstall`, `UninstallFails` | `helmDriver.Uninstall`: helm, then the entry is deleted |
| `Commit`, `CommitFails` | the status update |
| `RunJob` | the token refresher, for the namespaces of one cluster |
| `Drift` | an operator removes a release with helm |
| `Crash`, `Restart` | the pod dies at any point, also inside a helm operation; informers start from a list |

A *source* stands for a chart with its digest, dependencies, schema and default
namespace; `Find` is what the bundles offer.  Values of a release are its
configuration and whether the driver has overwritten `imagePullSecrets`.

helm and the config map are separate steps, and `w.pc` says between which two the
reconciliation stands: a Job may run, a user write and the controller die there, also
between `AddToConfigMap` and the Job that follows it.  `ns-secret-map` starts with the
`Placeholders` that `CreateClusterConfigMap` puts in, for which there is no release; a map
that is missing counts as a call that fails.  `Suspended` is the CronJob's: then
`AddSecretToAllNamespace` returns without creating a Job.  `RunJob` serves the listed namespaces
that exist, which one with a release does and any other may.

### PackageContract

The abstract specification: for each Package its `status`, whether its release is
`running`, and whether somebody else has removed it (`lost`).  There are no caches, queues,
copies or helm operations.  Its steps say what the user of a Package may rely on:
`Create` and `Delete`; `Advance` along the order of the states, where `installed` is shown
only of what is there; `Install`, never while dependencies are awaited or an update is
prepared; `Uninstall`, only of a Package that has gone or is new again; `Lose`, the
operator's doing.  In one step several Packages may move, because the controller creates
the Packages of all missing dependencies in one reconciliation.

`PackageLifecycle` maps `status` to `pkg[n].st`, `running` to the existence of
`rel[RelOf[n]]` and `lost` to `drifted` (operator `Contract`); `ImplementsContract` is the
property.  That a release may appear when its Package is absent, new or already
`installed` is not a weakness of the contract: a reconciliation that holds an old copy
installs although its status update will be refused.  What is excluded - the states in
between - is what makes the refinement need an invariant (section 5).

### BundleController

All the PBCs and bundles of the management cluster.  The same three views appear as
`pbc`, `cache`/`stream` and `w.obj`.  `ProcessBundleController` is one action per call
that leaves the process (`version`, `latest`, `list`, `process`, `restore`, `status`,
`spec`, `saving`), so that users, clusters and the registry can act between them.  The
webhook takes two steps (`UserAsks`/`ControllerAsks`, then `Allow`/`Deny`), because its
client - the variable `target` - is set in the first and used in the second.  A third is
the API server's (`Store`/`Refuse`): it stores what was allowed later, if nobody was
faster, and the cluster may have been upgraded or the controller have crashed since; a
request remembers, for the properties, which version its cluster had when it was allowed
(`at`).  Three requeue intervals are the values of `wait`.  Signatures, names and versions are
abstracted to the sets `Valid`, `Compatible` and the function `KubeOf`.

### RegistrySecrets

The clusters and what they hold for pulling images.  `cred` is the secret
`registry-mirror-cred` of `eksa-packages`; its writers are the refresher's Jobs (`job`),
`CertInjector.UpdateIfNeeded` (`certs`) and `ECRCredInjector.Refresh` (`ecr`).  `fresh`
is the set of writers whose copy of it is the latest version.

| Definition | Code |
|---|---|
| `Join`, `Leave`, `SetMirror`, `SetRegistry` | clusters come and go, users change their secrets and the PBC |
| `JobStart` | `main` up to the clients: one missing kubeconfig ends it |
| `JobFetch`, `JobFetchFails` | `RegistryMirrorSecret.Init`, all clusters or none |
| `TokenBroadcast`, `NoToken`, `MirrorBroadcast` | the two `BroadcastCredentials`, cluster by cluster |
| `JobRead`, `JobWrite`, `JobWriteFails` | the final update of `registry-mirror-cred` |
| `CertFetch` ... `CertUpdateFails` | `UpdateIfNeeded` |
| `EcrRead`, `EcrInject`, `EcrSkip` | `Refresh` |

A login is abstracted to whose it is, both docker configurations to the login they hold.
The reads and the write of `BroadcastDockerAuthConfig` in one namespace are one step; a
write of it that is refused is one of the faults.

### CredentialProvider

One node.  `mounted` is the version of the secret the kubelet shows, `creds` what the
node's provider uses, `files` and `args` the node's files, `kubelet` the arguments the
kubelet runs with.  `agent.pc` follows `main` through `GetAwsConfigPath` (`id`, `key`),
`UpdateAWSCredentials` (`copy`, on Bottlerocket also `apply`), `UpdateCredentialProvider`
(`config`, `bins`, `args` for each file of arguments; `provider`), `CommitChanges`
(`commit`) and the watcher (`watch`, `watching`).  A write that fails or is cut off may
leave a file torn or, for the arguments, empty.  Faults are of two kinds: those that end
the agent (`log.Fatal`), and those it ignores.  The arguments of the node's owner
(`UserLines`) name a provider configuration and a directory once at most, and a
configuration that is not the agent's (`OwnerAssumption`).

### BundleSignature and BundlePublication

`BundleSignature` holds the pure part: a bundle is a record of the fields the code tells
apart, a hash is what is hashed, and a signature is a key with a hash, so that two
bundles have one hash exactly when `GetDigest` cannot tell them apart; `NoSignature` is an
annotation that is missing.  `Strip` is the
`del` of the selectors an annotation names; a query on packages that are null fails, and
its error is hashed like a result (`ok` is `FALSE`, one value for all).

`BundlePublication` follows a bundle from ECR to the cluster.

| Definition | Code |
|---|---|
| `Push` | others push charts and move tags; `clock` gives the times, the position in the list is arbitrary |
| `Start`, `ReadInput`, `ReadInputFails` | `cmdGenerate` up to the lookups, for each of its input files |
| `LookupExact`, `LookupLatest`, `LookupOther`, `LookupFails` | `GetShaForInputs`, one step per requested tag; `LookupLatest` may lose the pages after any page, and panics where nothing matches |
| `PullChart`, `PullChartFails`, `NoCharts` | the loop over charts: pull by tag, unpack over what is there, read `requires.yaml` |
| `Sign`, `SignFails`, `Write`, `WriteFails` | metadata in the map of annotations that all bundles share, KMS, `serializeBundle`, `bundle.yaml` |
| `GenerateSample`, `PushBundle` | `-generate-sample`; `hack/common.sh` |
| `ImportLatest` | download, unmarshal, `CreateBundle`, the API server's defaults and the webhook |
| `UserCreate`, `UserUpdate`, `UserDelete` | users copy the bundle and change each of its fields; the webhook decides |
| `SaveStatus` | `ProcessBundle`, which the webhook does not see |

A chart is its digest; what a version records of it is the digest of the chart whose
`requires.yaml` was read (`chart`), so that a mixture shows.  `g.moved` and `g.lost` record
which tags were moved and whether a page was lost while the process ran; only properties
read them.  `workdir` survives the process, as the working directory does: `CleanUp` is
the deferred removal, which `os.Exit` skips and a panic does not.

The loops over lists (`Only`, `getLatestImageSha`, `removeDuplicates`) are functions of the
number of turns, so that they can be proved about; `NoImage` is the value `getLatestImageSha`
begins with.  `TagsApart` is what ECR guarantees of a repository: a tag is on one image.
`StockAssumption` asks it of the registry at first, and `Push` keeps it (`PushedKeeps`).  Two
images may have one time of push; `AsRequested` is content with any of the newest.

A definition whose name extends another's and whose comment begins with *Variant* is
the mutated form of it that a mutant of `PROJECT.json` puts in its place; no
specification uses it.

## 4. Runs

| Run | Instance | Checks |
|---|---|---|
| `Lifecycle` | one Package, two bundles in any order, two configurations, one of which sets `imagePullSecrets`, a suspended CronJob; 3 edits, a fault, a crash | `TypeOK`, `InstalledHasRelease`, `Consistent`, `CacheOneBehind`, `NeverUninstallLive`, `StatesFollowArcs`, `ImplementsContract` |
| `Dependencies` | `app` needs `lib`, whose chart has another default namespace, a placeholder in `ns-secret-map`; 3 edits, a fault | `NoOrphan`, `NsMapMatchesReleases`, `DependenciesFirst` |
| `Convergence` | one Package, bundles that go forward; 3 edits, a fault, a crash | `Converges`, `NamespaceGetsSecret` |
| `DependencyConvergence` | `app` needs `lib`; 2 edits, a fault | `Converges` |
| `Namespaces` | Packages of `eksa-packages` and of a foreign namespace, one configuration not YAML | `WrongNamespaceInert`, `WrongNamespaceIgnored` |
| `BundleSafety` | one PBC, a bundle for each of two Kubernetes versions, an upgrade of the cluster; 3 edits, a fault or a crash | `TypeOK`, `PreparedBeforeUpgrade`, `UserChoiceKept`, `StatesFollowSwitch`, `ActiveMatchesKube` |
| `BundleConvergence` | a workload cluster, a foreign PBC and bundle; 2 edits, a fault or a crash | `ForeignInert`, `Converges` |
| `Registry` | a management and a workload cluster, which joins, leaves or renews its mirror; a Job and both injectors; 2 edits, a fault | `TypeOK`, `OwnCredentials`, `CertificatesKept`, `Converges`, `TokensArrive`, `EcrReturns` |
| `CredentialAgent` | five nodes: Ubuntu, Red Hat, Bottlerocket with and without support; 2 rotations, a fault of each kind, a crash | `TypeOK`, `FlagsOnce`, `CredentialsFirst`, `FilesBeforeFlags`, `RotationReachesNode`, `Configured` |
| `Publication` | two repositories, seven artifacts, all kinds of requested tags; 2 runs of the generator on up to two input files, 2 pushes by others, 2 changes by users, a fault | `PublishedIsAccepted`, `StoredVerifies`, `AcceptedIsSigned`, `ChartMatchesDigest`, `AsRequested` |

**Bounds.**  `MaxEdits` counts what users, registry and clusters do, `MaxFaults` the
calls that fail although they could succeed, `MaxCrashes` the crashes (in `BundleController`
a crash counts as a fault).  Three edits are
create, change or delete, and create again: enough for a reconciliation to hold a copy
two versions old and for a name to be reused, which is what the properties are about.
One Package or PBC suffices for properties of one object; two appear where objects
interact (dependencies, namespaces, the webhook's client).  The bounds count the
environment's steps only: the controller may act, requeue and retry without limit, and
the watch streams are as long as the writes make them.  Two rotations are the least in
which a rotation hits the handling of another one; a crash and a fault together reach a
start on files that were cut off twice.  In `Publication` two runs let one find what the
other has left, two input files share the annotations, and two changes by users are the
least in which one alters what is hashed and the next what it no longer covers; pages of
two images split one of the repositories.  `CHECK_DEADLOCK FALSE` is there because a
settled controller without users, or an agent that watches a secret nobody rotates, has
nothing to do.

**Fairness.**  Weak fairness of event delivery, timers, the worker's steps, the
webhook's answers, Jobs and the restart: controller-runtime, the API server and the
kubelet do these things.  Strong fairness of taking a queued object up: the queue is
served in its order, so an object whose turn is taken by others gets its own.  No
fairness is assumed of users, faults, crashes or of the operator who removes a release.

In `RegistrySecrets` the CronJob starts Jobs and the injectors look again (weak
fairness).  A Job's final write and `EcrInject` are strongly fair: each takes place
within seconds of its read, and the schedules are of hours, so not every one of them is
overtaken.  In `CredentialProvider` the kubelet starts the agent again whenever it has
ended, and the agent goes on (weak fairness of `Start` and `Step`).

### Disagreements between the code and its documentation

Two runs are expected to find a violation (`findings` quotes both sides).

- `SkippedDependencies`: `processInstalling` installs the source of the bundle active
  *now*; the dependencies were checked a reconciliation earlier.  A bundle change
  between the two installs a package before what it depends on.  The theorem
  `DependenciesComeFirst` says when it does not happen: if all versions of a package have
  the same dependencies, and these are not deleted.
- `BundleRaceOfRequests`: two concurrent admission requests share a client; one is
  checked against the other's cluster.  By the theorem `OneClusterMatches` this does not
  happen with one cluster: there the webhook's answer is right when it is given.

The models show more of the code's behaviour that the runs above step around, and say
so in their constants:

- a configuration that sets `imagePullSecrets` is overwritten by `Install` and then found
  changed by `IsConfigChanged`, forever: the convergence runs use no such configuration
  (`OwnPull` is empty);
- an installation from an outdated Package changes the release and its status update is
  refused; since `IsConfigChanged` compares configurations and not versions,
  `status.currentVersion` may then differ from what runs for good;
- the webhook compares a bundle with the version its cluster has when it asks; the API
  server stores the PBC later, and a cluster upgraded in between gets a bundle of its old
  version: `ActiveMatchesKube` is about the version at the answer;
- `ProcessBundleController` returns nil when the target cluster does not answer, so the
  next check comes after the long interval, although
  `api/v1alpha1/packagebundlecontroller_types.go:60` calls the short one the time between
  checks "if there is a problem";
- a crash while a Package is being deleted leaves its release behind (no finalizer):
  `NoOrphan` is checked and proved without crashes and `Settled` exempts them;
- an upgrade to a chart of another default namespace enters that namespace in
  `ns-secret-map` and leaves the release and its entry where they are; the new entry is
  never removed, since `Uninstall` removes that of the release's namespace:
  `NsMapMatchesReleases` is checked and proved for Packages that stay in one namespace;
- the entry of a release is there before helm has created it and until after helm has
  removed it, minutes in which Jobs read the map, and placeholders never have a release:
  `NsMapMatchesReleases` names both (`InTransit`, `PlaceholderEntries`);
- the Job created before helm runs may be too early for a namespace helm is going to
  create; the failsafe Job makes up for it;
- with a suspended CronJob no Job is created, nothing fails, and the namespace gets no
  secrets: `NamespaceGetsSecret` excludes it;
- a controller that dies before the failsafe Job creates one when it installs again, but
  not if the Package has been deleted meanwhile: its release stays, perhaps without
  secrets, and `NamespaceGetsSecret` exempts it;
- a release left pending by a crash inside helm is never repaired: the convergence runs
  set `HelmMayHang` to `FALSE`;
- Packages of one name in `eksa-packages` and in `eksa-packages-<management cluster>`
  share a release, and deleting the one uninstalls the other: the theorems assume
  `DistinctReleases`;
- a `targetNamespace` set after an installation without one passes the webhook and has
  no effect;
- a Package of `eksa-packages` never counts as one of the management cluster, so the
  webhook lets workload-only packages through;
- a deleted Package of a wrong namespace, and a deleted PBC, are requeued without end;
- one cluster without a `registry-mirror-secret` stops the mirror broadcast for all, and
  one without a kubeconfig stops the refresher: `Complete` is the assumption of
  `Converges` that excludes both;
- `config.json` holds one login, of the cluster the iteration over a Go map ends with or
  of ECR: the writers replace each other's (`InjectCredential` decodes in the wrong
  direction and begins with an empty file), so `eksa-packages` holds the login of another
  cluster for some time; `OwnCredentials` says of this one file only that its login is one
  of a known cluster or of ECR, and `EcrReturns` that the latter comes back;
- `<cluster>_insecure` is never removed;
- a key that cannot be read makes the agent install empty credentials, and a failure to
  write the provider's configuration is only logged: `Configured` and
  `RotationReachesNode` except them; `CredentialsFirst` allows a kubelet with the provider
  empty credentials only after such a failure, and torn ones only while the agent that is to
  replace them has not come so far;
- the agent adds its watcher after it has read the credentials and restarted the kubelet:
  a rotation in between is not noticed until the next one or a restart, which is why
  `RotationReachesNode` speaks of rotations the watcher has seen;
- the generator takes the digest of a version from one answer of ECR and pulls the chart
  by its tag later: a tag moved in between gives a version the images of another chart
  (`ChartMatchesDigest` exempts tags moved while the process runs);
- a chart without `requires.yaml` takes the one an earlier run has left in the working
  directory, instead of being refused;
- the error of any page of images but the first is dropped, and an older chart is
  published as the latest (`AsRequested` exempts such runs);
- `getLatestImageSha` panics where it means to report that there are no images, because
  it compares with a value it has itself changed;
- only the first version of a package gets images, dependencies and schema;
- several input files write one `bundle.yaml`: the last one stays; a sample is written
  over the start of a longer file;
- an input without projects is signed with a hash all such bundles share, whatever their
  names; no cluster takes them, since the resource requires packages;
- arguments of the node's owner are lost with a file of arguments that is cut off.

## 5. Proofs

`PackageLifecycleProofs` proves, for any Packages, catalog, bundles and bounds that
satisfy the named assumptions of `PackageLifecycle`:

| Theorem | Statement |
|---|---|
| `TypeCorrect` | `Spec => []TypeOK` |
| `AlwaysConsistent` | `DistinctReleases /\ Spec => []Consistent` |
| `InstalledSafe` | `DistinctReleases /\ Spec => []InstalledHasRelease` |
| `UninstallsOnlyDeleted` | `DistinctReleases /\ Spec => NeverUninstallLive` |
| `OnlyArcs` | `DistinctReleases /\ Spec => StatesFollowArcs` |

**The argument.**  `InstalledHasRelease` is not inductive: whether an uninstallation is
safe depends on a version of the Package read long ago.  `Consistent` adds what makes
it so.
- `CacheFollows`: the last pending event is the object as it is; without one the cache
  is up to date.  A copy taken from an up-to-date cache is therefore the latest version,
  and stays so until somebody writes, which clears `w.fresh`.
- `DeletedIsNew`: if the cache shows, or is going to show, the Package as deleted, then
  a Package of that name is one created since, in state `""`: no reconciliation can have
  moved it on, because its copy would have to be fresh.  This is why a late uninstall -
  the hazard of deletion without a finalizer - hits only a Package that has nothing
  installed yet.
- `WorkerConsistent`: an uninstalling reconciliation works for a Package that is gone or
  new; one with a fresh copy is about to save a successor of the current state, and if
  that is `installed`, there is a release; helm creates a release only while there is none,
  and has left one when it returns.
- `WrongNamespaceStates`: a Package of a foreign namespace is never beyond `unknown`.

`DistinctReleases` is an assumption of the theorems, not of the specification; without
it `InstalledHasRelease` is false (see above).  Each conjunct has a lemma per group of
actions; the action properties follow from `Consistent` and from two lemmas that say
which steps remove a release (`ReleasesKept`) or change a Package (`ObjectsKept`).

`PackageRefinementProofs` builds on it:

| Theorem | Statement |
|---|---|
| `CacheIsClose` | `DistinctReleases /\ Spec => []CacheOneBehind` |
| `LifecycleImplementsContract` | `DistinctReleases /\ Spec => ImplementsContract` |

**The refinement.**  The hard step is an installation.  The contract lets a release
appear only while its Package is absent, new, `installing` or `installed`; the code
checks nothing of the kind when helm returns, it has read the Package long before.
`CacheOneBehind` says how old what it reads can be: a state is saved only by a
reconciliation whose copy was the latest version, and such a copy exists only when no
event is pending, so the cache never hides two changes of a state.  An installation
starts from a copy in state `installing`; the Package itself is then in `installing` or,
one arc on, in `installed`, and as the controller has one worker only users touch it until
helm returns: they can delete it and create it again, which makes it absent or new
(`InstallsInTime`).  `LostIsGone`, that a release which exists does not count as lost, makes
the mapping of `Install` and `Lose` exact.  `RInv` is the conjunction of these with the
invariant of `PackageLifecycleProofs`.  `ObjectsOrReleases` (no step writes both),
`CreatedIsNew` and `ReleaseStep` then take the steps of the code apart for each Package, and
`ContractStep` puts them together to a step of the contract.

`PackageReleasesProofs` and `PackageDependenciesProofs` also build on
`PackageLifecycleProofs`, and prove about releases and `ns-secret-map`:

| Theorem | Statement |
|---|---|
| `WrongNamespaceStaysInert` | `DistinctReleases /\ Spec => []WrongNamespaceInert` |
| `NothingOrphaned` | `DistinctReleases /\ Spec => [](crashes = 0 => NoOrphan)` |
| `ReleasesAreListed` | `DistinctReleases /\ Spec => []ReleasesListed`: the half of `NsMapMatchesReleases` that the refresher needs, wherever Packages are moved to |
| `NsMapExact` | `DistinctReleases /\ Spec => []NsMapMatchesReleases`, if Packages are `Stationary` |
| `DependenciesComeFirst` | `DistinctReleases /\ Spec => DependenciesFirst`, if `Given` |

**Deletions.**  Nothing but the requests on their way knows that a release is left of a
deleted Package.  `CareInv` follows them: until the first crash every release has somebody
who cares for it, because its Package is in the cache, a request is queued or delayed,
or it is being uninstalled, and so has the Package an installation is running for.
`PendingKept` is the step that could fail: a request is taken off the queue only by a
reconciliation that finds the Package, begins to uninstall or asks for a delay.  A
crash ends it, since the restarted informer lists Packages that exist and no others;
that is why the theorem stops there.

**Entries.**  helm and the config map are written one after the other, so neither side of
`NsMapMatchesReleases` follows from a single step.  `QuietStep` lists what may happen to them
while nothing has failed: an entry is made before its release is created and after one is
upgraded, and deleted after the release is removed.  `BetweenCalls` says what is true in
between: after an upgrade there is a release, and while an entry is still to be deleted the
release is gone (that there is none while helm is to create it is part of `WorkerConsistent`).  With it `ReleasesListed`, which
also speaks of the release being created, is inductive (`ListedStep`).

That nothing else is listed needs more: an upgrade enters the namespace the new chart
asks for, and the release stays where it is.  `NsMapExact` therefore assumes a namespace
`home[n]` of each Package, to which every spec it may have (`S[n]`: those users write, and
those that are made for it as a dependency, `MaySpecify`) leads in every bundle.
`ObjectsKeep` and `WorkerKeeps` carry these specs through the object, the cache, the events
and the copy of the reconciliation.  `AtHome` then says that the entries are the placeholders
and the homes of the Packages that have a release or one in transit (`Present`), and
`AtHomeStep` that each of the steps of `QuietStep` keeps it so.

**Dependencies.**  `DependenciesFirst` compares an installation with a check that an
earlier reconciliation has made, of dependencies it has seen in the cache.  `Given` states
what has to be so for the check to be worth something when helm runs: a Package keeps to
one package, all versions of which have the same dependencies, and what others depend on
is not deleted.  The run `Dependencies` satisfies it, `SkippedDependencies` does not (in its
catalog only the second version has a dependency).  The invariant says that old versions
tell the truth: any version of a Package that is around and says `installed` belongs to a
Package that is there and has its release (`Served`), and any that says `installing` to one
whose dependencies are served (`VersionsTrue`, and `WorkerReady` for the reconciliation's
copy).  Being served is stable for what is not deleted (`ServedStays`): a late
uninstallation cannot hit it, by `WorkerConsistent`.

`BundleControllerProofs` proves, for any clusters, bundles, versions and bounds:

| Theorem | Statement |
|---|---|
| `TypeCorrect` | `Spec => []TypeOK` |
| `PreparedFirst` | `Spec => []PreparedBeforeUpgrade` |
| `ForeignIgnored` | `Spec => []ForeignInert` |
| `ChoiceKept` | `Spec => UserChoiceKept` |
| `OnlySwitchArcs` | `Spec => StatesFollowSwitch` |
| `OneClusterMatches` | `Spec => ActiveMatchesKube`, if there is one cluster |

**The argument.**  `PreparedBeforeUpgrade` looks at a state that may have been saved long
after the cluster was prepared, from a copy of the PBC taken before.  `BInv` ties the two
together: the copy of a reconciliation is the PBC itself as long as it is fresh, and once a
status was computed it is a `Successor` of it, one arc of the switch on, with the same active
bundle, and with a prepared cluster if it offers an upgrade (`WorkerInv`).  The write of
`activeBundle` is a request of its own that waits for the webhook and for the store:
`RequestsInv` says that it belongs to the reconciliation that waits for it and is outdated
when that is, and that one which outlives a crash still finds an empty `activeBundle` unless
it is outdated; which is why it never replaces a choice made meanwhile.  `OneClusterMatches`
needs one fact more, that a request which was allowed names a bundle of the version its
cluster had then; it shows where the race of `BundleRaceOfRequests` comes from, since all the
webhook knows of its client is that it points to *some* cluster.

`RegistrySecretsProofs` proves, for any clusters, namespaces, mirrors, Jobs and bounds:

| Theorem | Statement |
|---|---|
| `TypeCorrect` | `Spec => []TypeOK` |
| `LoginsStaySeparate` | `Spec => []OwnCredentials` |
| `CertificatesStay` | `Spec => CertificatesKept` |

**The argument.**  A Job works with what it has fetched, however old: `JobInv` says that each
entry is, or was, the secret of that very cluster, and that a Job has the credentials of
all its clusters or of none - a Job with some of them would write a secret without the
others' certificates - and that its clusters are known ones, which is all that can be said
of the login in `config.json`: it is that of whichever cluster the Job's iteration ended
with.  The two injectors read the secret, compute and write all of it:
their update is refused unless the copy is fresh, and a fresh copy is the secret itself
(`CertInv`), so that what it adds to is what is there.  A Job's write carries the
certificates of all clusters it knows and those it has read.

`CredentialProviderProofs` proves, for any kinds of nodes, lines of the owner and bounds:

| Theorem | Statement |
|---|---|
| `TypeCorrect` | `Spec => []TypeOK` |
| `ArgumentsOnce` | `Spec => []FlagsOnce` |
| `CredentialsBeforeProvider` | `Spec => []CredentialsFirst` |
| `ArgumentsNameWholeFiles` | `Spec => FilesBeforeFlags` |

**The argument.**  The agent decides what to add to a line from what it finds there
(`updateKubeletArguments`), so `FlagsOnce` is inductive up to the owner's lines, about which
`OwnerAssumption` speaks.  `FlagsInv` records that an argument is on the list of those to be
added only if its file was completely written in the same pass, although the agent goes on
when writing it failed.  `CredsInv` follows the order of `main`: past `UpdateAWSCredentials`
there is a file of credentials, and nothing takes it away, so a line, the staged settings
or a kubelet that name the provider, also after a crash in between, find one.  What the file
holds is `CopiedInv`: keys the secret had at some time, unless reading them has failed and was
ignored, or the last copy was cut off and the agent has not copied again yet (`Waiting`).

`BundlePublicationProofs` proves, for any charts, tags, input files, pushes, page size and
bounds:

| Theorem | Statement |
|---|---|
| `PublishedAccepted` | `Spec => []PublishedIsAccepted` |
| `StoredStaysValid` | `Spec => []StoredVerifies` |
| `OnlySignedAccepted` | `Spec => []AcceptedIsSigned` |
| `ChartsMatch` | `Spec => []ChartMatchesDigest` |
| `RequestsAnswered` | `Spec => []AsRequested` |
| `LatestIsNewest` | `getLatestImageSha` of any list is a newest chart of it, or `NoImage` if it has none |
| `OneOfEachName` | `removeDuplicates` of any list has one version of each name, the first |

The assumptions are that the generator's key is the one the clusters trust and users
have no other that is (`KeysAssumption`), that input files name valid versions and have
projects of the declared form (`InputsAssumption`), that a tag of the registry is on one
image of its repository at first (`StockAssumption`) and that `None` is no value
(`NoneAssumption`, `NothingAssumption`).

**The argument.**  The hash covers the name, the namespace, the excludes annotation and
the packages (`DigestFields`).  Because the annotation is itself hashed, nobody can widen
what it hides: a bundle with the hash of a signed one has the generator's excludes, and
these hide neither names nor versions (`DigestProtects`).  A query that fails is hashed as
its error, one value for all bundles without packages; the resource's schema, which requires
packages, is what keeps such hashes harmless.  In the other direction, `serializeBundle`, the API
server's defaults and the status touch only what is not hashed (`WrittenAlike`), so they
cannot make a good bundle fail (`AlikeAdmitted`).  The inductive invariant `PInv` ties this to
the process: each signed bundle carries the trusted signature of its own hash although the
map of annotations still holds the signature of the previous one (`SignStep`), `bundle.yaml`
holds a signed bundle when a run is done, the registry holds what such a file held, and the
stored object was admitted and has a signature only if the generator made it.

**The lookups.**  `ChartsMatch` and `RequestsAnswered` are about what the loops over the
answers of ECR compute, so these come first.  The prover has no induction over data; each
loop's result is defined turn by turn (`LoopRuns`), and what is claimed of it holds at every
turn because there is no least turn at which it fails (`Least`, `NoneFails`, from the
well-foundedness of the numbers).  `OnlyKeeps`, `LatestIsNewest` and `OneOfEachName` are the
results.

Neither property is inductive: the digest of a version is taken at one step and its chart
pulled many steps later by its tag alone.  `QInv` says what lies in between.  Each version
that is found, or is in a package, is *located*: the image that now has its name as a tag
has its digest, unless that tag was moved (`LookupInv`, `PackagesInv` with `PackageOK`).  As a
tag is on one image (`RegistryInv`), the pull finds the chart of that digest
(`PullChartStep`), and two versions of one name are of one chart, which is why
`removeDuplicates` cannot take an answer away (`AnsweredOnce`).  While no tag has moved and no
page is lost, every request up to `g.tag` of the current project and every request of the
projects before it is answered (`LookupInv`, `RequestInv`); a lookup that finds nothing on
complete pages shows that no chart was meant.  A push moves its tags and records them, and
one without tags changes no answer (`PushedKeeps`, `PushedAnswers`).  `ChartInv` adds that the
packages are as many as the projects when the charts are pulled, and `WorkInv` that only
charts lie in the working directory.  TLC has checked `QInv` on the instance of
`Publication` before it was proved.

**Only model-checked.**  Liveness under fairness (`Converges` of three modules,
`NamespaceGetsSecret`, `WrongNamespaceIgnored`, `TokensArrive`, `EcrReturns`,
`RotationReachesNode`, `Configured`) is out of the prover's reach.  Every other property of
the passing runs is stated by a theorem.

## 6. Not modelled

- What a chart does, YAML and JSON schemas, the mathematics of hashes and keys, the OCI
  protocol, kubeconfig handling: their outcomes are constants or failures.
- `status.targetVersion` and the wording of `detail`: nothing reads them back.
- The readers of the mounted secret (`pkg/registry/certificates.go`, `credentials.go`) and
  the registry's storage client: I/O without state of its own.
- `LessThan`, `BundlesByVersion` and `PackageMatches` of bundles, and of the generator
  `tagFromSha`, `ValidateBundle` and `ExecCommand`: only tests call them, or nothing.
- `cmd/`, `api/v1alpha1/zz_generated.deepcopy.go`, charts, the rest of `hack/`: wiring,
  generated code, data and shell scripts.
- More than one replica of the controller: its Deployment asks for one.
