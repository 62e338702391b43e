--------------------------- MODULE BundleController ---------------------------
(***************************************************************************)
(* Which bundle of packages is active on each cluster: the reconcilers of  *)
(* PackageBundleController (PBC) and PackageBundle resources               *)
(* (controllers/packagebundle*_controller.go), the bundle manager behind   *)
(* them (pkg/bundle/manager.go, client.go, registry_client.go), and the    *)
(* admission webhooks of both resources (pkg/webhook/packagebundle*.go).   *)
(*                                                                         *)
(* There is one PBC per cluster, of the cluster's name, and all of them    *)
(* live on the management cluster with the bundles they share.  A          *)
(* reconciliation reads a cached PBC, asks the target cluster for its      *)
(* version, the registry for its latest bundle, and then writes: other     *)
(* writers may have been faster, which the resource version reveals        *)
(* (fresh).  The controller's own change of a PBC's spec passes through    *)
(* the webhook, like a user's.                                             *)
(***************************************************************************)
EXTENDS Naturals, Sequences, FiniteSets

CONSTANTS
    Clusters, Management,   \* clusters, and PBCs, by name; $CLUSTER_NAME
    BundleNames,            \* PackageBundles, by name
    KubeVersions, KubeOf,   \* KubeOf[b]: the version the bundle's name starts with
    Valid,                  \* bundles with a well-formed name and a good signature
    Compatible,             \* bundles whose minVersion this controller satisfies
    Foreign,                \* PBCs and bundles outside of namespace eksa-packages
    AwsSecret,              \* the management cluster has a secret aws-secret
    Choices,                \* Choices[c]: what users set activeBundle to
    Deletable, Imports,     \* what users delete; bundles they create
    Published, Upgrades,    \* new latest bundles; new versions of clusters
    None, MaxEdits, MaxFaults

Keys == Clusters \cup BundleNames
PBCStates == {"", "ignored", "active", "disconnected", "upgrade available"}
PBCs == [active : BundleNames \cup {None}, st : PBCStates,
         detail : BundleNames \cup {"", "error"}]
BundleStates == {"", "ignored", "available", "upgrade required", "invalid"}
Waits == {"none", "soon", "short", "long"}
Pcs == {"version", "latest", "list", "process", "restore", "status", "spec", "saving"}
Workers == [pc : Pcs, c : Clusters, obj : PBCs, fresh : BOOLEAN,
            info : KubeVersions \cup {None}, latest : BundleNames \cup {None},
            list : SUBSET BundleNames]
\* A write of a PBC's spec on its way: whose it is ("crashed" if of a controller that is
\* gone), and the version its cluster had when the webhook allowed it, None before; nothing
\* but a property reads which version that was.
Requests == [by : {"user", "controller", "crashed"}, c : Clusters,
             active : BundleNames \cup {None}, fresh : BOOLEAN, at : KubeVersions \cup {None}]

ASSUME ClustersAssumption ==
    /\ Management \in Clusters /\ Clusters \cap BundleNames = {}
    /\ Foreign \subseteq Keys /\ Deletable \subseteq Keys /\ AwsSecret \in BOOLEAN
ASSUME BundlesAssumption ==
    /\ KubeOf \in [BundleNames -> KubeVersions]
    /\ Valid \subseteq BundleNames /\ Compatible \subseteq BundleNames /\ Imports \subseteq BundleNames
    /\ Choices \in [Clusters -> SUBSET (BundleNames \cup {None})]
    /\ Published \subseteq BundleNames \ Foreign /\ Upgrades \subseteq Clusters \X KubeVersions
ASSUME NothingAssumption ==
    /\ None \notin PBCs /\ None \notin Workers /\ None \notin BundleStates
    /\ None \notin BundleNames /\ None \notin KubeVersions /\ None \notin Clusters
ASSUME LimitsAssumption == MaxEdits \in Nat /\ MaxFaults \in Nat

VARIABLES
    pbc,      \* API server: the PBCs, None when absent
    bundles,  \* API server: status.state of the PackageBundles, None when absent
    cache,    \* the informers' copies of both
    stream,   \* watch events on their way to the informers
    queue,    \* workqueue of the PBC reconciler
    wait,     \* the earliest delayed requeue of each PBC
    w,        \* the PBC reconciliation in progress, or None
    bqueue,   \* workqueue of the bundle reconciler
    reqs,     \* PBC writes at the API server, which asks the webhook and then stores them
    target,   \* the cluster the webhook's shared client points to, or None
    hooked,   \* webhookInitialized
    infra,    \* what the clusters have been given: config map, namespace, secret
    job,      \* a token-refresher Job has been created
    kube,     \* Kubernetes version of each cluster
    newest,   \* registry: the bundle tagged latest for each Kubernetes version
    up,       \* the controller (reconcilers and webhooks) is running
    edits,    \* how often users, the registry and the clusters have changed something
    faults    \* calls that have failed, and crashes of the controller

env == <<kube, newest, edits>>
vars == <<pbc, bundles, cache, stream, queue, wait, w, bqueue, reqs, target, hooked, infra,
          job, up, env, faults>>

TypeOK ==
    /\ pbc \in [Clusters -> PBCs \cup {None}]
    /\ bundles \in [BundleNames -> BundleStates \cup {None}]
    /\ DOMAIN cache = Keys /\ DOMAIN stream = Keys
    /\ \A c \in Clusters : cache[c] \in PBCs \cup {None} /\ stream[c] \in Seq(PBCs \cup {None})
    /\ \A b \in BundleNames : /\ cache[b] \in BundleStates \cup {None}
                              /\ stream[b] \in Seq(BundleStates \cup {None})
    /\ queue \subseteq Clusters /\ wait \in [Clusters -> Waits] /\ bqueue \subseteq BundleNames
    /\ w \in Workers \cup {None} /\ reqs \subseteq Requests
    /\ target \in Clusters \cup {None} /\ hooked \in BOOLEAN
    /\ infra \in [Clusters -> SUBSET {"config map", "namespace", "secret"}] /\ job \in BOOLEAN
    /\ kube \in [Clusters -> KubeVersions] /\ newest \in [KubeVersions -> BundleNames]
    /\ up \in BOOLEAN /\ edits \in Nat /\ faults \in Nat

Init ==
    /\ pbc = [c \in Clusters |-> None] /\ bundles = [b \in BundleNames |-> None]
    /\ cache = [k \in Keys |-> None] /\ stream = [k \in Keys |-> <<>>]
    /\ queue = {} /\ wait = [c \in Clusters |-> "none"] /\ w = None /\ bqueue = {}
    /\ reqs = {} /\ target = None /\ hooked = FALSE
    /\ infra = [c \in Clusters |-> {}] /\ job = FALSE
    /\ kube \in [Clusters -> KubeVersions]
    /\ newest \in [KubeVersions -> BundleNames \ Foreign]
    /\ \A k \in KubeVersions : KubeOf[newest[k]] = k
    /\ up = TRUE /\ edits = 0 /\ faults = 0

-----------------------------------------------------------------------------
(* Pieces of actions.                                                      *)

Fault == faults < MaxFaults /\ faults' = faults + 1
Edit == edits < MaxEdits /\ edits' = edits + 1

\* Variant: the bundles of all namespaces.
BundleListAll == {b \in BundleNames : cache[b] # None}

\* GetBundleList, and the list of the webhook: the cached bundles of eksa-packages.
BundleList == {b \in BundleNames \ Foreign : cache[b] # None}

\* A PBC write makes the copies others hold outdated.
Outdated(rs, c) == {IF r.c = c THEN [r EXCEPT !.fresh = FALSE] ELSE r : r \in rs}
Overtaken(c) == IF w # None /\ w.c = c THEN [w EXCEPT !.fresh = FALSE] ELSE w
WritePBC(c, o) ==
    /\ pbc' = [pbc EXCEPT ![c] = o]
    /\ stream' = [stream EXCEPT ![c] = Append(@, o)]
    /\ UNCHANGED <<bundles, cache>>
WriteBundle(b, st) ==
    /\ bundles' = [bundles EXCEPT ![b] = st]
    /\ stream' = [stream EXCEPT ![b] = Append(@, st)]
    /\ UNCHANGED <<pbc, cache>>
NoWrite == UNCHANGED <<pbc, bundles, cache, stream>>

\* CreateBundle succeeds: the webhook accepts the bundle and the name is free.
Creatable(b) == b \in Valid /\ bundles[b] = None

\* AddAfter keeps the earlier of two delayed requeues.
Sooner(a, b) == IF "soon" \in {a, b} THEN "soon" ELSE IF "short" \in {a, b} THEN "short" ELSE "long"
Requeue(c, delay) == wait' = [wait EXCEPT ![c] = Sooner(@, delay)]

\* Variant: no next check is scheduled after a good one.
DoneForGood == w' = None /\ UNCHANGED wait /\ hooked' = TRUE
\* What Reconcile returns once ProcessBundleController has returned nil, or an error.
Done == w' = None /\ Requeue(w.c, "long") /\ hooked' = TRUE
Error == w' = None /\ Requeue(w.c, IF hooked THEN "short" ELSE "soon") /\ UNCHANGED hooked
Goto(pc) == w' = [w EXCEPT !.pc = pc] /\ UNCHANGED <<wait, hooked>>
SaveStatus(st, detail) ==
    /\ w' = [w EXCEPT !.pc = "status", !.obj.st = st, !.obj.detail = detail]
    /\ UNCHANGED <<wait, hooked>>

At(pc) == up /\ w # None /\ w.pc = pc
\* The steps of a reconciliation leave these alone.
Rest == UNCHANGED <<queue, bqueue, target, up, env>>

-----------------------------------------------------------------------------
(* Users, the registry and the clusters.                                   *)

UserDelete(c) ==
    /\ c \in Deletable /\ Edit /\ pbc[c] # None
    /\ WritePBC(c, None)
    /\ w' = Overtaken(c) /\ reqs' = Outdated(reqs, c)
    /\ UNCHANGED <<queue, wait, bqueue, target, hooked, infra, job, up, kube, newest, faults>>

UserCreateBundle(b) ==
    /\ b \in Imports /\ up /\ Edit /\ Creatable(b)
    /\ WriteBundle(b, "")
    /\ UNCHANGED <<queue, wait, w, bqueue, reqs, target, hooked, infra, job, up, kube, newest, faults>>

UserDeleteBundle(b) ==
    /\ b \in Deletable /\ Edit /\ bundles[b] # None
    /\ WriteBundle(b, None)
    /\ UNCHANGED <<queue, wait, w, bqueue, reqs, target, hooked, infra, job, up, kube, newest, faults>>

Publish(b) ==
    /\ b \in Published /\ Edit /\ newest[KubeOf[b]] # b
    /\ newest' = [newest EXCEPT ![KubeOf[b]] = b]
    /\ NoWrite
    /\ UNCHANGED <<queue, wait, w, bqueue, reqs, target, hooked, infra, job, up, kube, faults>>

Upgrade(c, k) ==
    /\ <<c, k>> \in Upgrades /\ Edit /\ kube[c] # k
    /\ kube' = [kube EXCEPT ![c] = k]
    /\ NoWrite
    /\ UNCHANGED <<queue, wait, w, bqueue, reqs, target, hooked, infra, job, up, newest, faults>>

-----------------------------------------------------------------------------
(* activeBundleValidator.Handle.  The API server asks it about every new   *)
(* PBC and every change of a spec.  It lists the bundles and points the    *)
(* client all requests share to the PBC's cluster (the Asks actions), then *)
(* asks that client's cluster for its version and answers (Allow, Deny).   *)
(* The API server stores what was allowed later, or refuses it.            *)

Listed(b) == b = None \/ b \in BundleList
Target(r) == target' = IF r.active = None THEN target ELSE r.c

\* A user creates the PBC or changes its activeBundle.
UserAsks(c, b) ==
    LET r == [by |-> "user", c |-> c, active |-> b, fresh |-> TRUE, at |-> None] IN
    /\ up /\ Edit /\ Listed(b) /\ \A q \in reqs : q.c = c => q.by # "user"
    /\ pbc[c] # None => pbc[c].active # b
    /\ reqs' = reqs \cup {r} /\ Target(r)
    /\ NoWrite
    /\ UNCHANGED <<queue, wait, w, bqueue, hooked, infra, job, up, kube, newest, faults>>

KubeVersionMatches(r) == r.active # None => KubeOf[r.active] = kube[target]

\* What an answer or a refusal leaves alone.
Quiet == NoWrite /\ UNCHANGED <<infra, job>> /\ Rest

\* Variant: the answer does not depend on the version.
AllowAny(r) ==
    /\ up /\ r \in reqs /\ r.at = None
    /\ reqs' = (reqs \ {r}) \cup {[r EXCEPT !.at = kube[r.c]]}
    /\ UNCHANGED <<w, wait, hooked, faults>> /\ Quiet

Allow(r) ==
    /\ up /\ r \in reqs /\ r.at = None /\ KubeVersionMatches(r)
    /\ reqs' = (reqs \ {r}) \cup {[r EXCEPT !.at = kube[r.c]]}
    /\ UNCHANGED <<w, wait, hooked, faults>> /\ Quiet

\* The writer learns that its write has failed.
Dropped(r) ==
    /\ reqs' = reqs \ {r} /\ Quiet
    /\ IF r.by = "controller" THEN Error ELSE UNCHANGED <<w, wait, hooked>>

\* Not allowed, or the version cannot be had.
Deny(r) ==
    /\ up /\ r \in reqs /\ r.at = None /\ Dropped(r)
    /\ IF KubeVersionMatches(r) THEN Fault ELSE UNCHANGED faults

\* The status is a subresource and stays.
Written(r) ==
    /\ WritePBC(r.c, IF pbc[r.c] = None THEN [active |-> r.active, st |-> "", detail |-> ""]
                     ELSE [pbc[r.c] EXCEPT !.active = r.active])
    /\ reqs' = Outdated(reqs \ {r}, r.c)
    /\ IF r.by = "controller" THEN Done
       ELSE w' = Overtaken(r.c) /\ UNCHANGED <<wait, hooked>>
    /\ UNCHANGED <<infra, job, faults>> /\ Rest

\* Variant: a write is stored whatever version of the PBC it was made from.
StoreUnconditionally(r) == r \in reqs /\ r.at # None /\ Written(r)

\* Nobody changed the PBC since; the cluster may have been upgraded.
Store(r) == r \in reqs /\ r.at # None /\ r.fresh /\ Written(r)

\* The write conflicts with another one, fails, or its writer is gone.
Refuse(r) ==
    /\ r \in reqs /\ r.at # None /\ Dropped(r)
    /\ IF r.fresh /\ r.by # "crashed" THEN Fault ELSE UNCHANGED faults

-----------------------------------------------------------------------------
(* controller-runtime.  Every event of a PBC or a bundle also enqueues all *)
(* the bundles (mapBundleReconcileRequests).                               *)

Deliver(k) ==
    /\ up /\ stream[k] # <<>>
    /\ cache' = [cache EXCEPT ![k] = Head(stream[k])]
    /\ stream' = [stream EXCEPT ![k] = Tail(@)]
    /\ queue' = queue \cup ({k} \cap Clusters)
    /\ bqueue' = bqueue \cup BundleList' \cup ({k} \cap BundleNames)
    /\ UNCHANGED <<pbc, bundles, wait, w, reqs, target, hooked, infra, job, up, env, faults>>

TimerFires(c) ==
    /\ up /\ wait[c] # "none"
    /\ wait' = [wait EXCEPT ![c] = "none"] /\ queue' = queue \cup {c}
    /\ NoWrite
    /\ UNCHANGED <<w, bqueue, reqs, target, hooked, infra, job, up, env, faults>>

-----------------------------------------------------------------------------
(* PackageBundleReconciler.Reconcile and ProcessBundle.                    *)

StateOf(b) ==
    IF b \in Foreign THEN "ignored"
    ELSE IF b \notin Compatible THEN "upgrade required"
    ELSE IF b \notin Valid THEN "invalid" ELSE "available"

\* A status computed from an old version is refused and retried: nothing changes.
ReconcileBundle(b) ==
    /\ up /\ b \in bqueue /\ bqueue' = bqueue \ {b}
    /\ IF cache[b] \in {None, StateOf(b)} THEN NoWrite
       ELSE stream[b] = <<>> /\ WriteBundle(b, StateOf(b))
    /\ UNCHANGED <<queue, wait, w, reqs, target, hooked, infra, job, up, env, faults>>

-----------------------------------------------------------------------------
(* PackageBundleControllerReconciler.Reconcile, up to the call of          *)
(* ProcessBundleController.                                                *)

Take(c) ==
    /\ up /\ w = None /\ c \in queue /\ queue' = queue \ {c}
    /\ UNCHANGED <<bqueue, target, hooked, infra, job, up, env>>

\* r.Client.Get fails, or the certificate of the PBC's own registry cannot be updated.
GetFails(c) ==
    /\ Take(c) /\ Fault /\ Requeue(c, "soon")
    /\ NoWrite /\ UNCHANGED <<w, reqs>>

\* A PBC that is gone.  withoutRequeue clears RequeueAfter and leaves Requeue set, which
\* asks for a rate-limited requeue.
IgnoreDeleted(c) ==
    /\ Take(c) /\ cache[c] = None /\ Requeue(c, "soon")
    /\ NoWrite /\ UNCHANGED <<w, reqs, faults>>

\* A PBC outside of namespace eksa-packages; an error of the update is only logged.
IgnoreForeign(c) ==
    /\ Take(c) /\ cache[c] # None /\ c \in Foreign /\ Requeue(c, "soon")
    /\ IF cache[c].st # "ignored" /\ stream[c] = <<>>
       THEN WritePBC(c, [cache[c] EXCEPT !.st = "ignored"]) /\ reqs' = Outdated(reqs, c)
       ELSE NoWrite /\ UNCHANGED reqs
    /\ UNCHANGED <<w, faults>>

Begin(c) ==
    /\ Take(c) /\ cache[c] # None /\ c \notin Foreign
    /\ w' = [pc |-> "version", c |-> c, obj |-> cache[c], fresh |-> (stream[c] = <<>>),
             info |-> None, latest |-> None, list |-> {}]
    /\ NoWrite /\ UNCHANGED <<wait, reqs, faults>>

-----------------------------------------------------------------------------
(* bundleManager.ProcessBundleController, one action per slow call.        *)

VersionKnown ==
    /\ At("version")
    /\ w' = [w EXCEPT !.pc = "latest", !.info = kube[w.c]] /\ UNCHANGED <<wait, hooked>>
    /\ NoWrite /\ UNCHANGED <<reqs, infra, job, faults>> /\ Rest

\* Variant: a state that is not in the enumeration of the resource.
DisconnectUnlisted(otherwise) ==
    \/ w.obj.st \in {"", "active"} /\ SaveStatus("unreachable", "error")
    \/ w.obj.st \notin {"", "active"} /\ otherwise

\* From states "" and "active" the PBC becomes "disconnected".
Disconnect(otherwise) ==
    \/ w.obj.st \in {"", "active"} /\ SaveStatus("disconnected", "error")
    \/ w.obj.st \notin {"", "active"} /\ otherwise

\* Nothing is reported to Reconcile.
VersionFails ==
    /\ At("version") /\ Fault /\ Disconnect(Done)
    /\ NoWrite /\ UNCHANGED <<reqs, infra, job>> /\ Rest

\* The Job that refreshes the registry credentials is created first; whether it could be
\* does not matter.
LatestKnown ==
    /\ At("latest")
    /\ (job' = TRUE /\ UNCHANGED faults) \/ (job' = job /\ Fault)
    /\ w' = [w EXCEPT !.pc = "list", !.latest = newest[w.info]] /\ UNCHANGED <<wait, hooked>>
    /\ NoWrite /\ UNCHANGED <<reqs, infra>> /\ Rest

LatestFails ==
    /\ At("latest") /\ job' \in {job, TRUE} /\ Fault /\ Disconnect(Error)
    /\ NoWrite /\ UNCHANGED <<reqs, infra>> /\ Rest

\* GetBundleList, and CreateBundle of a latest bundle that is not in the list.
ListBundles ==
    /\ At("list")
    /\ w' = [w EXCEPT !.pc = "process", !.list = BundleList] /\ UNCHANGED <<wait, hooked>>
    /\ IF w.latest \in BundleList THEN NoWrite
       ELSE Creatable(w.latest) /\ WriteBundle(w.latest, "")
    /\ UNCHANGED <<reqs, infra, job, faults>> /\ Rest

\* The cache may not show yet a bundle that exists.
ListBundlesFails ==
    /\ At("list")
    /\ IF w.latest \in BundleList \/ Creatable(w.latest) THEN Fault ELSE UNCHANGED faults
    /\ Error
    /\ NoWrite /\ UNCHANGED <<reqs, infra, job>> /\ Rest

\* The switch: a PBC without an active bundle counts as new.
Switch(st) == At("process") /\ st = IF w.obj.active = None THEN "" ELSE w.obj.st
LatestIsActive == w.latest = w.obj.active
Only(save) == save /\ NoWrite /\ UNCHANGED <<reqs, infra, job, faults>> /\ Rest

Needed(c) ==
    {"config map", "namespace"} \cup IF c # Management /\ AwsSecret THEN {"secret"} ELSE {}

ActivePrepared ==
    /\ Switch("active") /\ Goto("restore")
    /\ infra' = [infra EXCEPT ![w.c] = @ \cup Needed(w.c)]
    /\ NoWrite /\ UNCHANGED <<reqs, job, faults>> /\ Rest

\* Variant: the error is logged and the reconciliation goes on.
ActivePreparedFailsGoesOn ==
    /\ Switch("active") /\ Fault /\ Goto("restore")
    /\ \E done \in {{}, {"config map"}, {"config map", "namespace"}} :
          infra' = [infra EXCEPT ![w.c] = @ \cup done]
    /\ NoWrite /\ UNCHANGED <<reqs, job>> /\ Rest

\* One of the three, in their order, cannot be made.
ActivePreparedFails ==
    /\ Switch("active") /\ Fault /\ Error
    /\ \E done \in {{}, {"config map"}, {"config map", "namespace"}} :
          infra' = [infra EXCEPT ![w.c] = @ \cup done]
    /\ NoWrite /\ UNCHANGED <<reqs, job>> /\ Rest

\* An active bundle that was not in the list is downloaded and created again.
ActiveRestored ==
    /\ At("restore")
    /\ IF w.obj.active \in w.list THEN NoWrite
       ELSE Creatable(w.obj.active) /\ WriteBundle(w.obj.active, "")
    /\ IF LatestIsActive THEN Done ELSE SaveStatus("upgrade available", w.latest)
    /\ UNCHANGED <<reqs, infra, job, faults>> /\ Rest

\* If that fails the reconciliation ends there, without an error.
ActiveRestoredFails ==
    /\ At("restore") /\ w.obj.active \notin w.list
    /\ IF Creatable(w.obj.active) THEN Fault ELSE UNCHANGED faults
    /\ Done
    /\ NoWrite /\ UNCHANGED <<reqs, infra, job>> /\ Rest

UpgradeStillAvailable ==
    /\ Switch("upgrade available") /\ ~LatestIsActive
    /\ Only(IF w.obj.detail = w.latest THEN Done ELSE SaveStatus("upgrade available", w.latest))

Upgraded == Switch("upgrade available") /\ LatestIsActive /\ Only(SaveStatus("active", ""))

Reconnected == Switch("disconnected") /\ Only(SaveStatus("active", ""))

Activate == Switch("") /\ w.obj.active # None /\ Only(SaveStatus("active", ""))

ChooseLatest == Switch("") /\ w.obj.active = None /\ Only(Goto("spec"))

\* Save, through the webhook.
ControllerAsks ==
    LET r == [by |-> "controller", c |-> w.c, active |-> w.latest, fresh |-> w.fresh,
          at |-> None] IN
    /\ At("spec")
    /\ IF Listed(w.latest) THEN Goto("saving") /\ reqs' = reqs \cup {r} /\ Target(r)
       ELSE Error /\ UNCHANGED <<reqs, target>>
    /\ NoWrite /\ UNCHANGED <<queue, bqueue, infra, job, up, env, faults>>

\* Variant: the status is written whatever version it was computed from.
CommitStatusUnconditionally ==
    /\ At("status") /\ pbc[w.c] # None /\ Done
    /\ WritePBC(w.c, [w.obj EXCEPT !.active = pbc[w.c].active]) /\ reqs' = Outdated(reqs, w.c)
    /\ UNCHANGED <<infra, job, faults>> /\ Rest

\* SaveStatus.  An update that changes nothing makes no new version.
CommitStatus ==
    /\ At("status") /\ w.fresh /\ Done
    /\ IF w.obj = pbc[w.c] THEN NoWrite /\ UNCHANGED reqs
       ELSE WritePBC(w.c, w.obj) /\ reqs' = Outdated(reqs, w.c)
    /\ UNCHANGED <<infra, job, faults>> /\ Rest

CommitStatusFails ==
    /\ At("status") /\ Error
    /\ IF w.fresh THEN Fault ELSE UNCHANGED faults
    /\ NoWrite /\ UNCHANGED <<reqs, infra, job>> /\ Rest

-----------------------------------------------------------------------------
\* The writes the webhook was looking at fail with it; what it has allowed may be stored.
Crash ==
    /\ up /\ Fault /\ up' = FALSE
    /\ w' = None /\ queue' = {} /\ bqueue' = {}
    /\ reqs' = {[r EXCEPT !.by = IF @ = "controller" THEN "crashed" ELSE @] :
                r \in {q \in reqs : q.at # None}}
    /\ wait' = [c \in Clusters |-> "none"] /\ target' = None /\ hooked' = FALSE
    /\ NoWrite /\ UNCHANGED <<infra, job, env>>

Restart ==
    /\ ~up /\ up' = TRUE
    /\ cache' = [k \in Keys |-> IF k \in Clusters THEN pbc[k] ELSE bundles[k]]
    /\ stream' = [k \in Keys |-> <<>>]
    /\ queue' = {c \in Clusters : pbc[c] # None}
    /\ bqueue' = {b \in BundleNames : bundles[b] # None}
    /\ UNCHANGED <<pbc, bundles, wait, w, reqs, target, hooked, infra, job, env, faults>>

Reconcile(c) == GetFails(c) \/ IgnoreDeleted(c) \/ IgnoreForeign(c) \/ Begin(c)

WorkerStep ==
    \/ VersionKnown \/ VersionFails \/ LatestKnown \/ LatestFails
    \/ ListBundles \/ ListBundlesFails \/ ActivePrepared \/ ActivePreparedFails
    \/ ActiveRestored \/ ActiveRestoredFails \/ UpgradeStillAvailable \/ Upgraded
    \/ Reconnected \/ Activate \/ ChooseLatest \/ ControllerAsks
    \/ CommitStatus \/ CommitStatusFails

\* The webhook and the API server.
Webhook == \E r \in reqs : Allow(r) \/ Deny(r) \/ Store(r) \/ Refuse(r)

Environment ==
    \/ \E c \in Clusters : UserDelete(c) \/ \E b \in Choices[c] : UserAsks(c, b)
    \/ \E b \in BundleNames : UserCreateBundle(b) \/ UserDeleteBundle(b) \/ Publish(b)
    \/ \E c \in Clusters, k \in KubeVersions : Upgrade(c, k)

Next ==
    \/ Environment \/ Webhook \/ WorkerStep \/ Crash \/ Restart
    \/ \E k \in Keys : Deliver(k)
    \/ \E c \in Clusters : TimerFires(c) \/ Reconcile(c)
    \/ \E b \in BundleNames : ReconcileBundle(b)

Spec == Init /\ [][Next]_vars

\* Watch events arrive, timers expire, queued requests are served in their order, the
\* worker ends what it began, the webhook answers and the pod is restarted.
Fairness ==
    /\ \A k \in Keys : WF_vars(Deliver(k))
    /\ \A c \in Clusters : WF_vars(TimerFires(c)) /\ SF_vars(Reconcile(c))
    /\ \A b \in BundleNames : WF_vars(ReconcileBundle(b))
    /\ WF_vars(WorkerStep) /\ WF_vars(Webhook) /\ WF_vars(Restart)

FairSpec == Spec /\ Fairness

-----------------------------------------------------------------------------
(* Properties.                                                             *)

\* A choice of bundle is the user's: the controller fills in an empty activeBundle and
\* never replaces one, not even a choice made after it read the PBC.
UserChoiceKept ==
    [][\A c \in Clusters :
          /\ pbc[c] # None /\ pbc'[c] # None
          /\ pbc[c].active # None /\ pbc'[c].active # pbc[c].active
          => \E r \in reqs : r.by = "user" /\ r.c = c /\ r.active = pbc'[c].active]_vars

\* A bundle becomes active only on a cluster that had the bundle's Kubernetes version when
\* the webhook allowed it, whoever sets it, however old the version the writer knows of,
\* and whatever other requests the webhook is answering.  An upgrade between the answer
\* and the store is not noticed by anybody.
ActiveMatchesKube ==
    [][\A c \in Clusters :
          /\ pbc'[c] # None /\ pbc'[c].active # None
          /\ pbc[c] = None \/ pbc[c].active # pbc'[c].active
          => \E r \in reqs : r.c = c /\ r.active = pbc'[c].active /\ r.at = KubeOf[r.active]]_vars

\* The states of a PBC follow the switch of ProcessBundleController: in particular
\* nothing but the active state leads to "upgrade available".
PBCArcs == {<<"", "disconnected">>, <<"active", "disconnected">>, <<"", "active">>,
            <<"disconnected", "active">>, <<"active", "upgrade available">>,
            <<"upgrade available", "active">>, <<"", "ignored">>}
StatesFollowSwitch ==
    [][\A c \in Clusters : pbc[c] # None /\ pbc'[c] # None /\ pbc'[c].st # pbc[c].st =>
          <<pbc[c].st, pbc'[c].st>> \in PBCArcs]_vars

\* A cluster whose PBC offers an upgrade has its config map, its namespace and the
\* secret: only the active state makes them, and it is left for good once an upgrade is
\* available that nobody takes.
PreparedBeforeUpgrade ==
    \A c \in Clusters : pbc[c] # None /\ pbc[c].st = "upgrade available" => Needed(c) \subseteq infra[c]

\* What lives outside of eksa-packages is ignored: the controller prepares no cluster for
\* such a PBC, gives it no active bundle and no state but "ignored", and such a bundle
\* never becomes active.
ForeignInert ==
    /\ \A c \in Clusters \cap Foreign :
          /\ infra[c] = {} /\ \A r \in reqs : r.c = c => r.by = "user"
          /\ pbc[c] # None => pbc[c].st \in {"", "ignored"}
    /\ \A c \in Clusters : pbc[c] # None => pbc[c].active \notin Foreign

\* What the controller works towards: a PBC has an active bundle and a prepared cluster,
\* and says truly whether a newer bundle exists.
Settled(c) ==
    LET latest == newest[kube[c]] IN
    pbc[c] # None /\ c \notin Foreign =>
        /\ pbc[c].active # None /\ Needed(c) \subseteq infra[c]
        /\ bundles[latest] = StateOf(latest)
        /\ IF pbc[c].active = latest THEN pbc[c].st = "active"
           ELSE pbc[c].st = "upgrade available" /\ pbc[c].detail = latest

\* Once users, the registry and faults leave it alone, every PBC settles.
Converges == \A c \in Clusters : <>[]Settled(c)
=============================================================================
