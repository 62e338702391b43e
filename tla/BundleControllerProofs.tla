------------------------ MODULE BundleControllerProofs ------------------------
(***************************************************************************)
(* Proofs about BundleController, for every set of clusters, bundles and   *)
(* Kubernetes versions and every bound.                                    *)
(***************************************************************************)
EXTENDS BundleController, SequenceTheorems, TLAPS

-----------------------------------------------------------------------------
(* Types.  The variables in three groups: what the API server and the      *)
(* caches hold, the reconciliation in progress, and the rest.              *)

StoreType ==
    /\ pbc \in [Clusters -> PBCs \cup {None}]
    /\ bundles \in [BundleNames -> BundleStates \cup {None}]
    /\ DOMAIN cache = Keys /\ DOMAIN stream = Keys
    /\ \A c \in Clusters : cache[c] \in PBCs \cup {None} /\ stream[c] \in Seq(PBCs \cup {None})
    /\ \A b \in BundleNames : /\ cache[b] \in BundleStates \cup {None}
                              /\ stream[b] \in Seq(BundleStates \cup {None})

\* A reconciliation knows the version once it has asked for it, and then the latest bundle.
WorkerType ==
    /\ w \in Workers \cup {None}
    /\ w # None =>
          /\ w.pc = "latest" => w.info # None
          /\ w.pc \in {"list", "process", "restore", "spec", "saving"} => w.latest # None
          /\ w.pc = "restore" => w.obj.active # None

RestType ==
    /\ queue \subseteq Clusters /\ wait \in [Clusters -> Waits] /\ bqueue \subseteq BundleNames
    /\ reqs \subseteq Requests /\ target \in Clusters \cup {None} /\ hooked \in BOOLEAN
    /\ infra \in [Clusters -> SUBSET {"config map", "namespace", "secret"}] /\ job \in BOOLEAN
    /\ kube \in [Clusters -> KubeVersions] /\ newest \in [KubeVersions -> BundleNames]
    /\ up \in BOOLEAN /\ edits \in Nat /\ faults \in Nat

TypeInv == StoreType /\ WorkerType /\ RestType

\* They are all of TypeOK.
LEMMA TypeInvImplies == TypeInv => TypeOK
  BY DEF TypeInv, StoreType, WorkerType, RestType, TypeOK

\* Writes to the API server and their events.
LEMMA WritePBCType ==
    ASSUME StoreType, NEW c \in Clusters, NEW o \in PBCs \cup {None}, WritePBC(c, o)
    PROVE  StoreType'
  BY ClustersAssumption DEF StoreType, WritePBC, Keys

LEMMA WriteBundleType ==
    ASSUME StoreType, NEW b \in BundleNames, NEW st \in BundleStates \cup {None}, WriteBundle(b, st)
    PROVE  StoreType'
  BY ClustersAssumption DEF StoreType, WriteBundle, Keys

LEMMA NoWriteType == ASSUME StoreType, NoWrite PROVE StoreType'
  BY DEF StoreType, NoWrite

\* A copy that is outdated is still a copy.
LEMMA OvertakenType ==
    ASSUME WorkerType, NEW c, w' = Overtaken(c) \/ w' = w
    PROVE  WorkerType'
  BY DEF WorkerType, Overtaken, Workers

LEMMA OutdatedType ==
    ASSUME NEW rs \in SUBSET Requests, NEW c
    PROVE  Outdated(rs, c) \subseteq Requests
  BY DEF Outdated, Requests

\* The ends of a reconciliation.
LEMMA EndType ==
    ASSUME WorkerType, RestType, Done \/ Error
    PROVE  WorkerType' /\ wait' \in [Clusters -> Waits] /\ hooked' \in BOOLEAN
  BY DEF WorkerType, RestType, Done, Error, Requeue, Sooner, Waits

\* The states a reconciliation saves.
LEMMA SaveType ==
    ASSUME WorkerType, RestType, w # None, NEW st \in PBCStates,
           NEW detail \in BundleNames \cup {"", "error"}, SaveStatus(st, detail)
    PROVE  WorkerType' /\ wait' = wait /\ hooked' = hooked
  <1>1. w \in Workers /\ w.obj \in PBCs
    BY DEF WorkerType, Workers
  <1>2. [w.obj EXCEPT !.st = st, !.detail = detail] \in PBCs
    BY <1>1 DEF PBCs
  <1>3. w' \in Workers /\ w'.pc = "status"
    BY <1>1, <1>2, NothingAssumption DEF SaveStatus, Workers, Pcs
  <1> QED
    BY <1>3 DEF SaveStatus, WorkerType

\* Bounded counters.
LEMMA EditType == ASSUME RestType, Edit PROVE edits' \in Nat
  <1>1. edits \in Nat
    BY DEF RestType
  <1> QED
    BY <1>1 DEF Edit

LEMMA FaultType == ASSUME RestType, Fault \/ UNCHANGED faults PROVE faults' \in Nat
  <1>1. faults \in Nat
    BY DEF RestType
  <1> QED
    BY <1>1 DEF Fault

\* Users, the registry and the clusters.
LEMMA EnvironmentType == ASSUME TypeInv, Environment PROVE TypeInv'
  <1> USE DEF TypeInv
  <1>1. ASSUME NEW c \in Clusters, UserDelete(c) PROVE TypeInv'
    <2>1. StoreType'
      BY <1>1, WritePBCType DEF UserDelete
    <2>2. WorkerType'
      BY <1>1, OvertakenType DEF UserDelete
    <2>3. reqs' \subseteq Requests
      BY <1>1, OutdatedType DEF UserDelete, RestType
    <2>4. edits' \in Nat
      BY <1>1, EditType DEF UserDelete
    <2> QED
      BY <1>1, <2>1, <2>2, <2>3, <2>4 DEF UserDelete, RestType
  <1>2. ASSUME NEW c \in Clusters, NEW b \in Choices[c], UserAsks(c, b) PROVE TypeInv'
    <2>1. StoreType'
      BY <1>2, NoWriteType DEF UserAsks
    <2>2. WorkerType'
      BY <1>2 DEF UserAsks, WorkerType
    <2>3. [by |-> "user", c |-> c, active |-> b, fresh |-> TRUE, at |-> None] \in Requests
      BY BundlesAssumption DEF Requests
    <2>4. edits' \in Nat
      BY <1>2, EditType DEF UserAsks
    <2> QED
      BY <1>2, <2>1, <2>2, <2>3, <2>4 DEF UserAsks, RestType, Target
  <1>3. ASSUME NEW b \in BundleNames, UserCreateBundle(b) \/ UserDeleteBundle(b) PROVE TypeInv'
    <2>1. StoreType'
      BY <1>3, WriteBundleType DEF UserCreateBundle, UserDeleteBundle, BundleStates
    <2>2. edits' \in Nat
      BY <1>3, EditType DEF UserCreateBundle, UserDeleteBundle
    <2> QED
      BY <1>3, <2>1, <2>2 DEF UserCreateBundle, UserDeleteBundle, WorkerType, RestType
  <1>4. ASSUME NEW b \in BundleNames, Publish(b) PROVE TypeInv'
    <2>1. StoreType'
      BY <1>4, NoWriteType DEF Publish
    <2>2. edits' \in Nat
      BY <1>4, EditType DEF Publish
    <2> QED
      BY <1>4, <2>1, <2>2 DEF Publish, WorkerType, RestType
  <1>5. ASSUME NEW c \in Clusters, NEW k \in KubeVersions, Upgrade(c, k) PROVE TypeInv'
    <2>1. StoreType'
      BY <1>5, NoWriteType DEF Upgrade
    <2>2. edits' \in Nat
      BY <1>5, EditType DEF Upgrade
    <2> QED
      BY <1>5, <2>1, <2>2 DEF Upgrade, WorkerType, RestType
  <1> QED
    BY <1>1, <1>2, <1>3, <1>4, <1>5 DEF Environment

\* A write that fails.
LEMMA DroppedType ==
    ASSUME TypeInv, NEW r \in reqs, Dropped(r), Fault \/ UNCHANGED faults
    PROVE  TypeInv'
  <1> USE DEF TypeInv
  <1>1. StoreType'
    BY NoWriteType DEF Dropped, Quiet
  <1>2. WorkerType' /\ wait' \in [Clusters -> Waits] /\ hooked' \in BOOLEAN
    <2>1. CASE r.by = "controller"
      BY <2>1, EndType DEF Dropped
    <2>2. CASE r.by # "controller"
      BY <2>2 DEF Dropped, WorkerType, RestType
    <2> QED
      BY <2>1, <2>2
  <1>3. reqs' \subseteq Requests
    BY DEF Dropped, RestType
  <1>4. faults' \in Nat
    BY FaultType
  <1> QED
    BY <1>1, <1>2, <1>3, <1>4 DEF Dropped, Quiet, Rest, RestType, env

\* The webhook's answers, and what the API server makes of them.
LEMMA WebhookType == ASSUME TypeInv, Webhook PROVE TypeInv'
  <1> USE DEF TypeInv
  <1>1. PICK r \in reqs : Allow(r) \/ Deny(r) \/ Store(r) \/ Refuse(r)
    BY DEF Webhook
  <1>2. r \in Requests /\ r.c \in Clusters
    BY DEF RestType, Requests
  <1>3. CASE Store(r)
    <2> DEFINE o == IF pbc[r.c] = None THEN [active |-> r.active, st |-> "", detail |-> ""]
                    ELSE [pbc[r.c] EXCEPT !.active = r.active]
    <2>1. Written(r) /\ WritePBC(r.c, o)
      BY <1>3 DEF Store, Written
    <2>2. o \in PBCs
      <3>1. r.active \in BundleNames \cup {None} /\ pbc[r.c] \in PBCs \cup {None}
        BY <1>2 DEF StoreType, Requests
      <3>2. [active |-> r.active, st |-> "", detail |-> ""] \in PBCs
        BY <3>1 DEF PBCs, PBCStates
      <3> QED
        BY <3>1, <3>2 DEF PBCs
    <2>3. StoreType'
      BY <1>2, <2>1, <2>2, WritePBCType
    <2>4. WorkerType' /\ wait' \in [Clusters -> Waits] /\ hooked' \in BOOLEAN
      <3>1. CASE r.by = "controller"
        BY <2>1, <3>1, EndType DEF Written
      <3>2. CASE r.by # "controller"
        <4>1. w' = Overtaken(r.c) /\ UNCHANGED <<wait, hooked>>
          BY <2>1, <3>2 DEF Written
        <4> QED
          BY <4>1, OvertakenType DEF RestType
      <3> QED
        BY <3>1, <3>2
    <2>5. reqs' \subseteq Requests
      <3>1. reqs \ {r} \in SUBSET Requests
        BY DEF RestType
      <3> QED
        BY <2>1, <3>1, OutdatedType DEF Written
    <2> QED
      BY <2>1, <2>3, <2>4, <2>5 DEF Written, Rest, RestType, env
  <1>4. CASE Deny(r) \/ Refuse(r)
    BY <1>4, DroppedType DEF Deny, Refuse
  <1>5. CASE Allow(r)
    <2>1. StoreType'
      BY <1>5, NoWriteType DEF Allow, Quiet
    <2>2. [r EXCEPT !.at = kube[r.c]] \in Requests
      BY <1>2 DEF RestType, Requests
    <2>3. reqs' \subseteq Requests
      BY <1>5, <2>2 DEF Allow, RestType
    <2> QED
      BY <1>5, <2>1, <2>3 DEF Allow, Quiet, Rest, WorkerType, RestType, env
  <1> QED
    BY <1>1, <1>3, <1>4, <1>5

\* Events, timers and the bundle reconciler.
LEMMA RuntimeType ==
    ASSUME TypeInv,
           \/ \E k \in Keys : Deliver(k)
           \/ \E c \in Clusters : TimerFires(c)
           \/ \E b \in BundleNames : ReconcileBundle(b)
    PROVE  TypeInv'
  <1> USE DEF TypeInv
  <1>1. ASSUME NEW k \in Keys, Deliver(k) PROVE TypeInv'
    <2>1. ASSUME NEW S, stream[k] \in Seq(S) PROVE Head(stream[k]) \in S /\ Tail(stream[k]) \in Seq(S)
      BY <1>1, <2>1 DEF Deliver
    <2>2. /\ cache' = [cache EXCEPT ![k] = Head(stream[k])]
          /\ stream' = [stream EXCEPT ![k] = Tail(stream[k])]
          /\ UNCHANGED <<pbc, bundles>>
      BY <1>1 DEF Deliver
    <2>3. CASE k \in Clusters
      <3>1. Head(stream[k]) \in PBCs \cup {None} /\ Tail(stream[k]) \in Seq(PBCs \cup {None})
        BY <2>1, <2>3 DEF StoreType
      <3>2. StoreType'
        BY <2>2, <2>3, <3>1, ClustersAssumption DEF StoreType, Keys
      <3> QED
        BY <1>1, <3>2 DEF Deliver, WorkerType, RestType, BundleList, env
    <2>4. CASE k \in BundleNames
      <3>1. Head(stream[k]) \in BundleStates \cup {None} /\ Tail(stream[k]) \in Seq(BundleStates \cup {None})
        BY <2>1, <2>4 DEF StoreType
      <3>2. StoreType'
        BY <2>2, <2>4, <3>1, ClustersAssumption DEF StoreType, Keys
      <3> QED
        BY <1>1, <3>2 DEF Deliver, WorkerType, RestType, BundleList, env
    <2> QED
      BY <2>3, <2>4 DEF Keys
  <1>2. ASSUME NEW c \in Clusters, TimerFires(c) PROVE TypeInv'
    BY <1>2, NoWriteType DEF TimerFires, WorkerType, RestType, Waits, env
  <1>3. ASSUME NEW b \in BundleNames, ReconcileBundle(b) PROVE TypeInv'
    <2>1. StateOf(b) \in BundleStates
      BY DEF StateOf, BundleStates
    <2>2. StoreType'
      BY <1>3, <2>1, NoWriteType, WriteBundleType DEF ReconcileBundle
    <2> QED
      BY <1>3, <2>2 DEF ReconcileBundle, WorkerType, RestType, env
  <1> QED
    BY <1>1, <1>2, <1>3

\* The beginning of a reconciliation.
LEMMA BeginType ==
    ASSUME StoreType, NEW c \in Clusters, Begin(c)
    PROVE  w' \in Workers
  <1>1. cache[c] \in PBCs
    BY DEF StoreType, Begin
  <1>2. \A fresh \in BOOLEAN :
           [pc |-> "version", c |-> c, obj |-> cache[c], fresh |-> fresh,
            info |-> None, latest |-> None, list |-> {}] \in Workers
    BY <1>1 DEF Workers, Pcs
  <1>3. (stream[c] = <<>>) \in BOOLEAN
    OBVIOUS
  <1> QED
    BY <1>2, <1>3 DEF Begin

LEMMA ReconcileType ==
    ASSUME TypeInv, NEW c \in Clusters, Reconcile(c)
    PROVE  TypeInv'
  <1> USE DEF TypeInv
  <1>1. ASSUME Requeue(c, "soon") PROVE wait' \in [Clusters -> Waits]
    BY <1>1 DEF Requeue, Sooner, RestType, Waits
  <1>2. cache[c] \in PBCs \cup {None}
    BY DEF StoreType
  <1>3. CASE GetFails(c)
    BY <1>1, <1>3, FaultType, NoWriteType DEF GetFails, Take, WorkerType, RestType, env
  <1>4. CASE IgnoreDeleted(c)
    BY <1>1, <1>4, NoWriteType DEF IgnoreDeleted, Take, WorkerType, RestType, env
  <1>5. CASE IgnoreForeign(c)
    <2>1. cache[c] \in PBCs
      BY <1>2, <1>5 DEF IgnoreForeign
    <2>2. [cache[c] EXCEPT !.st = "ignored"] \in PBCs
      BY <2>1 DEF PBCs, PBCStates
    <2>3. StoreType'
      BY <1>5, <2>2, WritePBCType, NoWriteType DEF IgnoreForeign
    <2>4. reqs' \subseteq Requests
      <3>1. reqs \in SUBSET Requests
        BY DEF RestType
      <3>2. reqs' = reqs \/ reqs' = Outdated(reqs, c)
        BY <1>5 DEF IgnoreForeign
      <3> QED
        BY <3>1, <3>2, OutdatedType
    <2> QED
      BY <1>1, <1>5, <2>3, <2>4 DEF IgnoreForeign, Take, WorkerType, RestType, env
  <1>6. CASE Begin(c)
    <2>1. w' \in Workers /\ w'.pc = "version"
      BY <1>6, BeginType DEF Begin
    <2> QED
      BY <1>6, <2>1, NoWriteType DEF Begin, Take, WorkerType, RestType, env
  <1> QED
    BY <1>3, <1>4, <1>5, <1>6 DEF Reconcile

\* What the steps of a reconciliation have in common.
LEMMA StepType ==
    ASSUME TypeInv, Rest, StoreType', WorkerType', reqs' \subseteq Requests,
           wait' \in [Clusters -> Waits], hooked' \in BOOLEAN, job' \in BOOLEAN, faults' \in Nat,
           infra' \in [Clusters -> SUBSET {"config map", "namespace", "secret"}]
    PROVE  TypeInv'
  BY DEF TypeInv, RestType, Rest, env

\* The steps up to the switch of ProcessBundleController.
LEMMA QueryType ==
    ASSUME TypeInv,
           \/ VersionKnown \/ VersionFails \/ LatestKnown \/ LatestFails
           \/ ListBundles \/ ListBundlesFails
    PROVE  TypeInv'
  <1> USE DEF TypeInv
  <1>1. w # None /\ w \in Workers /\ w.c \in Clusters /\ w.obj \in PBCs
    BY DEF VersionKnown, VersionFails, LatestKnown, LatestFails, ListBundles, ListBundlesFails,
           At, WorkerType, Workers
  <1>2. /\ reqs \subseteq Requests /\ wait \in [Clusters -> Waits] /\ hooked \in BOOLEAN
        /\ job \in BOOLEAN /\ faults \in Nat
        /\ infra \in [Clusters -> SUBSET {"config map", "namespace", "secret"}]
        /\ kube \in [Clusters -> KubeVersions] /\ newest \in [KubeVersions -> BundleNames]
    BY DEF RestType
  <1>3. ASSUME NEW otherwise, Disconnect(otherwise), otherwise => Done \/ Error
        PROVE  WorkerType' /\ wait' \in [Clusters -> Waits] /\ hooked' \in BOOLEAN
    <2>1. CASE SaveStatus("disconnected", "error")
      BY <1>1, <1>2, <2>1, SaveType DEF PBCStates
    <2>2. CASE Done \/ Error
      BY <2>2, EndType
    <2> QED
      BY <1>3, <2>1, <2>2 DEF Disconnect
  <1>4. CASE VersionKnown
    <2>1. kube[w.c] \in KubeVersions
      BY <1>1, <1>2
    <2>2. w' \in Workers /\ w'.pc = "latest" /\ w'.info # None
      BY <1>1, <1>4, <2>1, NothingAssumption DEF VersionKnown, Workers, Pcs
    <2>3. WorkerType'
      BY <2>2 DEF WorkerType
    <2> QED
      BY <1>2, <1>4, <2>3, NoWriteType, StepType DEF VersionKnown
  <1>5. CASE VersionFails
    <2>1. WorkerType' /\ wait' \in [Clusters -> Waits] /\ hooked' \in BOOLEAN
      BY <1>3, <1>5 DEF VersionFails
    <2>2. faults' \in Nat
      BY <1>5, FaultType DEF VersionFails
    <2> QED
      BY <1>2, <1>5, <2>1, <2>2, NoWriteType, StepType DEF VersionFails
  <1>6. CASE LatestKnown
    <2>1. w.info \in KubeVersions
      BY <1>1, <1>6 DEF LatestKnown, At, WorkerType, Workers
    <2>2. w' \in Workers /\ w'.pc = "list" /\ w'.latest # None
      <3>1. newest[w.info] \in BundleNames
        BY <1>2, <2>1
      <3>2. w' = [w EXCEPT !.pc = "list", !.latest = newest[w.info]]
        BY <1>6 DEF LatestKnown
      <3> QED
        BY <1>1, <3>1, <3>2, NothingAssumption DEF Workers, Pcs
    <2>3. WorkerType'
      BY <2>2 DEF WorkerType
    <2>4. job' \in BOOLEAN
      BY <1>2, <1>6 DEF LatestKnown
    <2>5. faults' \in Nat
      BY <1>6, FaultType DEF LatestKnown
    <2> QED
      BY <1>2, <1>6, <2>3, <2>4, <2>5, NoWriteType, StepType DEF LatestKnown
  <1>7. CASE LatestFails
    <2>1. WorkerType' /\ wait' \in [Clusters -> Waits] /\ hooked' \in BOOLEAN
      BY <1>3, <1>7 DEF LatestFails
    <2>2. job' \in BOOLEAN
      BY <1>2, <1>7 DEF LatestFails
    <2>3. faults' \in Nat
      BY <1>7, FaultType DEF LatestFails
    <2> QED
      BY <1>2, <1>7, <2>1, <2>2, <2>3, NoWriteType, StepType DEF LatestFails
  <1>8. CASE ListBundles
    <2>1. w.latest \in BundleNames
      BY <1>1, <1>8 DEF ListBundles, At, WorkerType, Workers
    <2>2. w' \in Workers /\ w'.pc = "process" /\ w'.latest # None
      BY <1>1, <1>8, <2>1, NothingAssumption DEF ListBundles, Workers, Pcs, BundleList
    <2>3. WorkerType'
      BY <2>2 DEF WorkerType
    <2>4. StoreType'
      BY <1>8, <2>1, NoWriteType, WriteBundleType DEF ListBundles, BundleStates
    <2> QED
      BY <1>2, <1>8, <2>3, <2>4, StepType DEF ListBundles
  <1>9. CASE ListBundlesFails
    <2>1. WorkerType' /\ wait' \in [Clusters -> Waits] /\ hooked' \in BOOLEAN
      BY <1>9, EndType DEF ListBundlesFails
    <2>2. faults' \in Nat
      BY <1>9, FaultType DEF ListBundlesFails
    <2> QED
      BY <1>2, <1>9, <2>1, <2>2, NoWriteType, StepType DEF ListBundlesFails
  <1> QED
    BY <1>4, <1>5, <1>6, <1>7, <1>8, <1>9

\* The switch.
LEMMA SwitchType ==
    ASSUME TypeInv,
           \/ ActivePrepared \/ ActivePreparedFails \/ ActiveRestored \/ ActiveRestoredFails
           \/ UpgradeStillAvailable \/ Upgraded \/ Reconnected \/ Activate \/ ChooseLatest
    PROVE  TypeInv'
  <1> USE DEF TypeInv
  <1>1. w # None /\ w \in Workers /\ w.c \in Clusters /\ w.latest \in BundleNames
    BY DEF ActivePrepared, ActivePreparedFails, ActiveRestored, ActiveRestoredFails, Switch,
           UpgradeStillAvailable, Upgraded, Reconnected, Activate, ChooseLatest,
           At, WorkerType, Workers
  <1>2. /\ reqs \subseteq Requests /\ wait \in [Clusters -> Waits] /\ hooked \in BOOLEAN
        /\ job \in BOOLEAN /\ faults \in Nat
        /\ infra \in [Clusters -> SUBSET {"config map", "namespace", "secret"}]
    BY DEF RestType
  <1>3. ASSUME NEW st \in {"active", "upgrade available"}, NEW detail \in {"", w.latest},
               \/ SaveStatus(st, detail) \/ Done \/ Error
        PROVE  WorkerType' /\ wait' \in [Clusters -> Waits] /\ hooked' \in BOOLEAN
    BY <1>1, <1>2, <1>3, SaveType, EndType DEF PBCStates
  <1>4. ASSUME NEW done \in SUBSET {"config map", "namespace", "secret"},
               infra' = [infra EXCEPT ![w.c] = @ \cup done]
        PROVE  infra' \in [Clusters -> SUBSET {"config map", "namespace", "secret"}]
    BY <1>1, <1>2, <1>4
  <1>5. CASE ActivePrepared
    <2>1. w' \in Workers /\ w'.pc = "restore" /\ w'.latest # None /\ w'.obj.active # None
      BY <1>1, <1>5, NothingAssumption DEF ActivePrepared, Switch, Goto, Workers, Pcs
    <2>2. WorkerType' /\ wait' = wait /\ hooked' = hooked
      BY <1>5, <2>1 DEF WorkerType, ActivePrepared, Goto
    <2>3. infra' \in [Clusters -> SUBSET {"config map", "namespace", "secret"}]
      BY <1>4, <1>5 DEF ActivePrepared, Needed
    <2> QED
      BY <1>2, <1>5, <2>2, <2>3, NoWriteType, StepType DEF ActivePrepared
  <1>6. CASE ActivePreparedFails
    <2>1. WorkerType' /\ wait' \in [Clusters -> Waits] /\ hooked' \in BOOLEAN
      BY <1>6, EndType DEF ActivePreparedFails
    <2>2. faults' \in Nat
      BY <1>6, FaultType DEF ActivePreparedFails
    <2>3. infra' \in [Clusters -> SUBSET {"config map", "namespace", "secret"}]
      BY <1>4, <1>6 DEF ActivePreparedFails
    <2> QED
      BY <1>2, <1>6, <2>1, <2>2, <2>3, NoWriteType, StepType DEF ActivePreparedFails
  <1>7. CASE ActiveRestored
    <2>1. WorkerType' /\ wait' \in [Clusters -> Waits] /\ hooked' \in BOOLEAN
      BY <1>3, <1>7 DEF ActiveRestored
    <2>2. w.obj.active \in BundleNames
      BY <1>1, <1>7 DEF ActiveRestored, At, WorkerType, Workers, PBCs
    <2>3. StoreType'
      BY <1>7, <2>2, NoWriteType, WriteBundleType DEF ActiveRestored, BundleStates
    <2> QED
      BY <1>2, <1>7, <2>1, <2>3, StepType DEF ActiveRestored
  <1>8. CASE ActiveRestoredFails
    <2>1. WorkerType' /\ wait' \in [Clusters -> Waits] /\ hooked' \in BOOLEAN
      BY <1>8, EndType DEF ActiveRestoredFails
    <2>2. faults' \in Nat
      BY <1>8, FaultType DEF ActiveRestoredFails
    <2> QED
      BY <1>2, <1>8, <2>1, <2>2, NoWriteType, StepType DEF ActiveRestoredFails
  <1>9. CASE UpgradeStillAvailable \/ Upgraded \/ Reconnected \/ Activate
    <2>1. WorkerType' /\ wait' \in [Clusters -> Waits] /\ hooked' \in BOOLEAN
      BY <1>3, <1>9 DEF UpgradeStillAvailable, Upgraded, Reconnected, Activate, Only
    <2> QED
      BY <1>2, <1>9, <2>1, NoWriteType, StepType
      DEF UpgradeStillAvailable, Upgraded, Reconnected, Activate, Only
  <1>10. CASE ChooseLatest
    <2>1. w' \in Workers /\ w'.pc = "spec" /\ w'.latest # None
      BY <1>1, <1>10, NothingAssumption DEF ChooseLatest, Only, Goto, Workers, Pcs
    <2>2. WorkerType' /\ wait' = wait /\ hooked' = hooked
      BY <1>10, <2>1 DEF WorkerType, ChooseLatest, Only, Goto
    <2> QED
      BY <1>2, <1>10, <2>2, NoWriteType, StepType DEF ChooseLatest, Only
  <1> QED
    BY <1>5, <1>6, <1>7, <1>8, <1>9, <1>10

\* Saving.
LEMMA CommitType ==
    ASSUME TypeInv, ControllerAsks \/ CommitStatus \/ CommitStatusFails
    PROVE  TypeInv'
  <1> USE DEF TypeInv
  <1>1. w # None /\ w \in Workers /\ w.c \in Clusters /\ w.obj \in PBCs
    BY DEF ControllerAsks, CommitStatus, CommitStatusFails, At, WorkerType, Workers
  <1>2. /\ reqs \in SUBSET Requests /\ wait \in [Clusters -> Waits] /\ hooked \in BOOLEAN
        /\ job \in BOOLEAN /\ faults \in Nat
        /\ infra \in [Clusters -> SUBSET {"config map", "namespace", "secret"}]
    BY DEF RestType
  <1>3. CASE ControllerAsks
    <2> DEFINE r == [by |-> "controller", c |-> w.c, active |-> w.latest, fresh |-> w.fresh,
                      at |-> None]
    <2>1. r \in Requests /\ w.latest # None
      BY <1>1, <1>3 DEF Requests, Workers, ControllerAsks, At, WorkerType
    <2>2. CASE Goto("saving") /\ reqs' = reqs \cup {r} /\ Target(r)
      <3>1. w' \in Workers /\ w'.pc = "saving" /\ w'.latest # None
        BY <1>1, <2>1, <2>2 DEF Goto, Workers, Pcs
      <3>2. WorkerType' /\ wait' = wait /\ hooked' = hooked
        BY <2>2, <3>1 DEF WorkerType, Goto
      <3>3. target' \in Clusters \cup {None}
        BY <1>1, <2>2 DEF Target, RestType
      <3>4. StoreType'
        BY <1>3, NoWriteType DEF ControllerAsks
      <3> QED
        BY <1>3, <2>1, <2>2, <3>2, <3>3, <3>4 DEF ControllerAsks, RestType, env
    <2>3. CASE Error /\ UNCHANGED <<reqs, target>>
      <3>1. WorkerType' /\ wait' \in [Clusters -> Waits] /\ hooked' \in BOOLEAN
        BY <2>3, EndType
      <3>2. StoreType'
        BY <1>3, NoWriteType DEF ControllerAsks
      <3> QED
        BY <1>3, <2>3, <3>1, <3>2 DEF ControllerAsks, RestType, env
    <2> QED
      BY <1>3, <2>2, <2>3 DEF ControllerAsks
  <1>4. CASE CommitStatus
    <2>1. WorkerType' /\ wait' \in [Clusters -> Waits] /\ hooked' \in BOOLEAN
      BY <1>4, EndType DEF CommitStatus
    <2>2. StoreType'
      BY <1>1, <1>4, NoWriteType, WritePBCType DEF CommitStatus
    <2>3. reqs' = reqs \/ reqs' = Outdated(reqs, w.c)
      BY <1>4 DEF CommitStatus
    <2>4. reqs' \subseteq Requests
      BY <1>2, <2>3, OutdatedType
    <2> QED
      BY <1>2, <1>4, <2>1, <2>2, <2>4, StepType DEF CommitStatus
  <1>5. CASE CommitStatusFails
    <2>1. WorkerType' /\ wait' \in [Clusters -> Waits] /\ hooked' \in BOOLEAN
      BY <1>5, EndType DEF CommitStatusFails
    <2>2. faults' \in Nat
      BY <1>5, FaultType DEF CommitStatusFails
    <2> QED
      BY <1>2, <1>5, <2>1, <2>2, NoWriteType, StepType DEF CommitStatusFails
  <1> QED
    BY <1>3, <1>4, <1>5

\* All steps together.
LEMMA TypeStep == ASSUME TypeInv, [Next]_vars PROVE TypeInv'
  <1>1. CASE Environment \/ Webhook
    BY <1>1, EnvironmentType, WebhookType
  <1>2. CASE WorkerStep
    BY <1>2, QueryType, SwitchType, CommitType DEF WorkerStep
  <1>3. CASE Crash
    <2>1. StoreType' /\ WorkerType'
      BY <1>3, NoWriteType DEF Crash, TypeInv, WorkerType
    <2>2. faults' \in Nat
      BY <1>3, FaultType DEF Crash, TypeInv
    <2>3. wait' \in [Clusters -> Waits]
      BY <1>3 DEF Crash, Waits
    <2>4. ASSUME NEW q \in reqs' PROVE q \in Requests
      <3>1. PICK r \in reqs : q = [r EXCEPT !.by = IF @ = "controller" THEN "crashed" ELSE @]
        BY <1>3 DEF Crash
      <3>2. r \in Requests
        BY DEF TypeInv, RestType
      <3> QED
        BY <3>1, <3>2 DEF Requests
    <2> QED
      BY <1>3, <2>1, <2>2, <2>3, <2>4 DEF Crash, TypeInv, RestType, env
  <1>4. CASE Restart
    <2>1. StoreType'
      BY <1>4, ClustersAssumption DEF Restart, TypeInv, StoreType, Keys
    <2> QED
      BY <1>4, <2>1 DEF Restart, TypeInv, WorkerType, RestType, env
  <1>5. CASE UNCHANGED vars
    BY <1>5 DEF vars, env, TypeInv, StoreType, WorkerType, RestType
  <1> QED
    BY <1>1, <1>2, <1>3, <1>4, <1>5, RuntimeType, ReconcileType DEF Next

\* Where it begins.
LEMMA InitType == ASSUME Init PROVE TypeInv
  <1>1. StoreType
    BY ClustersAssumption DEF Init, StoreType, Keys
  <1>2. newest \in [KubeVersions -> BundleNames]
    BY DEF Init
  <1> QED
    BY <1>1, <1>2 DEF Init, TypeInv, WorkerType, RestType, Waits

\* The resources, the caches, the queues and what a reconciliation holds stay well formed;
\* in particular a reconciliation has a latest bundle wherever the code uses one.
THEOREM TypeCorrect == Spec => []TypeOK
  BY InitType, TypeStep, TypeInvImplies, PTL DEF Spec

-----------------------------------------------------------------------------
(* The inductive invariant.                                                *)

\* The last event on its way is the PBC as it is; without one the cache is up to date.
CacheFollows ==
    \A c \in Clusters : IF stream[c] = <<>> THEN cache[c] = pbc[c]
                        ELSE stream[c][Len(stream[c])] = pbc[c]

\* A status the reconciliation is going to save follows the switch from the state the PBC
\* is in, keeps the active bundle, and offers an upgrade only for a prepared cluster.
Successor(o, old, c) ==
    /\ o.active = old.active
    /\ o.st = old.st \/ <<old.st, o.st>> \in PBCArcs
    /\ o.st = "upgrade available" => Needed(c) \subseteq infra[c]

\* A fresh copy is the PBC itself until a status has been computed from it.  The active
\* branch of the switch has prepared the cluster; only a PBC without an active bundle gets
\* the latest one.
WorkerInv ==
    w # None =>
        /\ w.c \notin Foreign
        /\ w.pc = "restore" => w.obj.st = "active" /\ Needed(w.c) \subseteq infra[w.c]
        /\ w.pc \in {"spec", "saving"} => w.obj.active = None
        /\ w.fresh => /\ pbc[w.c] # None
                      /\ IF w.pc = "status" THEN Successor(w.obj, pbc[w.c], w.c) ELSE w.obj = pbc[w.c]

\* The webhook has seen the bundle of a request in the list and has pointed its client to
\* some cluster.  A request of the controller belongs to the reconciliation that waits for
\* its answer, and is outdated when that is; one that has outlived its controller would
\* still fill in an empty activeBundle.
RequestsInv ==
    /\ \A r \in reqs :
          /\ r.active \notin Foreign
          /\ r.active # None /\ r.at = None => target # None
          /\ r.by = "controller" =>
                /\ w # None /\ w.pc = "saving"
                /\ w.c = r.c /\ w.latest = r.active /\ w.fresh = r.fresh
          /\ r.by = "crashed" =>
                /\ r.c \notin Foreign
                /\ r.fresh => pbc[r.c] # None /\ pbc[r.c].active = None
    /\ \A r, q \in reqs : r.by = "controller" /\ q.by = "controller" => r = q

\* The first and the last part of ForeignInert; RequestsInv and WorkerInv imply the other.
ForeignPBCs ==
    /\ \A c \in Clusters \cap Foreign :
          infra[c] = {} /\ (pbc[c] # None => pbc[c].st \in {"", "ignored"})
    /\ \A c \in Clusters : pbc[c] # None => pbc[c].active \notin Foreign

BInv == CacheFollows /\ WorkerInv /\ RequestsInv /\ ForeignPBCs /\ PreparedBeforeUpgrade

\* Ends of sequences.
LEMMA AppendEnds ==
    ASSUME NEW S, NEW s \in Seq(S), NEW e \in S
    PROVE  Append(s, e) # <<>> /\ Append(s, e)[Len(Append(s, e))] = e
  BY AppendProperties, LenProperties

LEMMA TailEnds ==
    ASSUME NEW S, NEW s \in Seq(S), s # <<>>
    PROVE  IF Tail(s) = <<>> THEN Head(s) = s[Len(s)] ELSE Tail(s)[Len(Tail(s))] = s[Len(s)]
  <1>1. /\ Len(s) \in Nat /\ Len(s) # 0 /\ Head(s) = s[1]
        /\ Tail(s) \in Seq(S) /\ Len(Tail(s)) = Len(s) - 1
    BY HeadTailProperties, EmptySeq, LenProperties
  <1>2. ASSUME Tail(s) = <<>> PROVE Head(s) = s[Len(s)]
    <2>1. Len(Tail(s)) = 0
      BY <1>2, EmptySeq
    <2>2. \A n \in Nat : n - 1 = 0 => n = 1
      OBVIOUS
    <2>3. Len(s) - 1 = 0
      BY <1>1, <2>1, Zenon
    <2>4. Len(s) = 1
      BY <1>1, <2>2, <2>3, Zenon
    <2> QED
      BY <1>1, <2>4, Zenon
  <1>3. ASSUME Tail(s) # <<>> PROVE Tail(s)[Len(Tail(s))] = s[Len(s)]
    <2>1. Len(Tail(s)) # 0
      BY <1>1, <1>3, EmptySeq
    <2>2. Len(Tail(s)) \in 1..Len(Tail(s)) /\ Len(Tail(s)) + 1 = Len(s)
      BY <1>1, <2>1
    <2>3. \A i \in 1..Len(Tail(s)) : Tail(s)[i] = s[i + 1]
      BY <1>1, SMT
    <2> QED
      BY <2>2, <2>3
  <1> QED
    BY <1>2, <1>3

\* The cache keeps following, whatever is written or delivered.
LEMMA WritePBCFollows ==
    ASSUME TypeInv, CacheFollows, NEW c \in Clusters, NEW o \in PBCs \cup {None}, WritePBC(c, o)
    PROVE  CacheFollows'
  <1>1. pbc' = [pbc EXCEPT ![c] = o] /\ stream' = [stream EXCEPT ![c] = Append(@, o)] /\ cache' = cache
    BY DEF WritePBC
  <1>2. DOMAIN stream = Keys /\ Clusters \subseteq Keys /\ DOMAIN pbc = Clusters
    BY DEF TypeInv, StoreType, Keys
  <1>3. stream[c] \in Seq(PBCs \cup {None})
    BY DEF TypeInv, StoreType
  <1>4. stream'[c] # <<>> /\ stream'[c][Len(stream'[c])] = o
    BY <1>1, <1>2, <1>3, AppendEnds
  <1> QED
    BY <1>1, <1>2, <1>4 DEF CacheFollows

LEMMA WriteBundleFollows ==
    ASSUME TypeInv, CacheFollows, NEW b \in BundleNames, NEW st, WriteBundle(b, st)
    PROVE  CacheFollows' /\ pbc' = pbc
  BY ClustersAssumption DEF TypeInv, StoreType, Keys, WriteBundle, CacheFollows

LEMMA NoWriteFollows == ASSUME CacheFollows, NoWrite PROVE CacheFollows' /\ pbc' = pbc
  BY DEF CacheFollows, NoWrite

LEMMA DeliverFollows ==
    ASSUME TypeInv, CacheFollows, NEW k \in Keys, Deliver(k)
    PROVE  CacheFollows'
  <1>1. /\ cache' = [cache EXCEPT ![k] = Head(stream[k])] /\ stream[k] # <<>>
        /\ stream' = [stream EXCEPT ![k] = Tail(@)] /\ pbc' = pbc
    BY DEF Deliver
  <1>2. DOMAIN stream = Keys /\ DOMAIN cache = Keys /\ Clusters \subseteq Keys
    BY DEF TypeInv, StoreType, Keys
  <1>3. SUFFICES ASSUME NEW c \in Clusters
                 PROVE  IF stream'[c] = <<>> THEN cache'[c] = pbc[c]
                        ELSE stream'[c][Len(stream'[c])] = pbc[c]
    BY <1>1 DEF CacheFollows
  <1>4. CASE c # k
    BY <1>1, <1>2, <1>4 DEF CacheFollows
  <1>5. CASE c = k
    <2>1. stream[c] \in Seq(PBCs \cup {None})
      BY DEF TypeInv, StoreType
    <2>2. stream[c][Len(stream[c])] = pbc[c]
      BY <1>1, <1>5 DEF CacheFollows
    <2>3. stream'[c] = Tail(stream[c]) /\ cache'[c] = Head(stream[c])
      BY <1>1, <1>2, <1>5
    <2> QED
      BY <1>1, <1>5, <2>1, <2>2, <2>3, TailEnds
  <1> QED
    BY <1>4, <1>5

\* Steps that touch no PBC, no reconciliation and no request.
LEMMA QuietStep ==
    ASSUME BInv, CacheFollows', UNCHANGED <<pbc, infra, target, w, reqs>>
    PROVE  BInv'
  BY DEF BInv, WorkerInv, Successor, RequestsInv, ForeignPBCs, PreparedBeforeUpgrade, Needed

\* What may be stored as the PBC of c.
Storable(o, c) ==
    o # None => /\ o.active \notin Foreign
                /\ c \in Foreign => o.st \in {"", "ignored"}
                /\ o.st = "upgrade available" => Needed(c) \subseteq infra[c]

LEMMA StorableKeeps ==
    ASSUME TypeInv, ForeignPBCs, PreparedBeforeUpgrade, NEW c \in Clusters, NEW o, Storable(o, c),
           pbc' = [pbc EXCEPT ![c] = o], infra' = infra
    PROVE  ForeignPBCs' /\ PreparedBeforeUpgrade'
  BY DEF TypeInv, StoreType, ForeignPBCs, PreparedBeforeUpgrade, Storable, Needed

\* Requests that were outdated are the same otherwise.
LEMMA OutdatedFields ==
    ASSUME TypeInv, NEW c, NEW rs \in SUBSET reqs, NEW q \in Outdated(rs, c)
    PROVE  \E r \in rs : /\ q.active = r.active /\ q.by = r.by /\ q.c = r.c /\ q.at = r.at
                         /\ q.fresh = (r.fresh /\ r.c # c)
                         /\ q = IF r.c = c THEN [r EXCEPT !.fresh = FALSE] ELSE r
  <1>1. PICK r \in rs : q = IF r.c = c THEN [r EXCEPT !.fresh = FALSE] ELSE r
    BY DEF Outdated
  <1>2. r \in Requests
    BY DEF TypeInv, RestType
  <1> QED
    BY <1>1, <1>2 DEF Requests

\* They stay in order while the reconciliation waits for its answer, and when none does.
LEMMA OutdatedRequests ==
    ASSUME TypeInv, RequestsInv, NEW c \in Clusters, NEW o, pbc' = [pbc EXCEPT ![c] = o],
           NEW rs \in SUBSET reqs, reqs' = Outdated(rs, c), target' = target,
           \/ \A r \in rs : r.by # "controller"
           \/ w # None /\ w' # None /\ w'.pc = w.pc /\ w'.c = w.c /\ w'.latest = w.latest
                       /\ w'.fresh = (w.fresh /\ w.c # c)
    PROVE  RequestsInv'
  <1>1. DOMAIN pbc = Clusters /\ \A r \in reqs : r.c \in Clusters
    BY DEF TypeInv, StoreType, RestType, Requests
  <1>2. ASSUME NEW q \in reqs'
        PROVE  /\ q.active \notin Foreign
               /\ q.active # None /\ q.at = None => target' # None
               /\ q.by = "controller" =>
                     /\ w' # None /\ w'.pc = "saving"
                     /\ w'.c = q.c /\ w'.latest = q.active /\ w'.fresh = q.fresh
               /\ q.by = "crashed" =>
                     /\ q.c \notin Foreign
                     /\ q.fresh => pbc'[q.c] # None /\ pbc'[q.c].active = None
    <2>1. PICK r \in rs : /\ q.active = r.active /\ q.by = r.by /\ q.c = r.c /\ q.at = r.at
                          /\ q.fresh = (r.fresh /\ r.c # c)
      BY OutdatedFields
    <2>2. r \in reqs
      OBVIOUS
    <2>3. q.by = "crashed" /\ q.fresh => pbc'[q.c] # None /\ pbc'[q.c].active = None
      BY <1>1, <2>1, <2>2 DEF RequestsInv
    <2>4. q.by = "controller" =>
             /\ w' # None /\ w'.pc = "saving"
             /\ w'.c = q.c /\ w'.latest = q.active /\ w'.fresh = q.fresh
      BY <2>1, <2>2 DEF RequestsInv
    <2> QED
      BY <2>1, <2>2, <2>3, <2>4 DEF RequestsInv
  <1>3. ASSUME NEW q1 \in reqs', NEW q2 \in reqs', q1.by = "controller", q2.by = "controller"
        PROVE  q1 = q2
    <2>1. PICK r1 \in rs : q1.by = r1.by /\ q1 = IF r1.c = c THEN [r1 EXCEPT !.fresh = FALSE] ELSE r1
      BY OutdatedFields
    <2>2. PICK r2 \in rs : q2.by = r2.by /\ q2 = IF r2.c = c THEN [r2 EXCEPT !.fresh = FALSE] ELSE r2
      BY OutdatedFields
    <2>3. r1 = r2
      BY <1>3, <2>1, <2>2 DEF RequestsInv
    <2> QED
      BY <2>1, <2>2, <2>3
  <1> QED
    BY <1>2, <1>3 DEF RequestsInv

\* A write that overtakes the copies others hold.
LEMMA OvertakingWrite ==
    ASSUME TypeInv, BInv, NEW c \in Clusters, NEW o \in PBCs \cup {None}, WritePBC(c, o),
           Storable(o, c), NEW rs \in SUBSET reqs, reqs' = Outdated(rs, c),
           w' = Overtaken(c), UNCHANGED <<infra, target>>
    PROVE  BInv'
  <1> USE DEF BInv
  <1>1. CacheFollows'
    BY WritePBCFollows
  <1>2. pbc' = [pbc EXCEPT ![c] = o] /\ DOMAIN pbc = Clusters
    BY DEF WritePBC, TypeInv, StoreType
  <1>3. ForeignPBCs' /\ PreparedBeforeUpgrade'
    BY <1>2, StorableKeeps
  <1>4. CASE w = None
    <2>1. w' = None
      BY <1>4 DEF Overtaken
    <2>2. \A r \in rs : r.by # "controller"
      BY <1>4 DEF RequestsInv
    <2>3. RequestsInv'
      BY <1>2, <2>2, OutdatedRequests
    <2> QED
      BY <1>1, <1>3, <2>1, <2>3 DEF WorkerInv
  <1>5. CASE w # None
    <2>1. w \in Workers
      BY <1>5 DEF TypeInv, WorkerType
    <2>2. /\ w' # None /\ w'.pc = w.pc /\ w'.c = w.c /\ w'.obj = w.obj /\ w'.latest = w.latest
          /\ w'.fresh = (w.fresh /\ w.c # c)
      BY <1>5, <2>1, NothingAssumption DEF Overtaken, Workers
    <2>3. WorkerInv'
      BY <1>2, <1>5, <2>1, <2>2 DEF WorkerInv, Successor, Needed, Workers
    <2>4. RequestsInv'
      BY <1>2, <1>5, <2>2, OutdatedRequests
    <2> QED
      BY <1>1, <1>3, <2>3, <2>4
  <1> QED
    BY <1>4, <1>5

\* The reconciliation that was waiting ends, and its request is gone.
LEMMA EndingWrite ==
    ASSUME TypeInv, BInv, NEW c \in Clusters, NEW o \in PBCs \cup {None}, WritePBC(c, o),
           Storable(o, c), NEW rs \in SUBSET reqs, reqs' = Outdated(rs, c),
           w' = None, \A r \in rs : r.by # "controller", UNCHANGED <<infra, target>>
    PROVE  BInv'
  <1> USE DEF BInv
  <1>1. CacheFollows'
    BY WritePBCFollows
  <1>2. pbc' = [pbc EXCEPT ![c] = o]
    BY DEF WritePBC
  <1>3. ForeignPBCs' /\ PreparedBeforeUpgrade'
    BY <1>2, StorableKeeps
  <1>4. RequestsInv'
    BY <1>2, OutdatedRequests
  <1> QED
    BY <1>1, <1>3, <1>4 DEF WorkerInv

\* What the webhook has seen in the list is not foreign.
LEMMA ListedNotForeign == ASSUME NEW b, Listed(b) PROVE b \notin Foreign
  BY ClustersAssumption, NothingAssumption DEF Listed, BundleList, Keys

\* Users, the registry and the clusters.
LEMMA EnvironmentStep == ASSUME TypeInv, BInv, Environment PROVE BInv'
  <1>1. CacheFollows
    BY DEF BInv
  <1>2. ASSUME NEW c \in Clusters, UserDelete(c) PROVE BInv'
    <2>1. Storable(None, c)
      BY DEF Storable
    <2> QED
      BY <1>2, <2>1, OvertakingWrite DEF UserDelete
  <1>3. ASSUME NEW c \in Clusters, NEW b \in Choices[c], UserAsks(c, b) PROVE BInv'
    <2> DEFINE r == [by |-> "user", c |-> c, active |-> b, fresh |-> TRUE, at |-> None]
    <2>1. /\ Listed(b) /\ reqs' = reqs \cup {r} /\ target' = IF b = None THEN target ELSE c
          /\ NoWrite /\ UNCHANGED <<w, infra>>
      BY <1>3 DEF UserAsks, Target
    <2>2. CacheFollows' /\ pbc' = pbc
      BY <1>1, <2>1, NoWriteFollows
    <2>3. b \notin Foreign
      BY <2>1, ListedNotForeign
    <2>4. RequestsInv'
      <3>1. r.by = "user" /\ r.active = b
        OBVIOUS
      <3> HIDE DEF r
      <3>2. target # None => target' # None
        BY <2>1, NothingAssumption
      <3>3. b # None => target' # None
        BY <2>1, NothingAssumption
      <3> QED
        BY <2>1, <2>2, <2>3, <3>1, <3>2, <3>3 DEF BInv, RequestsInv
    <2> QED
      BY <2>1, <2>2, <2>4
      DEF BInv, WorkerInv, Successor, ForeignPBCs, PreparedBeforeUpgrade, Needed
  <1>4. ASSUME NEW b \in BundleNames, UserCreateBundle(b) \/ UserDeleteBundle(b) PROVE BInv'
    <2>1. CacheFollows' /\ pbc' = pbc
      BY <1>1, <1>4, WriteBundleFollows DEF UserCreateBundle, UserDeleteBundle
    <2> QED
      BY <1>4, <2>1, QuietStep DEF UserCreateBundle, UserDeleteBundle
  <1>5. ASSUME NEW b \in BundleNames, Publish(b) PROVE BInv'
    BY <1>1, <1>5, NoWriteFollows, QuietStep DEF Publish
  <1>6. ASSUME NEW c \in Clusters, NEW k \in KubeVersions, Upgrade(c, k) PROVE BInv'
    BY <1>1, <1>6, NoWriteFollows, QuietStep DEF Upgrade
  <1> QED
    BY <1>2, <1>3, <1>4, <1>5, <1>6 DEF Environment

\* A write that fails.
LEMMA DroppedStep == ASSUME TypeInv, BInv, NEW r \in reqs, Dropped(r) PROVE BInv'
  <1>1. /\ reqs' = reqs \ {r} /\ NoWrite /\ UNCHANGED <<infra, target>>
        /\ IF r.by = "controller" THEN w' = None ELSE UNCHANGED w
    BY DEF Dropped, Quiet, Rest, Error
  <1>2. CacheFollows' /\ pbc' = pbc
    BY <1>1, NoWriteFollows DEF BInv
  <1>3. ForeignPBCs' /\ PreparedBeforeUpgrade'
    BY <1>1, <1>2 DEF BInv, ForeignPBCs, PreparedBeforeUpgrade, Needed
  <1>4. RequestsInv'
    BY <1>1, <1>2 DEF BInv, RequestsInv
  <1>5. WorkerInv'
    <2>1. CASE w' = None
      BY <2>1 DEF WorkerInv
    <2>2. CASE w' = w
      BY <1>1, <1>2, <2>2 DEF BInv, WorkerInv, Successor, Needed
    <2> QED
      BY <1>1, <2>1, <2>2
  <1> QED
    BY <1>2, <1>3, <1>4, <1>5 DEF BInv

\* The webhook and the API server: a change of the spec keeps the state.
LEMMA WebhookStep == ASSUME TypeInv, BInv, Webhook PROVE BInv'
  <1>1. PICK r \in reqs : Allow(r) \/ Deny(r) \/ Store(r) \/ Refuse(r)
    BY DEF Webhook
  <1>2. r \in Requests /\ r.c \in Clusters /\ r.active \in BundleNames \cup {None}
    BY DEF TypeInv, RestType, Requests
  <1>3. reqs \ {r} \in SUBSET reqs
    OBVIOUS
  <1>4. CASE Store(r)
    <2> DEFINE o == IF pbc[r.c] = None THEN [active |-> r.active, st |-> "", detail |-> ""]
                    ELSE [pbc[r.c] EXCEPT !.active = r.active]
    <2>1. /\ WritePBC(r.c, o) /\ reqs' = Outdated(reqs \ {r}, r.c)
          /\ IF r.by = "controller" THEN Done ELSE w' = Overtaken(r.c)
          /\ UNCHANGED <<infra, target>>
      BY <1>4 DEF Store, Written, Rest
    <2>2. o \in PBCs /\ o.active = r.active /\ o.st = IF pbc[r.c] = None THEN "" ELSE pbc[r.c].st
      <3>1. pbc[r.c] \in PBCs \cup {None}
        BY <1>2 DEF TypeInv, StoreType
      <3>2. CASE pbc[r.c] = None
        BY <1>2, <3>2 DEF PBCs, PBCStates
      <3>3. CASE pbc[r.c] # None
        BY <1>2, <3>1, <3>3 DEF PBCs
      <3> QED
        BY <3>2, <3>3
    <2>3. Storable(o, r.c)
      BY <1>2, <2>2 DEF Storable, BInv, RequestsInv, ForeignPBCs, PreparedBeforeUpgrade
    <2> HIDE DEF o
    <2>4. CASE r.by # "controller"
      BY <1>2, <1>3, <2>1, <2>2, <2>3, <2>4, OvertakingWrite
    <2>5. CASE r.by = "controller"
      <3>1. w' = None
        BY <2>1, <2>5 DEF Done
      <3>2. \A q \in reqs \ {r} : q.by # "controller"
        BY <2>5 DEF BInv, RequestsInv
      <3> QED
        BY <1>2, <1>3, <2>1, <2>2, <2>3, <3>1, <3>2, EndingWrite
    <2> QED
      BY <2>4, <2>5
  <1>5. CASE Deny(r) \/ Refuse(r)
    BY <1>5, DroppedStep DEF Deny, Refuse
  <1>6. CASE Allow(r)
    <2> DEFINE a == [r EXCEPT !.at = kube[r.c]]
    <2>1. /\ reqs' = (reqs \ {r}) \cup {a} /\ NoWrite /\ UNCHANGED <<w, infra, target>>
      BY <1>6 DEF Allow, Quiet, Rest
    <2>2. /\ a.active = r.active /\ a.by = r.by /\ a.c = r.c /\ a.fresh = r.fresh
          /\ a.at # None
      <3>1. kube[r.c] \in KubeVersions /\ kube[r.c] # None
        BY <1>2, NothingAssumption DEF TypeInv, RestType
      <3> QED
        BY <1>2, <3>1 DEF Requests
    <2>3. CacheFollows' /\ pbc' = pbc
      BY <2>1, NoWriteFollows DEF BInv
    <2> HIDE DEF a
    <2>4. RequestsInv'
      <3>1. ASSUME NEW q \in reqs'
            PROVE  \E s \in reqs : /\ q.active = s.active /\ q.by = s.by /\ q.c = s.c /\ q.fresh = s.fresh
                                   /\ q.at = None => s.at = None
                                   /\ q = IF s = r THEN a ELSE s
        BY <2>1, <2>2
      <3>2. ASSUME NEW q \in reqs'
            PROVE  /\ q.active \notin Foreign
                   /\ q.active # None /\ q.at = None => target # None
                   /\ q.by = "controller" =>
                         /\ w # None /\ w.pc = "saving"
                         /\ w.c = q.c /\ w.latest = q.active /\ w.fresh = q.fresh
                   /\ q.by = "crashed" =>
                         /\ q.c \notin Foreign
                         /\ q.fresh => pbc[q.c] # None /\ pbc[q.c].active = None
        BY <3>1 DEF BInv, RequestsInv
      <3>3. ASSUME NEW q1 \in reqs', NEW q2 \in reqs', q1.by = "controller", q2.by = "controller"
            PROVE  q1 = q2
        BY <3>1, <3>3 DEF BInv, RequestsInv
      <3> QED
        BY <2>1, <2>3, <3>2, <3>3 DEF RequestsInv
    <2> QED
      BY <2>1, <2>3, <2>4
      DEF BInv, WorkerInv, Successor, ForeignPBCs, PreparedBeforeUpgrade, Needed
  <1> QED
    BY <1>1, <1>4, <1>5, <1>6

\* The beginning of a reconciliation: a copy is fresh if no event is on its way.
LEMMA ReconcileStep ==
    ASSUME TypeInv, BInv, NEW c \in Clusters, Reconcile(c)
    PROVE  BInv'
  <1>1. CacheFollows /\ w = None
    BY DEF BInv, Reconcile, GetFails, IgnoreDeleted, IgnoreForeign, Begin, Take
  <1>2. CASE GetFails(c) \/ IgnoreDeleted(c)
    BY <1>1, <1>2, NoWriteFollows, QuietStep DEF GetFails, IgnoreDeleted, Take
  <1>3. CASE IgnoreForeign(c)
    <2>1. w' = None /\ cache[c] \in PBCs /\ c \in Foreign /\ UNCHANGED <<infra, target>>
      BY <1>1, <1>3 DEF IgnoreForeign, Take, TypeInv, StoreType
    <2>2. CASE NoWrite /\ UNCHANGED reqs
      BY <1>1, <2>1, <2>2, NoWriteFollows, QuietStep
    <2>3. CASE /\ stream[c] = <<>> /\ WritePBC(c, [cache[c] EXCEPT !.st = "ignored"])
               /\ reqs' = Outdated(reqs, c)
      <3> DEFINE o == [cache[c] EXCEPT !.st = "ignored"]
      <3>1. o \in PBCs /\ o.active = cache[c].active /\ o.st = "ignored"
        BY <2>1 DEF PBCs, PBCStates
      <3>2. cache[c] = pbc[c]
        BY <1>1, <2>3 DEF CacheFollows
      <3>3. Storable(o, c)
        BY <2>1, <3>1, <3>2, NothingAssumption DEF Storable, BInv, ForeignPBCs
      <3>4. w' = Overtaken(c)
        BY <1>1, <2>1 DEF Overtaken
      <3> QED
        BY <2>1, <2>3, <3>1, <3>3, <3>4, OvertakingWrite
    <2> QED
      BY <1>3, <2>2, <2>3 DEF IgnoreForeign
  <1>4. CASE Begin(c)
    <2>1. /\ w' # None /\ w'.pc = "version" /\ w'.c = c /\ w'.obj = cache[c]
          /\ w'.fresh = (stream[c] = <<>>)
      <3>1. w' \in Workers
        BY <1>4, BeginType DEF TypeInv
      <3> QED
        BY <1>4, <3>1, NothingAssumption DEF Begin
    <2>2. CacheFollows' /\ pbc' = pbc /\ UNCHANGED <<reqs, target, infra>>
      BY <1>1, <1>4, NoWriteFollows DEF Begin, Take
    <2>3. WorkerInv'
      BY <1>1, <1>4, <2>1, <2>2 DEF Begin, WorkerInv, CacheFollows
    <2>4. RequestsInv'
      BY <1>1, <2>2 DEF BInv, RequestsInv
    <2> QED
      BY <2>2, <2>3, <2>4 DEF BInv, ForeignPBCs, PreparedBeforeUpgrade, Needed
  <1> QED
    BY <1>2, <1>3, <1>4 DEF Reconcile

\* A reconciliation goes on, or ends, without writing its PBC.
LEMMA MovingStep ==
    ASSUME TypeInv, BInv, w # None, w.pc # "saving", CacheFollows', WorkerInv',
           UNCHANGED <<pbc, reqs, target>>,
           infra' = infra \/ \E done : infra' = [infra EXCEPT ![w.c] = @ \cup done]
    PROVE  BInv'
  <1>1. w.c \in Clusters \ Foreign
    BY DEF TypeInv, WorkerType, Workers, BInv, WorkerInv
  <1>2. /\ \A c \in Clusters : infra[c] \subseteq infra'[c]
        /\ \A c \in Clusters \cap Foreign : infra[c] = infra'[c]
    BY <1>1 DEF TypeInv, RestType
  <1>3. RequestsInv'
    BY DEF BInv, RequestsInv
  <1> QED
    BY <1>2, <1>3 DEF BInv, ForeignPBCs, PreparedBeforeUpgrade, Needed

\* The status that is going to be saved.
LEMMA SavingStep ==
    ASSUME TypeInv, BInv, w # None, w.pc \notin {"saving", "status"}, NEW st, NEW detail,
           SaveStatus(st, detail), CacheFollows', UNCHANGED <<pbc, reqs, target, infra>>,
           w.obj.st = st \/ <<w.obj.st, st>> \in PBCArcs,
           st = "upgrade available" => w.obj.st = st \/ Needed(w.c) \subseteq infra[w.c]
    PROVE  BInv'
  <1>1. w \in Workers /\ w.obj \in PBCs /\ w.c \in Clusters
    BY DEF TypeInv, WorkerType, Workers
  <1>2. /\ w'.pc = "status" /\ w'.c = w.c /\ w'.fresh = w.fresh
        /\ w'.obj.active = w.obj.active /\ w'.obj.st = st
    BY <1>1 DEF SaveStatus, Workers, PBCs
  <1>3. w.fresh => pbc[w.c] # None /\ w.obj = pbc[w.c]
    BY DEF BInv, WorkerInv
  <1>4. w.fresh /\ st = "upgrade available" => Needed(w.c) \subseteq infra[w.c]
    BY <1>1, <1>3 DEF BInv, PreparedBeforeUpgrade
  <1>5. w.fresh => Successor(w'.obj, pbc[w.c], w.c)
    BY <1>2, <1>3, <1>4 DEF Successor
  <1>6. WorkerInv'
    BY <1>2, <1>3, <1>5 DEF BInv, WorkerInv, Successor, Needed
  <1> QED
    BY <1>6, MovingStep

\* The steps up to the switch.
LEMMA QueryStep ==
    ASSUME TypeInv, BInv,
           \/ VersionKnown \/ VersionFails \/ LatestKnown \/ LatestFails
           \/ ListBundles \/ ListBundlesFails
    PROVE  BInv'
  <1>1. /\ w # None /\ w \in Workers /\ w.pc \in {"version", "latest", "list"}
        /\ UNCHANGED <<reqs, target, infra>>
    BY DEF VersionKnown, VersionFails, LatestKnown, LatestFails, ListBundles, ListBundlesFails,
           At, Rest, TypeInv, WorkerType
  <1>2. CacheFollows' /\ pbc' = pbc
    <2>1. CASE ListBundles
      <3>1. w.latest \in BundleNames
        BY <2>1 DEF ListBundles, At, TypeInv, WorkerType, Workers
      <3> QED
        BY <2>1, <3>1, NoWriteFollows, WriteBundleFollows DEF ListBundles, BInv
    <2> QED
      BY <2>1, NoWriteFollows
      DEF VersionKnown, VersionFails, LatestKnown, LatestFails, ListBundlesFails, BInv
  <1>3. CASE VersionKnown \/ LatestKnown \/ ListBundles
    <2>1. /\ w'.pc \in {"latest", "list", "process"} /\ w'.c = w.c /\ w'.obj = w.obj
          /\ w'.fresh = w.fresh
      BY <1>1, <1>3 DEF VersionKnown, LatestKnown, ListBundles, Workers
    <2>2. WorkerInv'
      BY <1>1, <1>2, <2>1 DEF BInv, WorkerInv
    <2> QED
      BY <1>1, <1>2, <2>2, MovingStep
  <1>4. CASE w' = None
    BY <1>1, <1>2, <1>4, MovingStep DEF WorkerInv
  <1>5. CASE w.obj.st \in {"", "active"} /\ SaveStatus("disconnected", "error")
    BY <1>1, <1>2, <1>5, SavingStep DEF PBCArcs
  <1> QED
    BY <1>3, <1>4, <1>5
    DEF VersionFails, LatestFails, ListBundlesFails, Disconnect, Done, Error

\* The switch.
LEMMA SwitchStep ==
    ASSUME TypeInv, BInv,
           \/ ActivePrepared \/ ActivePreparedFails \/ ActiveRestored \/ ActiveRestoredFails
           \/ UpgradeStillAvailable \/ Upgraded \/ Reconnected \/ Activate \/ ChooseLatest
    PROVE  BInv'
  <1>1. /\ w # None /\ w \in Workers /\ w.c \in Clusters /\ w.pc \in {"process", "restore"}
        /\ UNCHANGED <<reqs, target>>
    BY DEF ActivePrepared, ActivePreparedFails, ActiveRestored, ActiveRestoredFails, Switch,
           UpgradeStillAvailable, Upgraded, Reconnected, Activate, ChooseLatest, Only,
           At, Rest, TypeInv, WorkerType, Workers
  <1>2. CacheFollows' /\ pbc' = pbc
    <2>1. CASE ActiveRestored
      <3>1. w.obj.active \in BundleNames
        BY <2>1 DEF ActiveRestored, At, TypeInv, WorkerType, Workers, PBCs
      <3> QED
        BY <2>1, <3>1, NoWriteFollows, WriteBundleFollows DEF ActiveRestored, BInv
    <2> QED
      BY <2>1, NoWriteFollows
      DEF ActivePrepared, ActivePreparedFails, ActiveRestoredFails, Only,
          UpgradeStillAvailable, Upgraded, Reconnected, Activate, ChooseLatest, BInv
  <1>3. ASSUME w' = None, infra' = infra \/ \E done : infra' = [infra EXCEPT ![w.c] = @ \cup done]
        PROVE  BInv'
    BY <1>1, <1>2, <1>3, MovingStep DEF WorkerInv
  <1>4. CASE ActivePrepared
    <2>1. infra' = [infra EXCEPT ![w.c] = @ \cup Needed(w.c)]
      BY <1>4 DEF ActivePrepared
    <2>2. Needed(w.c) \subseteq infra'[w.c]
      BY <1>1, <2>1 DEF TypeInv, RestType
    <2>3. w.obj.st = "active" /\ w.pc = "process"
      BY <1>4 DEF ActivePrepared, Switch, At
    <2>4. w'.pc = "restore" /\ w'.c = w.c /\ w'.obj = w.obj /\ w'.fresh = w.fresh
      BY <1>1, <1>4 DEF ActivePrepared, Goto, Workers
    <2>5. WorkerInv'
      BY <1>1, <1>2, <2>2, <2>3, <2>4 DEF BInv, WorkerInv, Needed
    <2> QED
      BY <1>1, <1>2, <2>1, <2>5, MovingStep
  <1>5. CASE ActivePreparedFails
    BY <1>3, <1>5 DEF ActivePreparedFails, Error
  <1>6. CASE ActiveRestored
    <2>1. CASE Done
      BY <1>3, <1>6, <2>1 DEF ActiveRestored, Done
    <2>2. CASE SaveStatus("upgrade available", w.latest)
      <3>1. w.obj.st = "active" /\ Needed(w.c) \subseteq infra[w.c] /\ infra' = infra
        BY <1>1, <1>6 DEF BInv, WorkerInv, ActiveRestored, At
      <3> QED
        BY <1>1, <1>2, <2>2, <3>1, SavingStep DEF PBCArcs
    <2> QED
      BY <1>6, <2>1, <2>2 DEF ActiveRestored
  <1>7. CASE ActiveRestoredFails
    BY <1>3, <1>7 DEF ActiveRestoredFails, Done
  <1>8. CASE UpgradeStillAvailable
    <2>1. infra' = infra
      BY <1>8 DEF UpgradeStillAvailable, Only
    <2>2. CASE Done
      BY <1>3, <2>1, <2>2 DEF Done
    <2>3. CASE SaveStatus("upgrade available", w.latest)
      <3>1. w.obj.st = "upgrade available"
        BY <1>8 DEF UpgradeStillAvailable, Switch
      <3> QED
        BY <1>1, <1>2, <2>1, <2>3, <3>1, SavingStep
    <2> QED
      BY <1>8, <2>2, <2>3 DEF UpgradeStillAvailable, Only
  <1>9. CASE Upgraded \/ Reconnected \/ Activate
    <2>1. SaveStatus("active", "") /\ infra' = infra
      BY <1>9 DEF Upgraded, Reconnected, Activate, Only
    <2>2. w.obj.st \in {"", "disconnected", "upgrade available"}
      BY <1>9 DEF Upgraded, Reconnected, Activate, Switch
    <2> QED
      BY <1>1, <1>2, <2>1, <2>2, SavingStep DEF PBCArcs
  <1>10. CASE ChooseLatest
    <2>1. w'.pc = "spec" /\ w'.c = w.c /\ w'.obj = w.obj /\ w'.fresh = w.fresh
      BY <1>1, <1>10 DEF ChooseLatest, Only, Goto, Workers
    <2>2. w.obj.active = None /\ infra' = infra
      BY <1>10 DEF ChooseLatest, Only
    <2>3. WorkerInv'
      BY <1>1, <1>2, <2>1, <2>2 DEF BInv, WorkerInv
    <2> QED
      BY <1>1, <1>2, <2>2, <2>3, MovingStep
  <1> QED
    BY <1>4, <1>5, <1>6, <1>7, <1>8, <1>9, <1>10

\* Saving.
LEMMA CommitStep ==
    ASSUME TypeInv, BInv, ControllerAsks \/ CommitStatus \/ CommitStatusFails
    PROVE  BInv'
  <1>1. /\ w # None /\ w \in Workers /\ w.c \in Clusters /\ w.obj \in PBCs
        /\ w.pc \in {"spec", "status"}
    BY DEF ControllerAsks, CommitStatus, CommitStatusFails, At, TypeInv, WorkerType, Workers
  <1>2. \A r \in reqs : r.by # "controller"
    BY <1>1 DEF BInv, RequestsInv
  <1>3. CASE ControllerAsks
    <2> DEFINE r == [by |-> "controller", c |-> w.c, active |-> w.latest, fresh |-> w.fresh,
                      at |-> None]
    <2>1. CacheFollows' /\ pbc' = pbc /\ infra' = infra
      BY <1>3, NoWriteFollows DEF ControllerAsks, BInv
    <2>2. CASE Error /\ UNCHANGED <<reqs, target>>
      BY <1>1, <2>1, <2>2, MovingStep DEF Error, WorkerInv
    <2>3. CASE /\ Listed(w.latest) /\ Goto("saving")
               /\ reqs' = reqs \cup {r} /\ Target(r)
      <3>1. w.obj.active = None /\ w.pc = "spec"
        BY <1>1, <1>3 DEF BInv, WorkerInv, ControllerAsks, At
      <3>2. /\ w' # None /\ w'.pc = "saving" /\ w'.c = w.c /\ w'.obj = w.obj
            /\ w'.fresh = w.fresh /\ w'.latest = w.latest
        <4>1. w' \in Workers
          BY <1>1, <2>3 DEF Goto, Workers, Pcs
        <4> QED
          BY <1>1, <2>3, <4>1, NothingAssumption DEF Goto, Workers
      <3>3. WorkerInv'
        BY <1>1, <2>1, <3>1, <3>2 DEF BInv, WorkerInv
      <3>4. w.latest \notin Foreign
        BY <2>3, ListedNotForeign
      <3>5. target' = IF w.latest = None THEN target ELSE w.c
        BY <2>3 DEF Target
      <3>6. RequestsInv'
        <4>1. r.by = "controller" /\ r.active = w.latest /\ r.c = w.c /\ r.fresh = w.fresh
          OBVIOUS
        <4> HIDE DEF r
        <4>2. target # None => target' # None
          BY <1>1, <3>5, NothingAssumption
        <4>3. w.latest # None => target' # None
          BY <1>1, <3>5, NothingAssumption
        <4>4. ASSUME NEW q \in reqs'
              PROVE  /\ q.active \notin Foreign
                     /\ q.active # None /\ q.at = None => target' # None
                     /\ q.by = "controller" => q = r
                     /\ q.by = "crashed" =>
                           /\ q.c \notin Foreign
                           /\ q.fresh => pbc[q.c] # None /\ pbc[q.c].active = None
          BY <1>2, <2>3, <3>4, <4>1, <4>2, <4>3 DEF BInv, RequestsInv
        <4> QED
          BY <2>1, <3>2, <4>1, <4>4 DEF RequestsInv
      <3> QED
        BY <2>1, <3>3, <3>6 DEF BInv, ForeignPBCs, PreparedBeforeUpgrade, Needed
    <2> QED
      BY <1>3, <2>2, <2>3 DEF ControllerAsks
  <1>4. CASE CommitStatus
    <2>1. w' = None /\ UNCHANGED <<infra, target>>
      BY <1>4 DEF CommitStatus, Done, Rest
    <2>2. CASE NoWrite /\ UNCHANGED reqs
      BY <1>1, <2>1, <2>2, NoWriteFollows, MovingStep DEF BInv, WorkerInv
    <2>3. CASE WritePBC(w.c, w.obj) /\ reqs' = Outdated(reqs, w.c)
      <3>1. w.pc = "status" /\ pbc[w.c] # None /\ Successor(w.obj, pbc[w.c], w.c) /\ w.c \notin Foreign
        BY <1>1, <1>4 DEF CommitStatus, At, BInv, WorkerInv
      <3>2. Storable(w.obj, w.c)
        BY <1>1, <3>1 DEF Storable, Successor, BInv, ForeignPBCs
      <3> QED
        BY <1>1, <1>2, <2>1, <2>3, <3>2, EndingWrite
    <2> QED
      BY <1>4, <2>2, <2>3 DEF CommitStatus
  <1>5. CASE CommitStatusFails
    <2>1. w' = None /\ UNCHANGED <<infra, target, reqs>> /\ NoWrite
      BY <1>5 DEF CommitStatusFails, Error, Rest
    <2> QED
      BY <1>1, <2>1, NoWriteFollows, MovingStep DEF BInv, WorkerInv
  <1> QED
    BY <1>3, <1>4, <1>5

\* All steps together.
LEMMA Inductive == ASSUME TypeInv, BInv, [Next]_vars PROVE BInv'
  <1>1. CASE Environment \/ Webhook
    BY <1>1, EnvironmentStep, WebhookStep
  <1>2. CASE WorkerStep
    BY <1>2, QueryStep, SwitchStep, CommitStep DEF WorkerStep
  <1>3. CASE Crash
    <2>1. CacheFollows' /\ pbc' = pbc
      BY <1>3, NoWriteFollows DEF Crash, BInv
    <2>2. RequestsInv'
      <3>1. ASSUME NEW q \in reqs'
            PROVE  \E r \in reqs : /\ q.active = r.active /\ q.c = r.c /\ q.fresh = r.fresh /\ q.at = r.at
                                   /\ q.at # None /\ q.by # "controller"
                                   /\ q.by = "crashed" => r.by \in {"controller", "crashed"}
        <4>1. PICK r \in reqs : /\ r.at # None
                                /\ q = [r EXCEPT !.by = IF @ = "controller" THEN "crashed" ELSE @]
          BY <1>3 DEF Crash
        <4>2. r \in Requests
          BY DEF TypeInv, RestType
        <4> QED
          BY <4>1, <4>2 DEF Requests
      <3>2. ASSUME NEW r \in reqs, r.by \in {"controller", "crashed"}
            PROVE  r.c \notin Foreign /\ (r.fresh => pbc[r.c] # None /\ pbc[r.c].active = None)
        BY <3>2 DEF BInv, RequestsInv, WorkerInv
      <3>3. ASSUME NEW q \in reqs'
            PROVE  /\ q.active \notin Foreign /\ q.at # None /\ q.by # "controller"
                   /\ q.by = "crashed" =>
                         /\ q.c \notin Foreign
                         /\ q.fresh => pbc[q.c] # None /\ pbc[q.c].active = None
        BY <3>1, <3>2 DEF BInv, RequestsInv
      <3> QED
        BY <2>1, <3>3 DEF RequestsInv
    <2> QED
      BY <1>3, <2>1, <2>2 DEF Crash, BInv, WorkerInv, ForeignPBCs, PreparedBeforeUpgrade, Needed
  <1>4. CASE Restart
    <2>1. CacheFollows'
      BY <1>4 DEF Restart, CacheFollows, Keys
    <2> QED
      BY <1>4, <2>1, QuietStep DEF Restart
  <1>5. ASSUME NEW k \in Keys, Deliver(k) PROVE BInv'
    BY <1>5, DeliverFollows, QuietStep DEF Deliver, BInv
  <1>6. ASSUME NEW c \in Clusters, TimerFires(c) PROVE BInv'
    BY <1>6, NoWriteFollows, QuietStep DEF TimerFires, BInv
  <1>7. ASSUME NEW b \in BundleNames, ReconcileBundle(b) PROVE BInv'
    BY <1>7, NoWriteFollows, WriteBundleFollows, QuietStep DEF ReconcileBundle, BInv
  <1>8. CASE UNCHANGED vars
    BY <1>8, QuietStep DEF vars, CacheFollows, BInv
  <1> QED
    BY <1>1, <1>2, <1>3, <1>4, <1>5, <1>6, <1>7, <1>8, ReconcileStep DEF Next

-----------------------------------------------------------------------------
(* The theorems.                                                           *)

Inv == TypeInv /\ BInv

\* The invariant they rest on.
LEMMA AlwaysInv == Spec => []Inv
  <1>1. Init => Inv
    <2> SUFFICES ASSUME Init PROVE Inv
      OBVIOUS
    <2>1. TypeInv
      BY InitType
    <2>2. BInv
      BY DEF Init, BInv, CacheFollows, WorkerInv, RequestsInv, ForeignPBCs, PreparedBeforeUpgrade, Keys
    <2> QED
      BY <2>1, <2>2 DEF Inv
  <1>2. Inv /\ [Next]_vars => Inv'
    BY TypeStep, Inductive DEF Inv
  <1> QED
    BY <1>1, <1>2, PTL DEF Spec

\* A cluster whose PBC offers an upgrade has been prepared (ProcessBundleController), even
\* if that was done by another reconciliation, before a crash or for another bundle.
THEOREM PreparedFirst == Spec => []PreparedBeforeUpgrade
  <1>1. Inv => PreparedBeforeUpgrade
    BY DEF Inv, BInv
  <1> QED
    BY <1>1, AlwaysInv, PTL

\* What lives outside of eksa-packages has no effect (Reconcile of both controllers, the
\* lists of the manager and of the webhook).
THEOREM ForeignIgnored == Spec => []ForeignInert
  <1>1. Inv => ForeignInert
    <2> SUFFICES ASSUME Inv, NEW c \in Clusters \cap Foreign, NEW r \in reqs, r.c = c
                 PROVE  r.by = "user"
      BY DEF Inv, BInv, ForeignPBCs, ForeignInert
    <2>1. r.by # "controller" /\ r.by # "crashed"
      BY DEF Inv, BInv, RequestsInv, WorkerInv
    <2> QED
      BY <2>1 DEF Inv, TypeInv, RestType, Requests
  <1> QED
    BY <1>1, AlwaysInv, PTL

\* Who changes a PBC, and how: writes the webhook has allowed, which keep the state; the
\* controller, which keeps the active bundle and follows the switch.
LEMMA PBCWrites ==
    ASSUME Inv, Next, NEW c \in Clusters, pbc'[c] # pbc[c], pbc'[c] # None
    PROVE  \/ \E r \in reqs : /\ Store(r) /\ r.c = c /\ pbc'[c].active = r.active
                              /\ pbc[c] # None => pbc'[c].st = pbc[c].st
           \/ /\ pbc[c] # None /\ pbc'[c].active = pbc[c].active
              /\ pbc'[c].st # pbc[c].st => <<pbc[c].st, pbc'[c].st>> \in PBCArcs
  <1> USE DEF Inv
  <1>1. ASSUME NEW d \in Clusters, NEW o, WritePBC(d, o) PROVE d = c /\ pbc'[c] = o
    BY <1>1 DEF WritePBC, TypeInv, StoreType
  <1>2. ASSUME NEW b, NEW st, NoWrite \/ WriteBundle(b, st) PROVE FALSE
    BY <1>2 DEF NoWrite, WriteBundle
  <1>3. CASE Environment
    <2>1. ASSUME NEW d \in Clusters, UserDelete(d) PROVE FALSE
      BY <1>1, <2>1 DEF UserDelete
    <2> QED
      BY <1>2, <1>3, <2>1
      DEF Environment, UserAsks, UserCreateBundle, UserDeleteBundle, Publish, Upgrade
  <1>4. CASE Webhook
    <2>1. PICK r \in reqs : Allow(r) \/ Deny(r) \/ Store(r) \/ Refuse(r)
      BY <1>4 DEF Webhook
    <2>2. Store(r)
      BY <1>2, <2>1 DEF Allow, Deny, Refuse, Dropped, Quiet
    <2>3. r.c \in Clusters
      BY DEF TypeInv, RestType, Requests
    <2>4. r.c = c /\ pbc'[c] = IF pbc[c] = None THEN [active |-> r.active, st |-> "", detail |-> ""]
                               ELSE [pbc[c] EXCEPT !.active = r.active]
      BY <1>1, <2>2, <2>3 DEF Store, Written
    <2>5. pbc[c] \in PBCs \cup {None}
      BY DEF TypeInv, StoreType
    <2>6. pbc'[c].active = r.active /\ (pbc[c] # None => pbc'[c].st = pbc[c].st)
      <3>1. CASE pbc[c] = None
        <4>1. pbc'[c] = [active |-> r.active, st |-> "", detail |-> ""]
          BY <2>4, <3>1
        <4>2. \A x : [active |-> x, st |-> "", detail |-> ""].active = x
          OBVIOUS
        <4>3. pbc'[c].active = r.active
          BY <4>1, <4>2, Zenon
        <4> QED
          BY <3>1, <4>3
      <3>2. CASE pbc[c] # None
        BY <2>4, <2>5, <3>2 DEF PBCs
      <3> QED
        BY <3>1, <3>2
    <2> QED
      BY <2>2, <2>4, <2>6
  <1>5. CASE WorkerStep
    <2>1. At("status") /\ w.fresh /\ WritePBC(w.c, w.obj)
      BY <1>2, <1>5
      DEF WorkerStep, VersionKnown, VersionFails, LatestKnown, LatestFails, ListBundles,
          ListBundlesFails, ActivePrepared, ActivePreparedFails, ActiveRestored, Only,
          ActiveRestoredFails, UpgradeStillAvailable, Upgraded, Reconnected, Activate,
          ChooseLatest, ControllerAsks, CommitStatus, CommitStatusFails
    <2>2. w.c \in Clusters
      BY <2>1 DEF At, TypeInv, WorkerType, Workers
    <2>3. pbc[w.c] # None /\ Successor(w.obj, pbc[w.c], w.c)
      BY <2>1 DEF At, BInv, WorkerInv
    <2>4. w.c = c /\ pbc'[c] = w.obj
      BY <1>1, <2>1, <2>2
    <2> QED
      BY <2>3, <2>4 DEF Successor
  <1>6. ASSUME NEW d \in Clusters, Reconcile(d)
        PROVE  /\ pbc[c] # None /\ pbc'[c].active = pbc[c].active
               /\ pbc'[c].st # pbc[c].st => <<pbc[c].st, pbc'[c].st>> \in PBCArcs
    <2>1. /\ stream[d] = <<>> /\ WritePBC(d, [cache[d] EXCEPT !.st = "ignored"])
          /\ cache[d] # None /\ d \in Foreign
      BY <1>2, <1>6 DEF Reconcile, GetFails, IgnoreDeleted, IgnoreForeign, Begin
    <2>2. d = c /\ pbc'[c] = [cache[c] EXCEPT !.st = "ignored"]
      BY <1>1, <2>1
    <2>3. cache[c] = pbc[c] /\ pbc[c] \in PBCs
      BY <2>1, <2>2 DEF BInv, CacheFollows, TypeInv, StoreType
    <2>4. pbc[c].st \in {"", "ignored"}
      BY <2>1, <2>2, <2>3 DEF BInv, ForeignPBCs
    <2>5. pbc'[c].active = pbc[c].active /\ pbc'[c].st = "ignored"
      BY <2>2, <2>3 DEF PBCs
    <2> QED
      BY <2>1, <2>2, <2>3, <2>4, <2>5 DEF PBCArcs
  <1>7. CASE Crash \/ Restart
    BY <1>2, <1>7 DEF Crash, Restart
  <1>8. ASSUME NEW k \in Keys, Deliver(k) PROVE FALSE
    BY <1>8 DEF Deliver
  <1>9. ASSUME NEW d \in Clusters, TimerFires(d) PROVE FALSE
    BY <1>2, <1>9 DEF TimerFires
  <1>10. ASSUME NEW b \in BundleNames, ReconcileBundle(b) PROVE FALSE
    BY <1>2, <1>10 DEF ReconcileBundle
  <1> QED
    BY <1>3, <1>4, <1>5, <1>6, <1>7, <1>8, <1>9, <1>10 DEF Next

\* The controller never replaces a choice of bundle (Save in state "", the webhook's
\* resource versions), however late its write arrives.
THEOREM ChoiceKept == Spec => UserChoiceKept
  <1> DEFINE A == \A c \in Clusters :
                    /\ pbc[c] # None /\ pbc'[c] # None
                    /\ pbc[c].active # None /\ pbc'[c].active # pbc[c].active
                    => \E r \in reqs : r.by = "user" /\ r.c = c /\ r.active = pbc'[c].active
  <1>1. Inv /\ [Next]_vars => [A]_vars
    <2> SUFFICES ASSUME Inv, Next, NEW c \in Clusters, pbc[c] # None, pbc'[c] # None,
                        pbc[c].active # None, pbc'[c].active # pbc[c].active
                 PROVE  \E r \in reqs : r.by = "user" /\ r.c = c /\ r.active = pbc'[c].active
      OBVIOUS
    <2>1. PICK r \in reqs : Store(r) /\ r.c = c /\ pbc'[c].active = r.active
      BY PBCWrites
    <2>2. r.by # "controller"
      <3> SUFFICES ASSUME r.by = "controller" PROVE FALSE
        OBVIOUS
      <3>1. w # None /\ w.c = c /\ w.pc = "saving" /\ w.fresh
        BY <2>1 DEF Inv, BInv, RequestsInv, Store
      <3>2. w.obj = pbc[c] /\ w.obj.active = None
        BY <3>1 DEF Inv, BInv, WorkerInv
      <3> QED
        BY <3>2
    <2>3. r.by # "crashed"
      BY <2>1 DEF Inv, BInv, RequestsInv, Store
    <2>4. r.by = "user"
      BY <2>2, <2>3 DEF Inv, TypeInv, RestType, Requests
    <2> QED
      BY <2>1, <2>4
  <1> QED
    BY <1>1, AlwaysInv, PTL DEF Spec, UserChoiceKept

\* The states of a PBC follow the switch of ProcessBundleController, whatever versions of
\* it the reconciliations have read.
THEOREM OnlySwitchArcs == Spec => StatesFollowSwitch
  <1> DEFINE A == \A c \in Clusters : pbc[c] # None /\ pbc'[c] # None /\ pbc'[c].st # pbc[c].st =>
                      <<pbc[c].st, pbc'[c].st>> \in PBCArcs
  <1>1. Inv /\ [Next]_vars => [A]_vars
    BY PBCWrites
  <1> QED
    BY <1>1, AlwaysInv, PTL DEF Spec, StatesFollowSwitch

\* What the webhook has allowed, it allows in this step or had allowed before.
LEMMA AllowedBefore ==
    ASSUME Inv, Next, NEW q \in reqs', q.at # None
    PROVE  \/ \E r \in reqs : q.active = r.active /\ q.at = r.at
           \/ \E r \in reqs : q.active = r.active /\ q.at = kube[r.c] /\ Allow(r)
  <1> USE DEF Inv
  <1>1. ASSUME NEW c, NEW rs \in SUBSET reqs, reqs' = Outdated(rs, c)
        PROVE  \E r \in reqs : q.active = r.active /\ q.at = r.at
    BY <1>1, OutdatedFields
  <1>2. ASSUME reqs' \subseteq reqs PROVE \E r \in reqs : q.active = r.active /\ q.at = r.at
    BY <1>2
  <1>3. ASSUME NEW a, a.at = None, reqs' = reqs \cup {a}
        PROVE  \E r \in reqs : q.active = r.active /\ q.at = r.at
    BY <1>3
  <1>4. ASSUME NEW by, NEW c, NEW active, NEW fresh
        PROVE  [by |-> by, c |-> c, active |-> active, fresh |-> fresh, at |-> None].at = None
    OBVIOUS
  <1>5. reqs \in SUBSET reqs
    OBVIOUS
  <1>6. CASE Environment
    BY <1>1, <1>2, <1>3, <1>4, <1>5, <1>6
    DEF Environment, UserDelete, UserAsks, UserCreateBundle, UserDeleteBundle, Publish, Upgrade
  <1>7. CASE Webhook
    <2>1. PICK r \in reqs : Allow(r) \/ Deny(r) \/ Store(r) \/ Refuse(r)
      BY <1>7 DEF Webhook
    <2>2. CASE Allow(r)
      <3>1. r \in Requests
        BY DEF TypeInv, RestType
      <3>2. q = [r EXCEPT !.at = kube[r.c]] \/ q \in reqs
        BY <2>2 DEF Allow
      <3>3. [r EXCEPT !.at = kube[r.c]].at = kube[r.c] /\ [r EXCEPT !.at = kube[r.c]].active = r.active
        BY <3>1 DEF Requests
      <3>4. CASE q \in reqs
        BY <3>4
      <3>5. CASE q = [r EXCEPT !.at = kube[r.c]]
        <4>1. q.active = r.active /\ q.at = kube[r.c]
          BY <3>3, <3>5
        <4> QED
          BY <2>2, <4>1
      <3> QED
        BY <3>2, <3>4, <3>5
    <2>3. CASE Deny(r) \/ Refuse(r)
      BY <1>2, <2>3 DEF Deny, Refuse, Dropped
    <2>4. CASE Store(r)
      BY <1>1, <2>4 DEF Store, Written
    <2> QED
      BY <2>1, <2>2, <2>3, <2>4
  <1>8. CASE ControllerAsks \/ CommitStatus
    BY <1>1, <1>2, <1>3, <1>4, <1>5, <1>8 DEF ControllerAsks, CommitStatus
  <1>9. CASE WorkerStep /\ ~(ControllerAsks \/ CommitStatus)
    BY <1>2, <1>9
    DEF WorkerStep, VersionKnown, VersionFails, LatestKnown, LatestFails, ListBundles,
        ListBundlesFails, ActivePrepared, ActivePreparedFails, ActiveRestored, Only,
        ActiveRestoredFails, UpgradeStillAvailable, Upgraded, Reconnected, Activate,
        ChooseLatest, CommitStatusFails
  <1>10. CASE Crash
    <2>1. PICK r \in reqs : q = [r EXCEPT !.by = IF @ = "controller" THEN "crashed" ELSE @]
      BY <1>10 DEF Crash
    <2>2. r \in Requests
      BY DEF TypeInv, RestType
    <2> QED
      BY <2>1, <2>2 DEF Requests
  <1>11. ASSUME NEW c \in Clusters, Reconcile(c) \/ TimerFires(c)
         PROVE  \E r \in reqs : q.active = r.active /\ q.at = r.at
    BY <1>1, <1>2, <1>5, <1>11
    DEF Reconcile, GetFails, IgnoreDeleted, IgnoreForeign, Begin, TimerFires
  <1>12. CASE Restart \/ (\E k \in Keys : Deliver(k)) \/ \E b \in BundleNames : ReconcileBundle(b)
    BY <1>2, <1>12 DEF Restart, Deliver, ReconcileBundle
  <1> QED
    BY <1>6, <1>7, <1>8, <1>9, <1>10, <1>11, <1>12 DEF Next

\* With one cluster the client the webhook's requests share always points to the right one
\* when the webhook answers, so a bundle becomes active only if the cluster had its version
\* then.  Nothing is said of an upgrade between the answer and the store.
THEOREM OneClusterMatches ==
    ASSUME \A c, d \in Clusters : c = d
    PROVE  Spec => ActiveMatchesKube
  <1> DEFINE A == \A c \in Clusters :
                    /\ pbc'[c] # None /\ pbc'[c].active # None
                    /\ pbc[c] = None \/ pbc[c].active # pbc'[c].active
                    => \E r \in reqs : r.c = c /\ r.active = pbc'[c].active /\ r.at = KubeOf[r.active]
             M == \A r \in reqs : r.active # None /\ r.at # None => r.at = KubeOf[r.active]
  <1>1. Init => M
    BY DEF Init
  <1>2. Inv /\ M /\ [Next]_vars => M'
    <2> SUFFICES ASSUME Inv, M, [Next]_vars, NEW q \in reqs', q.active # None, q.at # None
                 PROVE  q.at = KubeOf[q.active]
      OBVIOUS
    <2>1. CASE UNCHANGED vars
      BY <2>1 DEF vars
    <2>2. CASE Next
      <3>1. ASSUME NEW r \in reqs, q.active = r.active, q.at = r.at PROVE q.at = KubeOf[q.active]
        BY <3>1
      <3>2. ASSUME NEW r \in reqs, q.active = r.active, q.at = kube[r.c], Allow(r)
            PROVE  q.at = KubeOf[q.active]
        <4>1. r.at = None /\ KubeVersionMatches(r)
          BY <3>2 DEF Allow
        <4>2. target \in Clusters /\ r.c \in Clusters
          BY <3>2, <4>1 DEF Inv, BInv, RequestsInv, TypeInv, RestType, Requests
        <4>3. target = r.c
          BY <4>2
        <4> QED
          BY <3>2, <4>1, <4>3 DEF KubeVersionMatches
      <3> QED
        BY <2>2, <3>1, <3>2, AllowedBefore
    <2> QED
      BY <2>1, <2>2
  <1>3. Inv /\ M /\ [Next]_vars => [A]_vars
    <2> SUFFICES ASSUME Inv, M, Next, NEW c \in Clusters, pbc'[c] # None, pbc'[c].active # None,
                        pbc[c] = None \/ pbc[c].active # pbc'[c].active
                 PROVE  \E r \in reqs : r.c = c /\ r.active = pbc'[c].active /\ r.at = KubeOf[r.active]
      OBVIOUS
    <2>1. PICK r \in reqs : Store(r) /\ r.c = c /\ pbc'[c].active = r.active
      BY PBCWrites
    <2> QED
      BY <2>1 DEF Store
  <1> QED
    BY <1>1, <1>2, <1>3, AlwaysInv, PTL DEF Spec, ActiveMatchesKube

=============================================================================
